---------------------------- MODULE MCScanRequests ----------------------------
(* ScanRequests on small sets, for TLC: numbers are halves. *)
EXTENDS ScanRequests

CONSTANTS s1, e1

\* A scan and an access event share the producer.
CallTopics == [c \in Call |-> IF c = e1 THEN "access" ELSE "scan"]

Numbers(window, threshold, sample, dominance) ==
  [learning_window_days |-> window, violation_threshold_percent |-> threshold,
   minimum_sample_size |-> sample, resource_dominance_percent |-> dominance]

\* Days that are not whole, and numbers above and below the bounds.
Forms == {Numbers(15, 201, 20000001, -1)}

\* A document somebody has written by hand: one field is missing.
HandWritten == {Numbers(7301, 3, 1, NoNumber)}

Environment == Numbers(60, 20, 40, 120)
===============================================================================
