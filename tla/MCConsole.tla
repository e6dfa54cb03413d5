------------------------------- MODULE MCConsole -------------------------------
(* Console on small sets, for TLC. *)
EXTENDS Console

CONSTANTS e1, r1

OneRole == {<<e1, r1>>}

Numbers(window, threshold, sample, dominance) ==
  [learning_window_days |-> window, violation_threshold_percent |-> threshold,
   minimum_sample_size |-> sample, resource_dominance_percent |-> dominance]

\* Days that are not whole, a field that is no number, a document with a gap.
Forms == {Numbers(15, 201, 20000001, -1), Numbers(60, NoNumber, 40, 120)}

HandWritten == {Numbers(7301, 3, 1, NoNumber)}

\* A page past the last and a size past the largest; garbage counts as 0.
Typed == {Url("request-logs", 9, 1), Url("request-logs", 0, 9)}

\* The other tables are as they were at first, and no page works on them.
OnlyLogsMove == /\ requests = [f \in Finding |-> "none"]
                /\ mappings = Learned
                /\ stored = None
                /\ \A s \in Slot : action[s] = NoCall
                /\ selected = None
                /\ reader = NoReader

\* Bound: logs have nothing in common with the other tables, so either there
\* are none, one change by others, and a tab that follows the sidebar, or there
\* are only logs.
OneSubject ==
  IF logs = << >>
  THEN changes <= 1 /\ {location, load.to} \subseteq sidebarItems \cup {Blank}
  ELSE OnlyLogsMove
===============================================================================
