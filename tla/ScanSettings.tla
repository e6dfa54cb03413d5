------------------------------ MODULE ScanSettings ------------------------------
(***************************************************************************)
(* The parameters of a learning scan as the dashboard parses them, from a  *)
(* form or from a document somebody has written by hand.  Numbers are      *)
(* counted in halves, so that a parameter can be fractional: the engine    *)
(* decodes two of the four as integers.                                    *)
(***************************************************************************)
EXTENDS Integers

CONSTANT NoNumber   \* a field that is missing, or no finite number

ASSUME NoNumberAssumption == NoNumber \notin Int

IntKey == {"learning_window_days", "minimum_sample_size"}

Key == IntKey \cup {"violation_threshold_percent", "resource_dominance_percent"}

Settings == [Key -> Int]

Documents == [Key -> Int \cup {NoNumber}]

DEFAULT_LEARNING_SCAN_SETTINGS ==
  [learning_window_days |-> 180, violation_threshold_percent |-> 10,
   minimum_sample_size |-> 200, resource_dominance_percent |-> 190]

BOUNDS ==
  [learning_window_days |-> [min |-> 2, max |-> 7300],
   violation_threshold_percent |-> [min |-> 0, max |-> 200],
   minimum_sample_size |-> [min |-> 2, max |-> 20000000],
   resource_dominance_percent |-> [min |-> 0, max |-> 200]]

\* Toward zero.
Trunc(v) == IF v >= 0 THEN v - (v % 2) ELSE v + ((-v) % 2)

Clamp(k, v) == IF v < BOUNDS[k].min THEN BOUNDS[k].min
               ELSE IF v > BOUNDS[k].max THEN BOUNDS[k].max ELSE v

\* Faulty variant: all four parameters are clamped alike.
ClampNumberNoTrunc(k, v) == Clamp(k, v)

ClampNumber(k, v) == Clamp(k, IF k \in IntKey THEN Trunc(v) ELSE v)

\* A field that is missing or no number falls back to its default.
numFromJson(doc, k) == IF doc[k] = NoNumber
                       THEN DEFAULT_LEARNING_SCAN_SETTINGS[k] ELSE doc[k]

parseLearningScanSettingsValue(doc) ==
  [k \in Key |-> ClampNumber(k, numFromJson(doc, k))]

InBounds(s) == /\ \A k \in Key : BOUNDS[k].min <= s[k] /\ s[k] <= BOUNDS[k].max
               /\ \A k \in IntKey : s[k] % 2 = 0
===============================================================================
