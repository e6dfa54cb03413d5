--------------------------- MODULE ConsumerContract ---------------------------
(***************************************************************************)
(* What every Kafka consumer of the system promises about its consumer     *)
(* group: a message is settled once its handler has returned for it, and   *)
(* the committed offset of a partition only moves forward, and never past  *)
(* a message that is not settled.  It is at-least-once delivery seen from  *)
(* the broker.  RequestConsumer, ScanRequests and CheckRequests implement  *)
(* it: three copies of one loop.                                           *)
(***************************************************************************)
EXTENDS Naturals

CONSTANTS Partition,    \* partitions of the topic
          MaxLen        \* messages a partition can hold

VARIABLES settled,      \* messages <<partition, offset>> handled to the end
          committed     \* per partition, the offset the group resumes from

Message == Partition \X (0 .. MaxLen - 1)

Init == /\ settled = {}
        /\ committed = [p \in Partition |-> 0]

\* The handler of m returns: stored, skipped, or given up with an error.
Settle(m) == /\ settled' = settled \cup {m}
             /\ UNCHANGED committed

\* The broker records o as the offset partition p resumes from.
Advance(p, o) == /\ o > committed[p]
                 /\ \A i \in 0 .. o - 1 : <<p, i>> \in settled
                 /\ committed' = [committed EXCEPT ![p] = o]
                 /\ UNCHANGED settled

Next == \/ \E m \in Message : Settle(m)
        \/ \E p \in Partition, o \in 1 .. MaxLen : Advance(p, o)

Spec == Init /\ [][Next]_<<settled, committed>>
===============================================================================
