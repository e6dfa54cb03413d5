-------------------------- MODULE DetectionEngineProofs --------------------------
(***************************************************************************)
(* Safety of the detection engine's request consumer, for any set of       *)
(* partitions and any bounds, and of the role mappings it detects with,    *)
(* for any paths, roles and scan parameters.                               *)
(*                                                                         *)
(* The invariants the model checker verifies are not inductive.  Inv adds  *)
(* what the reader of the consumer knows, namely that between two commits  *)
(* every message below the position has been handled, except the one in    *)
(* flight.  RolesInv adds that the result a scan is about to install is    *)
(* backed by the table, and what the reads of a detection already made     *)
(* imply about a cache that has not been replaced since; what the scan has *)
(* computed does not matter there.                                         *)
(***************************************************************************)
EXTENDS RequestConsumer, RoleMappings, TLAPS


\* Offsets never run ahead of the log, and the reader is never behind the
\* committed offset of the group it resumed from.
OffsetsInv ==
  \A p \in Partition :
    /\ Len(topic[p]) <= MaxLen
    /\ position[p] <= Len(topic[p])
    /\ committed[p] <= Len(topic[p])
    /\ pc # "down" => committed[p] <= position[p]

\* The message in flight is the last one handed out, and is not committed.
InFlightInv ==
  InFlight => /\ msg \in Message
              /\ Produced(msg)
              /\ position[msg[1]] = Offset(msg) + 1
              /\ committed[msg[1]] <= Offset(msg)

\* The handler has returned for m and m has left its trace.
Accounted(m) ==
  /\ outcome[m] # "none"
  /\ \/ requestLogs[m] >= 1
     \/ Kind(m) = "anonymous"
     \/ outcome[m] = "refused"

AccountedInv ==
  /\ \A m \in Message : Offset(m) < committed[m[1]] => Accounted(m)
  /\ pc # "down" =>
       \A m \in Message :
         Offset(m) < position[m[1]] /\ ~(InFlight /\ m = msg) => Accounted(m)
  /\ pc \in {"detect", "violations", "commit"} => Accounted(msg)

\* A message not yet stored by the running process has a row to spare.
RowsInv ==
  /\ \A m \in Message : requestLogs[m] <= starts
  /\ pc # "down" =>
       \A m \in Message :
         Offset(m) >= position[m[1]] \/ (pc = "process" /\ m = msg)
           => requestLogs[m] < starts

\* A violation still to be inserted finds the row stored for it.
ViolationsInv ==
  /\ \A m \in Message, t \in ViolationType :
       violations[m][t] <= requestLogs[m]
  /\ pc = "detect" =>
       \A t \in ViolationType : violations[msg][t] < requestLogs[msg]
  /\ pc = "violations" =>
       \A t \in found : violations[msg][t] < requestLogs[msg]

Inv == TypeOK /\ OffsetsInv /\ InFlightInv /\ AccountedInv /\ RowsInv
              /\ ViolationsInv
------------------------------------------------------------------------------
\* Messages are pairs of a partition and an offset, and NoMessage is not one.
LEMMA MessagePair ==
  /\ NoMessage \notin Message
  /\ \A m \in Message : /\ m[1] \in Partition
                        /\ m[2] \in 0 .. MaxLen - 1
                        /\ m = <<m[1], m[2]>>
  /\ \A p \in Partition, o \in 0 .. MaxLen - 1 : <<p, o>> \in Message
BY DEF Message, NoMessage

\* Adding to one counter of a table of counters.
LEMMA AddNested ==
  ASSUME NEW S, NEW T, NEW f \in [S -> [T -> Nat]], NEW a \in S, NEW b \in T,
         NEW n \in Nat, NEW g, g = [f EXCEPT ![a][b] = @ + n]
  PROVE  /\ g \in [S -> [T -> Nat]]
         /\ \A x \in S, y \in T :
              g[x][y] = f[x][y] + (IF x = a /\ y = b THEN n ELSE 0)
<1>1. f[a] \in [T -> Nat]
  OBVIOUS
<1>2. [f[a] EXCEPT ![b] = @ + n] \in [T -> Nat]
  BY <1>1
<1>3. g = [f EXCEPT ![a] = [f[a] EXCEPT ![b] = @ + n]]
  OBVIOUS
<1> QED
  BY <1>1, <1>2, <1>3

\* Nothing has been produced, handed out or stored yet.
LEMMA InitInv == Init => Inv
<1> SUFFICES ASSUME Init PROVE Inv
  OBVIOUS
<1> USE BoundsAssumption, MessagePair DEF Init, InFlight, Offset, Produced
<1>1. TypeOK
  <2>1. topic \in [Partition -> Seq(EventKind)]
    OBVIOUS
  <2>2. /\ committed \in [Partition -> 0 .. MaxLen]
        /\ position \in [Partition -> 0 .. MaxLen]
    OBVIOUS
  <2>4. violations \in [Message -> [ViolationType -> Nat]]
    OBVIOUS
  <2>5. /\ outcome \in [Message -> {"none", "stored", "skipped", "refused"}]
        /\ requestLogs \in [Message -> Nat]
    OBVIOUS
  <2>6. /\ pc = "down" /\ msg = NoMessage /\ found = {}
    OBVIOUS
  <2>7. cancelled \in BOOLEAN
    OBVIOUS
  <2>3. starts \in 0 .. MaxStarts
    OBVIOUS
  <2> HIDE DEF Init
  <2> QED
    BY <2>1, <2>2, <2>3, <2>4, <2>5, <2>6, <2>7 DEF TypeOK
<1>2. OffsetsInv /\ InFlightInv /\ AccountedInv /\ RowsInv /\ ViolationsInv
  BY DEF OffsetsInv, InFlightInv, AccountedInv, RowsInv, ViolationsInv
<1> QED
  BY <1>1, <1>2 DEF Inv

\* An event appended is above every position and every committed offset.
LEMMA ProduceInv ==
  ASSUME NEW p \in Partition, NEW kind \in EventKind, Inv, Produce(p, kind)
  PROVE  Inv'
<1> USE BoundsAssumption, MessagePair
    DEF Inv, Produce, broker, tables, InFlight, Offset, Produced, Kind
<1>1. TypeOK'
  <2>1. topic' \in [Partition -> Seq(EventKind)]
    BY DEF TypeOK
  <2>2. UNCHANGED <<committed, position, pc, msg, found, cancelled, starts,
                    outcome, requestLogs, violations>>
    OBVIOUS
  <2> HIDE DEF Produce
  <2> QED
    BY <2>1, <2>2 DEF TypeOK
<1>2. OffsetsInv'
  <2>1. ASSUME NEW q \in Partition
        PROVE  Len(topic'[q]) >= Len(topic[q]) /\ Len(topic'[q]) <= MaxLen
    BY <2>1 DEF TypeOK, OffsetsInv
  <2>2. \A q \in Partition : Len(topic[q]) \in Nat /\ Len(topic'[q]) \in Nat
    BY <1>1, SMTT(30) DEF TypeOK
  <2>3. UNCHANGED <<committed, position, pc>>
    OBVIOUS
  <2> HIDE DEF Produce
  <2> QED
    BY <2>1, <2>2, <2>3, SMTT(30) DEF TypeOK, OffsetsInv
<1>3. InFlightInv'
  BY DEF TypeOK, OffsetsInv, InFlightInv
<1>4. AccountedInv'
  <2>1. ASSUME NEW m \in Message, Offset(m) < Len(topic[m[1]])
        PROVE  Kind(m)' = Kind(m)
    BY <2>1 DEF TypeOK
  <2>2. \A m \in Message : Produced(m) /\ Accounted(m) => Accounted(m)'
    BY <2>1 DEF Accounted
  <2>3. ASSUME NEW m \in Message,
               Offset(m) < committed[m[1]]
                 \/ (pc # "down" /\ Offset(m) < position[m[1]])
        PROVE  Produced(m)
    BY <2>3 DEF TypeOK, OffsetsInv
  <2>4. UNCHANGED <<committed, position, pc, msg>>
    OBVIOUS
  <2>5. InFlight => msg \in Message /\ Produced(msg)
    BY DEF InFlightInv
  <2> HIDE DEF Produce, Produced, Offset
  <2> QED
    BY <2>2, <2>3, <2>4, <2>5 DEF AccountedInv
<1>5. RowsInv'
  BY DEF TypeOK, OffsetsInv, InFlightInv, RowsInv
<1>6. ViolationsInv'
  BY DEF TypeOK, OffsetsInv, InFlightInv, RowsInv, ViolationsInv, ViolationType
<1> QED
  BY <1>1, <1>2, <1>3, <1>4, <1>5, <1>6

\* The reader resumes from the committed offset: what lies below is accounted
\* for, and every message has a row to spare since starts has grown.
LEMMA StartInv ==
  ASSUME Inv, Start
  PROVE  Inv'
<1> USE BoundsAssumption, MessagePair
    DEF Inv, Start, Resume, broker, tables, InFlight, Offset, Produced, Kind
<1>1. TypeOK'
  <2>1. starts' \in 0 .. MaxStarts
    BY DEF TypeOK
  <2>2. position' \in [Partition -> 0 .. MaxLen]
    BY DEF TypeOK
  <2> QED
    BY <2>1, <2>2 DEF TypeOK
<1>2. OffsetsInv'
  BY DEF TypeOK, OffsetsInv, InFlightInv
<1>3. InFlightInv'
  BY DEF TypeOK, OffsetsInv, InFlightInv
<1>4. AccountedInv'
  BY DEF TypeOK, OffsetsInv, InFlightInv, AccountedInv, Accounted
<1>5. RowsInv'
  BY DEF TypeOK, OffsetsInv, InFlightInv, RowsInv
<1>6. ViolationsInv'
  BY DEF TypeOK, OffsetsInv, InFlightInv, RowsInv, ViolationsInv, ViolationType
<1> QED
  BY <1>1, <1>2, <1>3, <1>4, <1>5, <1>6

\* Cancelling changes nothing but the flag.
LEMMA CancelInv ==
  ASSUME Inv, Cancel
  PROVE  Inv'
<1> USE BoundsAssumption, MessagePair
    DEF Inv, Cancel, broker, tables, InFlight, Offset, Produced, Kind
<1>1. TypeOK'
  BY DEF TypeOK, InFlightInv, ViolationType
<1>2. OffsetsInv'
  BY DEF TypeOK, OffsetsInv, InFlightInv
<1>3. InFlightInv'
  BY DEF TypeOK, OffsetsInv, InFlightInv
<1>4. AccountedInv'
  BY DEF TypeOK, OffsetsInv, InFlightInv, AccountedInv, Accounted
<1>5. RowsInv'
  BY DEF TypeOK, OffsetsInv, InFlightInv, RowsInv
<1>6. ViolationsInv'
  BY DEF TypeOK, OffsetsInv, InFlightInv, RowsInv, ViolationsInv, ViolationType
<1> QED
  BY <1>1, <1>2, <1>3, <1>4, <1>5, <1>6

\* Without a process only what concerns committed messages is left to show.
LEMMA StopInv ==
  ASSUME Inv, Stop
  PROVE  Inv'
<1> USE BoundsAssumption, MessagePair
    DEF Inv, Stop, broker, tables, InFlight, Offset, Produced, Kind
<1>1. TypeOK'
  BY DEF TypeOK, InFlightInv, ViolationType
<1>2. OffsetsInv'
  BY DEF TypeOK, OffsetsInv, InFlightInv
<1>3. InFlightInv'
  BY DEF TypeOK, OffsetsInv, InFlightInv
<1>4. AccountedInv'
  BY DEF TypeOK, OffsetsInv, InFlightInv, AccountedInv, Accounted
<1>5. RowsInv'
  BY DEF TypeOK, OffsetsInv, InFlightInv, RowsInv
<1>6. ViolationsInv'
  BY DEF TypeOK, OffsetsInv, InFlightInv, RowsInv, ViolationsInv, ViolationType
<1> QED
  BY <1>1, <1>2, <1>3, <1>4, <1>5, <1>6

\* The head of the loop.
LEMMA SelectInv ==
  ASSUME Inv, Select
  PROVE  Inv'
<1> USE BoundsAssumption, MessagePair
    DEF Inv, Select, broker, tables, InFlight, Offset, Produced, Kind
<1>1. TypeOK'
  BY DEF TypeOK, InFlightInv, ViolationType
<1>2. OffsetsInv'
  BY DEF TypeOK, OffsetsInv, InFlightInv
<1>3. InFlightInv'
  BY DEF TypeOK, OffsetsInv, InFlightInv
<1>4. AccountedInv'
  BY DEF TypeOK, OffsetsInv, InFlightInv, AccountedInv, Accounted
<1>5. RowsInv'
  BY DEF TypeOK, OffsetsInv, InFlightInv, RowsInv
<1>6. ViolationsInv'
  BY DEF TypeOK, OffsetsInv, InFlightInv, RowsInv, ViolationsInv, ViolationType
<1> QED
  BY <1>1, <1>2, <1>3, <1>4, <1>5, <1>6

\* The message handed out becomes the one in flight.
LEMMA FetchMessageInv ==
  ASSUME NEW p \in Partition, Inv, FetchMessage(p)
  PROVE  Inv'
<1> USE BoundsAssumption, MessagePair
    DEF Inv, FetchMessage, broker, tables, InFlight, Offset, Produced, Kind
<1>1. TypeOK'
  <2>1. position[p] \in 0 .. MaxLen - 1
    BY DEF TypeOK, OffsetsInv
  <2>2. msg' \in Message
    BY <2>1
  <2>3. position' \in [Partition -> 0 .. MaxLen]
    BY <2>1, SMTT(30) DEF TypeOK
  <2> QED
    BY <2>2, <2>3 DEF TypeOK
<1>2. OffsetsInv'
  BY DEF TypeOK, OffsetsInv, InFlightInv
<1>3. InFlightInv'
  BY DEF TypeOK, OffsetsInv, InFlightInv
<1>4. AccountedInv'
  <2>1. ASSUME NEW m \in Message, Offset(m) < position'[m[1]], m # msg'
        PROVE  Offset(m) < position[m[1]]
    BY <2>1 DEF TypeOK
  <2>2. \A m \in Message : Accounted(m) => Accounted(m)'
    BY DEF Accounted
  <2> QED
    BY <2>1, <2>2 DEF AccountedInv
<1>5. RowsInv'
  BY SMTT(30) DEF TypeOK, OffsetsInv, InFlightInv, RowsInv
<1>6. ViolationsInv'
  BY DEF TypeOK, OffsetsInv, InFlightInv, RowsInv, ViolationsInv, ViolationType
<1> QED
  BY <1>1, <1>2, <1>3, <1>4, <1>5, <1>6

\* A fetch under a cancelled context hands out nothing.
LEMMA FetchCancelledInv ==
  ASSUME Inv, FetchCancelled
  PROVE  Inv'
<1> USE BoundsAssumption, MessagePair
    DEF Inv, FetchCancelled, broker, tables, InFlight, Offset, Produced, Kind
<1>1. TypeOK'
  BY DEF TypeOK, InFlightInv, ViolationType
<1>2. OffsetsInv'
  BY DEF TypeOK, OffsetsInv, InFlightInv
<1>3. InFlightInv'
  BY DEF TypeOK, OffsetsInv, InFlightInv
<1>4. AccountedInv'
  BY DEF TypeOK, OffsetsInv, InFlightInv, AccountedInv, Accounted
<1>5. RowsInv'
  BY DEF TypeOK, OffsetsInv, InFlightInv, RowsInv
<1>6. ViolationsInv'
  BY DEF TypeOK, OffsetsInv, InFlightInv, RowsInv, ViolationsInv, ViolationType
<1> QED
  BY <1>1, <1>2, <1>3, <1>4, <1>5, <1>6

\* A malformed event is refused, hence accounted for.
LEMMA ProcessMalformedInv ==
  ASSUME Inv, ProcessMalformed
  PROVE  Inv'
<1> USE BoundsAssumption, MessagePair
    DEF Inv, ProcessMalformed, GiveUp, broker, tables, InFlight, Offset, Produced, Kind
<1>1. TypeOK'
  BY DEF TypeOK, InFlightInv, ViolationType
<1>2. OffsetsInv'
  BY DEF TypeOK, OffsetsInv, InFlightInv
<1>3. InFlightInv'
  BY DEF TypeOK, OffsetsInv, InFlightInv
<1>4. AccountedInv'
  BY DEF TypeOK, OffsetsInv, InFlightInv, AccountedInv, Accounted
<1>5. RowsInv'
  BY DEF TypeOK, OffsetsInv, InFlightInv, RowsInv
<1>6. ViolationsInv'
  BY DEF TypeOK, OffsetsInv, InFlightInv, RowsInv, ViolationsInv, ViolationType
<1> QED
  BY <1>1, <1>2, <1>3, <1>4, <1>5, <1>6

\* An anonymous event is accounted for without a row.
LEMMA ProcessAnonymousInv ==
  ASSUME Inv, ProcessAnonymous
  PROVE  Inv'
<1> USE BoundsAssumption, MessagePair
    DEF Inv, ProcessAnonymous, broker, tables, InFlight, Offset, Produced, Kind
<1>1. TypeOK'
  BY DEF TypeOK, InFlightInv, ViolationType
<1>2. OffsetsInv'
  BY DEF TypeOK, OffsetsInv, InFlightInv
<1>3. InFlightInv'
  BY DEF TypeOK, OffsetsInv, InFlightInv
<1>4. AccountedInv'
  BY DEF TypeOK, OffsetsInv, InFlightInv, AccountedInv, Accounted
<1>5. RowsInv'
  BY DEF TypeOK, OffsetsInv, InFlightInv, RowsInv
<1>6. ViolationsInv'
  BY DEF TypeOK, OffsetsInv, InFlightInv, RowsInv, ViolationsInv, ViolationType
<1> QED
  BY <1>1, <1>2, <1>3, <1>4, <1>5, <1>6

\* The row to spare is used up; it makes room for the violations.
LEMMA InsertRequestLogInv ==
  ASSUME Inv, InsertRequestLog
  PROVE  Inv'
<1> USE BoundsAssumption, MessagePair
    DEF Inv, InsertRequestLog, broker, tables, InFlight, Offset, Produced, Kind
<1>1. TypeOK'
  BY SMTT(30) DEF TypeOK, InFlightInv, ViolationType
<1>2. OffsetsInv'
  BY DEF TypeOK, OffsetsInv, InFlightInv
<1>3. InFlightInv'
  BY DEF TypeOK, OffsetsInv, InFlightInv
<1>4. AccountedInv'
  BY DEF TypeOK, OffsetsInv, InFlightInv, AccountedInv, Accounted
<1>5. RowsInv'
  BY SMTT(30) DEF TypeOK, OffsetsInv, InFlightInv, RowsInv
<1>6. ViolationsInv'
  <2>1. /\ \A m \in Message : requestLogs'[m] >= requestLogs[m]
        /\ requestLogs'[msg] = requestLogs[msg] + 1
    BY SMTT(30) DEF TypeOK, InFlightInv
  <2>2. \A m \in Message, t \in ViolationType :
          /\ violations[m][t] \in Nat
          /\ requestLogs[m] \in Nat
          /\ requestLogs'[m] \in Nat
    BY <1>1 DEF TypeOK
  <2> QED
    BY <2>1, <2>2, SMTT(30) DEF ViolationsInv, InFlightInv
<1> QED
  BY <1>1, <1>2, <1>3, <1>4, <1>5, <1>6

\* The event is refused, whether or not its row was written.
LEMMA InsertRequestLogFailsInv ==
  ASSUME Inv, InsertRequestLogFails
  PROVE  Inv'
<1> USE BoundsAssumption, MessagePair
    DEF Inv, InsertRequestLogFails, GiveUp, broker, tables, InFlight, Offset, Produced, Kind
<1>1. TypeOK'
  BY SMTT(30) DEF TypeOK, InFlightInv, ViolationType
<1>2. OffsetsInv'
  BY DEF TypeOK, OffsetsInv, InFlightInv
<1>3. InFlightInv'
  BY DEF TypeOK, OffsetsInv, InFlightInv
<1>4. AccountedInv'
  BY DEF TypeOK, OffsetsInv, InFlightInv, AccountedInv, Accounted
<1>5. RowsInv'
  BY SMTT(30) DEF TypeOK, OffsetsInv, InFlightInv, RowsInv
<1>6. ViolationsInv'
  <2>1. \A m \in Message : requestLogs'[m] >= requestLogs[m]
    BY SMTT(30) DEF TypeOK, InFlightInv
  <2>2. \A m \in Message, t \in ViolationType :
          /\ violations[m][t] \in Nat
          /\ requestLogs[m] \in Nat
          /\ requestLogs'[m] \in Nat
    BY <1>1 DEF TypeOK
  <2> QED
    BY <2>1, <2>2 DEF ViolationsInv
<1> QED
  BY <1>1, <1>2, <1>3, <1>4, <1>5, <1>6

\* Detection only reads.
LEMMA DetectAllInv ==
  ASSUME Inv, DetectAll
  PROVE  Inv'
<1> USE BoundsAssumption, MessagePair
    DEF Inv, DetectAll, broker, tables, InFlight, Offset, Produced, Kind
<1>1. TypeOK'
  BY DEF TypeOK, InFlightInv, ViolationType
<1>2. OffsetsInv'
  BY DEF TypeOK, OffsetsInv, InFlightInv
<1>3. InFlightInv'
  BY DEF TypeOK, OffsetsInv, InFlightInv
<1>4. AccountedInv'
  BY DEF TypeOK, OffsetsInv, InFlightInv, AccountedInv, Accounted
<1>5. RowsInv'
  BY DEF TypeOK, OffsetsInv, InFlightInv, RowsInv
<1>6. ViolationsInv'
  BY DEF TypeOK, OffsetsInv, InFlightInv, RowsInv, ViolationsInv, ViolationType
<1> QED
  BY <1>1, <1>2, <1>3, <1>4, <1>5, <1>6

\* The violation inserted is no longer in found: it is inserted once.
LEMMA InsertViolationInv ==
  ASSUME Inv, InsertViolation
  PROVE  Inv'
<1> USE BoundsAssumption, MessagePair
    DEF Inv, InsertViolation, NextViolation, Remaining, broker, tables, InFlight, Offset, Produced, Kind
<1>1. TypeOK'
  <2>1. NextViolation \in ViolationType
    BY DEF ViolationType
  <2>2. PICK written \in {0, 1} :
          violations' = [violations EXCEPT ![msg][NextViolation] = @ + written]
    OBVIOUS
  <2>3. violations' \in [Message -> [ViolationType -> Nat]]
    <3>1. msg \in Message /\ violations \in [Message -> [ViolationType -> Nat]]
      BY DEF TypeOK, InFlightInv
    <3> HIDE DEF NextViolation
    <3> QED
      BY <2>1, <2>2, <3>1, AddNested
  <2> QED
    BY <2>3 DEF TypeOK
<1>2. OffsetsInv'
  BY DEF TypeOK, OffsetsInv, InFlightInv
<1>3. InFlightInv'
  BY DEF TypeOK, OffsetsInv, InFlightInv
<1>4. AccountedInv'
  BY DEF TypeOK, OffsetsInv, InFlightInv, AccountedInv, Accounted
<1>5. RowsInv'
  BY DEF TypeOK, OffsetsInv, InFlightInv, RowsInv
<1>6. ViolationsInv'
  <2>1. NextViolation \in ViolationType /\ NextViolation \in found
    <3>1. found \subseteq {"vertical_idor", "horizontal_idor"} /\ found # {}
      BY DEF ViolationType, TypeOK
    <3> QED
      BY <3>1 DEF ViolationType
  <2>2. PICK written \in {0, 1} :
          violations' = [violations EXCEPT ![msg][NextViolation] = @ + written]
    OBVIOUS
  <2>3. \A m \in Message, t \in ViolationType :
          violations'[m][t] = violations[m][t] +
            (IF m = msg /\ t = NextViolation THEN written ELSE 0)
    <3>1. msg \in Message /\ violations \in [Message -> [ViolationType -> Nat]]
      BY DEF TypeOK, InFlightInv
    <3> HIDE DEF NextViolation
    <3> QED
      BY <2>1, <2>2, <3>1, AddNested
  <2>4. \A m \in Message, t \in ViolationType :
          violations[m][t] \in Nat /\ requestLogs[m] \in Nat
    BY DEF TypeOK
  <2>5. found' = found \ {NextViolation} /\ found \subseteq ViolationType
    BY DEF TypeOK
  <2> HIDE DEF NextViolation
  <2> QED
    BY <2>1, <2>3, <2>4, <2>5 DEF ViolationsInv, InFlightInv
<1> QED
  BY <1>1, <1>2, <1>3, <1>4, <1>5, <1>6

\* All violations have been tried.
LEMMA ViolationsDoneInv ==
  ASSUME Inv, ViolationsDone
  PROVE  Inv'
<1> USE BoundsAssumption, MessagePair
    DEF Inv, ViolationsDone, broker, tables, InFlight, Offset, Produced, Kind
<1>1. TypeOK'
  BY DEF TypeOK, InFlightInv, ViolationType
<1>2. OffsetsInv'
  BY DEF TypeOK, OffsetsInv, InFlightInv
<1>3. InFlightInv'
  BY DEF TypeOK, OffsetsInv, InFlightInv
<1>4. AccountedInv'
  BY DEF TypeOK, OffsetsInv, InFlightInv, AccountedInv, Accounted
<1>5. RowsInv'
  BY DEF TypeOK, OffsetsInv, InFlightInv, RowsInv
<1>6. ViolationsInv'
  BY DEF TypeOK, OffsetsInv, InFlightInv, RowsInv, ViolationsInv, ViolationType
<1> QED
  BY <1>1, <1>2, <1>3, <1>4, <1>5, <1>6

\* The offset committed is the position of the partition, below which
\* everything is accounted for.
LEMMA CommitMessagesInv ==
  ASSUME Inv, CommitMessages
  PROVE  Inv'
<1> USE BoundsAssumption, MessagePair
    DEF Inv, CommitMessages, CommitOffset, broker, tables, InFlight, Offset, Produced, Kind
<1>1. TypeOK'
  BY DEF TypeOK, InFlightInv, ViolationType
<1>2. OffsetsInv'
  <2>1. msg \in Message /\ Offset(msg) + 1 = position[msg[1]]
    BY DEF InFlightInv
  <2>2. ASSUME NEW p \in Partition
        PROVE  committed'[p] = committed[p] \/ committed'[p] = position[p]
    BY <2>1 DEF TypeOK
  <2> QED
    BY <2>2 DEF TypeOK, OffsetsInv
<1>3. InFlightInv'
  BY DEF TypeOK, OffsetsInv, InFlightInv
<1>4. AccountedInv'
  BY DEF TypeOK, OffsetsInv, InFlightInv, AccountedInv, Accounted
<1>5. RowsInv'
  BY DEF TypeOK, OffsetsInv, InFlightInv, RowsInv
<1>6. ViolationsInv'
  BY DEF TypeOK, OffsetsInv, InFlightInv, RowsInv, ViolationsInv, ViolationType
<1> QED
  BY <1>1, <1>2, <1>3, <1>4, <1>5, <1>6
------------------------------------------------------------------------------
\* Every step of the environment and of the goroutine keeps Inv.
LEMMA StepInv == Inv /\ [Next]_vars => Inv'
<1> SUFFICES ASSUME Inv, [Next]_vars PROVE Inv'
  OBVIOUS
<1>1. CASE UNCHANGED vars
  <2> USE <1>1 DEF vars, Inv
  <2>1. TypeOK'
    BY DEF TypeOK
  <2>2. OffsetsInv' /\ InFlightInv'
    BY DEF OffsetsInv, InFlightInv, InFlight, Produced, Offset
  <2>3. AccountedInv'
    BY DEF AccountedInv, Accounted, InFlight, Offset, Kind
  <2>4. RowsInv' /\ ViolationsInv'
    BY DEF RowsInv, ViolationsInv, Offset
  <2> QED
    BY <2>1, <2>2, <2>3, <2>4
<1>2. CASE Environment
  BY <1>2, ProduceInv, StartInv, CancelInv, StopInv
     DEF Environment, Exit, Crash
<1>3. CASE Run
  BY <1>3, SelectInv, FetchMessageInv, FetchCancelledInv, ProcessMalformedInv,
     ProcessAnonymousInv, InsertRequestLogInv, InsertRequestLogFailsInv,
     DetectAllInv, InsertViolationInv, ViolationsDoneInv, CommitMessagesInv
     DEF Run
<1> QED
  BY <1>1, <1>2, <1>3 DEF Next

\* The inductive invariant of the consumer.
THEOREM Invariance == Spec => []Inv
BY InitInv, StepInv, PTL DEF Spec

\* Every variable keeps to its domain (type correctness of the loop, of the
\* offsets and of the tables).
THEOREM TypeCorrectness == Spec => []TypeOK
<1>1. Inv => TypeOK
  BY DEF Inv
<1> QED
  BY <1>1, Invariance, PTL

\* No commit of Run silently covers an event that left no trace.
THEOREM CommittedAccounted == Spec => []CommittedIsAccounted
<1>1. Inv => CommittedIsAccounted
  BY DEF Inv, AccountedInv, Accounted, CommittedIsAccounted
<1> QED
  BY <1>1, Invariance, PTL

\* processMessage stores an event at most once per start of the process.
THEOREM RowsBounded == Spec => []OneRowPerStart
<1>1. Inv => OneRowPerStart
  BY DEF Inv, RowsInv, OneRowPerStart
<1> QED
  BY <1>1, Invariance, PTL

\* The loop over DetectAll's answer inserts a violation once per stored row.
THEOREM ViolationsBacked == Spec => []ViolationsHaveRows
<1>1. Inv => ViolationsHaveRows
  BY DEF Inv, ViolationsInv, ViolationsHaveRows
<1> QED
  BY <1>1, Invariance, PTL

\* The tables are settled below the committed offset.
THEOREM Finality == Spec => CommittedIsFinal
<1>1. ASSUME Inv, [Next]_vars, NEW m \in Message, Offset(m) < committed[m[1]]
      PROVE  requestLogs'[m] = requestLogs[m] /\ violations'[m] = violations[m]
  <2> USE <1>1 DEF Inv
  <2>1. InFlight => m # msg
    BY MessagePair DEF TypeOK, InFlightInv, Offset
  <2>2. CASE InsertRequestLog
    BY <2>1, <2>2 DEF InsertRequestLog, InFlight, InFlightInv, TypeOK
  <2>3. CASE InsertRequestLogFails
    BY <2>1, <2>3
       DEF InsertRequestLogFails, GiveUp, InFlight, InFlightInv, TypeOK
  <2>4. CASE InsertViolation
    BY <2>1, <2>4 DEF InsertViolation, InFlight, InFlightInv, TypeOK
  <2>5. CASE UNCHANGED tables
    BY <2>5 DEF tables
  <2> QED
    BY <2>2, <2>3, <2>4, <2>5
       DEF Next, Environment, Run, vars, tables, Produce, Start, Cancel, Exit,
           Crash, Stop, Select, FetchMessage, FetchCancelled, ProcessMalformed,
           GiveUp, ProcessAnonymous, DetectAll, ViolationsDone, CommitMessages
<1>2. Inv /\ [Next]_vars =>
        [\A m \in Message :
           Offset(m) < committed[m[1]] =>
             /\ requestLogs'[m] = requestLogs[m]
             /\ violations'[m] = violations[m]]_vars
  BY <1>1
<1> QED
  BY <1>2, Invariance, PTL DEF Spec, CommittedIsFinal

\* The consumer implements the contract of its consumer group: a step that
\* changes the outcome of a message settles it, a commit advances one
\* partition over settled messages only.
THEOREM Refinement == Spec => KeepsContract
<1> USE DEF Settled
<1>1. Init => Contract!Init
  BY DEF Init, Contract!Init
<1>2. ASSUME Inv, [Next]_vars
      PROVE  [Contract!Next]_<<Settled, committed>>
  <2> USE <1>2 DEF Inv
  <2>1. ASSUME NEW o \in {"stored", "skipped", "refused"}, msg \in Message,
               outcome' = [outcome EXCEPT ![msg] = o], UNCHANGED committed
        PROVE  Contract!Settle(msg) /\ msg \in Contract!Message
    <3>1. Settled' = Settled \cup {msg}
      BY <2>1 DEF TypeOK
    <3> QED
      BY <2>1, <3>1 DEF Contract!Settle, Contract!Message, Message
  <2>2. CASE InsertRequestLog \/ InsertRequestLogFails \/ ProcessMalformed
             \/ ProcessAnonymous
    <3>1. msg \in Message
      BY <2>2 DEF InsertRequestLog, InsertRequestLogFails, ProcessMalformed,
                  ProcessAnonymous, InFlight, InFlightInv
    <3>2. \E o \in {"stored", "skipped", "refused"} :
            outcome' = [outcome EXCEPT ![msg] = o]
      BY <2>2 DEF InsertRequestLog, InsertRequestLogFails, ProcessMalformed,
                  ProcessAnonymous, GiveUp
    <3>3. UNCHANGED committed
      BY <2>2 DEF InsertRequestLog, InsertRequestLogFails, ProcessMalformed,
                  ProcessAnonymous, GiveUp, broker
    <3>4. Contract!Settle(msg) /\ msg \in Contract!Message
      BY <2>1, <3>1, <3>2, <3>3
    <3> QED
      BY <3>4 DEF Contract!Next, Contract!Settle
  <2>3. CASE CommitMessages
    <3>1. CASE UNCHANGED committed
      BY <2>3, <3>1 DEF CommitMessages
    <3>2. CASE committed' = [committed EXCEPT ![msg[1]] = CommitOffset(msg)]
      <4>1. /\ msg[1] \in Partition
            /\ CommitOffset(msg) \in 1 .. MaxLen
            /\ CommitOffset(msg) > committed[msg[1]]
        BY <2>3, BoundsAssumption, MessagePair
           DEF CommitMessages, InFlight, InFlightInv, CommitOffset, Offset,
               TypeOK
      <4>2. ASSUME NEW i \in 0 .. CommitOffset(msg) - 1
            PROVE  <<msg[1], i>> \in Settled
        <5>1. <<msg[1], i>> \in Message
          BY <4>1, BoundsAssumption DEF Message
        <5>2. pc = "commit" /\ InFlight
          BY <2>3 DEF CommitMessages, InFlight
        <5>3. i < position[msg[1]]
          BY <5>2, MessagePair DEF InFlightInv, CommitOffset, Offset, TypeOK
        <5>4. CASE <<msg[1], i>> = msg
          BY <5>1, <5>2, <5>4 DEF AccountedInv, Accounted
        <5>5. CASE <<msg[1], i>> # msg
          BY <5>1, <5>2, <5>3, <5>5 DEF AccountedInv, Accounted, Offset
        <5> QED
          BY <5>4, <5>5
      <4>3. UNCHANGED Settled
        BY <2>3 DEF CommitMessages
      <4> QED
        BY <3>2, <4>1, <4>2, <4>3 DEF Contract!Advance, Contract!Next
    <3> QED
      BY <2>3, <3>1, <3>2 DEF CommitMessages
  <2>4. CASE UNCHANGED <<outcome, committed>>
    BY <2>4
  <2> QED
    BY <2>2, <2>3, <2>4
       DEF Next, Environment, Run, vars, broker, tables, Produce, Start,
           Cancel, Exit, Crash, Stop, Select, FetchMessage, FetchCancelled,
           DetectAll, InsertViolation, ViolationsDone
<1> QED
  BY <1>1, <1>2, Invariance, PTL DEF Spec, KeepsContract, Contract!Spec
-------------------------------------------------------------------------------
(* The role mappings.                                                      *)

Backed(p, r) == rows[<<p, r>>] # "none" \/ <<p, r>> \in revoked

\* The result a scan is about to install has been written to the table.
ScanInv ==
  scanPc = "refresh" =>
    \A p \in DOMAIN pathRoles : \A r \in pathRoles[p] : Backed(p, r)

\* What an untorn detection has already read still holds of the cache.
DetectionInv ==
  ~torn =>
    /\ detectorPc \in {"isAllowed", "expectedRoles"} =>
         cache[request.path] # {}
    /\ detectorPc = "expectedRoles" => request.role \notin cache[request.path]

\* The detector only runs for a request that names a role.
RequestInv == detectorPc # "idle" => request.role \in Role

RolesInv == /\ RolesTypeOK
            /\ CacheIsBacked
            /\ ScanInv
            /\ DetectionInv
            /\ RequestInv
            /\ UntornViolationsAgree
-------------------------------------------------------------------------------
\* The empty function is a result without any analysed path.
LEMMA PathRolesTyped ==
  /\ << >> \in ScanResult
  /\ DOMAIN << >> = {}
  /\ \A minSample \in MinSamples, threshold \in Thresholds :
       Learned(minSample, threshold) \in ScanResult
<1>1. << >> \in [{} -> SUBSET StoredRole] /\ DOMAIN << >> = {}
  OBVIOUS
<1>2. ASSUME NEW minSample \in MinSamples, NEW threshold \in Thresholds
      PROVE  Learned(minSample, threshold)
               \in [Analysed(minSample) -> SUBSET StoredRole]
  BY DEF Learned
<1>3. \A minSample \in MinSamples : Analysed(minSample) \in SUBSET Path
  BY DEF Analysed
<1> QED
  BY <1>1, <1>2, <1>3 DEF ScanResult

\* A violation names a role, the absence of one does not.
LEMMA NoViolationDistinct == NoViolation \notin Violation
<1>1. ASSUME NoViolation \in Violation PROVE FALSE
  <2>1. NoViolation.role \in Role
    BY <1>1 DEF Violation
  <2> QED
    BY <2>1, RoleAssumption DEF NoViolation
<1> QED
  BY <1>1

\* Role learning and detection start with the invariant.
LEMMA RolesInitInv == RolesInit => RolesInv
<1> SUFFICES ASSUME RolesInit PROVE RolesInv
  OBVIOUS
<1>1. request \in Request /\ request.role = NoRole
  <2>1. PICK p \in Path : TRUE
    BY PathAssumption
  <2>2. [path |-> p, role |-> NoRole] \in Request
    BY <2>1 DEF Request, StoredRole
  <2>3. \E r \in Request : r.role = NoRole
    BY <2>2
  <2> QED
    BY <2>3 DEF RolesInit
<1>2. RolesTypeOK
  <2>1. hits \in [Mapping -> 0 .. MaxHits]
    BY ParameterAssumption DEF RolesInit
  <2>2. pathRoles \in ScanResult
    BY PathRolesTyped DEF RolesInit
  <2>3. torn \in BOOLEAN
    BY DEF RolesInit
  <2> QED
    BY <1>1, <2>1, <2>2, <2>3 DEF RolesInit, RolesTypeOK
<1>3. CacheIsBacked /\ ScanInv /\ DetectionInv
  BY DEF RolesInit, CacheIsBacked, ScanInv, DetectionInv
<1>4. RequestInv /\ UntornViolationsAgree
  BY DEF RolesInit, RequestInv, UntornViolationsAgree
<1> QED
  BY <1>2, <1>3, <1>4 DEF RolesInv

\* Every action keeps to the types.
LEMMA TypeStep ==
  ASSUME RolesInv, [RolesNext]_rolesVars
  PROVE  RolesTypeOK'
<1> USE DEF RolesInv
<1>1. ASSUME NEW p \in Path, NEW r \in StoredRole, Insert(p, r)
      PROVE  RolesTypeOK'
  <2>1. hits' \in [Mapping -> 0 .. MaxHits]
    <3>1. <<p, r>> \in Mapping /\ hits[<<p, r>>] \in 0 .. MaxHits
      BY DEF RolesTypeOK, Mapping
    <3> QED
      BY <1>1, <3>1, ParameterAssumption DEF Insert, RolesTypeOK
  <2>2. request' \in Request
    BY <1>1 DEF Insert, Request
  <2>3. detectorPc' \in {"idle", "getAllowedRoles", "isAllowed", "expectedRoles"}
    BY <1>1 DEF Insert, NamesNoRole
  <2>4. violation' = NoViolation /\ torn' = FALSE
    BY <1>1 DEF Insert, NamesNoRole
  <2>5. UNCHANGED <<rows, cache, scanPc, pathRoles, revoked>>
    BY <1>1 DEF Insert, scan, NamesNoRole
  <2> QED
    BY <2>1, <2>2, <2>3, <2>4, <2>5 DEF RolesTypeOK
<1>2. CASE GetAllowedRoles
  BY <1>2 DEF GetAllowedRoles, RolesTypeOK, scan
<1>3. CASE IsAllowed
  BY <1>3 DEF IsAllowed, RolesTypeOK, scan
<1>4. CASE ExpectedRoles
  <2>1. violation' \in Violation
    BY <1>4 DEF ExpectedRoles, RolesTypeOK, RequestInv, Request, Violation
  <2>2. UNCHANGED <<hits, rows, cache, scanPc, pathRoles, request, revoked, torn>>
        /\ detectorPc' = "idle"
    BY <1>4 DEF ExpectedRoles, scan
  <2> QED
    BY <2>1, <2>2 DEF RolesTypeOK
<1>5. CASE QueryStats
  <2>1. pathRoles' \in ScanResult
    BY <1>5, PathRolesTyped DEF QueryStats
  <2>2. UNCHANGED <<hits, rows, cache, detectorPc, request, violation, revoked,
                    torn>>
        /\ scanPc' = "upsert"
    BY <1>5 DEF QueryStats, detection
  <2> QED
    BY <2>1, <2>2 DEF RolesTypeOK
<1>6. ASSUME WriteMappings
      PROVE  /\ rows' \in [Mapping -> {"none", "auto", "manual"}]
             /\ revoked' \in SUBSET Mapping
  BY <1>6 DEF WriteMappings, Upserted, RolesTypeOK
<1>7. CASE UpsertMappings \/ UpsertMappingsFails
  <2>1. /\ rows' \in [Mapping -> {"none", "auto", "manual"}]
        /\ revoked' \in SUBSET Mapping
    BY <1>6, <1>7 DEF UpsertMappings, UpsertMappingsFails, RolesTypeOK
  <2>2. UNCHANGED <<hits, cache, pathRoles, detectorPc, request, violation,
                    torn>>
    BY <1>7 DEF UpsertMappings, UpsertMappingsFails, detection
  <2>3. scanPc' \in {"idle", "refresh"}
    BY <1>7 DEF UpsertMappings, UpsertMappingsFails, AfterFailedUpsert
  <2> QED
    BY <2>1, <2>2, <2>3 DEF RolesTypeOK
<1>8. CASE RefreshCache
  <2>1. cache' \in [Path -> SUBSET StoredRole]
    <3>1. \A p \in DOMAIN pathRoles : pathRoles[p] \in SUBSET StoredRole
      BY DEF RolesTypeOK, ScanResult
    <3> QED
      BY <1>8, <3>1 DEF RefreshCache
  <2>2. torn' \in BOOLEAN
    BY <1>8 DEF RefreshCache
  <2>3. pathRoles' \in ScanResult
    BY <1>8, PathRolesTyped DEF RefreshCache
  <2>4. UNCHANGED <<hits, rows, detectorPc, request, violation, revoked>>
        /\ scanPc' = "idle"
    BY <1>8 DEF RefreshCache, detection
  <2> QED
    BY <2>1, <2>2, <2>3, <2>4 DEF RolesTypeOK
<1>9. ASSUME NEW p \in Path, NEW r \in Role,
             AddEndpointRoleMapping(p, r) \/ RemoveEndpointRoleMapping(p, r)
      PROVE  RolesTypeOK'
  <2>1. <<p, r>> \in Mapping
    BY DEF Mapping, StoredRole
  <2>2. /\ rows' \in [Mapping -> {"none", "auto", "manual"}]
        /\ revoked' \in SUBSET Mapping
    BY <1>9, <2>1
       DEF AddEndpointRoleMapping, RemoveEndpointRoleMapping, RolesTypeOK
  <2>3. UNCHANGED <<hits, cache, scanPc, pathRoles, detectorPc, request,
                    violation, torn>>
    BY <1>9
       DEF AddEndpointRoleMapping, RemoveEndpointRoleMapping, scan, detection
  <2> QED
    BY <2>2, <2>3 DEF RolesTypeOK
<1>10. ASSUME NEW p \in Path, NEW r \in StoredRole, LeaveWindow(p, r)
       PROVE  RolesTypeOK'
  <2>1. hits' \in [Mapping -> 0 .. MaxHits]
    <3>1. <<p, r>> \in Mapping /\ hits[<<p, r>>] \in 0 .. MaxHits
      BY DEF RolesTypeOK, Mapping
    <3> QED
      BY <1>10, <3>1, ParameterAssumption DEF LeaveWindow, RolesTypeOK
  <2>2. UNCHANGED <<rows, cache, scanPc, pathRoles, detectorPc, request,
                    violation, revoked, torn>>
    BY <1>10 DEF LeaveWindow, scan, detection
  <2> QED
    BY <2>1, <2>2 DEF RolesTypeOK
<1>11. CASE Restart
  <2>1. cache' \in [Path -> SUBSET StoredRole]
    BY <1>11 DEF Restart, ActiveMappings
  <2>2. pathRoles' \in ScanResult
    BY <1>11, PathRolesTyped DEF Restart
  <2>3. UNCHANGED <<hits, rows, request, violation, revoked, torn>>
        /\ scanPc' = "idle" /\ detectorPc' = "idle"
    BY <1>11 DEF Restart
  <2> QED
    BY <2>1, <2>2, <2>3 DEF RolesTypeOK
<1>12. CASE UNCHANGED rolesVars
  BY <1>12 DEF rolesVars, RolesTypeOK
<1> QED
  BY <1>1, <1>2, <1>3, <1>4, <1>5, <1>7, <1>8, <1>9, <1>10, <1>11, <1>12
     DEF RolesNext

\* Only a scan or a restart puts a role into the cache, and both take it from
\* rows they have just written or read; what the operator takes out of the
\* table is remembered in revoked.
LEMMA BackedStep ==
  ASSUME RolesInv, [RolesNext]_rolesVars
  PROVE  CacheIsBacked' /\ ScanInv'
<1> USE DEF RolesInv
<1>1. ASSUME WriteMappings, NEW p \in Path, NEW r \in StoredRole,
             Backed(p, r) \/ (p \in DOMAIN pathRoles /\ r \in pathRoles[p])
      PROVE  Backed(p, r)'
  <2>1. <<p, r>> \in Mapping
    BY DEF Mapping
  <2>2. rows'[<<p, r>>] = Upserted(<<p, r>>)
    BY <1>1, <2>1 DEF WriteMappings
  <2>3. IsLearned(<<p, r>>) <=> p \in DOMAIN pathRoles /\ r \in pathRoles[p]
    BY DEF IsLearned
  <2>4. rows[<<p, r>>] # "none" \/ IsLearned(<<p, r>>) => Backed(p, r)'
    BY <2>2 DEF Upserted, Backed
  <2>5. <<p, r>> \in revoked /\ ~IsLearned(<<p, r>>) => <<p, r>> \in revoked'
    BY <1>1 DEF WriteMappings
  <2> QED
    BY <1>1, <2>3, <2>4, <2>5 DEF Backed
<1>2. \A p \in DOMAIN pathRoles : p \in Path /\ pathRoles[p] \subseteq StoredRole
  BY DEF RolesTypeOK, ScanResult
<1>3. ASSUME UNCHANGED <<cache, pathRoles>>, scanPc' = "idle" \/ UNCHANGED scanPc,
             \A p \in Path, r \in StoredRole : Backed(p, r) => Backed(p, r)'
      PROVE  CacheIsBacked' /\ ScanInv'
  BY <1>2, <1>3 DEF CacheIsBacked, ScanInv, Backed
<1>4. CASE UNCHANGED <<rows, revoked>> /\ UNCHANGED <<cache, pathRoles, scanPc>>
  BY <1>3, <1>4 DEF Backed
<1>5. CASE QueryStats
  BY <1>5 DEF QueryStats, CacheIsBacked, ScanInv
<1>6. CASE UpsertMappings
  <2>1. WriteMappings /\ UNCHANGED <<cache, pathRoles>>
    BY <1>6 DEF UpsertMappings
  <2>2. CacheIsBacked'
    BY <1>1, <2>1 DEF CacheIsBacked, Backed
  <2>3. ScanInv'
    BY <1>1, <1>2, <2>1 DEF ScanInv
  <2> QED
    BY <2>2, <2>3
<1>7. CASE UpsertMappingsFails
  <2>1. WriteMappings \/ UNCHANGED <<rows, revoked>>
    BY <1>7 DEF UpsertMappingsFails
  <2>2. UNCHANGED <<cache, pathRoles>> /\ scanPc' = "idle"
    BY <1>7 DEF UpsertMappingsFails, AfterFailedUpsert
  <2>3. \A p \in Path, r \in StoredRole : Backed(p, r) => Backed(p, r)'
    BY <1>1, <2>1 DEF Backed
  <2> QED
    BY <1>3, <2>2, <2>3
<1>8. CASE RefreshCache
  <2>1. UNCHANGED <<rows, revoked>> /\ scanPc = "refresh" /\ scanPc' = "idle"
    BY <1>8 DEF RefreshCache
  <2>2. \A p \in Path : cache'[p] =
          IF p \in DOMAIN pathRoles THEN pathRoles[p] ELSE {}
    BY <1>8 DEF RefreshCache
  <2> QED
    BY <2>1, <2>2 DEF CacheIsBacked, ScanInv, Backed
<1>9. ASSUME NEW p \in Path, NEW r \in Role,
             AddEndpointRoleMapping(p, r) \/ RemoveEndpointRoleMapping(p, r)
      PROVE  CacheIsBacked' /\ ScanInv'
  <2>1. <<p, r>> \in Mapping
    BY DEF Mapping, StoredRole
  <2>2. \A q \in Path, t \in StoredRole : <<q, t>> \in Mapping
    BY DEF Mapping
  <2>3. ASSUME NEW q \in Path, NEW t \in StoredRole, Backed(q, t)
        PROVE  Backed(q, t)'
    <3>1. CASE AddEndpointRoleMapping(p, r)
      BY <2>1, <2>2, <2>3, <3>1 DEF AddEndpointRoleMapping, Backed, RolesTypeOK
    <3>2. CASE RemoveEndpointRoleMapping(p, r)
      BY <2>1, <2>2, <2>3, <3>2 DEF RemoveEndpointRoleMapping, Backed, RolesTypeOK
    <3> QED
      BY <1>9, <3>1, <3>2
  <2>4. UNCHANGED <<cache, scanPc, pathRoles>>
    BY <1>9 DEF AddEndpointRoleMapping, RemoveEndpointRoleMapping, scan
  <2> QED
    BY <1>3, <2>3, <2>4
<1>10. CASE Restart
  <2>1. UNCHANGED <<rows, revoked>> /\ scanPc' = "idle" /\ cache' = ActiveMappings
    BY <1>10 DEF Restart
  <2> QED
    BY <2>1 DEF CacheIsBacked, ScanInv, ActiveMappings
<1> QED
  BY <1>4, <1>5, <1>6, <1>7, <1>8, <1>9, <1>10
     DEF RolesNext, rolesVars, scan, Insert, GetAllowedRoles, IsAllowed,
         ExpectedRoles, LeaveWindow

\* The reads of a detection agree while no refresh comes between them.
LEMMA DetectionStep ==
  ASSUME RolesInv, [RolesNext]_rolesVars
  PROVE  DetectionInv' /\ RequestInv' /\ UntornViolationsAgree'
<1> USE DEF RolesInv, DetectionInv, RequestInv, UntornViolationsAgree
<1>1. ASSUME NEW p \in Path, NEW r \in StoredRole, Insert(p, r)
      PROVE  DetectionInv' /\ RequestInv' /\ UntornViolationsAgree'
  BY <1>1 DEF Insert, NamesNoRole, StoredRole
<1>2. CASE GetAllowedRoles
  <2>1. UNCHANGED <<request, cache, violation, torn>>
        /\ detectorPc = "getAllowedRoles"
        /\ detectorPc' = IF cache[request.path] = {} THEN "idle" ELSE "isAllowed"
    BY <1>2 DEF GetAllowedRoles, LearningMode
  <2> QED
    BY <2>1
<1>3. CASE IsAllowed
  <2>1. /\ UNCHANGED <<request, cache, violation, torn>>
        /\ detectorPc = "isAllowed"
        /\ detectorPc' = IF request.role \in cache[request.path]
                           THEN "idle" ELSE "expectedRoles"
    BY <1>3 DEF IsAllowed, Allowed
  <2> QED
    BY <2>1
<1>4. CASE ExpectedRoles
  BY <1>4 DEF ExpectedRoles
<1>5. CASE RefreshCache
  BY <1>5 DEF RefreshCache, detection
<1>6. CASE Restart
  BY <1>6 DEF Restart
<1>7. CASE UNCHANGED <<detectorPc, request, cache, violation, torn>>
  BY <1>7
<1> QED
  BY <1>1, <1>2, <1>3, <1>4, <1>5, <1>6, <1>7
     DEF RolesNext, rolesVars, detection, QueryStats, UpsertMappings,
         UpsertMappingsFails, AddEndpointRoleMapping,
         RemoveEndpointRoleMapping, LeaveWindow

\* The inductive invariant of role learning and detection.
THEOREM RolesInvariance == RolesSpec => []RolesInv
<1>1. RolesInv /\ [RolesNext]_rolesVars => RolesInv'
  BY TypeStep, BackedStep, DetectionStep DEF RolesInv
<1> QED
  BY RolesInitInv, <1>1, PTL DEF RolesSpec

\* Every variable keeps to its domain.
THEOREM RolesTypeCorrectness == RolesSpec => []RolesTypeOK
<1>1. RolesInv => RolesTypeOK
  BY DEF RolesInv
<1> QED
  BY <1>1, RolesInvariance, PTL

\* What the engine lets through is backed by the mapping table, whatever the
\* scans, their failures, the operator's edits and the restarts.
THEOREM CacheBacked == RolesSpec => []CacheIsBacked
<1>1. RolesInv => CacheIsBacked
  BY DEF RolesInv
<1> QED
  BY <1>1, RolesInvariance, PTL

\* A detection no refresh interrupts reports a violation that makes sense.
THEOREM UntornDetection == RolesSpec => []UntornViolationsAgree
<1>1. RolesInv => UntornViolationsAgree
  BY DEF RolesInv
<1> QED
  BY <1>1, RolesInvariance, PTL

\* UpsertMappings never overwrites what the operator has added by hand.
THEOREM ManualRows == RolesSpec => ManualRowsKept
<1>1. ASSUME RolesInv, [RolesNext]_rolesVars, NEW k \in Mapping,
             rows[k] = "manual", rows'[k] # "manual"
      PROVE  k \in revoked'
  <2>1. CASE WriteMappings
    BY <1>1, <2>1 DEF WriteMappings, Upserted
  <2>2. CASE UNCHANGED rows
    BY <1>1, <2>2
  <2>3. ASSUME NEW p \in Path, NEW r \in Role,
               AddEndpointRoleMapping(p, r) \/ RemoveEndpointRoleMapping(p, r)
        PROVE  k \in revoked'
    <3>1. <<p, r>> \in Mapping
      BY DEF Mapping, StoredRole
    <3> QED
      BY <1>1, <2>3, <3>1
         DEF AddEndpointRoleMapping, RemoveEndpointRoleMapping, RolesInv, RolesTypeOK
  <2> QED
    BY <1>1, <2>1, <2>2, <2>3
       DEF RolesNext, rolesVars, Insert, GetAllowedRoles, IsAllowed,
           ExpectedRoles, QueryStats, UpsertMappings, UpsertMappingsFails,
           RefreshCache, LeaveWindow, Restart
<1>2. RolesInv /\ [RolesNext]_rolesVars =>
        [\A k \in Mapping :
           rows[k] = "manual" /\ rows'[k] # "manual" => k \in revoked']_rolesVars
  BY <1>1
<1> QED
  BY <1>2, RolesInvariance, PTL DEF RolesSpec, ManualRowsKept
===============================================================================
