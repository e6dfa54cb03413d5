--------------------------- MODULE CheckRequestsProofs ---------------------------
(***************************************************************************)
(* Safety of deep checks for any findings, calls, topic length and number  *)
(* of starts.  OnlyNewestRuns is not inductive: it needs that a call past  *)
(* its SELECT ... FOR UPDATE holds the lock (LockInv), so that the newest  *)
(* request it found not to run is still the newest one when it creates its *)
(* own (CreateInv), and that rows and messages belong to calls that have   *)
(* created them (RowInv).  CommittedIsAnswered needs that every offset the *)
(* checker is past has been settled (OffsetInv) with or without an answer  *)
(* (SettledInv).  From OffsetInv also follows that the checker implements  *)
(* ConsumerContract.                                                       *)
(***************************************************************************)
EXTENDS CheckRequests, SequenceTheorems, TLAPS

LockInv ==
  \A c \in Call : callPc[c] \in {"findFirst", "create"} => lock[finding[c]] = c

\* A row exists once its call has left the transaction by committing it.
RowInv ==
  /\ \A c \in Call :
       /\ callPc[c] \in InTransaction \cup {"new"} => status[c] = "none"
       /\ callPc[c] \in {"produce", "markFailed"} => status[c] # "none"
  /\ \A f \in Finding : \A i \in DOMAIN created[f] :
       status[created[f][i]] # "none"
  /\ \A i \in DOMAIN topic : status[topic[i]] # "none"

CreateInv ==
  \A c \in Call :
    callPc[c] = "create" =>
      \A i \in DOMAIN Requests(c) : status[Requests(c)[i]] # "running"

\* Where the checker is in the topic.
OffsetInv ==
  /\ Len(topic) <= MaxLen
  /\ pc \notin {"down", "fetch"} =>
       position = msg + 1 /\ msg < Len(topic) /\ committed <= msg
  /\ pc = "fetch" => committed <= position
  /\ pc # "down" =>
       \A o \in 0 .. position - 1 :
         o \in settled \/ (o = msg /\ pc \notin {"fetch", "commit"})
  /\ \A o \in 0 .. committed - 1 : o \in settled
  /\ \A o \in settled : o < Len(topic)

SettledInv ==
  \A i \in DOMAIN topic :
    i - 1 \in settled /\ status[topic[i]] = "running" => topic[i] \in unanswered

Inv == /\ TypeOK
       /\ LockInv
       /\ RowInv
       /\ CreateInv
       /\ OnlyNewestRuns
       /\ OffsetInv
       /\ SettledInv

-------------------------------------------------------------------------------
\* Lengths and domains of the sequences.
LEMMA Lengths ==
  ASSUME TypeOK
  PROVE  /\ Len(topic) \in Nat /\ DOMAIN topic = 1 .. Len(topic)
         /\ \A i \in DOMAIN topic : topic[i] \in Call
         /\ \A f \in Finding : /\ Len(created[f]) \in Nat
                               /\ DOMAIN created[f] = 1 .. Len(created[f])
                               /\ \A i \in DOMAIN created[f] :
                                    created[f][i] \in Call
         /\ committed \in Nat /\ position \in Nat /\ msg \in Nat
BY LenProperties DEF TypeOK

\* A send appends its request up to twice.
LEMMA Sent ==
  ASSUME NEW s \in Seq(Call), NEW c \in Call, NEW copies \in 0 .. 2
  PROVE  LET t == s \o [i \in 1 .. copies |-> c]
         IN /\ t \in Seq(Call)
            /\ Len(t) = Len(s) + copies
            /\ \A i \in 1 .. Len(t) : t[i] = IF i <= Len(s) THEN s[i] ELSE c
<1> DEFINE u == [i \in 1 .. copies |-> c]
<1>1. /\ u \in Seq(Call)
      /\ Len(u) = copies
      /\ \A i \in 1 .. copies : u[i] = c
  BY IsASeq
<1> HIDE DEF u
<1>2. /\ s \o u \in Seq(Call)
      /\ Len(s \o u) = Len(s) + Len(u)
      /\ \A i \in 1 .. Len(s) + Len(u) :
           (s \o u)[i] = IF i <= Len(s) THEN s[i] ELSE u[i - Len(s)]
  BY <1>1, ConcatProperties
<1>3. \A i \in 1 .. Len(s \o u) : (s \o u)[i] = IF i <= Len(s) THEN s[i] ELSE c
  <2> SUFFICES ASSUME NEW i \in 1 .. Len(s \o u)
               PROVE  (s \o u)[i] = IF i <= Len(s) THEN s[i] ELSE c
    OBVIOUS
  <2>1. Len(s) \in Nat
    BY LenProperties
  <2>2. CASE i <= Len(s)
    BY <1>1, <1>2, <2>1, <2>2
  <2>3. CASE i > Len(s)
    <3>1. i - Len(s) \in 1 .. copies
      BY <1>1, <1>2, <2>1, <2>3
    <3> QED
      BY <1>1, <1>2, <2>1, <2>3, <3>1
  <2> QED
    BY <2>1, <2>2, <2>3
<1> QED
  BY <1>1, <1>2, <1>3 DEF u

\* What a transaction that ends leaves of the locks.
LEMMA Unlocked ==
  ASSUME TypeOK, NEW c \in Call, Unlock(c)
  PROVE  /\ lock' \in [Finding -> Call \cup {NoCall}]
         /\ \A d \in Call : d # c /\ lock[finding[d]] = d
                              => lock'[finding[d]] = d
<1>1. finding[c] \in Finding
  BY DEF TypeOK
<1>2. lock' = [lock EXCEPT ![finding[c]] =
                 IF lock[finding[c]] = c THEN NoCall ELSE lock[finding[c]]]
  BY <1>1 DEF Unlock, TypeOK
<1> QED
  BY <1>1, <1>2 DEF TypeOK

\* The label a step of call c gives it, the others keep theirs.
LEMMA Labels ==
  ASSUME TypeOK, NEW c \in Call, NEW label, Goto(c, label)
  PROVE  /\ \A d \in Call \ {c} : callPc'[d] = callPc[d]
         /\ callPc'[c] = label
BY DEF TypeOK, Goto

-------------------------------------------------------------------------------
Checker == StartChecker \/ StopChecker \/ Run

Handled == {"validate", "run", "updateResult", "updateStatus", "commit"}

\* What a step of the checker can do to the rows and the offsets.
LEMMA CheckerRows ==
  ASSUME Inv, Checker
  PROVE  /\ UNCHANGED <<callPc, finding, lock, created, topic>>
         /\ status' \in [Call -> Status]
         /\ \A c \in Call : \/ status'[c] = status[c]
                            \/ /\ status[c] # "none"
                               /\ status'[c] \in {"complete", "failed"}
<1>0. TypeOK /\ RowInv /\ OffsetInv
  BY DEF Inv
<1>1. UNCHANGED <<callPc, finding, lock, created, topic>>
  BY DEF Checker, StartChecker, StopChecker, Run, FetchMessage, Validate,
     ProjectNotFound, ValidateFails, RunAgent, UpdateResult, UpdateResultFails,
     UpdateStatus, UpdateStatusFails, CommitMessages, Return, rows, dashboard
<1>2. UNCHANGED status \/ (/\ pc \in {"updateResult", "updateStatus"}
                           /\ \E s \in {"complete", "failed"} :
                                status' = [status EXCEPT ![Requested] = s])
  BY DEF Checker, StartChecker, StopChecker, Run, FetchMessage, Validate,
     ProjectNotFound, ValidateFails, RunAgent, UpdateResult, UpdateResultFails,
     UpdateStatus, UpdateStatusFails, CommitMessages, Return, rows,
     FailedStatus
<1>3. pc \in {"updateResult", "updateStatus"} =>
        Requested \in Call /\ status[Requested] # "none"
  <2> SUFFICES ASSUME pc \in {"updateResult", "updateStatus"}
               PROVE  Requested \in Call /\ status[Requested] # "none"
    OBVIOUS
  <2>1. msg + 1 \in DOMAIN topic
    BY <1>0, Lengths DEF OffsetInv
  <2> QED
    BY <1>0, <2>1, Lengths DEF RowInv, Requested
<1> QED
  BY <1>0, <1>1, <1>2, <1>3 DEF TypeOK, Status

\* The checker's steps keep the types.
LEMMA TypeOfChecker ==
  ASSUME Inv, Checker
  PROVE  TypeOK'
<1>0. TypeOK /\ OffsetInv
  BY DEF Inv
<1>1. /\ UNCHANGED <<callPc, finding, lock, created, topic>>
      /\ status' \in [Call -> Status]
  BY CheckerRows
<1> SUFFICES /\ committed' \in 0 .. Len(topic)
             /\ position' \in 0 .. Len(topic)
             /\ pc' \in {"down", "fetch"} \cup Handled
             /\ msg' \in 0 .. MaxLen
             /\ starts' \in 0 .. MaxStarts
             /\ settled' \in SUBSET (0 .. MaxLen)
             /\ unanswered' \in SUBSET Call
  BY <1>0, <1>1 DEF TypeOK, Handled
<1> USE DEF Handled
<1>2. CASE StartChecker \/ StopChecker
  <2>1. /\ UNCHANGED <<committed, msg, settled, unanswered>>
        /\ position' \in {position, committed}
        /\ pc' \in {"down", "fetch"}
    BY <1>2 DEF StartChecker, StopChecker
  <2>2. starts' \in 0 .. MaxStarts
    BY <1>0, <1>2, BoundsAssumption DEF TypeOK, StartChecker, StopChecker
  <2> QED
    BY <1>0, <2>1, <2>2 DEF TypeOK
<1>3. CASE FetchMessage
  BY <1>0, <1>3, Lengths, BoundsAssumption DEF TypeOK, FetchMessage, OffsetInv
<1>4. CASE Validate \/ RunAgent \/ UpdateResultFails
  BY <1>0, <1>4 DEF TypeOK, Validate, RunAgent, UpdateResultFails
<1>5. CASE ProjectNotFound \/ ValidateFails \/ UpdateResult \/ UpdateStatus
             \/ UpdateStatusFails
  <2>1. /\ UNCHANGED <<committed, position, msg, starts>>
        /\ pc' \in {"fetch", "commit"}
        /\ settled' = settled \cup {msg}
        /\ unanswered' = unanswered \/ unanswered' = unanswered \cup {Requested}
        /\ pc \in Handled
    BY <1>5 DEF ProjectNotFound, ValidateFails, UpdateResult, UpdateStatus,
       UpdateStatusFails, Return, GiveNoAnswer
  <2>2. Requested \in Call
    <3>1. msg + 1 \in DOMAIN topic
      BY <1>0, <2>1, Lengths DEF OffsetInv
    <3> QED
      BY <1>0, <3>1, Lengths DEF Requested
  <2> QED
    BY <1>0, <2>1, <2>2 DEF TypeOK
<1>6. CASE CommitMessages
  <2>1. msg + 1 \in 0 .. Len(topic)
    BY <1>0, <1>6, Lengths DEF OffsetInv, CommitMessages
  <2> QED
    BY <1>0, <1>6, <2>1 DEF TypeOK, CommitMessages, CommitOffset
<1> QED
  BY <1>2, <1>3, <1>4, <1>5, <1>6 DEF Checker, Run

\* Rows are only ever answered by the checker, so no request runs again.
LEMMA RowsOfChecker ==
  ASSUME Inv, Checker
  PROVE  LockInv' /\ RowInv' /\ CreateInv' /\ OnlyNewestRuns'
<1>0. TypeOK /\ LockInv /\ RowInv /\ CreateInv /\ OnlyNewestRuns
  BY DEF Inv
<1>1. UNCHANGED <<callPc, finding, lock, created, topic>>
  BY CheckerRows
<1>2. \A c \in Call : /\ status'[c] = "running" => status[c] = "running"
                      /\ status'[c] = "none" <=> status[c] = "none"
  BY CheckerRows
<1>3. LockInv'
  BY <1>0, <1>1 DEF LockInv
<1>4. RowInv'
  BY <1>0, <1>1, <1>2, Lengths DEF RowInv
<1>5. CreateInv'
  <2>1. \A c \in Call : finding[c] \in Finding
    BY <1>0 DEF TypeOK
  <2> QED
    BY <1>0, <1>1, <1>2, <2>1, Lengths DEF CreateInv, Requests
<1>6. OnlyNewestRuns'
  BY <1>0, <1>1, <1>2, Lengths DEF OnlyNewestRuns
<1> QED
  BY <1>3, <1>4, <1>5, <1>6

\* The checker settles what it passes.
LEMMA OffsetsOfChecker ==
  ASSUME Inv, Checker
  PROVE  OffsetInv' /\ SettledInv'
<1>0. TypeOK /\ OffsetInv /\ SettledInv /\ UNCHANGED topic
  BY CheckerRows DEF Inv
<1>1. \A i \in DOMAIN topic :
        status'[topic[i]] = "running" => status[topic[i]] = "running"
  BY <1>0, CheckerRows, Lengths
<1>2. CASE StartChecker \/ StopChecker
  BY <1>0, <1>2, Lengths
     DEF StartChecker, StopChecker, rows, OffsetInv, SettledInv
<1>3. CASE FetchMessage
  BY <1>0, <1>3, Lengths DEF FetchMessage, rows, OffsetInv, SettledInv
<1>4. CASE Validate \/ RunAgent \/ UpdateResultFails
  <2>1. /\ UNCHANGED <<committed, position, msg, settled, unanswered>>
        /\ pc \in {"validate", "run", "updateResult"}
        /\ pc' \in {"run", "updateResult", "updateStatus"}
    BY <1>4 DEF Validate, RunAgent, UpdateResultFails
  <2> QED
    BY <1>0, <1>1, <2>1 DEF OffsetInv, SettledInv
<1>5. CASE ProjectNotFound \/ ValidateFails \/ UpdateResult \/ UpdateStatus
             \/ UpdateStatusFails
  <2>1. /\ UNCHANGED <<committed, position, msg>>
        /\ pc' \in {"fetch", "commit"}
        /\ settled' = settled \cup {msg}
        /\ pc \in Handled \ {"commit"}
    BY <1>5 DEF ProjectNotFound, ValidateFails, UpdateResult, UpdateStatus,
       UpdateStatusFails, Return, Handled
  <2>2. OffsetInv'
    BY <1>0, <2>1, Lengths DEF OffsetInv, Handled
  <2>3. msg + 1 \in DOMAIN topic
    BY <1>0, <2>1, Lengths DEF OffsetInv, Handled
  <2>4. \/ status'[Requested] # "running"
        \/ Requested \in unanswered'
    <3>1. Requested \in Call
      BY <1>0, <2>3, Lengths DEF Requested
    <3> QED
      BY <1>0, <1>5, <3>1 DEF ProjectNotFound, ValidateFails, UpdateResult,
         UpdateStatus, UpdateStatusFails, GiveNoAnswer, FailedStatus, TypeOK
  <2>5. unanswered \subseteq unanswered'
    BY <1>5 DEF ProjectNotFound, ValidateFails, UpdateResult,
       UpdateStatus, UpdateStatusFails, GiveNoAnswer
  <2>6. SettledInv'
    <3> SUFFICES ASSUME NEW i \in DOMAIN topic, i - 1 \in settled',
                        status'[topic[i]] = "running"
                 PROVE  topic[i] \in unanswered'
      BY <1>0 DEF SettledInv
    <3>1. CASE i - 1 \in settled
      BY <1>0, <1>1, <2>5, <3>1 DEF SettledInv
    <3>2. CASE i - 1 = msg
      <4>1. i = msg + 1
        BY <1>0, <3>2, Lengths
      <4> QED
        BY <2>4, <4>1 DEF Requested
    <3> QED
      BY <2>1, <3>1, <3>2
  <2> QED
    BY <2>2, <2>6
<1>6. CASE CommitMessages
  <2>1. /\ UNCHANGED <<position, msg, settled, unanswered, status>>
        /\ pc = "commit" /\ pc' = "fetch"
        /\ committed' = msg + 1 \/ committed' = committed
    BY <1>6 DEF CommitMessages, CommitOffset, rows
  <2> QED
    BY <1>0, <2>1, Lengths DEF OffsetInv, SettledInv
<1> QED
  BY <1>2, <1>3, <1>4, <1>5, <1>6 DEF Checker, Run

-------------------------------------------------------------------------------
\* Steps of a call that touch neither rows nor topic.
Quiet(c) == StartCall(c) \/ Lock(c) \/ FindFirst(c) \/ FindDuplicate(c) \/ Abort(c)

\* These steps keep the invariant: of its parts they disturb LockInv only.
LEMMA QuietStep ==
  ASSUME Inv, NEW c \in Call, Quiet(c)
  PROVE  Inv'
<1>0. TypeOK /\ LockInv /\ RowInv /\ CreateInv /\ OnlyNewestRuns /\ OffsetInv
        /\ SettledInv
  BY DEF Inv
<1>1. UNCHANGED <<finding, status, created, topic, committed, position, pc, msg,
                  starts, settled, unanswered>>
  BY DEF Quiet, StartCall, Lock, FindFirst, FindDuplicate, Abort, rows, checker
<1>2. finding[c] \in Finding
  BY <1>0 DEF TypeOK
<1>3. PICK label \in {"lock", "findFirst", "create", "duplicate", "raised"} :
        /\ Goto(c, label)
        /\ label = "lock" => callPc[c] = "new" /\ lock' = lock
        /\ label = "findFirst" =>
             callPc[c] = "lock" /\ Free(finding[c])
               /\ lock' = [lock EXCEPT ![finding[c]] = c]
        /\ label = "create" =>
             callPc[c] = "findFirst" /\ MayCreate(c) /\ lock' = lock
        /\ label \in {"duplicate", "raised"} => Unlock(c)
  BY DEF Quiet, StartCall, Lock, FindFirst, FindDuplicate, Abort
<1>4. /\ \A d \in Call \ {c} : callPc'[d] = callPc[d]
      /\ callPc'[c] = label
  BY <1>0, <1>3, Labels
<1>5. /\ lock' \in [Finding -> Call \cup {NoCall}]
      /\ \A d \in Call \ {c} : lock[finding[d]] = d => lock'[finding[d]] = d
  <2>1. CASE label = "findFirst"
    BY <1>0, <1>2, <1>3, <2>1, CallAssumption DEF Free, TypeOK
  <2>2. CASE label \in {"duplicate", "raised"}
    BY <1>0, <1>3, <2>2, Unlocked
  <2> QED
    BY <1>0, <1>3, <2>1, <2>2 DEF TypeOK
<1>6. TypeOK'
  <2>1. callPc' \in [Call -> Active \cup {"new", "duplicate", "returned",
                                          "raised", "lost"}]
    BY <1>0, <1>3 DEF TypeOK, Goto, Active, InTransaction
  <2> QED
    BY <1>0, <1>1, <1>5, <2>1 DEF TypeOK
<1>7. LockInv'
  <2>1. label \in {"findFirst", "create"} => lock'[finding[c]] = c
    BY <1>0, <1>2, <1>3 DEF LockInv, TypeOK
  <2> QED
    BY <1>0, <1>1, <1>4, <1>5, <2>1 DEF LockInv
<1>8. RowInv'
  BY <1>0, <1>1, <1>3, <1>4 DEF RowInv, InTransaction
<1>9. CreateInv'
  <2>1. label = "create" =>
          \A i \in DOMAIN Requests(c) : status[Requests(c)[i]] # "running"
    <3> SUFFICES ASSUME label = "create", NEW i \in DOMAIN Requests(c)
                 PROVE  status[Requests(c)[i]] # "running"
      OBVIOUS
    <3>1. DOMAIN Requests(c) = 1 .. Len(Requests(c)) /\ Len(Requests(c)) \in Nat
      BY <1>0, <1>2, Lengths DEF Requests
    <3>2. CASE i = Len(Requests(c))
      BY <1>3, <3>1, <3>2 DEF MayCreate, Latest
    <3>3. CASE i < Len(Requests(c))
      BY <1>0, <1>2, <3>1, <3>3 DEF OnlyNewestRuns, Requests
    <3> QED
      BY <3>1, <3>2, <3>3
  <2>2. \A d \in Call : Requests(d)' = Requests(d)
    BY <1>1 DEF Requests
  <2> QED
    BY <1>0, <1>1, <1>4, <2>1, <2>2 DEF CreateInv
<1>10. OnlyNewestRuns' /\ OffsetInv' /\ SettledInv'
  BY <1>0, <1>1 DEF OnlyNewestRuns, OffsetInv, SettledInv
<1> QED
  BY <1>6, <1>7, <1>8, <1>9, <1>10 DEF Inv

\* A call creates its request under the lock, after every earlier one of the
\* finding was found not to run.
LEMMA CreateStep ==
  ASSUME Inv, NEW c \in Call, Create(c)
  PROVE  Inv'
<1>0. TypeOK /\ LockInv /\ RowInv /\ CreateInv /\ OnlyNewestRuns /\ OffsetInv
        /\ SettledInv
  BY DEF Inv
<1>1. UNCHANGED <<finding, topic, committed, position, pc, msg, starts, settled,
                  unanswered>>
  BY DEF Create, checker
<1>2. /\ finding[c] \in Finding
      /\ callPc[c] = "create"
      /\ lock[finding[c]] = c
      /\ status[c] = "none"
  BY <1>0 DEF Create, TypeOK, LockInv, RowInv, InTransaction
<1>3. PICK label \in {"produce", "raised"} : Goto(c, label)
  BY DEF Create
<1>4. /\ \A d \in Call \ {c} : callPc'[d] = callPc[d]
      /\ callPc'[c] = label
  BY <1>0, <1>3, Labels
<1>5. /\ lock' \in [Finding -> Call \cup {NoCall}]
      /\ \A d \in Call \ {c} : lock[finding[d]] = d => lock'[finding[d]] = d
  BY <1>0, Unlocked DEF Create
<1>6. /\ status'[c] = "running"
      /\ \A d \in Call \ {c} : status'[d] = status[d]
      /\ status' \in [Call -> Status]
  BY <1>0 DEF Create, TypeOK, Status
<1>7. /\ \A f \in Finding \ {finding[c]} : created'[f] = created[f]
      /\ created'[finding[c]] = Append(created[finding[c]], c)
      /\ created' \in [Finding -> Seq(Call)]
  <2>1. Append(created[finding[c]], c) \in Seq(Call)
    BY <1>0, <1>2, AppendProperties DEF TypeOK
  <2>2. created' = [created EXCEPT ![finding[c]] = Append(created[finding[c]], c)]
    BY <1>0, <1>2 DEF Create, TypeOK
  <2> QED
    BY <1>0, <1>2, <2>1, <2>2 DEF TypeOK
<1>8. LET s == created[finding[c]]
          t == created'[finding[c]]
      IN /\ Len(s) \in Nat
         /\ Len(t) = Len(s) + 1
         /\ DOMAIN t = 1 .. Len(s) + 1
         /\ \A i \in 1 .. Len(s) : t[i] = s[i] /\ s[i] \in Call
         /\ t[Len(s) + 1] = c
  BY <1>0, <1>2, <1>7, AppendProperties, LenProperties DEF TypeOK
\* The call's row is new: nothing refers to it yet.
<1>9. /\ \A f \in Finding : \A i \in DOMAIN created[f] : created[f][i] # c
      /\ \A i \in DOMAIN topic : topic[i] # c
  BY <1>0, <1>2 DEF RowInv
<1>10. TypeOK'
  <2>1. callPc' \in [Call -> Active \cup {"new", "duplicate", "returned",
                                          "raised", "lost"}]
    BY <1>0, <1>3 DEF TypeOK, Goto, Active, InTransaction
  <2> QED
    BY <1>0, <1>1, <1>5, <1>6, <1>7, <2>1 DEF TypeOK
<1>11. LockInv'
  BY <1>0, <1>1, <1>3, <1>4, <1>5 DEF LockInv
<1>12. RowInv'
  <2>1. \A d \in Call : status[d] # "none" => status'[d] # "none"
    BY <1>2, <1>6
  <2>2. \A d \in Call :
          /\ callPc'[d] \in InTransaction \cup {"new"} => status'[d] = "none"
          /\ callPc'[d] \in {"produce", "markFailed"} => status'[d] # "none"
    BY <1>0, <1>3, <1>4, <1>6 DEF RowInv, InTransaction
  <2>3. \A i \in DOMAIN topic : status'[topic[i]] # "none"
    BY <1>0, <2>1, Lengths DEF RowInv
  <2>4. \A f \in Finding : \A i \in DOMAIN created'[f] :
          status'[created'[f][i]] # "none"
    <3>1. ASSUME NEW f \in Finding \ {finding[c]}
          PROVE  \A i \in DOMAIN created'[f] : status'[created'[f][i]] # "none"
      BY <1>0, <1>7, <2>1, <3>1, Lengths, SMTT(30) DEF RowInv
    <3>2. \A i \in DOMAIN created'[finding[c]] :
            status'[created'[finding[c]][i]] # "none"
      <4> SUFFICES ASSUME NEW i \in DOMAIN created'[finding[c]]
                   PROVE  status'[created'[finding[c]][i]] # "none"
        OBVIOUS
      <4>1. CASE i = Len(created[finding[c]]) + 1
        BY <1>6, <1>8, <4>1
      <4>2. CASE i \in 1 .. Len(created[finding[c]])
        BY <1>0, <1>2, <1>8, <2>1, <4>2, Lengths, SMTT(30) DEF RowInv
      <4> QED
        BY <1>8, <4>1, <4>2
    <3> QED
      BY <3>1, <3>2
  <2> QED
    BY <1>1, <2>2, <2>3, <2>4 DEF RowInv
<1>13. CreateInv'
  <2> SUFFICES ASSUME NEW d \in Call, callPc'[d] = "create"
               PROVE  \A i \in DOMAIN created'[finding[d]] :
                        status'[created'[finding[d]][i]] # "running"
    BY <1>1 DEF CreateInv, Requests
  <2>1. d # c /\ callPc[d] = "create" /\ finding[d] \in Finding
    BY <1>0, <1>3, <1>4 DEF TypeOK
  <2>2. finding[d] # finding[c]
    BY <1>0, <1>2, <2>1 DEF LockInv
  <2>3. created'[finding[d]] = created[finding[d]]
    BY <1>7, <2>1, <2>2
  <2>4. \A i \in DOMAIN created[finding[d]] :
          /\ created[finding[d]][i] \in Call \ {c}
          /\ status[created[finding[d]][i]] # "running"
    BY <1>0, <1>9, <2>1, Lengths DEF CreateInv, Requests
  <2> QED
    BY <1>6, <2>3, <2>4
<1>14. OnlyNewestRuns'
  <2> SUFFICES ASSUME NEW f \in Finding, NEW i \in 1 .. Len(created'[f]) - 1
               PROVE  status'[created'[f][i]] # "running"
    BY DEF OnlyNewestRuns
  <2>1. CASE f = finding[c]
    <3>1. i \in 1 .. Len(created[f])
      BY <1>2, <1>8, <2>1
    <3>2. created'[f][i] = created[f][i] /\ created[f][i] \in Call
      BY <1>8, <2>1, <3>1
    <3>3. i \in DOMAIN created[f]
      BY <1>0, <3>1, Lengths
    <3>4. status[created[f][i]] # "running"
      BY <1>0, <1>2, <2>1, <3>3 DEF CreateInv, Requests
    <3> QED
      BY <1>6, <1>9, <3>2, <3>3, <3>4
  <2>2. CASE f # finding[c]
    <3>1. i \in DOMAIN created[f] /\ created'[f] = created[f]
      BY <1>0, <1>7, <2>2, Lengths
    <3>2. status[created[f][i]] # "running"
      BY <1>0, <3>1 DEF OnlyNewestRuns
    <3> QED
      BY <1>0, <1>6, <1>9, <3>1, <3>2, Lengths
  <2> QED
    BY <2>1, <2>2
<1>15. OffsetInv'
  BY <1>0, <1>1 DEF OffsetInv
<1>16. SettledInv'
  BY <1>0, <1>1, <1>6, <1>9, Lengths DEF SettledInv
<1> QED
  BY <1>10, <1>11, <1>12, <1>13, <1>14, <1>15, <1>16 DEF Inv

\* A send adds messages of a request that has a row, at offsets not settled.
LEMMA ProduceStep ==
  ASSUME Inv, NEW c \in Call, Produce(c)
  PROVE  Inv'
<1>0. TypeOK /\ LockInv /\ RowInv /\ CreateInv /\ OnlyNewestRuns /\ OffsetInv
        /\ SettledInv
  BY DEF Inv
<1>1. UNCHANGED <<finding, lock, status, created, committed, position, pc, msg,
                  starts, settled, unanswered>>
  BY DEF Produce, rows, checker
<1>2. PICK copies \in 0 .. 2 :
        /\ Len(topic) + copies <= MaxLen
        /\ topic' = topic \o [i \in 1 .. copies |-> c]
        /\ \E label \in {"returned", "markFailed"} : Goto(c, label)
  BY DEF Produce
<1>3. PICK label \in {"returned", "markFailed"} : Goto(c, label)
  BY <1>2
<1>4. /\ \A d \in Call \ {c} : callPc'[d] = callPc[d]
      /\ callPc'[c] = label
  BY <1>0, <1>3, Labels
<1>5. /\ topic' \in Seq(Call)
      /\ Len(topic') = Len(topic) + copies
      /\ \A i \in 1 .. Len(topic') :
           topic'[i] = IF i <= Len(topic) THEN topic[i] ELSE c
  BY <1>0, <1>2, Sent DEF TypeOK
<1>6. /\ Len(topic) \in Nat /\ Len(topic') \in Nat
      /\ Len(topic') \in Len(topic) .. MaxLen
      /\ DOMAIN topic' = 1 .. Len(topic')
  BY <1>0, <1>2, <1>5, Lengths, LenProperties, BoundsAssumption
<1>7. status[c] # "none"
  BY <1>0 DEF Produce, RowInv
<1>8. TypeOK'
  <2>1. callPc' \in [Call -> Active \cup {"new", "duplicate", "returned",
                                          "raised", "lost"}]
    BY <1>0, <1>3 DEF TypeOK, Goto, Active, InTransaction
  <2>2. committed \in 0 .. Len(topic') /\ position \in 0 .. Len(topic')
    BY <1>0, <1>6 DEF TypeOK
  <2> QED
    BY <1>0, <1>1, <1>5, <2>1, <2>2 DEF TypeOK
<1>9. LockInv' /\ OnlyNewestRuns'
  BY <1>0, <1>1, <1>3, <1>4 DEF LockInv, OnlyNewestRuns
<1>10. RowInv'
  <2>1. \A i \in DOMAIN topic' : status[topic'[i]] # "none"
    BY <1>0, <1>5, <1>6, <1>7, Lengths DEF RowInv
  <2>2. \A d \in Call :
          /\ callPc'[d] \in InTransaction \cup {"new"} => status[d] = "none"
          /\ callPc'[d] \in {"produce", "markFailed"} => status[d] # "none"
    BY <1>0, <1>3, <1>4, <1>7 DEF RowInv, InTransaction
  <2> QED
    BY <1>0, <1>1, <2>1, <2>2 DEF RowInv
<1>11. CreateInv'
  BY <1>0, <1>1, <1>3, <1>4 DEF CreateInv, Requests
<1>12. OffsetInv'
  <2>1. \A o \in settled : o \in Nat /\ o < Len(topic')
    BY <1>0, <1>6, BoundsAssumption DEF OffsetInv, TypeOK
  <2>2. msg < Len(topic) => msg < Len(topic')
    BY <1>0, <1>6, Lengths
  <2>3. Len(topic') <= MaxLen
    BY <1>6, BoundsAssumption
  <2> QED
    BY <1>0, <1>1, <2>1, <2>2, <2>3 DEF OffsetInv
\* What is new in the topic has not been settled.
<1>13. \A o \in settled : o < Len(topic)
  BY <1>0 DEF OffsetInv
<1>14. SettledInv'
  BY <1>0, <1>1, <1>5, <1>6, <1>13, Lengths DEF SettledInv
<1> QED
  BY <1>8, <1>9, <1>10, <1>11, <1>12, <1>14 DEF Inv

\* A failed send marks a request as failed, whatever it was.
LEMMA MarkFailedStep ==
  ASSUME Inv, NEW c \in Call, MarkFailed(c)
  PROVE  Inv'
<1>0. TypeOK /\ LockInv /\ RowInv /\ CreateInv /\ OnlyNewestRuns /\ OffsetInv
        /\ SettledInv
  BY DEF Inv
<1>1. UNCHANGED <<finding, lock, created, topic, committed, position, pc, msg,
                  starts, settled, unanswered>>
  BY DEF MarkFailed, checker
<1>2. /\ \A d \in Call \ {c} : callPc'[d] = callPc[d]
      /\ callPc'[c] = "raised"
      /\ callPc' \in [Call -> Active \cup {"new", "duplicate", "returned",
                                           "raised", "lost"}]
  BY <1>0, Labels DEF MarkFailed, TypeOK, Goto
<1>3. /\ status' \in [Call -> Status]
      /\ \A d \in Call : \/ status'[d] = status[d]
                         \/ status[d] # "none" /\ status'[d] = "failed"
  <2>1. status[c] # "none"
    BY <1>0 DEF MarkFailed, RowInv
  <2> QED
    BY <1>0, <2>1 DEF MarkFailed, TypeOK, Status
<1>4. TypeOK'
  BY <1>0, <1>1, <1>2, <1>3 DEF TypeOK
<1>5. LockInv'
  BY <1>0, <1>1, <1>2 DEF LockInv
<1>6. RowInv'
  <2>1. \A d \in Call : status'[d] = "none" <=> status[d] = "none"
    BY <1>3
  <2>2. \A d \in Call :
          /\ callPc'[d] \in InTransaction \cup {"new"} => status'[d] = "none"
          /\ callPc'[d] \in {"produce", "markFailed"} => status'[d] # "none"
    BY <1>0, <1>2, <2>1 DEF RowInv, InTransaction
  <2> QED
    BY <1>0, <1>1, <2>1, <2>2, Lengths DEF RowInv
<1>7. \A d \in Call : status'[d] = "running" => status[d] = "running"
  BY <1>3
<1>8. CreateInv'
  <2>1. \A d \in Call : finding[d] \in Finding
    BY <1>0 DEF TypeOK
  <2> SUFFICES ASSUME NEW d \in Call, callPc'[d] = "create",
                      NEW i \in DOMAIN Requests(d)'
               PROVE  status'[Requests(d)'[i]] # "running"
    BY DEF CreateInv
  <2>2. d # c /\ callPc[d] = "create"
    BY <1>2
  <2>3. Requests(d)' = Requests(d)
    BY <1>1 DEF Requests
  <2>4. status[Requests(d)[i]] # "running"
    BY <1>0, <2>2, <2>3 DEF CreateInv
  <2>5. Requests(d)[i] \in Call
    BY <1>0, <2>1, <2>3, Lengths DEF Requests
  <2> QED
    BY <1>7, <2>3, <2>4, <2>5
<1>9. OnlyNewestRuns'
  BY <1>0, <1>1, <1>7, Lengths DEF OnlyNewestRuns
<1>10. OffsetInv' /\ SettledInv'
  BY <1>0, <1>1, <1>7, Lengths DEF OffsetInv, SettledInv
<1> QED
  BY <1>4, <1>5, <1>6, <1>8, <1>9, <1>10 DEF Inv

\* The dashboard's end releases the locks of calls that are no longer in a
\* transaction.
LEMMA CrashStep ==
  ASSUME Inv, DashboardCrash
  PROVE  Inv'
<1>0. TypeOK /\ LockInv /\ RowInv /\ CreateInv /\ OnlyNewestRuns /\ OffsetInv
        /\ SettledInv
  BY DEF Inv
<1>1. UNCHANGED <<finding, status, created, topic, committed, position, pc, msg,
                  starts, settled, unanswered>>
  BY DEF DashboardCrash, rows, checker
<1>2. /\ \A d \in Call : callPc'[d] \notin Active
      /\ \A d \in Call : callPc'[d] = "new" => callPc[d] = "new"
      /\ callPc' \in [Call -> Active \cup {"new", "duplicate", "returned",
                                           "raised", "lost"}]
      /\ lock' \in [Finding -> Call \cup {NoCall}]
  BY <1>0 DEF DashboardCrash, TypeOK, Active, InTransaction
<1>3. TypeOK'
  BY <1>0, <1>1, <1>2 DEF TypeOK
<1>4. LockInv' /\ CreateInv'
  BY <1>2 DEF LockInv, CreateInv, Active, InTransaction
<1>5. RowInv'
  BY <1>0, <1>1, <1>2 DEF RowInv, Active, InTransaction
<1>6. OnlyNewestRuns' /\ OffsetInv' /\ SettledInv'
  BY <1>0, <1>1 DEF OnlyNewestRuns, OffsetInv, SettledInv
<1> QED
  BY <1>3, <1>4, <1>5, <1>6 DEF Inv

-------------------------------------------------------------------------------
\* Deep checks start with the invariant.
LEMMA InvInit == Init => Inv
<1> SUFFICES ASSUME Init PROVE Inv
  OBVIOUS
<1> USE DEF Init
<1>1. TypeOK
  <2>1. created \in [Finding -> Seq(Call)] /\ topic \in Seq(Call)
    OBVIOUS
  <2>2. msg \in 0 .. MaxLen /\ starts \in 0 .. MaxStarts
    BY BoundsAssumption
  <2> QED
    BY <2>1, <2>2 DEF TypeOK, Status
<1>2. LockInv /\ RowInv /\ CreateInv /\ OnlyNewestRuns
  BY DEF LockInv, RowInv, CreateInv, OnlyNewestRuns, InTransaction, Requests
<1>3. OffsetInv /\ SettledInv
  BY BoundsAssumption DEF OffsetInv, SettledInv
<1> QED
  BY <1>1, <1>2, <1>3 DEF Inv

\* The inductive invariant of deep checks.
THEOREM Invariance == Spec => []Inv
<1>1. ASSUME Inv, [Next]_vars
      PROVE  Inv'
  <2>1. ASSUME NEW c \in Call, StartCall(c) \/ CallStep(c)
        PROVE  Inv'
    BY <1>1, <2>1, QuietStep, CreateStep, ProduceStep, MarkFailedStep
       DEF CallStep, Quiet
  <2>2. Checker => Inv'
    BY <1>1, TypeOfChecker, RowsOfChecker, OffsetsOfChecker DEF Inv
  <2>3. UNCHANGED vars => Inv'
    BY <1>1 DEF vars, dashboard, rows, checker, Inv, TypeOK, LockInv, RowInv,
       CreateInv, Requests, OnlyNewestRuns, OffsetInv, SettledInv
  <2> QED
    BY <1>1, <2>1, <2>2, <2>3, CrashStep DEF Next, Checker
<1> QED
  BY InvInit, <1>1, PTL DEF Spec

\* Every variable keeps its type, the offsets their bounds.
THEOREM TypeCorrectness == Spec => []TypeOK
<1>1. Inv => TypeOK
  BY DEF Inv
<1> QED
  BY Invariance, <1>1, PTL

\* However many calls are made for a finding and however late the answers
\* come, only its newest request can be running.
THEOREM OneRuns == Spec => []OnlyNewestRuns
<1>1. Inv => OnlyNewestRuns
  BY DEF Inv
<1> QED
  BY Invariance, <1>1, PTL

\* What the checker's group has left behind is answered, or its handler
\* gave no answer.
THEOREM Answered == Spec => []CommittedIsAnswered
<1>1. ASSUME Inv
      PROVE  CommittedIsAnswered
  <2>1. TypeOK /\ OffsetInv /\ SettledInv
    BY <1>1 DEF Inv
  <2>2. \A i \in 1 .. committed : i \in DOMAIN topic /\ i - 1 \in settled
    BY <2>1, Lengths DEF OffsetInv, TypeOK
  <2> QED
    BY <2>1, <2>2 DEF CommittedIsAnswered, SettledInv
<1> QED
  BY Invariance, <1>1, PTL

\* The checker implements the contract of its consumer group: a step settles
\* the message in hand, moves the committed offset past settled messages, or
\* is none of the contract's.
THEOREM Refinement == Spec => KeepsContract
<1> DEFINE done == {<<0, i>> : i \in settled}
           offset == [p \in {0} |-> committed]
<1>1. Init => Contract!Init
  BY DEF Init, Contract!Init
<1>2. ASSUME Inv, [Next]_vars
      PROVE  [Contract!Next]_<<done, offset>>
  <2>1. /\ Len(topic) \in Nat /\ committed \in Nat /\ position \in Nat
        /\ msg \in Nat /\ MaxLen \in Nat /\ Len(topic) <= MaxLen
    BY <1>2, Lengths, BoundsAssumption DEF Inv, OffsetInv
  <2>2. CASE \/ ProjectNotFound \/ ValidateFails \/ UpdateResult
             \/ UpdateStatus \/ UpdateStatusFails
    <3>1. /\ pc \notin {"down", "fetch"}
          /\ settled' = settled \cup {msg}
          /\ UNCHANGED committed
      BY <2>2 DEF ProjectNotFound, ValidateFails, UpdateResult, UpdateStatus,
                  UpdateStatusFails, Return
    <3>2. msg < Len(topic)
      BY <1>2, <3>1 DEF Inv, OffsetInv
    <3>3. msg \in 0 .. MaxLen - 1
      BY <2>1, <3>2
    <3>4. PICK m \in Contract!Message : m = <<0, msg>>
      BY <3>3 DEF Contract!Message
    <3>5. done' = done \cup {<<0, msg>>} /\ UNCHANGED offset
      BY <3>1
    <3>6. Contract!Settle(m)
      BY <3>4, <3>5 DEF Contract!Settle
    <3> QED
      BY <3>6 DEF Contract!Next
  <2>3. CASE CommitMessages
    <3>1. /\ pc = "commit"
          /\ committed' = msg + 1 \/ committed' = committed
          /\ UNCHANGED settled
      BY <2>3 DEF CommitMessages, CommitOffset
    <3>2. /\ position = msg + 1
          /\ msg < Len(topic)
          /\ committed <= msg
          /\ \A o \in 0 .. position - 1 : o \in settled
      BY <1>2, <3>1 DEF Inv, OffsetInv
    <3>3. CASE committed' = committed
      BY <3>1, <3>3
    <3>4. CASE committed' = msg + 1
      <4>1. msg + 1 \in 1 .. MaxLen /\ msg + 1 > committed
        BY <2>1, <3>2
      <4>2. \A i \in 0 .. msg : i \in settled
        BY <2>1, <3>2
      <4>3. \A i \in 0 .. (msg + 1) - 1 : <<0, i>> \in done
        BY <2>1, <4>2
      <4>4. offset' = [offset EXCEPT ![0] = msg + 1] /\ UNCHANGED done
        BY <3>1, <3>4
      <4>5. msg + 1 > offset[0]
        BY <4>1
      <4>6. Contract!Advance(0, msg + 1)
        BY <4>3, <4>4, <4>5 DEF Contract!Advance
      <4> QED
        BY <4>1, <4>6 DEF Contract!Next
    <3> QED
      BY <3>1, <3>3, <3>4
  <2>4. CASE UNCHANGED <<settled, committed>>
    BY <2>4
  <2>5. \/ ProjectNotFound \/ ValidateFails \/ UpdateResult
        \/ UpdateStatus \/ UpdateStatusFails
        \/ CommitMessages
        \/ UNCHANGED <<settled, committed>>
    BY <1>2
    DEF Next, Run, CallStep, StartCall, Lock, FindFirst, FindDuplicate, Create,
        Abort, Produce, MarkFailed, DashboardCrash, StartChecker, StopChecker,
        FetchMessage, Validate, RunAgent, UpdateResultFails, vars, checker
  <2> QED
    BY <2>2, <2>3, <2>4, <2>5
<1> QED
  BY <1>1, <1>2, Invariance, PTL DEF Spec, KeepsContract, Contract!Spec

===============================================================================
