--------------------------- MODULE RequestConsumer ---------------------------
(***************************************************************************)
(* The request-log consumer of the detection engine: one goroutine that    *)
(* fetches access events from the partitions of sf-events-access, stores a *)
(* request_logs row for each, runs the detectors, stores the violations    *)
(* they report and commits the offset.  What the detectors answer depends  *)
(* on caches modelled elsewhere, so here DetectAll may report any types.   *)
(*                                                                         *)
(* The broker keeps a message for good; what moves is the offset the       *)
(* reader hands out next (position, lost with the process) and the offset  *)
(* the group resumes from (committed, kept by the broker).                 *)
(***************************************************************************)
EXTENDS Naturals, Sequences

CONSTANTS Partition,    \* partitions of the topic assigned to the engine
          MaxLen,       \* bound: messages produced to one partition
          MaxStarts     \* bound: times the engine process is started

ASSUME BoundsAssumption == MaxLen \in Nat /\ MaxStarts \in Nat

VARIABLES
  topic,       \* per partition, the sequence of events produced
  committed,   \* per partition, the committed offset of the consumer group
  position,    \* per partition, the offset the reader fetches next
  pc,          \* where the consumer goroutine is, "down" without a process
  msg,         \* the message being processed, NoMessage between two of them
  found,       \* violation types reported for msg and not yet inserted
  cancelled,   \* the context of the process has been cancelled
  starts,      \* times the process has been started
  outcome,     \* history: how the last processMessage of a message ended
  requestLogs, \* request_logs rows stored for a message
  violations   \* violations rows stored for a message, by type

broker == <<topic, committed>>
tables == <<requestLogs, violations>>
vars == <<topic, committed, position, pc, msg, found, cancelled, starts,
          outcome, requestLogs, violations>>
------------------------------------------------------------------------------
\* What is left of an access event: it does not parse, it carries neither
\* user_id nor role, or it identifies its sender.
EventKind == {"malformed", "anonymous", "identified"}

ViolationType == {"vertical_idor", "horizontal_idor"}

Message == Partition \X (0 .. MaxLen - 1)

NoMessage == << >>

Offset(m) == m[2]

Produced(m) == Offset(m) < Len(topic[m[1]])

Kind(m) == topic[m[1]][Offset(m) + 1]

InFlight == pc \in {"process", "detect", "violations", "commit"}

Init == /\ topic = [p \in Partition |-> << >>]
        /\ committed = [p \in Partition |-> 0]
        /\ position = [p \in Partition |-> 0]
        /\ pc = "down"
        /\ msg = NoMessage
        /\ found = {}
        /\ cancelled = FALSE
        /\ starts = 0
        /\ outcome = [m \in Message |-> "none"]
        /\ requestLogs = [m \in Message |-> 0]
        /\ violations = [m \in Message |-> [t \in ViolationType |-> 0]]
------------------------------------------------------------------------------
(* The environment: the dashboard produces, the process starts and stops.  *)

\* produceAccessEvent appends an event, whether or not the engine is up.
Produce(p, kind) ==
  /\ Len(topic[p]) < MaxLen
  /\ topic' = [topic EXCEPT ![p] = Append(@, kind)]
  /\ UNCHANGED <<committed, position, pc, msg, found, cancelled, starts,
                 outcome, tables>>

\* Faulty variant: the reader is opened at the first offset of the topic.
ResumeFromFirst == [p \in Partition |-> 0]

\* Faulty variant: the reader is opened at the end of the topic.
ResumeFromLast == [p \in Partition |-> Len(topic[p])]

\* A reader with a GroupID resumes from what the group has committed.
Resume == committed

Start ==
  /\ pc = "down"
  /\ starts < MaxStarts
  /\ starts' = starts + 1
  /\ position' = Resume
  /\ pc' = "select"
  /\ cancelled' = FALSE
  /\ UNCHANGED <<broker, msg, found, outcome, tables>>

\* SIGINT or SIGTERM: cancel() marks the context, nothing stops yet.
Cancel ==
  /\ pc # "down"
  /\ ~cancelled
  /\ cancelled' = TRUE
  /\ UNCHANGED <<broker, position, pc, msg, found, starts, outcome, tables>>

Stop ==
  /\ pc' = "down"
  /\ msg' = NoMessage
  /\ found' = {}
  /\ UNCHANGED <<broker, position, cancelled, starts, outcome, tables>>

\* main waits for ctx.Done() only, which is ready as soon as it has
\* cancelled: it returns wherever the consumer goroutine happens to be.
Exit == pc # "down" /\ cancelled /\ Stop

Crash == pc # "down" /\ ~cancelled /\ Stop
------------------------------------------------------------------------------
(* The consumer goroutine: Run and processMessage.                         *)

\* The head of the loop: return when the context is cancelled.
Select ==
  /\ pc = "select"
  /\ pc' = IF cancelled THEN "returned" ELSE "fetch"
  /\ UNCHANGED <<broker, position, msg, found, cancelled, starts, outcome,
                 tables>>

\* FetchMessage hands out the next message of some partition.  A failed
\* fetch goes round the loop and changes nothing.
FetchMessage(p) ==
  /\ pc = "fetch"
  /\ position[p] < Len(topic[p])
  /\ msg' = <<p, position[p]>>
  /\ position' = [position EXCEPT ![p] = @ + 1]
  /\ pc' = "process"
  /\ UNCHANGED <<broker, found, cancelled, starts, outcome, tables>>

FetchCancelled ==
  /\ pc = "fetch"
  /\ cancelled
  /\ pc' = "returned"
  /\ UNCHANGED <<broker, position, msg, found, cancelled, starts, outcome,
                 tables>>

\* Faulty variant: the message that failed is fetched once more.
GiveUpAndRetry ==
  /\ outcome' = [outcome EXCEPT ![msg] = "refused"]
  /\ pc' = "select"
  /\ msg' = NoMessage
  /\ position' = [position EXCEPT ![msg[1]] = @ - 1]
  /\ UNCHANGED <<broker, found, cancelled, starts, violations>>

\* processMessage returns an error: Run logs it and goes on without a commit.
GiveUp ==
  /\ outcome' = [outcome EXCEPT ![msg] = "refused"]
  /\ pc' = "select"
  /\ msg' = NoMessage
  /\ UNCHANGED <<broker, position, found, cancelled, starts, violations>>

ProcessMalformed ==
  /\ pc = "process"
  /\ Kind(msg) = "malformed"
  /\ GiveUp
  /\ UNCHANGED requestLogs

\* Without user_id and role nothing is stored; the message is committed.
ProcessAnonymous ==
  /\ pc = "process"
  /\ Kind(msg) = "anonymous"
  /\ outcome' = [outcome EXCEPT ![msg] = "skipped"]
  /\ pc' = "commit"
  /\ UNCHANGED <<broker, position, msg, found, cancelled, starts, tables>>

InsertRequestLog ==
  /\ pc = "process"
  /\ Kind(msg) = "identified"
  /\ ~cancelled
  /\ requestLogs' = [requestLogs EXCEPT ![msg] = @ + 1]
  /\ outcome' = [outcome EXCEPT ![msg] = "stored"]
  /\ pc' = "detect"
  /\ UNCHANGED <<broker, position, msg, found, cancelled, starts, violations>>

\* The insert returns an error; the row may have been written all the same
\* when only the answer of the database was lost.
InsertRequestLogFails ==
  /\ pc = "process"
  /\ Kind(msg) = "identified"
  /\ \E written \in {0, 1} :
       requestLogs' = [requestLogs EXCEPT ![msg] = @ + written]
  /\ GiveUp

DetectAll ==
  /\ pc = "detect"
  /\ found' \in SUBSET ViolationType
  /\ pc' = "violations"
  /\ UNCHANGED <<broker, position, msg, cancelled, starts, outcome, tables>>

\* DetectAll reports the vertical violation before the horizontal one.
NextViolation == IF "vertical_idor" \in found THEN "vertical_idor"
                                              ELSE "horizontal_idor"

\* Faulty variant: the loop does not move on to the next violation.
RemainingSame == found

Remaining == found \ {NextViolation}

\* An insert that fails is logged and forgotten: the loop goes on.
InsertViolation ==
  /\ pc = "violations"
  /\ found # {}
  /\ \E written \in IF cancelled THEN {0} ELSE {0, 1} :
       /\ violations' =
            [violations EXCEPT ![msg][NextViolation] = @ + written]
       /\ found' = Remaining
  /\ UNCHANGED <<broker, position, pc, msg, cancelled, starts, outcome,
                 requestLogs>>

ViolationsDone ==
  /\ pc = "violations"
  /\ found = {}
  /\ pc' = "commit"
  /\ UNCHANGED <<broker, position, msg, found, cancelled, starts, outcome,
                 tables>>

\* Faulty variant: the offset committed is one too far.
CommitOffsetPastNext(m) == Offset(m) + 2

\* The offset to resume from is the one after the message.
CommitOffset(m) == Offset(m) + 1

\* A commit that fails is logged; the broker may have recorded it anyway.
CommitMessages ==
  /\ pc = "commit"
  /\ \/ committed' = [committed EXCEPT ![msg[1]] = CommitOffset(msg)]
     \/ UNCHANGED committed
  /\ pc' = "select"
  /\ msg' = NoMessage
  /\ UNCHANGED <<topic, position, found, cancelled, starts, outcome, tables>>
------------------------------------------------------------------------------
Environment == \/ \E p \in Partition, kind \in EventKind : Produce(p, kind)
               \/ Start
               \/ Cancel
               \/ Exit
               \/ Crash

Run == \/ Select
       \/ \E p \in Partition : FetchMessage(p)
       \/ FetchCancelled
       \/ ProcessMalformed
       \/ ProcessAnonymous
       \/ InsertRequestLog
       \/ InsertRequestLogFails
       \/ DetectAll
       \/ InsertViolation
       \/ ViolationsDone
       \/ CommitMessages

Next == Environment \/ Run

\* The goroutine is scheduled while its process lives; nothing in the code
\* restarts a process that has stopped.
Fairness == WF_vars(Run)

Spec == Init /\ [][Next]_vars

FairSpec == Spec /\ Fairness
------------------------------------------------------------------------------
TypeOK ==
  /\ topic \in [Partition -> Seq(EventKind)]
  /\ committed \in [Partition -> 0 .. MaxLen]
  /\ position \in [Partition -> 0 .. MaxLen]
  /\ pc \in {"down", "select", "fetch", "process", "detect", "violations",
             "commit", "returned"}
  /\ msg \in Message \cup {NoMessage}
  /\ found \in SUBSET ViolationType
  /\ cancelled \in BOOLEAN
  /\ starts \in 0 .. MaxStarts
  /\ outcome \in [Message -> {"none", "stored", "skipped", "refused"}]
  /\ requestLogs \in [Message -> Nat]
  /\ violations \in [Message -> [ViolationType -> Nat]]

\* An event the group will not see again has left its trace: it is stored,
\* or it was anonymous, or its handler returned an error.  A commit covers
\* every lower offset of the partition, so this is about the messages the
\* loop left behind without committing them and about restarts in between.
CommittedIsAccounted ==
  \A m \in Message :
    Offset(m) < committed[m[1]] =>
      \/ requestLogs[m] >= 1
      \/ Kind(m) = "anonymous"
      \/ outcome[m] = "refused"

\* One start of the engine stores an event at most once: duplicates come
\* only from a restart that finds the event uncommitted.
OneRowPerStart == \A m \in Message : requestLogs[m] <= starts

\* A violation always has a request_logs row of its own to refer to: no
\* event has more violations of a type than it has rows.
ViolationsHaveRows ==
  \A m \in Message, t \in ViolationType : violations[m][t] <= requestLogs[m]

\* What lies below the committed offset is never touched again: no late row
\* and no late violation, across any number of crashes.
CommittedIsFinal ==
  [][\A m \in Message :
       Offset(m) < committed[m[1]] =>
         /\ requestLogs'[m] = requestLogs[m]
         /\ violations'[m] = violations[m]]_vars

\* The handler has returned for a message at least once.
Settled == {m \in Message : outcome[m] # "none"}

Contract == INSTANCE ConsumerContract WITH settled <- Settled

\* The consumer keeps the contract of the group: it commits only past
\* messages whose handler has returned, and never moves an offset back.
KeepsContract == Contract!Spec

\* If the engine stays up, every event produced is eventually handled:
\* neither a bad event nor a failing database stops the loop.
EventuallyHandled ==
  <>[](pc # "down" /\ ~cancelled) =>
    \A m \in Message : Produced(m) ~> outcome[m] # "none"
==============================================================================
