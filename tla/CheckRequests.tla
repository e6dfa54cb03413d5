----------------------------- MODULE CheckRequests -----------------------------
(***************************************************************************)
(* Deep checks of a finding: createAICheckerRequest of the dashboard puts  *)
(* a row in ai_checker_requests and a message in sf-check-requests, and    *)
(* the ai-agent-checker runs the agent for the message and writes the      *)
(* answer into the row.  Table and topic are not updated together: either  *)
(* process can stop in between, a send or a query can fail after it took   *)
(* effect, and a message can be delivered again.                           *)
(*                                                                         *)
(* A call is identified by the request id it draws; the topic has one      *)
(* partition.                                                              *)
(***************************************************************************)
EXTENDS Naturals, Sequences

CONSTANTS Finding,    \* violations a check can be asked for
          Call,       \* calls of createAICheckerRequest
          NoCall,     \* no call holds the lock of a violation
          MaxLen,     \* bound: messages in the topic
          MaxStarts   \* bound: times the checker is started

ASSUME CallAssumption == NoCall \notin Call

ASSUME BoundsAssumption == MaxLen \in Nat /\ MaxStarts \in Nat

VARIABLES
  callPc,      \* where a call is
  finding,     \* the violation a call is about
  lock,        \* per violation, the call whose transaction has locked it
  status,      \* ai_checker_requests: status of the row with the call's id
  created,     \* per violation, its requests in the order of creation
  topic,       \* request ids sent
  committed,   \* committed offset of the checker's consumer group
  position,    \* offset the reader fetches next
  pc,          \* where the checker is, "down" without a process
  msg,         \* offset of the message being processed
  starts,      \* times the checker has been started
  settled,     \* history: offsets whose handler has returned
  unanswered   \* history: requests a handler returned for without an answer

dashboard == <<callPc, finding, lock>>
rows == <<status, created>>
checker == <<committed, position, pc, msg, starts, settled, unanswered>>
vars == <<dashboard, rows, topic, checker>>
-------------------------------------------------------------------------------
Status == {"none", "running", "complete", "failed"}

InTransaction == {"lock", "findFirst", "create"}

Active == InTransaction \cup {"produce", "markFailed"}

Requested == topic[msg + 1]

Init == /\ callPc = [c \in Call |-> "new"]
        /\ finding \in [Call -> Finding]
        /\ lock = [f \in Finding |-> NoCall]
        /\ status = [c \in Call |-> "none"]
        /\ created = [f \in Finding |-> << >>]
        /\ topic = << >>
        /\ committed = 0
        /\ position = 0
        /\ pc = "down"
        /\ msg = 0
        /\ starts = 0
        /\ settled = {}
        /\ unanswered = {}
-------------------------------------------------------------------------------
(* The dashboard: createAICheckerRequest.                                  *)

Goto(c, label) == callPc' = [callPc EXCEPT ![c] = label]

Unlock(c) == lock' = [lock EXCEPT ![finding[c]] = IF @ = c THEN NoCall ELSE @]

StartCall(c) ==
  /\ callPc[c] = "new"
  /\ Goto(c, "lock")
  /\ UNCHANGED <<finding, lock, rows, topic, checker>>

\* Faulty variant: the row of the violation is read without FOR UPDATE.
FreeAlways(f) == TRUE

Free(f) == lock[f] = NoCall

\* SELECT ... FOR UPDATE waits for the transaction that holds the row.
Lock(c) ==
  /\ callPc[c] = "lock"
  /\ Free(finding[c])
  /\ lock' = [lock EXCEPT ![finding[c]] = c]
  /\ Goto(c, "findFirst")
  /\ UNCHANGED <<finding, rows, topic, checker>>

Requests(c) == created[finding[c]]

Latest(c) == Requests(c)[Len(Requests(c))]

\* Only a failed check may be asked for again.
MayCreate(c) == Requests(c) # << >> => status[Latest(c)] = "failed"

FindFirst(c) ==
  /\ callPc[c] = "findFirst"
  /\ MayCreate(c)
  /\ Goto(c, "create")
  /\ UNCHANGED <<finding, lock, rows, topic, checker>>

\* DuplicateAICheckerRequestError rolls the transaction back.
FindDuplicate(c) ==
  /\ callPc[c] = "findFirst"
  /\ ~MayCreate(c)
  /\ Goto(c, "duplicate")
  /\ Unlock(c)
  /\ UNCHANGED <<finding, rows, topic, checker>>

\* The insert becomes visible when the transaction commits.  The answer to
\* the commit may be lost, and then nothing is sent.
Create(c) ==
  /\ callPc[c] = "create"
  /\ status' = [status EXCEPT ![c] = "running"]
  /\ created' = [created EXCEPT ![finding[c]] = Append(@, c)]
  /\ \E label \in {"produce", "raised"} : Goto(c, label)
  /\ Unlock(c)
  /\ UNCHANGED <<finding, topic, checker>>

\* The transaction fails or times out, waiting for the lock included.
Abort(c) ==
  /\ callPc[c] \in InTransaction
  /\ Goto(c, "raised")
  /\ Unlock(c)
  /\ UNCHANGED <<finding, rows, topic, checker>>

\* A send that reports success has written the message, twice if the first
\* acknowledgement was lost; one that reports failure may have written it.
Produce(c) ==
  /\ callPc[c] = "produce"
  /\ \E copies \in 0 .. 2 :
       /\ Len(topic) + copies <= MaxLen
       /\ topic' = topic \o [i \in 1 .. copies |-> c]
       /\ \/ copies > 0 /\ Goto(c, "returned")
          \/ Goto(c, "markFailed")
  /\ UNCHANGED <<finding, lock, rows, checker>>

\* The update is not conditional; it may fail, and then nothing follows.
MarkFailed(c) ==
  /\ callPc[c] = "markFailed"
  /\ \/ status' = [status EXCEPT ![c] = "failed"]
     \/ UNCHANGED status
  /\ Goto(c, "raised")
  /\ UNCHANGED <<finding, lock, created, topic, checker>>

\* The dashboard stops: open transactions are rolled back.
DashboardCrash ==
  /\ \E c \in Call : callPc[c] \in Active
  /\ callPc' = [c \in Call |-> IF callPc[c] \in Active THEN "lost"
                                                       ELSE callPc[c]]
  /\ lock' = [f \in Finding |-> NoCall]
  /\ UNCHANGED <<finding, rows, topic, checker>>
-------------------------------------------------------------------------------
(* The checker: Run and processMessage.                                    *)

StartChecker ==
  /\ pc = "down"
  /\ starts < MaxStarts
  /\ starts' = starts + 1
  /\ position' = committed
  /\ pc' = "fetch"
  /\ UNCHANGED <<dashboard, rows, topic, committed, msg, settled, unanswered>>

\* A crash, or a signal: main returns without waiting for the consumer.
StopChecker ==
  /\ pc # "down"
  /\ pc' = "down"
  /\ UNCHANGED <<dashboard, rows, topic, committed, position, msg, starts,
                 settled, unanswered>>

FetchMessage ==
  /\ pc = "fetch"
  /\ position < Len(topic)
  /\ msg' = position
  /\ position' = position + 1
  /\ pc' = "validate"
  /\ UNCHANGED <<dashboard, rows, topic, committed, starts, settled,
                 unanswered>>

\* The handler returns: with an error, back to fetch; else on to the commit.
Return(label) ==
  /\ pc' = label
  /\ settled' = settled \cup {msg}
  /\ UNCHANGED <<dashboard, created, topic, committed, position, msg, starts>>

GiveNoAnswer == unanswered' = unanswered \cup {Requested}

\* The project directory is there.
Validate ==
  /\ pc = "validate"
  /\ pc' = "run"
  /\ UNCHANGED <<dashboard, rows, topic, committed, position, msg, starts,
                 settled, unanswered>>

\* ErrProjectNotFound: committed, and the row is left as it is.
ProjectNotFound ==
  /\ pc = "validate"
  /\ Return("commit")
  /\ GiveNoAnswer
  /\ UNCHANGED status

\* Any other error of Stat: not committed.
ValidateFails ==
  /\ pc = "validate"
  /\ Return("fetch")
  /\ GiveNoAnswer
  /\ UNCHANGED status

\* The agent ends with an answer that parses, or it does not.
RunAgent ==
  /\ pc = "run"
  /\ pc' \in {"updateResult", "updateStatus"}
  /\ UNCHANGED <<dashboard, rows, topic, committed, position, msg, starts,
                 settled, unanswered>>

UpdateResult ==
  /\ pc = "updateResult"
  /\ status' = [status EXCEPT ![Requested] = "complete"]
  /\ Return("commit")
  /\ UNCHANGED unanswered

\* The update reports an error, whether or not it took effect.
UpdateResultFails ==
  /\ pc = "updateResult"
  /\ \/ status' = [status EXCEPT ![Requested] = "complete"]
     \/ UNCHANGED status
  /\ pc' = "updateStatus"
  /\ UNCHANGED <<dashboard, created, topic, committed, position, msg, starts,
                 settled, unanswered>>

\* Faulty variant: a failed run leaves the row as it is.
FailedStatusSkipped == status

FailedStatus == [status EXCEPT ![Requested] = "failed"]

UpdateStatus ==
  /\ pc = "updateStatus"
  /\ status' = FailedStatus
  /\ Return("commit")
  /\ UNCHANGED unanswered

UpdateStatusFails ==
  /\ pc = "updateStatus"
  /\ status' \in {status, FailedStatus}
  /\ Return("commit")
  /\ GiveNoAnswer

\* Faulty variant: the offset committed is one too far.
CommitOffsetPastNext == msg + 2

\* The offset to resume from is the one after the message.
CommitOffset == msg + 1

CommitMessages ==
  /\ pc = "commit"
  /\ \/ committed' = CommitOffset
     \/ UNCHANGED committed
  /\ pc' = "fetch"
  /\ UNCHANGED <<dashboard, rows, topic, position, msg, starts, settled,
                 unanswered>>
-------------------------------------------------------------------------------
CallStep(c) == \/ Lock(c)
               \/ FindFirst(c)
               \/ FindDuplicate(c)
               \/ Create(c)
               \/ Abort(c)
               \/ Produce(c)
               \/ MarkFailed(c)

Run == \/ FetchMessage
       \/ Validate
       \/ ProjectNotFound
       \/ ValidateFails
       \/ RunAgent
       \/ UpdateResult
       \/ UpdateResultFails
       \/ UpdateStatus
       \/ UpdateStatusFails
       \/ CommitMessages

Next == \/ \E c \in Call : StartCall(c)
        \/ \E c \in Call : CallStep(c)
        \/ DashboardCrash
        \/ StartChecker
        \/ StopChecker
        \/ Run

\* A call goes on once started, and so does the checker; that the agent it
\* runs ends is an assumption, the code sets no time limit.
Fairness == /\ \A c \in Call : WF_vars(CallStep(c))
            /\ WF_vars(Run)

Spec == Init /\ [][Next]_vars

FairSpec == Spec /\ Fairness
-------------------------------------------------------------------------------
TypeOK ==
  /\ callPc \in [Call -> Active \cup {"new", "duplicate", "returned", "raised",
                                      "lost"}]
  /\ finding \in [Call -> Finding]
  /\ lock \in [Finding -> Call \cup {NoCall}]
  /\ status \in [Call -> Status]
  /\ created \in [Finding -> Seq(Call)]
  /\ topic \in Seq(Call)
  /\ committed \in 0 .. Len(topic)
  /\ position \in 0 .. Len(topic)
  /\ pc \in {"down", "fetch", "validate", "run", "updateResult",
             "updateStatus", "commit"}
  /\ msg \in 0 .. MaxLen
  /\ starts \in 0 .. MaxStarts
  /\ settled \in SUBSET (0 .. MaxLen)
  /\ unanswered \in SUBSET Call

\* "Thrown when the latest AI checker request for this finding is not failed
\* (running or complete)": of the requests of one finding only the newest
\* can be running, however many calls and late answers there are.
OnlyNewestRuns ==
  \A f \in Finding : \A i \in 1 .. Len(created[f]) - 1 :
    status[created[f][i]] # "running"

\* A request whose message the group has left behind does not stay running,
\* unless its handler gave no answer: the project was missing, the handler
\* returned an error, or the last update failed.
CommittedIsAnswered ==
  \A i \in 1 .. committed :
    status[topic[i]] = "running" => topic[i] \in unanswered

Contract == INSTANCE ConsumerContract
              WITH Partition <- {0},
                   settled <- {<<0, i>> : i \in settled},
                   committed <- [p \in {0} |-> committed]

\* The checker keeps the contract of its consumer group.
KeepsContract == Contract!Spec

\* While the checker stays up, a running request gets its answer, unless
\* the call that made it failed or was lost before the send, or a handler
\* returned for it without an answer.
RunningIsAnswered ==
  <>[](pc # "down") =>
    \A c \in Call :
      status[c] = "running" ~> \/ status[c] # "running"
                               \/ callPc[c] \in {"raised", "lost"}
                               \/ c \in unanswered
===============================================================================
