------------------------------ MODULE ScanRequests ------------------------------
(***************************************************************************)
(* Learning scans: the settings are stored, "Run Learning Process" reads   *)
(* them and queues a message through the shared producer, and the scan     *)
(* consumer of the engine runs the role scan and then the ownership scan   *)
(* with them.  Two of the four parameters are integers to the engine, and  *)
(* it ignores the whole message when one of them is not.                   *)
(***************************************************************************)
EXTENDS SharedProducer, ScanSettings

CONSTANTS ScanTopic,      \* the topic of scan requests
          Document,       \* values the row of the settings can be found with
          Form,           \* numbers a form can be submitted with
          EngineDefaults, \* parameters from the environment of the engine
          NoRow,          \* no row of settings, no payload
          MaxSaves,       \* bound: saves of the settings
          MaxStarts       \* bound: times the engine is started

ASSUME ScanAssumption ==
  /\ ScanTopic \in Topic
  /\ Document \subseteq Documents
  /\ NoRow \notin Documents
  /\ Form \subseteq Settings
  /\ EngineDefaults \in Settings
  /\ MaxSaves \in Nat
  /\ MaxStarts \in Nat

VARIABLES
  configuration,  \* row "detection.learning_scan", or NoRow
  payload,        \* per call, the settings its message carries
  saves,          \* saves so far
  committed,      \* committed offset of the scan consumer
  position,       \* offset the reader fetches next
  pc,             \* where the scan consumer is, "down" without a process
  msg,            \* offset of the message in hand
  rbacParams,     \* parameters of the role scan
  idorParams,     \* parameters of the ownership scan
  starts,         \* times the engine has been started
  settled,        \* history: offsets the loop has gone on from
  whole           \* history: offsets for which both scans succeeded

settings == <<configuration, saves>>
engine == <<committed, position, pc, msg, rbacParams, idorParams, starts,
            settled, whole>>
vars == <<producer, payload, settings, engine>>
-------------------------------------------------------------------------------
getLearningScanSettings ==
  IF configuration = NoRow THEN DEFAULT_LEARNING_SCAN_SETTINGS
  ELSE parseLearningScanSettingsValue(configuration)

Init == /\ ProducerInit
        /\ configuration \in Document \cup {NoRow}
        /\ payload = [c \in Call |-> NoRow]
        /\ saves = 0
        /\ committed = 0
        /\ position = 0
        /\ pc = "down"
        /\ msg = 0
        /\ rbacParams = EngineDefaults
        /\ idorParams = EngineDefaults
        /\ starts = 0
        /\ settled = {}
        /\ whole = {}
-------------------------------------------------------------------------------
(* An administrator saves; the form is parsed as a document would be.       *)

upsertLearningScanSettings(form) ==
  /\ saves < MaxSaves
  /\ saves' = saves + 1
  /\ configuration' = parseLearningScanSettingsValue(form)
  /\ UNCHANGED <<producer, payload, engine>>
-------------------------------------------------------------------------------
(* "Run Learning Process", and the calls that send other messages.         *)

RunLearningProcess(c) ==
  /\ TopicOf[c] = ScanTopic
  /\ payload[c] = NoRow
  /\ payload' = [payload EXCEPT ![c] = getLearningScanSettings]
  /\ UNCHANGED <<producer, settings, engine>>

produceScanRequest(c) == /\ payload[c] # NoRow
                         /\ Connect(c)
                         /\ UNCHANGED <<payload, settings, engine>>

produceOther(c) == /\ TopicOf[c] # ScanTopic
                   /\ Connect(c)
                   /\ UNCHANGED <<payload, settings, engine>>

GoOn(c) == /\ Produce(c)
           /\ UNCHANGED <<payload, settings, engine>>
-------------------------------------------------------------------------------
(* The scan consumer: Run.                                                 *)

dashboard == <<producer, payload, settings>>

StartEngine ==
  /\ pc = "down"
  /\ starts < MaxStarts
  /\ starts' = starts + 1
  /\ position' = committed
  /\ pc' = "fetch"
  /\ UNCHANGED <<dashboard, committed, msg, rbacParams, idorParams, settled,
                 whole>>

StopEngine ==
  /\ pc # "down"
  /\ pc' = "down"
  /\ UNCHANGED <<dashboard, committed, position, msg, rbacParams, idorParams,
                 starts, settled, whole>>

\* json.Unmarshal into the integer fields fails on a fraction.
Decodes(s) == \A k \in IntKey : s[k] % 2 = 0

Override(s) == IF Decodes(s) THEN s ELSE EngineDefaults

RbacKey == IntKey \cup {"violation_threshold_percent"}

IdorKey == IntKey \cup {"resource_dominance_percent"}

Only(keys, s) == [k \in Key |-> IF k \in keys THEN s[k] ELSE EngineDefaults[k]]

\* Faulty variant: the reader waits for one message more.
HasNextButLast == position + 1 < Len(topics[ScanTopic])

HasNext == position < Len(topics[ScanTopic])

FetchMessage ==
  /\ pc = "fetch"
  /\ HasNext
  /\ LET request == Override(payload[topics[ScanTopic][position + 1]])
     IN  /\ rbacParams' = Only(RbacKey, request)
         /\ idorParams' = Only(IdorKey, request)
  /\ msg' = position
  /\ position' = position + 1
  /\ pc' = "rbac"
  /\ UNCHANGED <<dashboard, committed, starts, settled, whole>>

\* The loop goes on after an error that is only logged.
Continue ==
  /\ pc' = "fetch"
  /\ settled' = settled \cup {msg}
  /\ UNCHANGED <<dashboard, position, msg, rbacParams, idorParams, starts>>

RbacScan ==
  /\ pc = "rbac"
  /\ pc' = "idor"
  /\ UNCHANGED <<dashboard, committed, position, msg, rbacParams, idorParams,
                 starts, settled, whole>>

RbacScanFails == /\ pc = "rbac"
                 /\ Continue
                 /\ UNCHANGED <<committed, whole>>

IdorScan ==
  /\ pc = "idor"
  /\ pc' = "commit"
  /\ whole' = whole \cup {msg}
  /\ settled' = settled \cup {msg}
  /\ UNCHANGED <<dashboard, committed, position, msg, rbacParams, idorParams,
                 starts>>

\* Faulty variant: the error of the ownership scan is only logged.
AfterIdorFailureCommit == "commit"

AfterIdorFailure == "fetch"

IdorScanFails ==
  /\ pc = "idor"
  /\ pc' = AfterIdorFailure
  /\ settled' = settled \cup {msg}
  /\ UNCHANGED <<dashboard, committed, position, msg, rbacParams, idorParams,
                 starts, whole>>

\* Faulty variant: the commit covers the next message too.
CommitOffsetTooFar == msg + 2

CommitOffset == msg + 1

CommitMessages ==
  /\ pc = "commit"
  /\ committed' \in {committed, CommitOffset}
  /\ pc' = "fetch"
  /\ UNCHANGED <<dashboard, position, msg, rbacParams, idorParams, starts,
                 settled, whole>>
-------------------------------------------------------------------------------
Run == \/ FetchMessage
       \/ RbacScan
       \/ RbacScanFails
       \/ IdorScan
       \/ IdorScanFails
       \/ CommitMessages

Next == \/ \E form \in Form : upsertLearningScanSettings(form)
        \/ \E c \in Call : \/ RunLearningProcess(c)
                           \/ produceScanRequest(c)
                           \/ produceOther(c)
                           \/ GoOn(c)
        \/ StartEngine
        \/ StopEngine
        \/ Run

\* The loop of the consumer goes on while it can; that a scan ends is an
\* assumption, the queries have no time limit.
Fairness == WF_vars(Run)

Spec == Init /\ [][Next]_vars

FairSpec == Spec /\ Fairness
-------------------------------------------------------------------------------
TypeOK ==
  /\ ProducerTypeOK
  /\ payload \in [Call -> Settings \cup {NoRow}]
  /\ configuration \in Documents \cup {NoRow}
  /\ saves \in 0 .. MaxSaves
  /\ committed \in 0 .. MaxLen
  /\ position \in 0 .. MaxLen
  /\ pc \in {"down", "fetch", "rbac", "idor", "commit"}
  /\ msg \in 0 .. MaxLen
  /\ rbacParams \in Settings
  /\ idorParams \in Settings
  /\ starts \in 0 .. MaxStarts
  /\ settled \in SUBSET (0 .. MaxLen)
  /\ whole \in SUBSET (0 .. MaxLen)

\* "They override the detection engine defaults for that run only": whatever
\* was typed into the form or stands in the row, both scans of a message run
\* with the parameters its call found saved, all within the bounds.
ScanParamsAreSaved ==
  pc \in {"rbac", "idor"} =>
    LET saved == payload[topics[ScanTopic][msg + 1]]
    IN  /\ InBounds(saved)
        /\ rbacParams = Only(RbacKey, saved)
        /\ idorParams = Only(IdorKey, saved)

\* A role scan whose ownership scan failed is never the last word: the
\* message the group resumes behind has had both scans succeed, although
\* messages before it may have had one or none.
LastCommittedIsWhole == committed > 0 => committed - 1 \in whole

Contract == INSTANCE ConsumerContract
              WITH Partition <- {0},
                   settled <- {<<0, i>> : i \in settled},
                   committed <- [p \in {0} |-> committed]

\* The scan consumer keeps the contract of its consumer group.
KeepsContract == Contract!Spec

\* "The detection engine will process it shortly": while the engine stays
\* up, a scan whose call has returned is attempted, and again after each
\* crash before the commit.
QueuedIsAttempted ==
  <>[](pc # "down") =>
    \A c \in Call :
      callPc[c] = "returned" /\ TopicOf[c] = ScanTopic ~>
        \E i \in 1 .. Len(topics[ScanTopic]) :
          topics[ScanTopic][i] = c /\ i - 1 \in settled
===============================================================================
