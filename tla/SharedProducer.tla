----------------------------- MODULE SharedProducer -----------------------------
(***************************************************************************)
(* The dashboard has one Kafka producer.  Every call of produceAccessEvent,*)
(* produceCheckRequest and produceScanRequest connects it, sends one       *)
(* message and disconnects it again, and calls overlap: what one of them   *)
(* disconnects is the connection of all of them.                           *)
(*                                                                         *)
(* The connection is what kafkajs makes of it: send throws at once unless  *)
(* the status is CONNECTED, and a disconnect fails what is being sent, or  *)
(* lets it pass, or loses its acknowledgement.                             *)
(***************************************************************************)
EXTENDS Naturals, Sequences

CONSTANTS Call,     \* calls of the three functions
          Topic,    \* topics they send to
          TopicOf,  \* per call, its topic
          MaxLen    \* bound: messages in a topic

ASSUME TopicAssumption == TopicOf \in [Call -> Topic]

ASSUME LengthAssumption == MaxLen \in Nat

VARIABLES
  callPc,   \* where a call is
  connectionStatus,  \* status of the producer
  failed,   \* calls whose send has thrown
  cut,      \* calls that were disconnected while they sent
  topics,   \* per topic, the calls whose messages it holds
  overlap,  \* history: calls that were not alone
  fault     \* history: the broker or the network has failed

producer == <<callPc, connectionStatus, failed, cut, topics, overlap, fault>>
-------------------------------------------------------------------------------
Connecting == {"connecting"}

\* Between the answer to connect and the call of disconnect.
Using == {"ready", "sending", "closing"}

Active == Connecting \cup Using \cup {"disconnecting"}

Over == {"returned", "raised"}

ProducerInit == /\ callPc = [c \in Call |-> "new"]
                /\ connectionStatus = "DISCONNECTED"
                /\ failed = {}
                /\ cut = {}
                /\ topics = [t \in Topic |-> << >>]
                /\ overlap = {}
                /\ fault = FALSE

Go(c, label) == callPc' = [callPc EXCEPT ![c] = label]

Others(c) == {d \in Call \ {c} : callPc[d] \in Active}

\* await prod.connect() begins.
Connect(c) ==
  /\ callPc[c] = "new"
  /\ Go(c, "connecting")
  /\ overlap' = IF Others(c) = {} THEN overlap
                ELSE overlap \cup {c} \cup Others(c)
  /\ UNCHANGED <<connectionStatus, failed, cut, topics, fault>>

Connected(c) ==
  /\ callPc[c] = "connecting"
  /\ Go(c, "ready")
  /\ connectionStatus' = "CONNECTED"
  /\ UNCHANGED <<failed, cut, topics, overlap, fault>>

\* connect is called outside of the try: nothing is disconnected.
ConnectFails(c) ==
  /\ callPc[c] = "connecting"
  /\ Go(c, "raised")
  /\ fault' = TRUE
  /\ UNCHANGED <<connectionStatus, failed, cut, topics, overlap>>

Send(c) ==
  /\ callPc[c] = "ready"
  /\ connectionStatus = "CONNECTED"
  /\ Go(c, "sending")
  /\ UNCHANGED <<connectionStatus, failed, cut, topics, overlap, fault>>

\* Faulty variant: a failed send leaves the producer connected.
AfterFailureRaised == "raised"

\* finally: disconnected, whatever came of the send.
AfterFailure == "closing"

SendRefused(c) ==
  /\ callPc[c] = "ready"
  /\ connectionStatus # "CONNECTED"
  /\ Go(c, AfterFailure)
  /\ failed' = failed \cup {c}
  /\ UNCHANGED <<connectionStatus, cut, topics, overlap, fault>>

Write(c, copies) ==
  /\ Len(topics[TopicOf[c]]) + copies <= MaxLen
  /\ topics' = [topics EXCEPT ![TopicOf[c]] = @ \o [i \in 1 .. copies |-> c]]

\* The message is written, twice if an acknowledgement was lost on the way.
SendSucceeds(c) ==
  /\ callPc[c] = "sending"
  /\ \E copies \in 1 .. 2 : Write(c, copies)
  /\ Go(c, "closing")
  /\ UNCHANGED <<connectionStatus, failed, cut, overlap, fault>>

\* A send that fails may have been written.
SendFails(c) ==
  /\ callPc[c] = "sending"
  /\ \E copies \in 0 .. 1 : Write(c, copies)
  /\ Go(c, AfterFailure)
  /\ failed' = failed \cup {c}
  /\ fault' = (fault \/ c \notin cut)
  /\ UNCHANGED <<connectionStatus, cut, overlap>>

CutOff(c) == cut' = cut \cup {d \in Others(c) : callPc[d] = "sending"}

Disconnect(c) ==
  /\ callPc[c] = "closing"
  /\ Go(c, "disconnecting")
  /\ connectionStatus' = "DISCONNECTING"
  /\ CutOff(c)
  /\ UNCHANGED <<failed, topics, overlap, fault>>

Disconnected(c) ==
  /\ callPc[c] = "disconnecting"
  /\ Go(c, IF c \in failed THEN "raised" ELSE "returned")
  /\ connectionStatus' = "DISCONNECTED"
  /\ CutOff(c)
  /\ UNCHANGED <<failed, topics, overlap, fault>>

\* An error of disconnect hides the success of the send.
DisconnectFails(c) ==
  /\ callPc[c] = "disconnecting"
  /\ Go(c, "raised")
  /\ fault' = TRUE
  /\ UNCHANGED <<connectionStatus, failed, cut, topics, overlap>>

Produce(c) == \/ Connected(c)
              \/ ConnectFails(c)
              \/ Send(c)
              \/ SendRefused(c)
              \/ SendSucceeds(c)
              \/ SendFails(c)
              \/ Disconnect(c)
              \/ Disconnected(c)
              \/ DisconnectFails(c)

ProducerNext == \E c \in Call : Connect(c) \/ Produce(c)

ProducerSpec == ProducerInit /\ [][ProducerNext]_producer
-------------------------------------------------------------------------------
ProducerTypeOK ==
  /\ callPc \in [Call -> {"new"} \cup Active \cup Over]
  /\ connectionStatus \in {"CONNECTED", "DISCONNECTING", "DISCONNECTED"}
  /\ failed \in SUBSET Call
  /\ cut \in SUBSET Call
  /\ topics \in [Topic -> Seq(Call)]
  /\ overlap \in SUBSET Call
  /\ fault \in BOOLEAN

\* A call that fails was not alone, or the broker or network has failed:
\* nothing an earlier call left behind in the shared producer fails it.
FailureHasCause == \A c \in Call :
                     callPc[c] = "raised" => c \in overlap \/ fault

\* Without a call the producer is not connected: every path through the
\* three functions that has connected it disconnects it.
QuiescentClosed == (\A c \in Call : callPc[c] \notin Active) =>
                     connectionStatus # "CONNECTED"

ProducerIsShared == FailureHasCause /\ QuiescentClosed
===============================================================================
