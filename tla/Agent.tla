-------------------------------- MODULE Agent --------------------------------
(***************************************************************************)
(* The agent: a reverse proxy whose backend and identity resolver are      *)
(* replaced while it serves.  A poller fetches the settings the dashboard  *)
(* keeps for the agent and runs a callback when they change; every         *)
(* response starts a goroutine that resolves who asked and publishes an    *)
(* event; a bounded queue and one worker carry the events to the           *)
(* dashboard, which produces those with an identity to Kafka.              *)
(*                                                                         *)
(* A configuration stands for its backend url, identity endpoint and       *)
(* mapping together, which is what the version the poller compares hashes. *)
(***************************************************************************)
EXTENDS Naturals, Sequences

CONSTANTS Config,      \* configurations an agent can be given
          Fetchable,   \* those with both addresses and a mapping that parses
          Valid,       \* those whose backend url parses as well
          Request,     \* requests the agent is sent
          WithHeader,  \* those that carry X-User-Id already
          None,        \* no configuration, no identity, no event
          Gateway,     \* the identity the header gives
          Capacity,    \* length of the sink's queue
          MaxChanges,  \* bound: changes of the settings
          MaxStarts    \* bound: times the agent is started

ASSUME ConfigAssumption == /\ Valid \subseteq Fetchable
                           /\ Fetchable \subseteq Config
                           /\ None \notin Config \cup Request \cup {Gateway}
                           /\ Gateway \notin Config

ASSUME BoundsAssumption == Capacity \in Nat /\ MaxChanges \in Nat
                                            /\ MaxStarts \in Nat

VARIABLES
  settings,    \* dashboard: configuration of the agent, None once deleted
  changes,     \* times the settings have been changed
  main,        \* where the agent's main is
  starts,      \* times the agent has been started
  latest,      \* poller: configuration fetched last
  fetched,     \* poller: configuration just fetched, not yet compared
  pending,     \* per configuration, callbacks that have not run
  overlapped,  \* history: the last callback was started beside another
  active,      \* proxy: configurations of its backend and its resolver
  reqPc,       \* where a request is
  snapshot,    \* per request, what ServeHTTP read of active
  identity,    \* per request, whose word its event's identity is
  queue,       \* sink: events queued
  worker,      \* sink: the event being posted
  inbox,       \* dashboard: events received and not yet handled
  topic,       \* sf-events-access
  published,   \* history: events in the order they were queued
  late         \* history: events the worker left unanswered

dashboard == <<settings, changes>>
poller == <<latest, fetched, pending, overlapped>>
requests == <<reqPc, snapshot, identity>>
sink == <<queue, worker, published, late>>
ingest == <<inbox, topic>>
vars == <<dashboard, main, starts, poller, active, requests, sink, ingest>>
-------------------------------------------------------------------------------
Up == main \in {"serving", "draining", "closed"}

Both(c) == [proxy |-> c, resolver |-> c]

Queued == {queue[i] : i \in DOMAIN queue}

Quiet == \A c \in Config : pending[c] = 0

Init == /\ settings \in Config
        /\ changes = 0
        /\ main = "down"
        /\ starts = 0
        /\ latest = None
        /\ fetched = None
        /\ pending = [c \in Config |-> 0]
        /\ overlapped = FALSE
        /\ active = Both(None)
        /\ reqPc = [r \in Request |-> "new"]
        /\ snapshot = [r \in Request |-> Both(None)]
        /\ identity = [r \in Request |-> None]
        /\ queue = << >>
        /\ worker = None
        /\ inbox = {}
        /\ topic = << >>
        /\ published = << >>
        /\ late = {}
-------------------------------------------------------------------------------
(* The dashboard's side of the settings.                                   *)

UpdateAgentById ==
  /\ settings # None
  /\ changes < MaxChanges
  /\ changes' = changes + 1
  /\ settings' \in Config
  /\ UNCHANGED <<main, starts, poller, active, requests, sink, ingest>>

DeleteAgentById ==
  /\ settings # None
  /\ settings' = None
  /\ UNCHANGED <<changes, main, starts, poller, active, requests, sink, ingest>>
-------------------------------------------------------------------------------
(* main: start, shutdown, end of the process.                              *)

\* FetchOnce, NewReverseProxy and ApplyRemoteConfig come before the first
\* request and the first poll; each of the first two ends the process when
\* it fails.
Start ==
  /\ main = "down"
  /\ starts < MaxStarts
  /\ starts' = starts + 1
  /\ \/ settings \in Valid /\ main' = "serving"
                           /\ latest' = settings
                           /\ active' = Both(settings)
     \/ UNCHANGED <<main, latest, active>>
  /\ UNCHANGED <<dashboard, fetched, pending, overlapped, requests, sink,
                 ingest>>

\* A signal cancels the poller and stops the listener.
Shutdown ==
  /\ main = "serving"
  /\ main' = "draining"
  /\ UNCHANGED <<dashboard, starts, poller, active, requests, sink, ingest>>

\* Shutdown returns when the requests have been answered, or after 5 s; the
\* deferred Close closes the queue.
Close ==
  /\ main = "draining"
  /\ main' = "closed"
  /\ UNCHANGED <<dashboard, starts, poller, active, requests, sink, ingest>>

\* The process ends, and with it all it has in memory.  What the worker has
\* sent may still reach the dashboard's handler.
ProcessEnds ==
  /\ main' = "down"
  /\ latest' = None
  /\ fetched' = None
  /\ pending' = [c \in Config |-> 0]
  /\ overlapped' = FALSE
  /\ active' = Both(None)
  /\ reqPc' = [r \in Request |-> IF reqPc[r] = "new" THEN "new" ELSE "done"]
  /\ queue' = << >>
  /\ worker' = None
  /\ late' = late \cup ({worker} \ {None})
  /\ UNCHANGED <<dashboard, starts, snapshot, identity, published, ingest>>

Exit == main = "closed" /\ ProcessEnds

Crash == Up /\ ProcessEnds
-------------------------------------------------------------------------------
(* The poller.                                                             *)

\* A fetch that fails changes nothing.
FetchRemoteConfig ==
  /\ main = "serving"
  /\ fetched = None
  /\ settings \in Fetchable
  /\ fetched' = settings
  /\ UNCHANGED <<dashboard, main, starts, latest, pending, overlapped, active,
                 requests, sink, ingest>>

\* Faulty variant: the version is compared with the one just stored.
ChangedAfterStore(c) == c # c

Changed(c) == c # latest

\* fetchAndNotify: compare and store under the lock, then one goroutine for
\* the callback.
Notify ==
  /\ Up
  /\ fetched # None
  /\ fetched' = None
  /\ IF Changed(fetched)
       THEN /\ latest' = fetched
            /\ pending' = [pending EXCEPT ![fetched] = @ + 1]
            /\ overlapped' = ~Quiet
       ELSE UNCHANGED <<latest, pending, overlapped>>
  /\ UNCHANGED <<dashboard, main, starts, active, requests, sink, ingest>>

\* Faulty variant: the resolver is built and not stored.
ReconfiguredProxyOnly(c) == [active EXCEPT !.proxy = c]

\* A backend url that does not parse leaves everything as it is; otherwise
\* both fields are replaced under the lock.
Reconfigured(c) == IF c \in Valid THEN Both(c) ELSE active

ApplyRemoteConfig(c) ==
  /\ Up
  /\ pending[c] > 0
  /\ pending' = [pending EXCEPT ![c] = @ - 1]
  /\ active' = Reconfigured(c)
  /\ UNCHANGED <<dashboard, main, starts, latest, fetched, overlapped,
                 requests, sink, ingest>>
-------------------------------------------------------------------------------
(* A request and its event.                                                *)

\* The backend and the resolver are read together.
ServeHTTP(r) ==
  /\ main = "serving"
  /\ reqPc[r] = "new"
  /\ snapshot' = [snapshot EXCEPT ![r] = active]
  /\ reqPc' = [reqPc EXCEPT ![r] = "forwarding"]
  /\ UNCHANGED <<dashboard, main, starts, poller, active, identity, sink,
                 ingest>>

\* The backend does not answer: ModifyResponse is not called.
BackendFails(r) ==
  /\ Up
  /\ reqPc[r] = "forwarding"
  /\ reqPc' = [reqPc EXCEPT ![r] = "done"]
  /\ UNCHANGED <<dashboard, main, starts, poller, active, snapshot, identity,
                 sink, ingest>>

ModifyResponse(r) ==
  /\ Up
  /\ reqPc[r] = "forwarding"
  /\ reqPc' = [reqPc EXCEPT ![r] = "resolving"]
  /\ UNCHANGED <<dashboard, main, starts, poller, active, snapshot, identity,
                 sink, ingest>>

\* Faulty variant: the goroutine takes the resolver the proxy has by now.
ResolverNow(r) == active.resolver

\* The resolver that was active when the request arrived.
Resolver(r) == snapshot[r].resolver

\* The header answers at once; the identity endpoint may not answer in
\* time, or without a user id, and then the event has no identity.
Resolve(r) ==
  /\ Up
  /\ reqPc[r] = "resolving"
  /\ identity' \in {[identity EXCEPT ![r] = i] :
                      i \in IF r \in WithHeader THEN {Gateway}
                                                ELSE {None, Resolver(r)}}
  /\ reqPc' = [reqPc EXCEPT ![r] = "publishing"]
  /\ UNCHANGED <<dashboard, main, starts, poller, active, snapshot, sink,
                 ingest>>

\* Faulty variant: the queue takes one event too many.
HasRoomForOneMore == Len(queue) <= Capacity

HasRoom == Len(queue) < Capacity

\* Publish never waits: a full queue drops the event.
Publish(r) ==
  /\ main \in {"serving", "draining"}
  /\ reqPc[r] = "publishing"
  /\ reqPc' = [reqPc EXCEPT ![r] = "done"]
  /\ IF HasRoom
       THEN /\ queue' = Append(queue, r)
            /\ published' = Append(published, r)
       ELSE UNCHANGED <<queue, published>>
  /\ UNCHANGED <<dashboard, main, starts, poller, active, snapshot, identity,
                 worker, late, ingest>>

\* A send on the closed channel panics.
PublishAfterClose(r) ==
  /\ main = "closed"
  /\ reqPc[r] = "publishing"
  /\ ProcessEnds
-------------------------------------------------------------------------------
(* The sink's worker and the dashboard's handler of its requests.          *)

\* Faulty variant: an event is posted while another waits for its answer.
IdleAlways == TRUE

Idle == worker = None

\* The request may not get through at all.
Post ==
  /\ Up
  /\ Idle
  /\ queue # << >>
  /\ worker' = Head(queue)
  /\ queue' = Tail(queue)
  /\ inbox' \in {inbox, inbox \cup {Head(queue)}}
  /\ UNCHANGED <<dashboard, main, starts, poller, active, requests, topic,
                 published, late>>

\* Faulty variant: the worker ends when a post gets no answer.
GoesOnUnlessFailed == worker \notin inbox

\* An error is logged and the next event taken.
GoesOn == TRUE

\* An answer, an error, or no answer within 5 s; an event is never sent
\* again.
PostReturns ==
  /\ Up
  /\ worker # None
  /\ GoesOn
  /\ worker' = None
  /\ late' = IF worker \in inbox THEN late \cup {worker} ELSE late
  /\ UNCHANGED <<dashboard, main, starts, poller, active, requests, queue,
                 published, ingest>>

\* The agents' events route: an unknown token is refused, an event without
\* identity only acknowledged, an error of Kafka only logged; a send may
\* write twice.
Receive(r) ==
  /\ r \in inbox
  /\ inbox' = inbox \ {r}
  /\ \/ UNCHANGED topic
     \/ /\ settings # None
        /\ identity[r] # None
        /\ \E copies \in 1 .. 2 : topic' = topic \o [i \in 1 .. copies |-> r]
  /\ UNCHANGED <<dashboard, main, starts, poller, active, requests, sink>>
-------------------------------------------------------------------------------
Poller == FetchRemoteConfig \/ Notify

Event(r) == Resolve(r) \/ Publish(r) \/ PublishAfterClose(r)

Worker == Post \/ PostReturns

Next == \/ UpdateAgentById
        \/ DeleteAgentById
        \/ Start
        \/ Shutdown
        \/ Close
        \/ Exit
        \/ Crash
        \/ Poller
        \/ \E c \in Config : ApplyRemoteConfig(c)
        \/ \E r \in Request : ServeHTTP(r)
        \/ \E r \in Request : BackendFails(r) \/ ModifyResponse(r)
        \/ \E r \in Request : Event(r)
        \/ Worker
        \/ \E r \in Request : Receive(r)

\* Goroutines go on: the poller ticks and the dashboard answers it again
\* and again, callbacks run, the event goroutine and the worker have time
\* limits on all they wait for.
Fairness == /\ WF_vars(Poller)
            /\ \A c \in Config : WF_vars(ApplyRemoteConfig(c))
            /\ \A r \in Request : WF_vars(Event(r))
            /\ WF_vars(Worker)

Spec == Init /\ [][Next]_vars

FairSpec == Spec /\ Fairness
-------------------------------------------------------------------------------
Place == [proxy : Config \cup {None}, resolver : Config \cup {None}]

TypeOK ==
  /\ settings \in Config \cup {None}
  /\ changes \in 0 .. MaxChanges
  /\ main \in {"down", "serving", "draining", "closed"}
  /\ starts \in 0 .. MaxStarts
  /\ latest \in Fetchable \cup {None}
  /\ fetched \in Fetchable \cup {None}
  /\ pending \in [Config -> Nat]
  /\ overlapped \in BOOLEAN
  /\ active \in Place
  /\ reqPc \in [Request -> {"new", "forwarding", "resolving", "publishing",
                            "done"}]
  /\ snapshot \in [Request -> Place]
  /\ identity \in [Request -> Config \cup {None, Gateway}]
  /\ queue \in Seq(Request)
  /\ Len(queue) <= Capacity
  /\ worker \in Request \cup {None}
  /\ inbox \subseteq Request
  /\ topic \in Seq(Request)
  /\ published \in Seq(Request)
  /\ late \subseteq Request

\* "Its backend URL, identity endpoint, and identity mapping can be updated
\* at runtime": when no callback is under way, proxy and resolver have the
\* configuration the poller compares with next time, unless it cannot be
\* used or its callback was started beside an older one.
AppliedWhenQuiet ==
  Up /\ Quiet /\ ~overlapped /\ latest \in Valid => active = Both(latest)

\* "Use whichever resolver was active when the request arrived": an identity
\* the resolver gave comes from the settings of the configuration whose
\* backend served the request, however the configuration changed meanwhile.
EventFromOneConfig ==
  \A r \in Request :
    identity[r] \in Config => snapshot[r].proxy = identity[r]

Position(r) == CHOOSE i \in DOMAIN published : published[i] = r

\* The events of an agent reach the topic in the order they were queued,
\* apart from those the worker gave up on before the dashboard handled them.
EventsInOrder ==
  \A i, j \in DOMAIN topic :
    i < j => \/ Position(topic[i]) <= Position(topic[j])
             \/ topic[j] \in late

\* While the agent serves, the event of every answered request is dropped or
\* posted, whatever becomes of the identity endpoint and the dashboard.
AnsweredIsSettled ==
  <>[](main = "serving") =>
    \A r \in Request :
      reqPc[r] = "resolving" ~> /\ reqPc[r] = "done"
                                /\ r \notin Queued
                                /\ worker # r

\* While the agent serves, settings that stay as they are and can be used
\* are applied in the end, unless the last callback overtook another.
SettingsApplied ==
  <>[](main = "serving" /\ settings \in Valid) =>
    <>[](active = Both(settings) \/ overlapped)

\* "Close drains the queue and shuts down the worker": an agent that ends
\* in order has no event left.
CloseDrains == [][Exit => queue = << >> /\ worker = None]_vars
===============================================================================
