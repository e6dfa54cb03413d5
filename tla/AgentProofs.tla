------------------------------ MODULE AgentProofs ------------------------------
(***************************************************************************)
(* Safety of the agent for any configurations, requests, capacity and      *)
(* numbers of starts.  Inv adds to the properties what carries them from   *)
(* step to step: which callbacks can be under way (PollerInv), that proxy  *)
(* and resolver are always of one configuration (ConfigInv), and that the  *)
(* queue is the end of what was published, behind the event the worker     *)
(* holds and all the dashboard has seen (QueueInv, IngestInv).             *)
(***************************************************************************)
EXTENDS Agent, SequenceTheorems, TLAPS

\* Without overlap there is at most one callback, and it is for latest.
PollerInv ==
  /\ main = "down" => Quiet /\ fetched = None /\ ~overlapped
  /\ Up => latest \in Fetchable
  /\ Up /\ ~overlapped /\ ~Quiet =>
       /\ pending[latest] = 1
       /\ \A c \in Config \ {latest} : pending[c] = 0

ConfigInv ==
  /\ active.proxy = active.resolver
  /\ \A r \in Request :
       /\ snapshot[r].proxy = snapshot[r].resolver
       /\ reqPc[r] = "new" => identity[r] = None

\* Published events that have left the queue.
Taken == Len(published) - Len(queue)

\* The event at a position of the history is there once, and its request is
\* done with.
HistoryInv ==
  /\ \A i, j \in DOMAIN published : published[i] = published[j] => i = j
  /\ \A i \in DOMAIN published : reqPc[published[i]] = "done"

QueueInv ==
  /\ Len(queue) <= Len(published)
  /\ \A i \in DOMAIN queue : queue[i] = published[Taken + i]

\* What the worker and the dashboard hold has left the queue.
Seen(r) == \E i \in 1 .. Taken : published[i] = r

IngestInv ==
  /\ worker # None => Taken > 0 /\ worker = published[Taken]
  /\ \A r \in inbox : Seen(r) /\ (r = worker \/ r \in late)
  /\ \A i \in DOMAIN topic : Seen(topic[i])

\* EventsInOrder with the positions as indices.
OrderInv ==
  \A i, j \in DOMAIN topic : \A m, n \in DOMAIN published :
    i < j /\ published[m] = topic[i] /\ published[n] = topic[j] =>
      m <= n \/ topic[j] \in late

Inv == /\ TypeOK
       /\ PollerInv
       /\ AppliedWhenQuiet
       /\ ConfigInv
       /\ EventFromOneConfig
       /\ HistoryInv
       /\ QueueInv
       /\ IngestInv
       /\ OrderInv

-------------------------------------------------------------------------------
\* A send appends the event once or twice.
LEMMA Sent ==
  ASSUME NEW s \in Seq(Request), NEW r \in Request, NEW copies \in 1 .. 2
  PROVE  LET t == s \o [i \in 1 .. copies |-> r]
         IN /\ t \in Seq(Request)
            /\ Len(t) = Len(s) + copies
            /\ \A i \in 1 .. Len(t) : t[i] = IF i <= Len(s) THEN s[i] ELSE r
<1> DEFINE u == [i \in 1 .. copies |-> r]
<1>1. /\ u \in Seq(Request)
      /\ Len(u) = copies
      /\ \A i \in 1 .. copies : u[i] = r
  BY IsASeq
<1> HIDE DEF u
<1>2. /\ s \o u \in Seq(Request)
      /\ Len(s \o u) = Len(s) + Len(u)
      /\ \A i \in 1 .. Len(s) + Len(u) :
           (s \o u)[i] = IF i <= Len(s) THEN s[i] ELSE u[i - Len(s)]
  BY <1>1, ConcatProperties
<1>3. \A i \in 1 .. Len(s \o u) : (s \o u)[i] = IF i <= Len(s) THEN s[i] ELSE r
  <2> SUFFICES ASSUME NEW i \in 1 .. Len(s \o u)
               PROVE  (s \o u)[i] = IF i <= Len(s) THEN s[i] ELSE r
    OBVIOUS
  <2>1. Len(s) \in Nat
    BY LenProperties
  <2>2. CASE i <= Len(s)
    BY <1>1, <1>2, <2>1, <2>2
  <2>3. CASE i > Len(s)
    <3>1. i - Len(s) \in 1 .. copies
      BY <1>1, <1>2, <2>1, <2>3
    <3> QED
      BY <1>1, <1>2, <2>1, <2>3, <3>1
  <2> QED
    BY <2>1, <2>2, <2>3
<1> QED
  BY <1>1, <1>2, <1>3 DEF u

\* ApplyRemoteConfig installs a backend and a resolver of one configuration.
LEMMA BothIsPlace ==
  /\ \A c \in Config \cup {None} : Both(c) \in Place
  /\ \A c : Both(c).proxy = c /\ Both(c).resolver = c
BY DEF Both, Place

\* The end of the process, however it comes about.
LEMMA EndKeeps ==
  ASSUME Inv, ProcessEnds
  PROVE  TypeOK' /\ PollerInv' /\ AppliedWhenQuiet' /\ ConfigInv'
           /\ EventFromOneConfig'
<1> USE DEF Inv, ProcessEnds
<1>1. TypeOK'
  <2>1. active' \in Place
    BY BothIsPlace
  <2>2. UNCHANGED <<settings, changes, starts, snapshot, identity, published,
                    inbox, topic>>
    BY DEF dashboard, ingest
  <2>3. /\ queue' \in Seq(Request) /\ Len(queue') <= Capacity
        /\ pending' \in [Config -> Nat]
        /\ late' \subseteq Request
    BY BoundsAssumption DEF TypeOK
  <2>4. reqPc' \in [Request -> {"new", "forwarding", "resolving",
                               "publishing", "done"}]
    BY DEF TypeOK
  <2> QED
    BY <2>1, <2>2, <2>3, <2>4 DEF TypeOK
<1>2. PollerInv' /\ AppliedWhenQuiet'
  BY DEF TypeOK, PollerInv, AppliedWhenQuiet, Up, Quiet
<1>3. ConfigInv' /\ EventFromOneConfig'
  BY BothIsPlace DEF TypeOK, ConfigInv, EventFromOneConfig
<1> QED
  BY <1>1, <1>2, <1>3

-------------------------------------------------------------------------------
\* Every step keeps the types, and the sink's queue within its capacity.
LEMMA TypeStep ==
  ASSUME Inv, [Next]_vars
  PROVE  TypeOK'
<1> USE DEF TypeOK
<1>0. TypeOK
  BY DEF Inv
<1>1. ASSUME UpdateAgentById PROVE TypeOK'
  BY <1>0, <1>1, BoundsAssumption DEF UpdateAgentById, poller, requests, sink,
     ingest
<1>2. ASSUME DeleteAgentById PROVE TypeOK'
  BY <1>0, <1>2 DEF DeleteAgentById, poller, requests, sink, ingest
<1>3. ASSUME Start PROVE TypeOK'
  <2>1. UNCHANGED <<settings, changes, fetched, pending, overlapped, reqPc,
                    snapshot, identity, queue, worker, published, late, inbox,
                    topic>>
    BY <1>3 DEF Start, dashboard, requests, sink, ingest
  <2>2. starts' \in 0 .. MaxStarts
    BY <1>0, <1>3, BoundsAssumption DEF Start
  <2>3. /\ main' \in {"down", "serving", "draining", "closed"}
        /\ latest' \in Fetchable \cup {None}
        /\ active' \in Place
    BY <1>0, <1>3, ConfigAssumption, BothIsPlace DEF Start
  <2> QED
    BY <1>0, <2>1, <2>2, <2>3
<1>4. ASSUME Shutdown \/ Close PROVE TypeOK'
  BY <1>0, <1>4 DEF Shutdown, Close, dashboard, poller, requests, sink, ingest
<1>5. ASSUME ProcessEnds PROVE TypeOK'
  BY <1>5, EndKeeps
<1>6. ASSUME Poller PROVE TypeOK'
  <2>1. UNCHANGED <<settings, changes, main, starts, active, reqPc, snapshot,
                    identity, queue, worker, published, late, inbox, topic>>
    BY <1>6 DEF Poller, FetchRemoteConfig, Notify, dashboard, requests, sink,
       ingest
  <2>2. /\ latest' \in Fetchable \cup {None}
        /\ fetched' \in Fetchable \cup {None}
        /\ overlapped' \in BOOLEAN
    BY <1>0, <1>6 DEF Poller, FetchRemoteConfig, Notify, Quiet
  <2>3. pending' \in [Config -> Nat]
    <3>1. ASSUME fetched \in Fetchable
          PROVE  [pending EXCEPT ![fetched] = @ + 1] \in [Config -> Nat]
      <4>1. fetched \in Config /\ pending[fetched] + 1 \in Nat
        BY <1>0, <3>1, ConfigAssumption
      <4> QED
        BY <1>0, <4>1
    <3>2. \/ pending' = pending
          \/ fetched # None /\ pending' = [pending EXCEPT ![fetched] = @ + 1]
      BY <1>6 DEF Poller, FetchRemoteConfig, Notify
    <3> QED
      BY <1>0, <3>1, <3>2
  <2> QED
    BY <1>0, <2>1, <2>2, <2>3
<1>7. ASSUME NEW c \in Config, ApplyRemoteConfig(c) PROVE TypeOK'
  <2>1. pending' \in [Config -> Nat]
    BY <1>0, <1>7 DEF ApplyRemoteConfig
  <2>2. active' \in Place
    BY <1>0, <1>7, BothIsPlace DEF ApplyRemoteConfig, Reconfigured
  <2> QED
    BY <1>0, <1>7, <2>1, <2>2 DEF ApplyRemoteConfig, dashboard, requests, sink,
       ingest
<1>8. ASSUME NEW r \in Request,
             ServeHTTP(r) \/ BackendFails(r) \/ ModifyResponse(r)
      PROVE  TypeOK'
  BY <1>0, <1>8 DEF ServeHTTP, BackendFails, ModifyResponse, dashboard, poller,
     sink, ingest
<1>9. ASSUME NEW r \in Request, Resolve(r) PROVE TypeOK'
  <2>1. \A i \in (IF r \in WithHeader THEN {Gateway} ELSE {None, Resolver(r)}) :
          i \in Config \cup {None, Gateway}
    BY <1>0 DEF Resolver, Place
  <2>2. identity' \in [Request -> Config \cup {None, Gateway}]
    BY <1>0, <1>9, <2>1 DEF Resolve
  <2> QED
    BY <1>0, <1>9, <2>2 DEF Resolve, dashboard, poller, sink, ingest
<1>10. ASSUME NEW r \in Request, Publish(r) PROVE TypeOK'
  <2>1. /\ queue' \in Seq(Request)
        /\ Len(queue') <= Capacity
        /\ published' \in Seq(Request)
    <3>1. /\ Append(queue, r) \in Seq(Request)
          /\ Len(Append(queue, r)) = Len(queue) + 1
          /\ Append(published, r) \in Seq(Request)
      BY <1>0, AppendProperties
    <3>2. Len(queue) \in Nat
      BY <1>0, LenProperties
    <3>3. CASE HasRoom
      <4>1. queue' = Append(queue, r) /\ published' = Append(published, r)
        BY <1>10, <3>3 DEF Publish
      <4> QED
        BY <3>1, <3>2, <3>3, <4>1, BoundsAssumption DEF HasRoom
    <3>4. CASE ~HasRoom
      BY <1>0, <1>10, <3>4 DEF Publish
    <3> QED
      BY <3>3, <3>4
  <2> QED
    BY <1>0, <1>10, <2>1 DEF Publish, dashboard, poller, ingest
<1>11. ASSUME Worker PROVE TypeOK'
  <2>1. UNCHANGED <<settings, changes, main, starts, latest, fetched, pending,
                    overlapped, active, reqPc, snapshot, identity, published,
                    topic>>
    BY <1>11 DEF Worker, Post, PostReturns, dashboard, poller, requests, ingest
  <2>2. /\ queue' \in Seq(Request)
        /\ Len(queue') <= Capacity
        /\ worker' \in Request \cup {None}
        /\ inbox' \subseteq Request
    <3>1. queue # << >> => /\ Head(queue) \in Request
                           /\ Tail(queue) \in Seq(Request)
                           /\ Len(Tail(queue)) = Len(queue) - 1
      BY <1>0, HeadTailProperties
    <3>2. Len(queue) \in Nat
      BY <1>0, LenProperties
    <3>3. CASE Post
      BY <1>0, <3>1, <3>2, <3>3, BoundsAssumption DEF Post
    <3>4. CASE PostReturns
      BY <1>0, <3>4 DEF PostReturns, ingest
    <3> QED
      BY <1>11, <3>3, <3>4 DEF Worker
  <2>3. late' \subseteq Request
    BY <1>0, <1>11 DEF Worker, Post, PostReturns
  <2> QED
    BY <1>0, <2>1, <2>2, <2>3
<1>12. ASSUME NEW r \in Request, Receive(r) PROVE TypeOK'
  <2>1. topic' \in Seq(Request)
    <3>1. \A copies \in 1 .. 2 :
            topic \o [i \in 1 .. copies |-> r] \in Seq(Request)
      BY <1>0, Sent
    <3> QED
      BY <1>0, <1>12, <3>1 DEF Receive
  <2>2. UNCHANGED <<settings, changes, main, starts, latest, fetched, pending,
                    overlapped, active, reqPc, snapshot, identity, queue,
                    worker, published, late>>
    BY <1>12 DEF Receive, dashboard, poller, requests, sink
  <2> QED
    BY <1>0, <1>12, <2>1, <2>2 DEF Receive
<1>13. ASSUME UNCHANGED vars PROVE TypeOK'
  BY <1>0, <1>13 DEF vars, dashboard, poller, requests, sink, ingest
<1> QED
  BY <1>1, <1>2, <1>3, <1>4, <1>5, <1>6, <1>7, <1>8, <1>9, <1>10, <1>11, <1>12,
     <1>13 DEF Next, Event, Exit, Crash, PublishAfterClose

\* The poller and the proxy.
LEMMA PollerStep ==
  ASSUME Inv, [Next]_vars
  PROVE  PollerInv' /\ AppliedWhenQuiet'
<1> USE DEF PollerInv, AppliedWhenQuiet, Up, Quiet
<1>0. TypeOK /\ PollerInv /\ AppliedWhenQuiet
  BY DEF Inv
<1>1. ASSUME Start PROVE PollerInv' /\ AppliedWhenQuiet'
  BY <1>0, <1>1, ConfigAssumption DEF Start, TypeOK
<1>2. ASSUME Shutdown \/ Close PROVE PollerInv' /\ AppliedWhenQuiet'
  BY <1>0, <1>2 DEF Shutdown, Close, poller
<1>3. ASSUME ProcessEnds PROVE PollerInv' /\ AppliedWhenQuiet'
  BY <1>3, EndKeeps
<1>4. ASSUME FetchRemoteConfig PROVE PollerInv' /\ AppliedWhenQuiet'
  BY <1>0, <1>4 DEF FetchRemoteConfig
<1>5. ASSUME Notify PROVE PollerInv' /\ AppliedWhenQuiet'
  <2>1. UNCHANGED <<main, active>> /\ Up /\ fetched' = None
    BY <1>5 DEF Notify
  <2>2. CASE Changed(fetched)
    <3>1. /\ fetched \in Config
          /\ fetched \in Fetchable
      BY <1>0, <1>5, ConfigAssumption DEF Notify, TypeOK
    <3>2. /\ latest' = fetched
          /\ pending' = [pending EXCEPT ![fetched] = @ + 1]
          /\ overlapped' = ~Quiet
      BY <1>5, <2>2 DEF Notify
    <3>3. /\ pending'[fetched] = pending[fetched] + 1
          /\ \A c \in Config \ {fetched} : pending'[c] = pending[c]
          /\ pending[fetched] \in Nat
      BY <1>0, <3>1, <3>2 DEF TypeOK
    <3>4. ~Quiet'
      BY <3>1, <3>3
    <3>5. Quiet => pending'[latest'] = 1
                     /\ \A c \in Config \ {latest'} : pending'[c] = 0
      BY <3>1, <3>2, <3>3
    <3>6. ~overlapped' => Quiet
      BY <3>2
    <3> QED
      BY <2>1, <3>1, <3>2, <3>4, <3>5, <3>6
  <2>3. CASE ~Changed(fetched)
    BY <1>0, <1>5, <2>1, <2>3 DEF Notify
  <2> QED
    BY <2>2, <2>3
<1>6. ASSUME NEW c \in Config, ApplyRemoteConfig(c)
      PROVE  PollerInv' /\ AppliedWhenQuiet'
  <2>1. UNCHANGED <<main, latest, fetched, overlapped>> /\ Up /\ ~Quiet
    BY <1>6 DEF ApplyRemoteConfig
  <2>2. ASSUME ~overlapped
        PROVE  c = latest /\ Quiet'
    <3>1. c = latest
      BY <1>0, <1>6, <2>1, <2>2 DEF ApplyRemoteConfig
    <3>2. \A d \in Config : pending'[d] = IF d = c THEN pending[d] - 1
                                                    ELSE pending[d]
      BY <1>0, <1>6 DEF ApplyRemoteConfig, TypeOK
    <3> QED
      BY <1>0, <2>1, <2>2, <3>1, <3>2
  <2>3. ~overlapped /\ latest \in Valid => active' = Both(latest)
    BY <1>6, <2>2 DEF ApplyRemoteConfig, Reconfigured
  <2> QED
    BY <1>0, <2>1, <2>2, <2>3
<1>7. ASSUME UNCHANGED <<main, poller, active>>
      PROVE  PollerInv' /\ AppliedWhenQuiet'
  BY <1>0, <1>7 DEF poller
<1> QED
  BY <1>1, <1>2, <1>3, <1>4, <1>5, <1>6, <1>7
     DEF Next, Event, Exit, Crash, PublishAfterClose, Poller, Worker, vars,
         UpdateAgentById, DeleteAgentById, ServeHTTP, BackendFails,
         ModifyResponse, Resolve, Publish, Post, PostReturns, Receive

\* Proxy and resolver of one configuration, up to the event's identity.
LEMMA ConfigStep ==
  ASSUME Inv, [Next]_vars
  PROVE  ConfigInv' /\ EventFromOneConfig'
<1> USE DEF ConfigInv, EventFromOneConfig
<1>0. TypeOK /\ ConfigInv /\ EventFromOneConfig
  BY DEF Inv
<1>1. ASSUME Start PROVE ConfigInv' /\ EventFromOneConfig'
  BY <1>0, <1>1, BothIsPlace DEF Start, requests
<1>2. ASSUME ProcessEnds PROVE ConfigInv' /\ EventFromOneConfig'
  BY <1>2, EndKeeps
<1>3. ASSUME NEW c \in Config, ApplyRemoteConfig(c)
      PROVE  ConfigInv' /\ EventFromOneConfig'
  BY <1>0, <1>3, BothIsPlace DEF ApplyRemoteConfig, Reconfigured, requests
<1>4. ASSUME NEW r \in Request, ServeHTTP(r)
      PROVE  ConfigInv' /\ EventFromOneConfig'
  <2>1. UNCHANGED <<active, identity>>
    BY <1>4 DEF ServeHTTP
  <2>2. \A q \in Request : snapshot'[q] = IF q = r THEN active ELSE snapshot[q]
    BY <1>0, <1>4 DEF ServeHTTP, TypeOK
  <2>3. \A q \in Request : reqPc'[q] = IF q = r THEN "forwarding" ELSE reqPc[q]
    BY <1>0, <1>4 DEF ServeHTTP, TypeOK
  <2>4. identity[r] = None
    BY <1>0, <1>4 DEF ServeHTTP
  <2> QED
    BY <1>0, <2>1, <2>2, <2>3, <2>4, ConfigAssumption
<1>5. ASSUME NEW r \in Request, BackendFails(r) \/ ModifyResponse(r)
      PROVE  ConfigInv' /\ EventFromOneConfig'
  BY <1>0, <1>5 DEF BackendFails, ModifyResponse, TypeOK
<1>6. ASSUME NEW r \in Request, Resolve(r)
      PROVE  ConfigInv' /\ EventFromOneConfig'
  <2>1. UNCHANGED <<active, snapshot>>
    BY <1>6 DEF Resolve
  <2>2. \A q \in Request : reqPc'[q] = IF q = r THEN "publishing" ELSE reqPc[q]
    BY <1>0, <1>6 DEF Resolve, TypeOK
  <2>3. /\ \A q \in Request \ {r} : identity'[q] = identity[q]
        /\ identity'[r] \in {Gateway, None, snapshot[r].resolver}
    BY <1>0, <1>6 DEF Resolve, Resolver, TypeOK
  <2> QED
    BY <1>0, <2>1, <2>2, <2>3, ConfigAssumption
<1>7. ASSUME NEW r \in Request, Publish(r)
      PROVE  ConfigInv' /\ EventFromOneConfig'
  BY <1>0, <1>7 DEF Publish, TypeOK
<1>8. ASSUME UNCHANGED <<requests, active>>
      PROVE  ConfigInv' /\ EventFromOneConfig'
  BY <1>0, <1>8 DEF requests
<1> QED
  BY <1>1, <1>2, <1>3, <1>4, <1>5, <1>6, <1>7, <1>8
     DEF Next, Event, Exit, Crash, PublishAfterClose, Poller, Worker, vars,
         UpdateAgentById, DeleteAgentById, Shutdown, Close, FetchRemoteConfig,
         Notify, Post, PostReturns, Receive

-------------------------------------------------------------------------------
SinkInv == HistoryInv /\ QueueInv /\ IngestInv /\ OrderInv

\* An event's goroutine that has ended does not start again.
LEMMA DoneStays ==
  ASSUME TypeOK, [Next]_vars, NEW r \in Request, reqPc[r] = "done"
  PROVE  reqPc'[r] = "done"
<1>1. ASSUME NEW q \in Request,
             ServeHTTP(q) \/ BackendFails(q) \/ ModifyResponse(q)
      PROVE  reqPc'[r] = "done"
  BY <1>1 DEF TypeOK, ServeHTTP, BackendFails, ModifyResponse
<1>2. ASSUME NEW q \in Request, Resolve(q) \/ Publish(q)
      PROVE  reqPc'[r] = "done"
  BY <1>2 DEF TypeOK, Resolve, Publish
<1>3. ProcessEnds => reqPc'[r] = "done"
  BY DEF ProcessEnds
<1>4. UNCHANGED reqPc => reqPc'[r] = "done"
  OBVIOUS
<1> QED
  BY <1>1, <1>2, <1>3, <1>4
     DEF Next, Event, Exit, Crash, PublishAfterClose, Poller, Worker, vars,
         requests, UpdateAgentById, DeleteAgentById, Start, Shutdown, Close,
         FetchRemoteConfig, Notify, ApplyRemoteConfig, Post, PostReturns,
         Receive

\* Lengths and domains of the sequences.
LEMMA Lengths ==
  ASSUME TypeOK
  PROVE  /\ Len(queue) \in Nat /\ DOMAIN queue = 1 .. Len(queue)
         /\ Len(published) \in Nat /\ DOMAIN published = 1 .. Len(published)
         /\ Len(topic) \in Nat /\ DOMAIN topic = 1 .. Len(topic)
BY LenProperties DEF TypeOK

\* The end of the process empties the queue: what is left is late or gone.
LEMMA EndKeepsSink ==
  ASSUME Inv, ProcessEnds,
         \A r \in Request : reqPc[r] = "done" => reqPc'[r] = "done"
  PROVE  SinkInv'
<1>0. TypeOK /\ SinkInv
  BY DEF Inv, SinkInv
<1>1. UNCHANGED <<published, inbox, topic>>
  BY DEF ProcessEnds, ingest
<1>2. queue' = << >> /\ worker' = None /\ late' = late \cup ({worker} \ {None})
  BY DEF ProcessEnds
<1>3. /\ Len(queue') = 0
      /\ DOMAIN queue' = {}
      /\ Taken' = Len(published)
  BY <1>0, <1>1, <1>2, Lengths DEF Taken
<1>4. HistoryInv'
  BY <1>0, <1>1, Lengths DEF SinkInv, HistoryInv, TypeOK
<1>5. QueueInv'
  BY <1>0, <1>1, <1>3, Lengths DEF QueueInv
<1>6. \A r : Seen(r) => Seen(r)'
  BY <1>0, <1>1, <1>3, Lengths DEF SinkInv, QueueInv, Seen, Taken
<1>7. IngestInv'
  BY <1>0, <1>1, <1>2, <1>6, ConfigAssumption DEF SinkInv, IngestInv, TypeOK
<1>8. OrderInv'
  BY <1>0, <1>1, <1>2 DEF SinkInv, OrderInv
<1> QED
  BY <1>4, <1>5, <1>7, <1>8 DEF SinkInv

\* Publish adds the event to the queue and to the history alike.
LEMMA PublishKeepsSink ==
  ASSUME Inv, NEW r \in Request, Publish(r), HasRoom
  PROVE  SinkInv'
<1>0. TypeOK /\ SinkInv
  BY DEF Inv, SinkInv
<1>1. UNCHANGED <<worker, late, inbox, topic>>
  BY DEF Publish, ingest
<1>2. /\ queue' = Append(queue, r)
      /\ published' = Append(published, r)
      /\ reqPc[r] = "publishing"
      /\ reqPc' = [reqPc EXCEPT ![r] = "done"]
  BY DEF Publish
<1>3. /\ Len(queue') = Len(queue) + 1
      /\ DOMAIN queue' = 1 .. Len(queue) + 1
      /\ \A i \in 1 .. Len(queue) : queue'[i] = queue[i]
      /\ queue'[Len(queue) + 1] = r
  BY <1>0, <1>2, AppendProperties, LenProperties DEF TypeOK
<1>4. /\ Len(published') = Len(published) + 1
      /\ DOMAIN published' = 1 .. Len(published) + 1
      /\ \A i \in 1 .. Len(published) : published'[i] = published[i]
      /\ published'[Len(published) + 1] = r
  BY <1>0, <1>2, AppendProperties, LenProperties DEF TypeOK
<1>5. Taken' = Taken /\ Taken \in 0 .. Len(published)
  BY <1>0, <1>3, <1>4, Lengths DEF Taken, SinkInv, QueueInv
<1>6. \A i \in 1 .. Len(published) : published[i] # r
  BY <1>0, <1>2, Lengths DEF SinkInv, HistoryInv
<1>7. HistoryInv'
  <2>1. \A i \in DOMAIN published' : reqPc'[published'[i]] = "done"
    <3>1. \A i \in 1 .. Len(published) : published[i] \in Request
      BY <1>0, Lengths DEF TypeOK
    <3> QED
      BY <1>0, <1>2, <1>4, <3>1, Lengths DEF SinkInv, HistoryInv, TypeOK
  <2>2. \A i, j \in DOMAIN published' : published'[i] = published'[j] => i = j
    BY <1>0, <1>4, <1>6, Lengths DEF SinkInv, HistoryInv
  <2> QED
    BY <2>1, <2>2 DEF HistoryInv
<1>8. QueueInv'
  BY <1>0, <1>3, <1>4, <1>5, Lengths DEF SinkInv, QueueInv, Taken
<1>9. \A i \in 1 .. Taken : published'[i] = published[i]
  BY <1>0, <1>4, <1>5, Lengths
<1>10. \A q : Seen(q) => Seen(q)'
  BY <1>5, <1>9 DEF Seen
<1>11. IngestInv'
  BY <1>0, <1>1, <1>5, <1>9, <1>10 DEF SinkInv, IngestInv
<1>12. \A i \in DOMAIN topic : topic[i] # r
  BY <1>0, <1>5, <1>6, Lengths DEF SinkInv, IngestInv, Seen
<1>13. OrderInv'
  BY <1>0, <1>1, <1>4, <1>12, Lengths DEF SinkInv, OrderInv
<1> QED
  BY <1>7, <1>8, <1>11, <1>13 DEF SinkInv

\* The worker takes the oldest event, and leaves it behind as late if the
\* dashboard still has it.
LEMMA WorkerKeepsSink ==
  ASSUME Inv, Worker
  PROVE  SinkInv'
<1>0. TypeOK /\ SinkInv
  BY DEF Inv, SinkInv
<1>1. UNCHANGED <<reqPc, published, topic>>
  BY DEF Worker, Post, PostReturns, requests, ingest
<1>2. HistoryInv'
  BY <1>0, <1>1 DEF SinkInv, HistoryInv
<1>3. late \subseteq late'
  BY DEF Worker, Post, PostReturns
<1>4. OrderInv'
  BY <1>0, <1>1, <1>3 DEF SinkInv, OrderInv
<1>5. ASSUME Post
      PROVE  QueueInv' /\ IngestInv'
  <2>1. /\ worker = None
        /\ queue # << >>
        /\ worker' = Head(queue)
        /\ queue' = Tail(queue)
        /\ inbox' \subseteq inbox \cup {Head(queue)}
        /\ late' = late
    BY <1>5 DEF Post, Idle
  <2>2. /\ Len(queue') = Len(queue) - 1
        /\ DOMAIN queue' = 1 .. Len(queue) - 1
        /\ \A i \in 1 .. Len(queue) - 1 : queue'[i] = queue[i + 1]
        /\ Len(queue) > 0
    BY <1>0, <2>1, HeadTailProperties, LenProperties DEF TypeOK
  <2>3. Taken' = Taken + 1 /\ Taken \in Nat
    BY <1>0, <1>1, <2>2, Lengths DEF Taken, SinkInv, QueueInv
  <2>4. QueueInv'
    <3>1. Len(queue') <= Len(published')
      BY <1>0, <1>1, <2>2, Lengths DEF SinkInv, QueueInv
    <3>2. ASSUME NEW i \in DOMAIN queue'
          PROVE  queue'[i] = published'[Taken' + i]
      <4>1. i \in 1 .. Len(queue) - 1 /\ queue'[i] = queue[i + 1]
        BY <2>2
      <4>2. i + 1 \in DOMAIN queue
        BY <1>0, <4>1, Lengths
      <4>3. queue[i + 1] = published[Taken + (i + 1)]
        BY <1>0, <4>2 DEF SinkInv, QueueInv
      <4>4. Taken + (i + 1) = Taken' + i
        BY <2>3, <4>1
      <4> QED
        BY <1>1, <4>1, <4>3, <4>4
    <3> QED
      BY <3>1, <3>2 DEF QueueInv
  <2>5. worker' = published'[Taken']
    <3>1. Head(queue) = queue[1]
      BY <1>0, <2>1 DEF TypeOK
    <3> QED
      BY <1>0, <1>1, <2>1, <2>2, <2>3, <3>1, Lengths DEF SinkInv, QueueInv
  <2>6. \A r : Seen(r) => Seen(r)'
    BY <1>1, <2>3 DEF Seen
  <2>7. \A r : r = worker' => Seen(r)'
    <3>1. Taken' \in 1 .. Taken'
      BY <2>3
    <3> QED
      BY <2>5, <3>1 DEF Seen
  <2>8. \A r \in inbox : r # None
    BY <1>0, ConfigAssumption DEF TypeOK
  <2>9. IngestInv'
    BY <1>0, <1>1, <2>1, <2>3, <2>5, <2>6, <2>7, <2>8 DEF SinkInv, IngestInv
  <2> QED
    BY <2>4, <2>9
<1>6. ASSUME PostReturns
      PROVE  QueueInv' /\ IngestInv'
  <2>1. /\ UNCHANGED <<queue, inbox>>
        /\ worker' = None
        /\ worker \in inbox => worker \in late'
    BY <1>6 DEF PostReturns, ingest
  <2>2. Taken' = Taken
    BY <1>1, <2>1 DEF Taken
  <2>3. QueueInv'
    BY <1>0, <1>1, <2>1, <2>2 DEF SinkInv, QueueInv
  <2>4. \A r : Seen(r) => Seen(r)'
    BY <1>1, <2>2 DEF Seen
  <2> QED
    BY <1>0, <1>1, <1>3, <2>1, <2>3, <2>4 DEF SinkInv, IngestInv
<1> QED
  BY <1>2, <1>4, <1>5, <1>6 DEF Worker, SinkInv

\* The dashboard's handler produces the event the worker holds, or a late one.
LEMMA ReceiveKeepsSink ==
  ASSUME Inv, NEW r \in Request, Receive(r)
  PROVE  SinkInv'
<1>0. TypeOK /\ SinkInv
  BY DEF Inv, SinkInv
<1>1. UNCHANGED <<reqPc, queue, worker, published, late>> /\ Taken' = Taken
  BY DEF Receive, requests, sink, Taken
<1>2. \A q : Seen(q)' <=> Seen(q)
  BY <1>1 DEF Seen
<1>3. r \in inbox /\ inbox' = inbox \ {r}
  BY DEF Receive
<1>4. HistoryInv' /\ QueueInv'
  BY <1>0, <1>1 DEF SinkInv, HistoryInv, QueueInv
<1>5. /\ DOMAIN topic' = 1 .. Len(topic')
      /\ Len(topic') \in Nat
      /\ Len(topic) \in Nat
      /\ Len(topic') >= Len(topic)
      /\ \A i \in 1 .. Len(topic') :
           topic'[i] = IF i <= Len(topic) THEN topic[i] ELSE r
  <2>1. CASE topic' = topic
    BY <1>0, <2>1, Lengths
  <2>2. ASSUME NEW copies \in 1 .. 2, topic' = topic \o [i \in 1 .. copies |-> r]
        PROVE  /\ Len(topic') = Len(topic) + copies
               /\ DOMAIN topic' = 1 .. Len(topic')
               /\ \A i \in 1 .. Len(topic') :
                    topic'[i] = IF i <= Len(topic) THEN topic[i] ELSE r
    BY <1>0, <2>2, Sent, LenProperties DEF TypeOK
  <2> QED
    BY <1>0, <2>1, <2>2, Lengths, SMTT(30) DEF Receive
<1>6. \A i \in DOMAIN topic' : Seen(topic'[i])
  BY <1>0, <1>3, <1>5, Lengths DEF SinkInv, IngestInv
<1>7. IngestInv'
  BY <1>0, <1>1, <1>2, <1>3, <1>6 DEF SinkInv, IngestInv
<1>8. OrderInv'
  <2> SUFFICES ASSUME NEW i \in DOMAIN topic', NEW j \in DOMAIN topic',
                      NEW m \in DOMAIN published, NEW n \in DOMAIN published,
                      i < j, published[m] = topic'[i], published[n] = topic'[j],
                      topic'[j] \notin late
               PROVE  m <= n
    BY <1>1 DEF OrderInv
  <2>1. CASE j <= Len(topic)
    <3>1. /\ i \in DOMAIN topic /\ j \in DOMAIN topic
          /\ topic'[i] = topic[i] /\ topic'[j] = topic[j]
      BY <1>0, <1>5, <2>1, Lengths
    <3> QED
      BY <1>0, <3>1 DEF SinkInv, OrderInv
  <2>2. CASE j > Len(topic)
    <3>1. topic'[j] = r /\ r = worker /\ r # None
      BY <1>0, <1>3, <1>5, <2>2, ConfigAssumption DEF SinkInv, IngestInv
    <3>2. Taken \in 1 .. Len(published) /\ published[Taken] = r
      BY <1>0, <3>1, Lengths DEF SinkInv, IngestInv, QueueInv, Taken
    <3>3. n = Taken
      BY <1>0, <3>1, <3>2, Lengths DEF SinkInv, HistoryInv
    <3>4. PICK k \in 1 .. Taken : published[k] = topic'[i]
      BY <1>6 DEF Seen
    <3>5. m = k
      BY <1>0, <3>2, <3>4, Lengths DEF SinkInv, HistoryInv
    <3> QED
      BY <3>2, <3>3, <3>4, <3>5
  <2> QED
    BY <1>5, <2>1, <2>2
<1> QED
  BY <1>4, <1>7, <1>8 DEF SinkInv

\* Every step keeps the order of the events from queue to topic.
LEMMA SinkStep ==
  ASSUME Inv, [Next]_vars
  PROVE  SinkInv'
<1>0. TypeOK /\ SinkInv
  BY DEF Inv, SinkInv
<1>1. \A r \in Request : reqPc[r] = "done" => reqPc'[r] = "done"
  BY <1>0, DoneStays
<1>2. ASSUME UNCHANGED <<sink, ingest>>
      PROVE  SinkInv'
  <2>1. UNCHANGED <<queue, worker, published, late, inbox, topic>>
    BY <1>2 DEF sink, ingest
  <2>2. \A i \in DOMAIN published : published[i] \in Request
    BY <1>0, Lengths DEF TypeOK
  <2>3. HistoryInv'
    BY <1>0, <1>1, <2>1, <2>2 DEF SinkInv, HistoryInv
  <2> QED
    BY <1>0, <2>1, <2>3
       DEF SinkInv, QueueInv, IngestInv, OrderInv, Taken, Seen
<1>3. ProcessEnds => SinkInv'
  BY <1>1, EndKeepsSink
<1>4. ASSUME NEW r \in Request, Publish(r)
      PROVE  SinkInv'
  <2>1. CASE HasRoom
    BY <1>4, <2>1, PublishKeepsSink
  <2>2. CASE ~HasRoom
    BY <1>2, <1>4, <2>2 DEF Publish, sink
  <2> QED
    BY <2>1, <2>2
<1>5. Worker => SinkInv'
  BY WorkerKeepsSink
<1>6. ASSUME NEW r \in Request, Receive(r)
      PROVE  SinkInv'
  BY <1>6, ReceiveKeepsSink
<1> QED
  BY <1>2, <1>3, <1>4, <1>5, <1>6
     DEF Next, Event, Exit, Crash, PublishAfterClose, Poller, vars,
         UpdateAgentById, DeleteAgentById, Start, Shutdown, Close,
         FetchRemoteConfig, Notify, ApplyRemoteConfig, ServeHTTP, BackendFails,
         ModifyResponse, Resolve

-------------------------------------------------------------------------------
\* The agent starts with the invariant.
LEMMA InvInit == Init => Inv
<1> SUFFICES ASSUME Init PROVE Inv
  OBVIOUS
<1> USE DEF Init
<1>1. TypeOK
  <2>1. active \in Place /\ snapshot \in [Request -> Place]
    BY BothIsPlace
  <2>2. /\ queue \in Seq(Request) /\ Len(queue) <= Capacity
        /\ topic \in Seq(Request) /\ published \in Seq(Request)
    BY BoundsAssumption
  <2>3. /\ pending \in [Config -> Nat]
        /\ changes \in 0 .. MaxChanges
        /\ starts \in 0 .. MaxStarts
    BY BoundsAssumption
  <2> QED
    BY <2>1, <2>2, <2>3 DEF TypeOK
<1>2. PollerInv /\ AppliedWhenQuiet
  BY DEF PollerInv, AppliedWhenQuiet, Up, Quiet
<1>3. ConfigInv /\ EventFromOneConfig
  BY BothIsPlace, ConfigAssumption DEF ConfigInv, EventFromOneConfig
<1>4. HistoryInv /\ QueueInv /\ IngestInv /\ OrderInv
  BY DEF HistoryInv, QueueInv, IngestInv, OrderInv, Taken
<1> QED
  BY <1>1, <1>2, <1>3, <1>4 DEF Inv

\* The inductive invariant of the agent.
THEOREM Invariance == Spec => []Inv
<1>1. Inv /\ [Next]_vars => Inv'
  BY TypeStep, PollerStep, ConfigStep, SinkStep DEF Inv, SinkInv
<1> QED
  BY InvInit, <1>1, PTL DEF Spec

\* Every variable of the agent keeps its type, and the queue its bound.
THEOREM TypeCorrectness == Spec => []TypeOK
<1>1. Inv => TypeOK
  BY DEF Inv
<1> QED
  BY Invariance, <1>1, PTL

\* A configuration whose callback did not overlap another is in force once
\* the callback has run: poller and proxy never drift apart silently.
THEOREM Applied == Spec => []AppliedWhenQuiet
<1>1. Inv => AppliedWhenQuiet
  BY DEF Inv
<1> QED
  BY Invariance, <1>1, PTL

\* No event mixes the backend of one configuration with the identity of
\* another, however often the proxy is reconfigured meanwhile.
THEOREM OneConfig == Spec => []EventFromOneConfig
<1>1. Inv => EventFromOneConfig
  BY DEF Inv
<1> QED
  BY Invariance, <1>1, PTL

\* Events reach the topic in the order of publication, apart from those the
\* worker gave up on, for any queue length and any number of restarts.
THEOREM InOrder == Spec => []EventsInOrder
<1>1. ASSUME Inv
      PROVE  EventsInOrder
  <2>1. TypeOK /\ HistoryInv /\ QueueInv /\ IngestInv /\ OrderInv
    BY <1>1 DEF Inv
  <2>2. ASSUME NEW i \in DOMAIN topic
        PROVE  /\ Position(topic[i]) \in DOMAIN published
               /\ published[Position(topic[i])] = topic[i]
    <3>1. \E k \in DOMAIN published : published[k] = topic[i]
      BY <2>1, Lengths DEF IngestInv, Seen, QueueInv, Taken
    <3> QED
      BY <3>1 DEF Position
  <2> QED
    BY <2>1, <2>2 DEF EventsInOrder, OrderInv
<1> QED
  BY Invariance, <1>1, PTL
===============================================================================
