# Sentinel Flow: specifications, model checking and proofs

Sentinel Flow watches the traffic of a web application and reports requests
that look like broken access control. This directory holds TLA+ modules of its
core, the TLC configurations that check them on small instances, and theorems
about them that TLAPS checks for every value of the constants. `PROJECT.json`
lists components, runs, mutants, findings, hazards and theorems, and maps every
definition to the lines it models.

- [1. The system](#1-the-system)
- [2. Modules](#2-modules)
- [3. Runs, bounds and what they show](#3-runs-bounds-and-what-they-show)
- [4. Fairness](#4-fairness)
- [5. What is proved](#5-what-is-proved)
- [6. Findings](#6-findings)
- [7. Not modelled](#7-not-modelled)
- [8. Plan](#8-plan)

## 1. The system

```
 client --> agent (Go proxy) --> backend
              |   ^
       events |   | configuration, every 5 min
              v   |
        dashboard (TypeScript, Prisma) <--------------------> Postgres
          |               |               |                    ^   ^
 sf-events-access   scan-requests   sf-check-requests          |   |
          |               |               |                    |   |
          v               v               v                    |   |
        detection-engine (Go)        ai-agent-checker (Go) ----+   |
          +--------------------------------------------------------+
```

| Component | State it keeps | Operations that change it |
| --- | --- | --- |
| agent proxy (`agent/internal/proxy`) | current backend proxy and identity resolver | serve a request, apply a configuration, publish an event per response |
| agent poller (`agent/internal/config`) | last configuration fetched, callbacks | poll, compare, start callbacks |
| agent sink (`agent/internal/sink`) | bounded queue, one worker | publish, post, close |
| agent main | phase of the process | start, signal, shutdown, exit |
| request consumer (`consumer/request_consumer.go`) | message in hand; offset and rows outside | fetch, store, detect, store violations, commit |
| role learning and detection (`scanner.go`, `mapping.go`, `mapping_cache.go`, `detector.go`) | mapping table, mapping cache | scan, detect, load at start |
| ownership learning and detection (`idor_scanner.go`, `user_resource.go`, `resource_cache.go`, `idor_detector.go`, `normalizer/path.go`) | ownership table, resource cache | scan, detect, load at start |
| scan consumer (`scan_consumer.go`) | message in hand; offset outside | fetch, run both scans with the message's parameters, commit |
| ai-agent-checker | message in hand; rows outside | validate, run agent, update, commit |
| dashboard agents API | rows of the agents | create, update, delete, heartbeat, configuration, receive events |
| dashboard Kafka producer (`libs/kafka.ts`) | one shared producer | connect, send, disconnect |
| dashboard deep checks (`ai-checker-request.service.ts`) | rows of `ai_checker_requests` | create with lock, send, mark failed |
| dashboard role mappings | rows of the mapping table | add, remove |
| dashboard scan settings (`learning-scan-settings.ts`, `learning.scan.settings.service.ts`) | one row of `configurations` | parse and clamp, save, read for a scan |
| dashboard accounts (`auth.controller.ts`, `auth.middleware.ts`, `sessions.ts`) | organizations, users; the session in the cookie | register, log in, log out, three middlewares that redirect |
| dashboard pages | data of the loader, fetchers, sheets, dialogs, forms, address | navigate, submit, take an answer, reload, lose the page to an error |

**How they interact.** The agent posts events to the dashboard over HTTP; the
dashboard and the two Go services exchange messages through Kafka and share
Postgres. Inside the engine two goroutines, the request consumer and the scan
consumer, share the two caches, each access under a lock of its own. Inside the
agent, the poller's callbacks, the request handlers, one goroutine per response
and the sink's worker share the proxy's fields and the queue. Inside the
dashboard, requests share the producer and, in a browser, the cookie; a page's
submissions share its fetchers, and effects compare answers with what is on the
screen when they arrive.

**What is hard.**
- Two stores are never updated together (row and offset, row and message, table
  and cache, organization and user), and any process can stop between the two.
- Every call to Postgres, Kafka and HTTP can fail after it took effect.
- A consumer's commit covers every lower offset of its partition, so an error
  that is "not committed" is committed by the next success.
- A detection reads its cache up to three times; a scan replaces it at once.
- Scanner and detector find the resource id of a path by different rules.
- Operators edit the table that scans rewrite.
- Callbacks run in goroutines of their own and can overtake each other.
- Main functions return on a signal without waiting for their goroutines.
- Calls connect and disconnect a producer others are sending with.
- Middlewares redirect to pages that other middlewares guard.
- A page decides from loader data older than its last answer, takes answers for
  sheets that have been closed, and is left while the server still works for it.

**What makes each part correct.** Nothing committed is lost without a trace,
nothing committed is touched again, duplicates are bounded by restarts (request
consumer). The cache never allows what the table does not back, manual rows
survive scans, violations are consistent (roles). Owners are exactly the
documented ones, the cache follows the table, confirmations survive, paths with
an unambiguous id are protected (ownership). A scan runs with parameters that
were saved, both halves or no last word (scans). At most one check of a finding
runs and every one is answered (deep checks). An event never mixes two
configurations, events stay in order, settings are applied in the end (agent).
Nobody is locked out, redirects come to an end (accounts). What a page shows is
what the server holds or has answered, and a page is lost only for a cause
(pages). `PROJECT.json` lists the hazards behind these, each at its line.

## 2. Modules

| Module | Models | Checked by | Proved in |
| --- | --- | --- | --- |
| `ConsumerContract` | what a Kafka consumer group promises: a commit only covers messages whose handler has returned, and never moves back | refinement by three consumers | |
| `RequestConsumer` | request consumer of the detection engine | `MCRequestConsumer` | `DetectionEngineProofs` |
| `RoleMappings` | role learning, edits and detection | `MCRoleMappings` | `DetectionEngineProofs` |
| `ResourceOwnership` | path normalizer, ownership learning and detection | `MCResourceOwnership` | `ResourceOwnershipProofs` |
| `ScanSettings` | parsing and clamping of the scan parameters | with the two below | `ScanRequestsProofs` |
| `SharedProducer` | the dashboard's one Kafka producer and the calls that share it | `MCScanRequests` | `ScanRequestsProofs` |
| `ScanRequests` | settings, queued scans and the scan consumer, over `SharedProducer` and `ScanSettings` | `MCScanRequests` | `ScanRequestsProofs` |
| `CheckRequests` | deep checks: dashboard and checker composed over topic and table | `MCCheckRequests` | `CheckRequestsProofs` |
| `Agent` | poller, proxy, resolver, sink and main of the agent, with the dashboard's two routes | `MCAgent` | `AgentProofs` |
| `Accounts` | registration, log-in, log-out, middlewares, tabs with one cookie | `MCAccounts` | `AccountsProofs` |
| `AgentsPage` | the agents page with its sheet and dialogs, and its routes | `MCAgentsPage` | `AgentsPageProofs` |
| `BrowserTab` | one tab as React Router runs it: loads, fetcher, calls left behind | `MCConsole` | `ConsoleProofs` |
| `FindingsPage`, `GraphExplorer`, `RequestLogs`, `SettingsPage` | a page each with its loader, its action and its table, over `BrowserTab` | `MCConsole` | `ConsoleProofs` |
| `Console` | one tab that moves between these pages, and the others who write | `MCConsole` | `ConsoleProofs` |

`ScanRequests` extends `SharedProducer` and `ScanSettings`; `Console` extends
the four pages, which extend `BrowserTab` (`SettingsPage` also `ScanSettings`).
The three consumers instantiate `ConsumerContract` under a refinement mapping.
`DetectionEngineProofs` extends both `RequestConsumer` and `RoleMappings`, whose
specifications stay apart (`Spec` and `RolesSpec`).

Conventions: an action bears the name of the function or statement it models;
`...Fails` is the same statement returning an error; history variables are
marked `history` where they are declared and no guard reads them; operators
marked `Faulty variant` are plausible bugs, used only to see that a property
notices them.

### RequestConsumer

`topic` is what the broker keeps per partition, `committed` the group's offset,
`position` the reader's. `pc` follows `Run` and `processMessage`
(`request_consumer.go` 67-148): `select`, `fetch`, `process`, `detect`,
`violations`, `commit`. An event is only known by what decides its treatment:
it does not parse, names neither user nor role, or identifies somebody.
`requestLogs` and `violations` count rows per message.
- `InsertRequestLogFails`, `InsertViolation` and `CommitMessages` cover errors
  whose effect took place and errors whose effect did not.
- `Cancel` marks the context, `Exit` is `main` returning from `<-ctx.Done()`,
  which may happen wherever the consumer is; with a cancelled context queries
  fail.
- `DetectAll` may report any types: the caches behind it are the next modules.

### RoleMappings

`rows` is `endpoint_role_mappings` by path and role (absent, auto-generated or
manual), `cache` the mapping cache, `hits` the stored requests of the learning
window. The detector's three reads are three actions. The scan is query, upsert
(one transaction) and refresh; the operator's additions and removals and the
passing of time interleave with all of them. `Learned` is the SQL of the scan
with the two parameters a scan request may override. The empty role, stored as
an empty string and not as NULL, is learned like any other; it is part of the
model. `Restart` is the crash and the start of the engine, which loads the
table or does not start. `torn` records that a refresh fell into the detection
under way.

### ResourceOwnership

A path is a sequence of segments. The three regular expressions of
`normalizer/path.go` are the sets `Uuid`, `Numeric` and `Hex`, that of the
scanner's SQL is `Matched`; `SegmentAssumption` is all that is assumed of them:
numbers are matched, but the SQL misses short hashes and upper case, and takes
hashes of more than 32 characters, which the normalizer leaves alone.
`Normalize` replaces segments; `DetectorKey` takes the first one replaced
(`extractResourceID`), `ScannerKey` the last one matched (the leading `.*` of
the expression is greedy), or the path itself when there is none. A path
without a replaced segment is stored and never alerts. Each scan draws an order
per key in which Go visits the map of counts; `TopUser` is that loop, `Visit`
one turn of it, `Eligible` the conditions after it. A failing load after the upsert,
which the code logs and ignores, and a start with an empty cache set `stale`.
Confirmation of a row is an action although no page calls it yet.

### CheckRequests

A call of `createAICheckerRequest` goes through lock, look-up, insert with
commit, send and, if the send fails, an update. A transaction can fail or time
out anywhere, the commit can lose its answer, a send can write the message zero
to two times and report either result (not success without a message). The
checker follows `Run` and `processMessage` of `check_consumer.go`. `created`
keeps the requests of a finding in order of creation, which under the row lock
is the order of `created_at`. `unanswered` records requests a handler returned
for without an answer: missing project (committed, row left running),
unreadable project (an error, not committed), last update failed.

### Agent

A configuration is a model value that stands for backend url, identity endpoint
and mapping together, as the version hash does; `Fetchable` and `Valid` say
whether the poller accepts it and whether the proxy can be rebuilt from it.
`pending` counts callback goroutines per configuration, `active` is what the
proxy's lock protects, `snapshot` what `ServeHTTP` reads of it. The event's
goroutine resolves and publishes; `queue` is the channel, `worker` the event
being posted, `inbox` what the dashboard has received and not finished, so a
post that times out can still be handled later. `Close` is the deferred close
of the channel; publishing after it panics, which ends the process.

### ScanSettings, SharedProducer, ScanRequests

Parameters are counted in halves, so that a number can be a fraction, and
`NoNumber` is a field that is missing or garbage. `ClampNumber` truncates the
two that the engine decodes as integers; `Override` is what `json.Unmarshal`
makes of a message: with one fraction in an integer field the whole message is
ignored and the engine's own defaults apply.

`SharedProducer` has one `connectionStatus` and per call the place where it is
between connect and disconnect. The connection is modelled from how `kafka.ts`
uses it: a send is refused unless connected, and a disconnect cuts off what
others are sending (`cut`), which fails them or lets them pass. `overlap`
and `fault` name the causes a failure may have.

`RunLearningProcess` reads the settings and queues them through a call of the
shared producer; other calls (an access event in the run) use it at the same
time. The engine's loop is `FetchMessage`, `RbacScan`, `IdorScan`,
`CommitMessages`, with a failing variant of each; a failing scan goes on to the
next message without a commit, and a commit that fails may have taken effect.
`StopEngine` can happen anywhere. `whole` records the messages both of whose
scans succeeded. What a scan does inside is the two modules before.

### Accounts

The session lives in the cookie, so a cookie is a user or nobody, and may be of
an older database. A request goes through `firstTimeSetupMiddleware`,
`guestMiddleware` and `authMiddleware` to the loader or action of its page;
these are one step, because organizations are never deleted. A registration has
steps of its own, because it counts, creates the organization and creates the
user in three queries. Each insert can fail, or commit and lose its answer;
`broken` records a registration that ended between the two. A tab waits for one
request; a click leaves the one before to the server (`abandoned`), whose answer
may still set the cookie.

### AgentsPage

Deploy and edit share the form, a fetcher and an effect, and the effect decides
by the sheet that is open when an answer comes; the model keeps that
(`ShowAnswer`) and records which deployments nobody waited for (`unwatched`)
and which edits were answered after their sheet closed (`strayed`). A mapping
is JSON, empty, blank or broken: it is stored before it is parsed for the
answer, and the loader parses every row, so a broken one takes the whole page
(`LosePage`). A change that was made can lose its answer (`Committed`), a query
can fail without one (`QueryFails`), and so can the loader's query and the
reload itself (`RevalidateFails`); `mishap` records these. `made` holds the
agents whose deployment was answered with success: one that was created and
answered with an error has no answer to show its token from. Tokens carry how
often they have been hashed.

### BrowserTab, the pages and Console

`load` is the load the tab waits for, replaced by newer ones; `action` holds the
call the server handles for the page's fetcher and one of a page left behind;
`ReceiveAnswer` makes the loaders run again after a success, and not after a
4xx or 5xx; a loader or request that fails loses the page. A render and the
effects that belong to it are two steps: `fetcher.pending` is the effect of the
graph's sheet on an answer (`RunEffect` calls the revalidator), `reader.opened`
the effect that asks for the logs of a node (`AskForLogs`). They run some time
later, but before the page is left or the sheet closed. A statement may take
effect and answer with an error (`AnswersUntold`), and the update that should
undo it may fail; `untold` records that the page is in such a state until a call
of it succeeds.

The pages add what they show and what they let a user do: the button of a deep
analysis and its duplicate refusal (`FindingsPage`, with the AI checker's list),
the sheet of a node with roles and recent logs (`GraphExplorer`), count and rows
in two queries with redirects to a page that exists (`RequestLogs`), the form
that shows the last answer (`SettingsPage`). `logs` are timestamps in order of
arrival; `Newest` leaves to the database which of several logs with one
timestamp a query takes, anew for every query. Several queries of one loader are
one step, except in `RequestLogs`, where a property is about them.

## 3. Runs, bounds and what they show

Every property of a passing run has a mutant in `PROJECT.json`: a change to one
mapped definition under which the run finds the property violated. Deadlock is
left unchecked where the system really may stop: bounded numbers of starts,
messages, calls, clicks or requests are used up.

| Run | Instance | States | Properties |
| --- | --- | --- | --- |
| `request_consumer` | 1 partition, 3 events of any kind, 2 starts | 658 k | `CommittedIsAccounted`, `OneRowPerStart`, `ViolationsHaveRows`, `CommittedIsFinal`, `KeepsContract`, `EventuallyHandled` |
| `role_mappings` | 1 path, 2 roles and the empty role, 2 requests each, sample sizes 1 and 2, threshold 50 % | 761 k | `CacheIsBacked`, `ManualRowsKept`, `UntornViolationsAgree` |
| `resource_ownership` | 1 path, 2 users and the empty user, 3 requests each, sample sizes 2 and 3, dominance 50 % and 95 % | 47 k | `LearnsSoleTop`, `CacheFollowsTable`, `ConfirmedKept`, `ViolationsNameOwner` |
| `single_id_protected` | a path with one agreed id, one whose id the SQL misses while it matches a literal hash, one without id; 1 user | 255 k | `SingleIdProtected` |
| `check_requests` | 1 finding, 2 calls, 3 messages, 2 starts of the checker | 213 k | `OnlyNewestRuns`, `CommittedIsAnswered`, `KeepsContract`, `RunningIsAnswered` |
| `agent` | 2 configurations, 2 requests, one with the header, queue of 1, 2 changes, 1 start | 408 k | `TypeOK`, `AppliedWhenQuiet`, `EventFromOneConfig`, `EventsInOrder`, `AnsweredIsSettled`, `SettingsApplied` |
| `scan_requests` | 1 scan and 1 access call, 2 messages per topic, 1 save, 1 document written by hand, 2 starts of the engine | 312 k | `ProducerIsShared`, `ScanParamsAreSaved`, `LastCommittedIsWhole`, `KeepsContract`, `QueuedIsAttempted` |
| `accounts` | 2 tabs, 2 registrations, 2 clicks, cookies of this database and of an older one | 114 k | `NobodyLockedOut`, `RedirectsSettle` |
| `agents_page` | 2 ids, 1 name, mappings that are JSON, empty or broken, 2 submissions | 2.19 M | `DeployedTokenIsShown`, `SheetHasAgent`, `PageLostForCause`, `ShownTokenAuthenticates` |
| `console` | 3 clicks, and either 2 findings, 1 endpoint, 2 roles, 2 forms and 1 change by others, or up to 3 logs with 3 timestamps, page sizes 1 and 2 and 2 changes by others | 2.31 M | `RefusedForCause`, `SavedRolesAreShown`, `NothingIsSkipped`, `ShownSettingsAreStored` |

Only `agent` checks `TypeOK`, for the bound of its queue; the other modules
prove theirs (section 5).

Why the bounds are enough to be of interest:
- *Request consumer.* Three offsets give a failed event with a predecessor and
  a successor; two starts give a redelivery after each kind of stop. Partitions
  do not interact except through the one message in hand; the proofs cover any
  number.
- *Role mappings.* Two requests per role reach both sides of the threshold and
  of the sample size, ties included; paths are independent rows and the proofs
  cover any set.
- *Ownership.* Three requests per user give ties, sole leaders below and above
  both percentages, and a leader who is the empty user. `single_id_protected`
  has a path whose keys of detector and scanner differ beside one where they
  agree and one the detector leaves alone; one user and the empty user suffice
  to be let through or not. The proof covers any set of paths.
- *Deep checks.* Two calls race for the lock and follow each other after a
  failure; three messages allow a duplicate of each and one more; two starts
  allow a redelivery.
- *Agent.* Two changes give a callback overtaken by another and a return to the
  first configuration; a queue of one overflows with two requests. One start
  keeps liveness tractable; the proofs cover any number of starts, and
  configurations the proxy or the poller cannot use.
- *Scans.* Two calls are what it takes for one to disconnect under the other;
  two messages give a duplicate of the scan and a successor of a failed one;
  one save falls before or after the settings are read. The form, the document
  written by hand and the engine's own defaults hold days that are not whole,
  numbers above and below the bounds and a missing field. The proofs cover any
  calls, documents and numbers.
- *Accounts.* Two first registrations from two tabs are the smallest race, and
  two clicks let a registration be abandoned. An old cookie exists from the
  start.
- *Agents page.* Two submissions give an edit answered while the sheet for the
  next deployment is open, and a deletion between an edit and its answer.
- *Console.* Three clicks give a page left before its answer, a second request
  or change after the first one's answer or failure, and a return to a page that
  was left; two findings let the answer about one meet the sheet of the other;
  one change by others is an edit between two loads, or a load or request that
  is lost. Failing statements are not bounded.
  Logs have nothing in common with the other tables, so the constraint
  `OneSubject` of the cfg keeps the two apart: as long as there are no logs, the
  tab follows the sidebar and others change one thing; once there are logs,
  nothing else is written or opened. Three logs at page sizes 1 and 2 have pages
  that appear and disappear; logs arrive during a walk at any of three
  timestamps, so before, between, after and level with those that were there.
  The proofs cover any mixture.
  Each exception the four properties name occurs: without it, TLC finds the
  property violated on the same instance.

`SYMMETRY` is used only where no temporal property other than an action
property is checked (roles, users, ids of agents).

The two violation runs, `scan_keeps_manual_roles` and `close_drains`, are
described under [findings](#6-findings).

## 4. Fairness

- *RequestConsumer*: weak fairness of the consumer goroutine as a whole. The Go
  scheduler runs it; nothing is assumed of single outcomes, so every insert and
  every commit may fail for ever. `EventuallyHandled` is conditional on the
  process staying up, because no code restarts it.
- *ScanRequests*: weak fairness of the consumer's loop (`Run`), in the same way.
  That a scan ends is an assumption: its queries have no time limit.
  `QueuedIsAttempted` is conditional on the engine staying up. The dashboard's
  calls have no fairness.
- *CheckRequests*: weak fairness of each call and of the checker. That the agent
  command ends is an assumption: `agent_runner.go` sets no time limit.
  `RunningIsAnswered` is conditional on the checker staying up and excludes the
  cases that are named in it.
- *Agent*: weak fairness of the poller, of each callback, of each event's
  goroutine and of the worker. The poller ticks for ever and its fetch succeeds
  eventually, which assumes a dashboard that answers in the end; the resolver
  and the worker have a time limit on every call. No fairness for the backend,
  for the dashboard's handler or for the operator.
- *Accounts*: weak fairness of the server per request and of each tab in taking
  an answer that is not lost. Users need not click. A request may still end in
  the error page.

No strong fairness is used. `AgentsPage`, `Console` and the two learning modules
state safety only and have no fairness.

## 5. What is proved

TLAPS proves, for every value of the constants under the named assumptions of
the modules, the theorems below. The assumptions are: bounds are natural
numbers; `NoRole`, `NoUser`, `NoCall`, `NoRow` and `None` are not members of
the sets they stand beside, and `None` is not the error of a duplicate; usable
configurations are configurations; there is a path; numeric segments are matched
by the SQL (`SegmentAssumption`), a path is a sequence of segments, and paths
and users are finitely many, as rows of a table are (`UrlAssumption`,
`UserAssumption`); documents and forms are built from whole and half numbers;
endpoints are not roles; page sizes lie within the largest one; timestamps are
natural numbers, equal ones included (`TimeAssumption`); the addresses
that can be typed are those of the request logs; the default name is a name.

| Module | Theorem | States |
| --- | --- | --- |
| `DetectionEngineProofs` | `TypeCorrectness`, `CommittedAccounted`, `RowsBounded`, `ViolationsBacked`, `Finality` | the safety properties of `request_consumer` |
| | `Refinement` | `RequestConsumer` implements `ConsumerContract` |
| | `RolesTypeCorrectness`, `CacheBacked`, `ManualRows`, `UntornDetection` | all properties of `role_mappings` |
| `ResourceOwnershipProofs` | `TypeCorrectness`, `Learning`, `OrderIsIrrelevant`, `CacheFollows`, `Detection`, `ConfirmedRows`, `SingleIds`, `NumbersAreUnambiguous` | all properties of `resource_ownership` and that of `single_id_protected` |
| `CheckRequestsProofs` | `TypeCorrectness`, `OneRuns`, `Answered` | the invariants of `check_requests` |
| | `Refinement` | the checker implements `ConsumerContract` |
| `AgentProofs` | `TypeCorrectness`, `Applied`, `OneConfig`, `InOrder` | the invariants of `agent` |
| `ScanRequestsProofs` | `TypeCorrectness`, `SharedProducerIsSound`, `ParamsAreSaved`, `CommittedIsWhole` | the invariants of `scan_requests` |
| | `Refinement` | the scan consumer implements `ConsumerContract` |
| `AccountsProofs` | `TypeCorrectness`, `SomebodyCanLogIn` | the invariant of `accounts` |
| `AgentsPageProofs` | `TypeCorrectness`, `DeployedShown`, `SheetsHaveAgents`, `PageIsLostForCause`, `TokensAuthenticate` | the invariants of `agents_page` |
| `ConsoleProofs` | `TypeCorrectness`, `Refused`, `SavedRoles`, `SettingsShown`, `NothingSkipped` | all properties of `console` |

Each specification has an inductive invariant `Inv` (theorem `Invariance`; for
roles `RolesInvariance`), from which the rest follows. The checked invariants
are not inductive; what each `Inv` adds is:
- *Request consumer.* Every message below the reader's position is accounted
  for, except the one in hand (`AccountedInv`), which is the last one fetched
  and is not committed (`InFlightInv`). A message the running process has not
  stored yet has at most as many rows as there were earlier starts (`RowsInv`),
  and a violation still to be written finds a row to spare (`ViolationsInv`).
- *Role mappings.* A result about to be installed has been written to the table
  (`ScanInv`). What the first and second read have seen holds until a refresh
  (`DetectionInv`).
- *Ownership.* Confirmed keys have rows (`ConfirmedInv`). Between its look-ups a
  detection has an owner, in the table and in the cache, and somebody else as
  long as the cache is not replaced (`DetectionInv`); since rows are only ever
  added (`RowsStay`), a refresh in between may change the owner, and never loses
  him.
  `SingleIds` rests on the lemma `SameKey`: on a path with one id that both
  sides see, the key the detector looks up is the key the scanner learned;
  `NumbersAreUnambiguous` says that paths with one number are such paths.
  `Learning` rests on the loop over the counts. `Leads` is its invariant: no
  user seen so far has more than the leader, and the ties are 1 exactly if all
  others have fewer. `VisitLeads` shows that a turn keeps it; since there is no
  induction here, `TopUserLeads` takes the least turn after which it fails
  (`Least`), and uses that an order of all users, being injective, visits each
  of them. `EligibleIsSoleTop` compares the conditions after the loop with the
  documented rule, and from it follows that two scans of the same requests learn
  the same (`OrderIsIrrelevant`).
- *Deep checks.* A call past the look-up holds the lock (`LockInv`), so no
  request of its finding can start to run between look-up and insert
  (`CreateInv`). Messages belong to requests whose row exists (`RowInv`).
  Committed offsets are settled, and what is settled and still running is
  unanswered (`OffsetInv`, `SettledInv`). That the commit never passes the
  message in hand or the position is also what the refinement needs.
- *Agent.* Without overlap there is at most one callback and it is for the
  configuration fetched last (`PollerInv`). Backend and resolver always belong
  together (`ConfigInv`). The queue is the end of the sequence of published
  events; the worker holds the one before it, and whatever the dashboard holds
  or has produced lies before that (`QueueInv`, `IngestInv`).
- *Scans.* A call that has been alone so far finds the connection as it left it
  (`ProducerInv`). What the parser returns is within the bounds, whatever the
  document, and a queued payload never changes (`PayloadInv`, `ParamsInv`). The
  loop leaves no gap behind its position (`LoopInv`), from which the refinement
  follows.
- *Accounts.* A redirect never leads to the error page (`RedirectInv`). A
  registration has its form, and leaves `createUser` only after the user was
  created or with a failure that is named (`FormInv`). With `broken` in the
  property, what it proves is that races, refusals, old cookies and abandoned
  registrations never cause a lock-out: only an end between the two inserts does.
- *Agents page.* An answer somebody waits for finds the sheet that asked for it
  (`RequestInv`, `WatchInv`). A token in the dialog is as drawn,
  or that of an edit whose sheet was closed (`TokenInv`). A row that is no JSON
  and an action that throws have a named cause (`CauseInv`).
- *Console.* What a page shows has travelled: the server read it, a load or an
  answer carried it, the page kept it. Each part of `Inv` says what holds at
  every stop, and when it need not: while the server has done what the fetcher
  waits for and the page has not been told (`Done`), and after an error that
  hides what was done (`Told` is its absence). `CallsInv` says that the fetcher
  waits for a call of the page that is shown, that there is no other call unless
  one was left behind, and that an effect is pending only on the graph.
  `FindingsInv`, `RolesInv` and `SettingsInv` follow statuses, roles and settings
  of a session that is alone; `RolesInv` needs no effect to be pending before it
  says anything of what the sheet shows. `WalkInv` and `AheadInv` follow a walk
  through the request logs, in what is shown and in what a load is about to show:
  of the logs known at the first page, those with fewer newer ones (`Ahead`) than
  places walked have been seen, or are tied. Two lemmas carry this: a log that
  is not tied is among the `n` newest, whatever the database takes, exactly if
  fewer than `n` are newer (`AmongNewest`), and a new log only adds to what is
  ahead of another (`NewLogKeeps`). A lemma per page (`...Elsewhere`) says that a
  step which leaves its table, its data and its call alone keeps its part, so
  that each action is only argued about on its own page.

Only model-checked is liveness (`EventuallyHandled`, `RunningIsAnswered`,
`AnsweredIsSettled`, `SettingsApplied`, `QueuedIsAttempted`, `RedirectsSettle`),
which is out of the prover's reach, as is `ENABLED`. All invariants and action
properties of the passing runs are proved. What the proofs leave to TLC beside
liveness is that the interesting cases happen at all: every property is
violated by a mutant of the model on the instances of section 3.

## 6. Findings

| Run | The code | Against |
| --- | --- | --- |
| `scan_keeps_manual_roles` | a scan replaces the cache by what it has just learned (`scanner.go:112`); a manual role in force since the start is refused on an endpoint of which the scan has learned another role, until a scan learns it too or the engine starts again | `PRD.md:181`: allowed roles are learned and manually added |
| `close_drains` | `Close` closes the channel and the process ends (`dashboard.go:60`) | the comment "Close drains the queue" above it |

Seen while modelling, and modelled as the code does it, without a run of their
own:
- An event whose insert failed is covered by the commit of the next one of its
  partition, although the comment at `request_consumer.go:85` wants it
  uncommitted. `CommittedIsAccounted` names it as a cause.
- Learned rows are never deactivated (`mapping.go:54`), so a role once learned
  comes back with the next start; `src/docs/docs/detection-engine.md:72`
  describes an active mapping set without the roles below the threshold.
- On a path with two ids the owner is learned for the last and looked up for
  the first, and a literal segment that is a long hash is taken for the id by
  the SQL (`idor_scanner.go:66`); `src/docs/docs/detection-engine.md:98` speaks
  of the path's learned owner as if there were one. `SingleIdProtected` is limited to paths where both
  agree.
- A request that stays running, because the dashboard stopped before the send,
  the update to failed did not succeed, or the checker could not answer it,
  refuses all later calls of its finding (`ai-checker-request.service.ts:83`)
  with the message "Analysis already in progress or completed" (`:17`).
- An edit answered while the sheet for a new agent is open shows its hashed
  token in the dialog "Agent Successfully Created" (`agents.page.tsx:299`).
  `ShownTokenAuthenticates` names it as a cause.
- The findings page keeps one error for the whole page, so the refusal of one
  deep analysis is shown with another finding (`findings.page.tsx:219`).
- After an error the list of the findings is not read again. If the call left a
  running request (the commit lost its answer, or the update to failed did not
  succeed), the button is offered again and the second click is refused as a
  duplicate. `RefusedForCause` names it as a cause.
- Between the render of an answer and its effect, the sheet of a node shows the
  old roles with its buttons enabled: the revalidation that disables them is
  started by the effect (`detail.node.sheet.tsx:87-94`). `SavedRolesAreShown`
  names it as an exception.
- Until the logs of a node come, the sheet shows those of the node before under
  the new title; "Loading..." appears only if there were none
  (`detail.node.sheet.tsx:93`, 223-231). The model has the step
  (`AskForLogs`), and no property is stated about it.
- A change of roles or a save of the settings that was stored but lost its
  answer is reported as an error, and the page goes on to show what was before
  (`settings.page.tsx:63-70`, the catch of the graph's action).
- Request logs are sorted by a timestamp that is not unique
  (`request.log.service.ts:36`): of logs with the same one, a walk through the
  pages may show one twice and another never. `NothingIsSkipped` names it.
- A deployment that is stored and loses its answer leaves an agent whose token
  nobody was ever shown (`agents.page.tsx:63`).
- An organization whose insert lost its answer closes the registration, and no
  user exists (`auth.controller.ts:49`). `NobodyLockedOut` names it as a cause.

## 7. Not modelled

- The Kafka sink of the agent (nothing constructs it), `ResourceCache.RecordAccess`
  and `LoadConfirmedMappings` (no caller outside tests), `GetResourceID` and
  `ExtractedIDs` (unused).
- The extraction of identities from JSON (`me_resolver.go` from line 123 on),
  the reading of environments, the agent command's prompt and output: data the
  modelled control takes as given.
- Blank segments and query strings of paths; wording of messages, logging,
  formatting.
- Rebalancing of consumer groups: each service runs once, with all partitions.
- Read-only displays: metrics and the start page, the panels of the findings
  sheet, the page of user-resource mappings, the display of a learned mapping,
  the validity mark and the button Format of the code editor, the upload
  dropzone, and the primitives under `components/ui`. They keep no state that
  another part reads.
- Several queries of one loader are one step, except those of the request logs.
- The documentation site and the example projects.

## 8. Plan

Done, in the order of importance: the at-least-once pipeline
(`ConsumerContract`, `RequestConsumer`), the two learning and detection loops
(`RoleMappings`, `ResourceOwnership` with the normalizer), deep checks
(`CheckRequests`), the agent (`Agent`), scans from the saved settings to the
engine over the shared producer (`ScanSettings`, `SharedProducer`,
`ScanRequests`), accounts (`Accounts`), the agents page (`AgentsPage`), each with
its proofs; and the console (`BrowserTab`, four pages, `Console`), with its
proofs.

Left:
1. The extraction of identities as an algorithm against a reference definition.
2. A contract for the four pages of the console that each of them refines, in
   place of the parts of `Inv` that say the same of each.
