--------------------------- MODULE ResourceOwnership ---------------------------
(***************************************************************************)
(* Ownership-based detection: which user owns which resource, how that is  *)
(* learned from the stored requests and how a request by somebody else is  *)
(* reported.  The scanner learns owners per key, a key being a normalized  *)
(* path and a resource id; the table keeps them, the cache holds a copy of *)
(* the table, and the detector looks the owner up twice.                   *)
(*                                                                         *)
(* A path is the sequence of its segments, of which the normalizer         *)
(* replaces those that look like ids.  The detector takes the first one    *)
(* replaced for the resource id.  The SQL of the scanner takes the last    *)
(* segment its own regular expression matches, and the path itself when it *)
(* matches none.  No literal segment has the text of a placeholder in it.  *)
(***************************************************************************)
EXTENDS Naturals, FiniteSets, SequencesExt

CONSTANTS Segment,       \* segments of paths
          Uuid,          \* those uuidRegex matches
          Numeric,       \* those numericRegex matches
          Hex,           \* those hexRegex matches, of 12 to 32 characters
          Matched,       \* those the SQL matches
          Url,           \* paths, as sequences of segments
          User,          \* user ids
          NoUser,        \* the empty user id of a request that names a role
          MinSamples,    \* values of minimum_sample_size
          Dominances,    \* values of resource_dominance_percent
          MaxAccess      \* bound: stored requests of one user for one path

\* Upper case and hashes below 20 characters are replaced and not matched;
\* hashes above 32 characters are matched and not replaced.
ASSUME SegmentAssumption == /\ Uuid \cup Numeric \cup Hex \subseteq Segment
                            /\ Numeric \subseteq Matched
                            /\ Matched \subseteq Segment

ASSUME UrlAssumption == /\ Url # {} /\ IsFiniteSet(Url)
                        /\ Url \subseteq Seq(Segment)

ASSUME UserAssumption == IsFiniteSet(User) /\ NoUser \notin User

ASSUME ParameterAssumption == /\ MinSamples \subseteq Nat
                              /\ Dominances \subseteq Nat
                              /\ MaxAccess \in Nat

VARIABLES
  stored,      \* request_logs rows in the learning window, per path and user
  owner,       \* user_resource_mappings: owner of a key, NoUser without row
  confirmed,   \* keys whose row the operator has confirmed
  cache,       \* resource cache: owner of a key, NoUser when unknown
  scanPc,      \* where the scan is
  learned,     \* the scan's result: per key learned, its owner
  detectorPc,  \* where the detector is
  request,     \* the request under detection
  violation,   \* the horizontal_idor row written for it, or NoViolation
  torn,        \* history: the cache was replaced during this detection
  stale        \* history: a failure left the cache behind the table

vars == <<stored, owner, confirmed, cache, scanPc, learned, detectorPc,
          request, violation, torn, stale>>
table == <<owner, confirmed>>
scan == <<scanPc, learned>>
detection == <<detectorPc, request, violation>>
-------------------------------------------------------------------------------
StoredUser == User \cup {NoUser}

Request == [path : Url, user : StoredUser]

Placeholder == {":id", ":uuid"}

normalizeSegment(segment) ==
  CASE segment \in Uuid -> ":uuid"
    [] segment \in (Numeric \cup Hex) \ Uuid -> ":id"
    [] OTHER -> segment

Normalize(u) == [i \in DOMAIN u |-> normalizeSegment(u[i])]

Replaced(u) == {i \in DOMAIN u : Normalize(u)[i] \in Placeholder}

Found(u) == {i \in DOMAIN u : u[i] \in Matched}

\* Paths whose normalized form contains a placeholder.
ResourceUrl == {u \in Url : Replaced(u) # {}}

\* Faulty variant: the path itself is taken for the resource id.
WholePath(u) == <<Normalize(u), u>>

\* extractResourceID: the first segment the normalizer has replaced.
DetectorKey(u) == <<Normalize(u), u[Min(Replaced(u))]>>

\* regexp_replace: the leading .* is greedy, so the last match wins.
ScannerKey(u) ==
  <<Normalize(u), IF Found(u) = {} THEN u ELSE u[Max(Found(u))]>>

ScannerKeys == {ScannerKey(u) : u \in ResourceUrl}

Key == ScannerKeys \cup {DetectorKey(u) : u \in ResourceUrl}

NoViolation == [user |-> NoUser]

Violation == [path : Url, user : StoredUser, expectedUser : StoredUser]

\* resource_access: the requests in the window that the SQL counts for k.
Accesses(k) ==
  {a \in ({u \in ResourceUrl : ScannerKey(u) = k} \X StoredUser)
           \X (1 .. MaxAccess) : a[2] <= stored[a[1]]}

\* COUNT(*) of the group of a key and a user, and the sum of a key's groups.
AccessCount(k, user) == Cardinality({a \in Accesses(k) : a[1][2] = user})

TotalAccesses(k) == Cardinality(Accesses(k))

\* The order in which Go visits a map is arbitrary.
Order == SetToSeqs(StoredUser)

Leader(user, count) == [user |-> user, count |-> count, ties |-> 1]

\* Faulty variant: a user with as many accesses takes the lead.
VisitLastWins(k, top, user) ==
  LET count == AccessCount(k, user)
  IN  IF count > 0 /\ count >= top.count THEN Leader(user, count) ELSE top

\* One turn of the loop over userCounts, which has no user without accesses.
Visit(k, top, user) ==
  LET count == AccessCount(k, user)
  IN  CASE count > top.count -> Leader(user, count)
        [] count > 0 /\ count = top.count -> [top EXCEPT !.ties = @ + 1]
        [] OTHER -> top

NoLeader == [user |-> NoUser, count |-> 0, ties |-> 0]

\* The leader after the whole loop, and how many share its count.
TopUser(k, order) ==
  LET top[i \in 0 .. Len(order)] ==
        IF i = 0 THEN NoLeader ELSE Visit(k, top[i - 1], order[i])
  IN  top[Len(order)]

Eligible(k, top, minSample, dominance) ==
  /\ TotalAccesses(k) > 0
  /\ TotalAccesses(k) >= minSample
  /\ top.user # NoUser
  /\ top.ties = 1
  /\ top.count * 100 >= dominance * TotalAccesses(k)

\* Per key that has an eligible owner, that owner.
Learned(minSample, dominance, order) ==
  [k \in {k \in ScannerKeys :
            Eligible(k, TopUser(k, order[k]), minSample, dominance)} |->
     TopUser(k, order[k]).user]

\* Faulty variant: LoadConfirmedMappings is called instead.
LoadedConfirmedOnly == [k \in Key |-> IF k \in confirmed THEN owner[k]
                                                        ELSE NoUser]

\* LoadAllMappings: every row, confirmed or not.
Loaded == owner

Init == /\ stored = [a \in Url \X StoredUser |-> 0]
        /\ owner = [k \in Key |-> NoUser]
        /\ confirmed = {}
        /\ cache = [k \in Key |-> NoUser]
        /\ scanPc = "idle"
        /\ learned = << >>
        /\ detectorPc = "idle"
        /\ request = CHOOSE r \in Request : r.user = NoUser
        /\ violation = NoViolation
        /\ torn = FALSE
        /\ stale = FALSE
-------------------------------------------------------------------------------
(* The request consumer: Insert, then ShouldAlert and GetOwner.            *)

\* The row is stored before detection, so a scan may already count it.
InsertRequestLog(u, user) ==
  /\ detectorPc = "idle"
  /\ stored[<<u, user>>] < MaxAccess
  /\ stored' = [stored EXCEPT ![<<u, user>>] = @ + 1]
  /\ request' = [path |-> u, user |-> user]
  /\ detectorPc' = "shouldAlert"
  /\ violation' = NoViolation
  /\ torn' = FALSE
  /\ UNCHANGED <<table, cache, scan, stale>>

\* NoUser for a path without a resource id, and for one nobody owns.
CachedOwner == IF request.path \in ResourceUrl
               THEN cache[DetectorKey(request.path)] ELSE NoUser

\* Faulty variant: a resource that nobody owns is reported as well.
AlertsWithoutOwner == CachedOwner # request.user

\* There is an owner and it is somebody else.
Alerts == CachedOwner \notin {NoUser, request.user}

\* First lookup.
ShouldAlert ==
  /\ detectorPc = "shouldAlert"
  /\ detectorPc' = IF Alerts THEN "getOwner" ELSE "idle"
  /\ UNCHANGED <<stored, table, cache, scan, request, violation, torn, stale>>

\* Second lookup: the violation is recorded with its answer.
GetOwner ==
  /\ detectorPc = "getOwner"
  /\ violation' = [path |-> request.path, user |-> request.user,
                   expectedUser |-> CachedOwner]
  /\ detectorPc' = "idle"
  /\ UNCHANGED <<stored, table, cache, scan, request, torn, stale>>
-------------------------------------------------------------------------------
(* The scanner.                                                            *)

QueryAccesses ==
  /\ scanPc = "idle"
  /\ \E minSample \in MinSamples, dominance \in Dominances,
        order \in [ScannerKeys -> Order] :
       learned' = Learned(minSample, dominance, order)
  /\ scanPc' = "upsert"
  /\ UNCHANGED <<stored, table, cache, detection, torn, stale>>

\* Without anything to write the scan is complete.
NothingLearned ==
  /\ scanPc = "upsert"
  /\ learned = << >>
  /\ scanPc' = "idle"
  /\ UNCHANGED <<stored, table, cache, learned, detection, torn, stale>>

\* Faulty variant: the scanned value of confirmed replaces the stored one.
ConfirmedAfterUpsertReset == confirmed \ DOMAIN learned

\* New rows are not confirmed, rows that exist keep what they are.
ConfirmedAfterUpsert == confirmed

\* A batch is one implicit transaction: all rows are written or none.
WriteMappings ==
  /\ owner' = [k \in Key |-> IF k \in DOMAIN learned THEN learned[k]
                                                     ELSE owner[k]]
  /\ confirmed' = ConfirmedAfterUpsert

UpsertMappings ==
  /\ scanPc = "upsert"
  /\ learned # << >>
  /\ WriteMappings
  /\ scanPc' = "load"
  /\ learned' = << >>
  /\ UNCHANGED <<stored, cache, detection, torn, stale>>

\* The batch fails, or it commits and the answer is lost: the scan ends.
UpsertMappingsFails ==
  /\ scanPc = "upsert"
  /\ learned # << >>
  /\ \/ WriteMappings /\ stale' = TRUE
     \/ UNCHANGED <<table, stale>>
  /\ scanPc' = "idle"
  /\ learned' = << >>
  /\ UNCHANGED <<stored, cache, detection, torn>>

\* LoadAllMappings and Refresh.  Only the scanner writes owners, so nothing
\* that the cache holds can change between the two.
RefreshCache ==
  /\ scanPc = "load"
  /\ cache' = Loaded
  /\ torn' = (torn \/ detectorPc # "idle")
  /\ stale' = FALSE
  /\ scanPc' = "idle"
  /\ UNCHANGED <<stored, table, learned, detection>>

\* A failing load is logged; the scan is complete all the same.
LoadAllMappingsFails ==
  /\ scanPc = "load"
  /\ stale' = TRUE
  /\ scanPc' = "idle"
  /\ UNCHANGED <<stored, table, cache, learned, detection, torn>>
-------------------------------------------------------------------------------
(* The dashboard, the passing of time and the engine process.              *)

ConfirmUserResourceMapping(k) ==
  /\ owner[k] # NoUser
  /\ confirmed' = confirmed \cup {k}
  /\ UNCHANGED <<stored, owner, cache, scan, detection, torn, stale>>

LeaveWindow(u, user) ==
  /\ stored[<<u, user>>] > 0
  /\ stored' = [stored EXCEPT ![<<u, user>>] = @ - 1]
  /\ UNCHANGED <<table, cache, scan, detection, torn, stale>>

\* The engine stops wherever it is and starts again.  A failing load is a
\* warning: the engine then runs with an empty cache.
Restart ==
  /\ \/ cache' = Loaded /\ stale' = FALSE
     \/ cache' = [k \in Key |-> NoUser] /\ stale' = TRUE
  /\ scanPc' = "idle"
  /\ learned' = << >>
  /\ detectorPc' = "idle"
  /\ UNCHANGED <<stored, table, request, violation, torn>>

Next == \/ \E u \in Url, user \in StoredUser : InsertRequestLog(u, user)
        \/ ShouldAlert
        \/ GetOwner
        \/ QueryAccesses
        \/ NothingLearned
        \/ UpsertMappings
        \/ UpsertMappingsFails
        \/ RefreshCache
        \/ LoadAllMappingsFails
        \/ \E k \in Key : ConfirmUserResourceMapping(k)
        \/ \E u \in Url, user \in StoredUser : LeaveWindow(u, user)
        \/ Restart

Spec == Init /\ [][Next]_vars
-------------------------------------------------------------------------------
TypeOK ==
  /\ stored \in [Url \X StoredUser -> 0 .. MaxAccess]
  /\ owner \in [Key -> StoredUser]
  /\ confirmed \in SUBSET Key
  /\ cache \in [Key -> StoredUser]
  /\ scanPc \in {"idle", "upsert", "load"}
  /\ learned \in UNION {[S -> User] : S \in SUBSET Key}
  /\ detectorPc \in {"idle", "shouldAlert", "getOwner"}
  /\ request \in Request
  /\ violation \in Violation \cup {NoViolation}
  /\ torn \in BOOLEAN
  /\ stale \in BOOLEAN

\* The documented rule of learning: the sole user with the highest count,
\* and only with the share asked for.
SoleTop(k, user, dominance) ==
  /\ user # NoUser
  /\ \A other \in StoredUser \ {user} :
       AccessCount(k, other) < AccessCount(k, user)
  /\ AccessCount(k, user) * 100 >= dominance * TotalAccesses(k)

\* "It picks the sole user with the highest access count (ties skip
\* learning)": the loop over a map in arbitrary order learns exactly the
\* keys that have such a user, and that user.
LearnsSoleTop ==
  [][scanPc = "idle" /\ scanPc' = "upsert" =>
       \E minSample \in MinSamples, dominance \in Dominances :
         \A k \in ScannerKeys :
           IF k \in DOMAIN learned'
           THEN /\ SoleTop(k, learned'[k], dominance)
                /\ TotalAccesses(k) >= minSample
           ELSE \/ \A user \in User : ~SoleTop(k, user, dominance)
                \/ TotalAccesses(k) < minSample]_vars

\* "Rescans preserve an existing confirmed value": a confirmed row stays a
\* confirmed row, whatever scans, failures and restarts.
ConfirmedKept ==
  [][\A k \in confirmed : k \in confirmed' /\ owner'[k] # NoUser]_vars

\* A violation is about a resource that has a row, and names an owner; unless a
\* refresh falls between its two lookups, that is not the user it reports.
ViolationsNameOwner ==
  violation # NoViolation =>
    /\ violation.path \in ResourceUrl
    /\ owner[DetectorKey(violation.path)] # NoUser
    /\ violation.expectedUser # NoUser
    /\ ~torn => violation.expectedUser # violation.user

\* The cache holds no owner the table has not got, and lags behind it only
\* between an upsert and its refresh or after a failure that is only logged.
CacheFollowsTable ==
  /\ \A k \in Key : cache[k] # NoUser => owner[k] # NoUser
  /\ ~stale /\ scanPc # "load" => cache = owner

\* The resource id of u is the same to scanner and detector.
Unambiguous(u) == \E i \in DOMAIN u : Replaced(u) = {i} /\ Found(u) = {i}

\* A path with one id, and no other segment that the SQL takes for one, is
\* protected: while the cache follows the table, a request for it is let
\* through only if the scans have learned no owner for it, or the owner asks.
SingleIdProtected ==
  [][/\ ShouldAlert
     /\ detectorPc' = "idle"
     /\ ~stale /\ scanPc # "load"
     /\ Unambiguous(request.path)
     => owner[ScannerKey(request.path)] \in {NoUser, request.user}]_vars
===============================================================================
