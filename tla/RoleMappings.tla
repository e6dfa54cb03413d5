----------------------------- MODULE RoleMappings -----------------------------
(***************************************************************************)
(* Role-based detection: what roles an endpoint is allowed to be called    *)
(* with, how that is learned, edited and used.  Four parties share state:  *)
(*   - the request consumer stores a request and asks the detector, which  *)
(*     reads the mapping cache up to three times, each under its own lock; *)
(*   - the scanner, in another goroutine, queries request_logs, upserts    *)
(*     endpoint_role_mappings and replaces the cache;                      *)
(*   - an operator adds and removes roles in the dashboard, which writes   *)
(*     the table and never the cache;                                      *)
(*   - the engine restarts and loads the cache from the table.             *)
(***************************************************************************)
EXTENDS Naturals, FiniteSetsExt

CONSTANTS Path,        \* normalized paths
          Role,        \* role names
          NoRole,      \* the empty role of a request that names only a user
          MinSamples,  \* values of minimum_sample_size a scan may run with
          Thresholds,  \* values of violation_threshold_percent, likewise
          MaxHits      \* bound: request_logs rows of one path and role

ASSUME RoleAssumption == NoRole \notin Role

ASSUME PathAssumption == Path # {}

ASSUME ParameterAssumption == /\ MinSamples \subseteq Nat
                              /\ Thresholds \subseteq Nat
                              /\ MaxHits \in Nat

VARIABLES
  hits,        \* request_logs rows in the learning window, per path and role
  rows,        \* endpoint_role_mappings: absent, auto_generated or manual
  cache,       \* mapping cache: roles allowed per path, none when not mapped
  scanPc,      \* where the scan is
  pathRoles,   \* the scan's result: per analysed path, the roles to allow
  detectorPc,  \* where the detector is
  request,     \* the request under detection
  violation,   \* the vertical_idor row written for it, or NoViolation
  revoked,     \* history: rows the operator removed and nothing recreated
  torn         \* history: the cache was replaced during this detection

rolesVars == <<hits, rows, cache, scanPc, pathRoles, detectorPc, request,
               violation, revoked, torn>>
scan == <<scanPc, pathRoles>>
detection == <<detectorPc, request, violation>>
-------------------------------------------------------------------------------
\* The empty string is a role like any other for SQL: it is not NULL.
StoredRole == Role \cup {NoRole}

Mapping == Path \X StoredRole

Request == [path : Path, role : StoredRole]

\* What a scan computes: roles for the paths it has analysed.
ScanResult == UNION {[S -> SUBSET StoredRole] : S \in SUBSET Path}

NoViolation == [role |-> NoRole]

Violation == [path : Path, role : Role, expectedRoles : SUBSET StoredRole]

\* Query: share of a role among the requests of its path, as a percentage.
TotalRequests(p) == MapThenSumSet(LAMBDA r : hits[<<p, r>>], StoredRole)

ReachesThreshold(p, r, threshold) ==
  hits[<<p, r>>] > 0 /\ hits[<<p, r>>] * 100 >= threshold * TotalRequests(p)

Analysed(minSample) ==
  {p \in Path : TotalRequests(p) > 0 /\ TotalRequests(p) >= minSample}

Learned(minSample, threshold) ==
  [p \in Analysed(minSample) |->
     {r \in StoredRole : ReachesThreshold(p, r, threshold)}]

\* LoadActiveMappings: no code gives a row another status than active.
ActiveMappings ==
  [p \in Path |-> {r \in StoredRole : rows[<<p, r>>] # "none"}]

RolesInit == /\ hits = [k \in Mapping |-> 0]
             /\ rows = [k \in Mapping |-> "none"]
             /\ cache = [p \in Path |-> {}]
             /\ scanPc = "idle"
             /\ pathRoles = << >>
             /\ detectorPc = "idle"
             /\ request = CHOOSE r \in Request : r.role = NoRole
             /\ violation = NoViolation
             /\ revoked = {}
             /\ torn = FALSE
-------------------------------------------------------------------------------
(* The request consumer: Insert, then ShouldAlert and ExpectedRoles.       *)

NamesNoRole(r) == r = NoRole

\* The row is stored before detection, so a scan may already count it.
Insert(p, r) ==
  /\ detectorPc = "idle"
  /\ hits[<<p, r>>] < MaxHits
  /\ hits' = [hits EXCEPT ![<<p, r>>] = @ + 1]
  /\ request' = [path |-> p, role |-> r]
  /\ detectorPc' = IF NamesNoRole(r) THEN "idle" ELSE "getAllowedRoles"
  /\ violation' = NoViolation
  /\ torn' = FALSE
  /\ UNCHANGED <<rows, cache, scan, revoked>>

\* Faulty variant: an endpoint without mapping is checked all the same.
LearningModeIgnored == FALSE

\* No allowed role at all: the endpoint is still in learning mode.
LearningMode == cache[request.path] = {}

\* First read, GetAllowedRoles.
GetAllowedRoles ==
  /\ detectorPc = "getAllowedRoles"
  /\ detectorPc' = IF LearningMode THEN "idle" ELSE "isAllowed"
  /\ UNCHANGED <<hits, rows, cache, scan, request, violation, revoked, torn>>

Allowed == request.role \in cache[request.path]

\* Second read, IsAllowed.
IsAllowed ==
  /\ detectorPc = "isAllowed"
  /\ detectorPc' = IF Allowed THEN "idle" ELSE "expectedRoles"
  /\ UNCHANGED <<hits, rows, cache, scan, request, violation, revoked, torn>>

\* Third read, ExpectedRoles: the violation is recorded with its answer.
ExpectedRoles ==
  /\ detectorPc = "expectedRoles"
  /\ violation' = [path |-> request.path, role |-> request.role,
                   expectedRoles |-> cache[request.path]]
  /\ detectorPc' = "idle"
  /\ UNCHANGED <<hits, rows, cache, scan, request, revoked, torn>>
-------------------------------------------------------------------------------
(* The scanner.  A step that fails ends the scan with an error.            *)

QueryStats ==
  /\ scanPc = "idle"
  /\ \E minSample \in MinSamples, threshold \in Thresholds :
       pathRoles' = Learned(minSample, threshold)
  /\ scanPc' = "upsert"
  /\ UNCHANGED <<hits, rows, cache, detection, revoked, torn>>

IsLearned(k) == k[1] \in DOMAIN pathRoles /\ k[2] \in pathRoles[k[1]]

\* Faulty variant: the WHERE auto_generated clause is missing.
UpsertedOverwriting(k) == IF IsLearned(k) THEN "auto" ELSE rows[k]

\* INSERT ... ON CONFLICT DO UPDATE ... WHERE auto_generated.
Upserted(k) == IF IsLearned(k) /\ rows[k] = "none" THEN "auto" ELSE rows[k]

\* One transaction writes every learned mapping.
WriteMappings ==
  /\ rows' = [k \in Mapping |-> Upserted(k)]
  /\ revoked' = {k \in revoked : ~IsLearned(k)}

UpsertMappings ==
  /\ scanPc = "upsert"
  /\ WriteMappings
  /\ scanPc' = "refresh"
  /\ UNCHANGED <<hits, cache, pathRoles, detection, torn>>

\* Faulty variant: an upsert that fails is logged and the scan goes on.
AfterFailedUpsertGoesOn == "refresh"

AfterFailedUpsert == "idle"

\* The transaction fails, or it commits and the answer is lost.
UpsertMappingsFails ==
  /\ scanPc = "upsert"
  /\ WriteMappings \/ UNCHANGED <<rows, revoked>>
  /\ scanPc' = AfterFailedUpsert
  /\ UNCHANGED <<hits, cache, pathRoles, detection, torn>>

\* Refresh replaces the whole cache by what this scan has learned.
RefreshCache ==
  /\ scanPc = "refresh"
  /\ cache' = [p \in Path |->
                 IF p \in DOMAIN pathRoles THEN pathRoles[p] ELSE {}]
  /\ torn' = (torn \/ detectorPc # "idle")
  /\ scanPc' = "idle"
  /\ pathRoles' = << >>
  /\ UNCHANGED <<hits, rows, detection, revoked>>
-------------------------------------------------------------------------------
(* The dashboard, the passing of time and the engine process.              *)

\* A row that exists already is a unique violation: nothing changes.
AddEndpointRoleMapping(p, r) ==
  /\ rows[<<p, r>>] = "none"
  /\ rows' = [rows EXCEPT ![<<p, r>>] = "manual"]
  /\ revoked' = revoked \ {<<p, r>>}
  /\ UNCHANGED <<hits, cache, scan, detection, torn>>

RemoveEndpointRoleMapping(p, r) ==
  /\ rows[<<p, r>>] # "none"
  /\ rows' = [rows EXCEPT ![<<p, r>>] = "none"]
  /\ revoked' = revoked \cup {<<p, r>>}
  /\ UNCHANGED <<hits, cache, scan, detection, torn>>

\* A request leaves the learning window.
LeaveWindow(p, r) ==
  /\ hits[<<p, r>>] > 0
  /\ hits' = [hits EXCEPT ![<<p, r>>] = @ - 1]
  /\ UNCHANGED <<rows, cache, scan, detection, revoked, torn>>

\* The engine stops wherever it is and starts with the cache of the table.
Restart ==
  /\ cache' = ActiveMappings
  /\ scanPc' = "idle"
  /\ pathRoles' = << >>
  /\ detectorPc' = "idle"
  /\ UNCHANGED <<hits, rows, request, violation, revoked, torn>>

RolesNext == \/ \E p \in Path, r \in StoredRole : Insert(p, r)
             \/ GetAllowedRoles
             \/ IsAllowed
             \/ ExpectedRoles
             \/ QueryStats
             \/ UpsertMappings
             \/ UpsertMappingsFails
             \/ RefreshCache
             \/ \E p \in Path, r \in Role : AddEndpointRoleMapping(p, r)
             \/ \E p \in Path, r \in Role : RemoveEndpointRoleMapping(p, r)
             \/ \E p \in Path, r \in StoredRole : LeaveWindow(p, r)
             \/ Restart

RolesSpec == RolesInit /\ [][RolesNext]_rolesVars
-------------------------------------------------------------------------------
RolesTypeOK ==
  /\ hits \in [Mapping -> 0 .. MaxHits]
  /\ rows \in [Mapping -> {"none", "auto", "manual"}]
  /\ cache \in [Path -> SUBSET StoredRole]
  /\ scanPc \in {"idle", "upsert", "refresh"}
  /\ pathRoles \in ScanResult
  /\ detectorPc \in {"idle", "getAllowedRoles", "isAllowed", "expectedRoles"}
  /\ request \in Request
  /\ violation \in Violation \cup {NoViolation}
  /\ revoked \in SUBSET Mapping
  /\ torn \in BOOLEAN

\* A role the engine lets through is backed by a row of the table, unless the
\* operator removed that row and nothing has recreated it since.  So a scan
\* that fails never reaches the live path, and a restart forgets no role the
\* operator has not removed.
CacheIsBacked ==
  \A p \in Path, r \in StoredRole :
    r \in cache[p] => rows[<<p, r>>] # "none" \/ <<p, r>> \in revoked

\* UpsertMappings' comment, "never overwrites manually added roles": neither
\* a scan nor a restart turns a manual row into a learned one or drops it.
ManualRowsKept ==
  [][\A k \in Mapping :
       rows[k] = "manual" /\ rows'[k] # "manual" => k \in revoked']_rolesVars

\* Unless a refresh falls between the reads of one detection, a violation is
\* consistent: the endpoint has rules, and the role is not among the roles
\* the violation says it should have had.
UntornViolationsAgree ==
  violation # NoViolation /\ ~torn =>
    /\ violation.expectedRoles # {}
    /\ violation.role \notin violation.expectedRoles

\* "Allowed roles (learned + manually added)": where the cache a scan installs
\* enforces anything, it still holds a manual role that was in force before.
ScanKeepsManualRoles ==
  [][\A p \in Path, r \in Role :
       /\ scanPc = "refresh"
       /\ rows[<<p, r>>] = "manual" /\ r \in cache[p]
       /\ cache'[p] # {}
       => r \in cache'[p]]_rolesVars
===============================================================================
