--------------------------------- MODULE Console ---------------------------------
(***************************************************************************)
(* One tab that moves between the pages of the dashboard, the server and   *)
(* its tables, and the others who write them: sessions, consumers, scans.  *)
(***************************************************************************)
EXTENDS FindingsPage, GraphExplorer, RequestLogs, SettingsPage

CONSTANTS Address,       \* addresses of the request logs that can be typed
          MaxClicks,     \* bound: links and buttons pressed
          MaxChanges     \* bound: changes made by others, and failures

ASSUME BoundsAssumption == MaxClicks \in Nat /\ MaxChanges \in Nat

\* Where a tab can be; a page number or size that is none counts as 0.
Place == [page : Page, no : Nat, size : Nat]

ASSUME AddressAssumption ==
  Address \subseteq {url \in Place : url.page = "request-logs"}

VARIABLES clicks, changes   \* counters of the bounds

vars == <<tab, requests, mappings, logs, walk, stored, clicks, changes>>

Init == /\ TabInit
        /\ FindingsInit
        /\ GraphInit
        /\ LogsInit
        /\ SettingsInit
        /\ clicks = 0
        /\ changes = 0

sidebarItems == {Url(page, 0, 0) : page \in Page}

Click == clicks < MaxClicks /\ clicks' = clicks + 1 /\ UNCHANGED changes

OthersAct == changes < MaxChanges /\ changes' = changes + 1 /\ UNCHANGED clicks

OnlyFindings == UNCHANGED <<mappings, logs, walk, stored>>
OnlyGraph == UNCHANGED <<requests, logs, walk, stored>>
OnlyLogs == UNCHANGED <<requests, mappings, stored>>
OnlySettings == UNCHANGED <<requests, mappings, logs, walk>>
OnlyTab == UNCHANGED <<requests, mappings, logs, walk, stored>>
-------------------------------------------------------------------------------
User == \/ Click /\ (\E url \in sidebarItems : FollowLink(url)) /\ OnlyTab
        \/ Click /\ RequestDeepAnalysis /\ OnlyFindings
        \/ Click /\ (\E role \in Role : AddRole(role) \/ RemoveRole(role))
                 /\ OnlyGraph
        \/ Click /\ LogsUser /\ OnlyLogs
        \/ Click /\ (\E form \in Form : SaveSettings(form)) /\ OnlySettings

Others == \/ OthersAct /\ FindingsOthers /\ OnlyFindings
          \/ OthersAct /\ OtherChangesRoles /\ OnlyGraph
          \/ OthersAct /\ NewLog /\ OnlyLogs
          \/ OthersAct /\ OtherSaves /\ OnlySettings
          \/ OthersAct /\ LogsFail /\ OnlyGraph
          \/ OthersAct /\ TabFails /\ OnlyTab

Free == \/ FindingsUser /\ OnlyFindings
        \/ FindingsServer /\ OnlyFindings
        \/ GraphUser /\ OnlyGraph
        \/ GraphServer /\ OnlyGraph
        \/ LogsServer /\ OnlyLogs
        \/ SettingsServer /\ OnlySettings
        \/ (Tab \/ \E url \in sidebarItems \cup Address : Open(url)) /\ OnlyTab

Next == User \/ Others \/ (Free /\ UNCHANGED <<clicks, changes>>)

Spec == Init /\ [][Next]_vars
-------------------------------------------------------------------------------
LogsData == [rows : SUBSET (1 .. MaxLogs), total : 0 .. MaxLogs,
             no : Nat \ {0}, size : 1 .. MAX_PAGE_SIZE, known : 0 .. MaxLogs]

\* What the loader of a page answers with, and what the page submits.
DataOf(page) ==
  CASE page \in {"findings", "ai-checker"} -> [Finding -> Status]
    [] page = Graph -> [links : SUBSET (Endpoint \X Role), roles : SUBSET Role]
    [] page = "request-logs" -> LogsData
    [] OTHER -> [Key -> Int]

FormOf(page) ==
  CASE page = "findings" -> Finding
    [] page = Graph -> [intent : {"add-role", "remove-role"},
                        mapping : Endpoint \X Role]
    [] page = "settings" -> Form
    [] OTHER -> {}

AnyData == {None} \cup Place \cup UNION {DataOf(page) : page \in Page}

AnyForm == {None} \cup UNION {FormOf(page) : page \in Page}

Node == Endpoint \cup Role \cup {None}

Answer == {None, "duplicate", "error"} \cup [Key -> Int]

Load == [to : Place \cup {Blank},
         pc : {"none", "sent", "counted", "loaded", "redirect"},
         total : 0 .. MaxLogs, data : AnyData, revalidating : BOOLEAN]

Call == [pc : {"none", "sent", "produce", "answered"},
         page : Page \cup {"none"}, form : AnyForm,
         newest : BOOLEAN, ok : BOOLEAN, data : Answer]

PageTypeOK ==
  /\ location \in Place \cup {Blank}
  /\ ~On("none") => loaded \in DataOf(location.page)
  /\ load \in Load
  /\ load.pc # "none" => load.to \in Place
  /\ load.pc = "loaded" => load.data \in DataOf(load.to.page)
  /\ load.pc = "redirect" => load.data \in Place
  /\ On("findings") => selected \in Finding \cup {None}
  /\ On(Graph) => selected \in Node
  /\ reader \in [state : {"idle", "loading"}, opened : BOOLEAN]

CallsTypeOK ==
  /\ fetcher \in [state : {"idle", "submitting", "loading"}, ok : BOOLEAN,
                  data : Answer, pending : BOOLEAN]
  /\ action \in [Slot -> Call]
  /\ \A s \in Slot : action[s].pc # "none" =>
       action[s].page \in Page /\ action[s].form \in FormOf(action[s].page)
  /\ saved # None => saved \in FormOf(location.page)
  /\ alone \in BOOLEAN /\ untold \in BOOLEAN

ServerTypeOK ==
  /\ requests \in [Finding -> Status]
  /\ mappings \subseteq Endpoint \X Role
  /\ logs \in Seq(Time) /\ Len(logs) <= MaxLogs
  /\ walk \in [known : 0 .. MaxLogs, seen : SUBSET (1 .. MaxLogs),
               torn : BOOLEAN]
  /\ stored \in {None} \cup Documents

TypeOK == /\ PageTypeOK
          /\ CallsTypeOK
          /\ ServerTypeOK
          /\ clicks \in 0 .. MaxClicks
          /\ changes \in 0 .. MaxChanges
===============================================================================
