------------------------------- MODULE AgentsPage -------------------------------
(***************************************************************************)
(* The agents page of the dashboard: one sheet that deploys, edits or      *)
(* shows an agent, one dialog that deletes one, one that shows the install *)
(* command of the agent just deployed, and the routes behind them.  Deploy *)
(* and edit share a fetcher and an effect; the effect looks at the sheet   *)
(* that is open when an answer arrives, not at the one that asked.         *)
(*                                                                         *)
(* A form is a name and an identity mapping, the mapping a text that is    *)
(* JSON or is not.  A submission goes through three steps: the server      *)
(* handles it, the page receives the answer, the loader runs again.        *)
(***************************************************************************)
EXTENDS Naturals

CONSTANTS Agent,        \* ids the table can draw
          Name,         \* agent names, not unique
          DefaultName,  \* name the form starts with
          Mapping,      \* kinds of text the mapping can be
          None,         \* no row, agent, token or submission
          MaxSubmits    \* bound: submissions of the page

ASSUME NamesAssumption == DefaultName \in Name

\* A text of white space only is not empty, and JSON.parse refuses it.
ASSUME MappingAssumption ==
  "json" \in Mapping /\ Mapping \subseteq {"json", "empty", "blank", "broken"}

ASSUME SubmitsAssumption == MaxSubmits \in Nat

VARIABLES
  rows,           \* table agents: per id its name and mapping, or None
  drawn,          \* ids drawn so far
  request,        \* submissions by number, None before and after
  submits,        \* submissions so far
  fetcher,        \* per fetcher its state and the submission it waits for
  page,           \* "shown", or "error": the root ErrorBoundary
  agents,         \* data of the loader, as rows
  openType,       \* kind of the open sheet, "null" without one
  selectedAgent,  \* agent the sheet was last opened for
  formData,       \* name and mapping in the form
  createdAgent,   \* token in the dialog of a deployed agent
  toDelete,       \* id and name of the agent in the delete dialog
  typedName,      \* text in the delete dialog
  made,           \* history: agents whose creation was answered with success
  shown,          \* history: agents whose own token was shown
  unwatched,      \* history: agents whose deployment nobody waited for
  strayed,        \* history: agents whose edit was answered after its sheet closed
  poisoned,       \* history: a mapping that is no JSON has been stored
  mishap          \* history: a query or request failed, or a row was missing

server == <<rows, drawn>>
sheet == <<openType, selectedAgent, formData>>
dialogs == <<createdAgent, toDelete, typedName>>
history == <<made, shown, unwatched, strayed, poisoned, mishap>>
vars == <<server, request, submits, fetcher, page, agents, sheet, dialogs,
          history>>
-------------------------------------------------------------------------------
Fetcher == {"form", "delete"}

SidebarAgentType == {"CREATE", "EDIT", "DETAIL"}

Row == [name : Name, mapping : Mapping]

\* A token and how often it has been hashed.
Token == Agent \X (0 .. 1)

Request == [kind : {"POST", "PATCH", "DELETE"}, target : Agent \cup {None},
            form : Row, status : {"sent", "ok", "thrown"}, watched : BOOLEAN]

FetcherState == [state : {"idle", "submitting", "loading"},
                 waits : 0 .. MaxSubmits]

ASSUME NoneAssumption == None \notin Agent \cup Row \cup Token \cup Request

hashAgentToken(token) == <<token[1], token[2] + 1>>

\* updateAgentHeartbeat finds a row by the hash of the token it is given.
Authenticates(token) ==
  \E a \in Agent : rows[a] # None /\ hashAgentToken(token) = <<a, 1>>

\* Faulty variant: a missing mapping is not replaced by {}.
ParsesWithoutDefault(mapping) == mapping = "json"

\* JSON.parse(mapping?.toString() || "{}") does not throw.
Parses(mapping) == mapping \in {"json", "empty"}

DefaultForm == [name |-> DefaultName, mapping |-> "json"]

Idle == [state |-> "idle", waits |-> 0]

\* The loader maps every row: one that does not parse fails the whole page.
LoaderFails == \E a \in Agent : rows[a] # None /\ ~Parses(rows[a].mapping)

Init == /\ rows \in [Agent -> {None} \cup {r \in Row : r.mapping = "json"}]
        /\ drawn = {a \in Agent : rows[a] # None}
        /\ request = [i \in 1 .. MaxSubmits |-> None]
        /\ submits = 0
        /\ fetcher = [f \in Fetcher |-> Idle]
        /\ page = "shown"
        /\ agents = rows
        /\ openType = "null"
        /\ selectedAgent = None
        /\ formData = DefaultForm
        /\ createdAgent = None
        /\ toDelete = None
        /\ typedName = None
        /\ made = {}
        /\ shown = {}
        /\ unwatched = {}
        /\ strayed = {}
        /\ poisoned = FALSE
        /\ mishap = FALSE
-------------------------------------------------------------------------------
(* The list, and what lies over it: sheets and dialogs are modal.          *)

ListReachable == /\ page = "shown"
                 /\ openType = "null"
                 /\ createdAgent = None
                 /\ toDelete = None

SheetReachable == /\ page = "shown"
                  /\ openType # "null"
                  /\ createdAgent = None

\* The inputs and the editor are disabled while an agent is only shown.
Editable == SheetReachable /\ openType \in {"CREATE", "EDIT"}

\* The form keeps what the last sheet left in it.
DeployNewAgent ==
  /\ ListReachable
  /\ openType' = "CREATE"
  /\ UNCHANGED <<server, request, submits, fetcher, page, agents,
                 selectedAgent, formData, dialogs, history>>

\* A row's mapping comes from the loader, parsed, and is printed again.
OpenSheet(a, type) ==
  /\ ListReachable
  /\ agents[a] # None
  /\ formData' = [name |-> agents[a].name, mapping |-> "json"]
  /\ selectedAgent' = a
  /\ openType' = type
  /\ UNCHANGED <<server, request, submits, fetcher, page, agents, dialogs,
                 history>>

\* A submission nobody waits for any more.
Unwatch(r) == IF r # None THEN [r EXCEPT !.watched = FALSE] ELSE r

CloseSheet ==
  /\ SheetReachable
  /\ openType' = "null"
  /\ request' = [i \in 1 .. MaxSubmits |-> Unwatch(request[i])]
  /\ UNCHANGED <<server, submits, fetcher, page, agents, selectedAgent,
                 formData, dialogs, history>>

HandleInputChange(name) ==
  /\ Editable
  /\ formData' = [formData EXCEPT !.name = name]
  /\ UNCHANGED <<server, request, submits, fetcher, page, agents, openType,
                 selectedAgent, dialogs, history>>

EditMapping(mapping) ==
  /\ Editable
  /\ formData' = [formData EXCEPT !.mapping = mapping]
  /\ UNCHANGED <<server, request, submits, fetcher, page, agents, openType,
                 selectedAgent, dialogs, history>>

OpenDeleteDialog(a) ==
  /\ ListReachable
  /\ agents[a] # None
  /\ toDelete' = [id |-> a, name |-> agents[a].name]
  /\ UNCHANGED <<server, request, submits, fetcher, page, agents, sheet,
                 createdAgent, typedName, history>>

DeleteReachable == page = "shown" /\ toDelete # None

CloseDeleteDialog ==
  /\ DeleteReachable
  /\ toDelete' = None
  /\ UNCHANGED <<server, request, submits, fetcher, page, agents, sheet,
                 createdAgent, typedName, history>>

TypeName(name) ==
  /\ DeleteReachable
  /\ typedName' = name
  /\ UNCHANGED <<server, request, submits, fetcher, page, agents, sheet,
                 createdAgent, toDelete, history>>

CloseCreatedDialog ==
  /\ page = "shown"
  /\ createdAgent # None
  /\ createdAgent' = None
  /\ UNCHANGED <<server, request, submits, fetcher, page, agents, sheet,
                 toDelete, typedName, history>>
-------------------------------------------------------------------------------
(* Submissions.                                                            *)

\* A fetcher that is used again no longer waits for what it sent before.
Submit(f, kind, target, form) ==
  /\ submits < MaxSubmits
  /\ submits' = submits + 1
  /\ request' = [request EXCEPT ![submits + 1] =
                   [kind |-> kind, target |-> target, form |-> form,
                    status |-> "sent", watched |-> TRUE]]
  /\ fetcher' = [fetcher EXCEPT ![f] = [state |-> "submitting",
                                        waits |-> submits + 1]]
  /\ UNCHANGED <<server, page, agents, sheet, dialogs, history>>

\* Faulty variant: the button can be pressed while a submission is under way.
CreateEnabledAlways == TRUE

CreateEnabled == fetcher["form"].state = "idle"

SubmitCreate == /\ SheetReachable
                /\ openType = "CREATE"
                /\ CreateEnabled
                /\ Submit("form", "POST", None, formData)

\* The edit button is never disabled.
SubmitEdit == /\ SheetReachable
              /\ openType = "EDIT"
              /\ Submit("form", "PATCH", selectedAgent, formData)

HandleDeleteAgent == /\ DeleteReachable
                     /\ fetcher["delete"].state = "idle"
                     /\ typedName = toDelete.name
                     /\ Submit("delete", "DELETE", toDelete.id, DefaultForm)
-------------------------------------------------------------------------------
(* The server.                                                             *)

Sent(i, kind) == /\ request[i] # None
                 /\ request[i].kind = kind
                 /\ request[i].status = "sent"

Answer(i, ok, a) ==
  request' = [request EXCEPT ![i].status = IF ok THEN "ok" ELSE "thrown",
                             ![i].target = a]

Store(mapping) == poisoned' = (poisoned \/ mapping \in {"blank", "broken"})

\* The table has taken the change; its answer may still be lost.
Committed(i, ok, a) == \/ Answer(i, ok, a) /\ UNCHANGED mishap
                       \/ Answer(i, FALSE, a) /\ mishap' = TRUE

\* The row is created before its mapping is parsed for the answer.
CreateNewAgent(i, a) ==
  /\ Sent(i, "POST")
  /\ a \notin drawn
  /\ drawn' = drawn \cup {a}
  /\ rows' = [rows EXCEPT ![a] = request[i].form]
  /\ Committed(i, Parses(request[i].form.mapping), a)
  /\ made' = IF request'[i].status = "ok" THEN made \cup {a} ELSE made
  /\ Store(request[i].form.mapping)
  /\ UNCHANGED <<submits, fetcher, page, agents, sheet, dialogs, shown,
                 unwatched, strayed>>

UpdateAgentById(i) ==
  LET a == request[i].target IN
  /\ Sent(i, "PATCH")
  /\ a \in Agent
  /\ rows[a] # None
  /\ rows' = [rows EXCEPT ![a] = request[i].form]
  /\ Committed(i, Parses(request[i].form.mapping), a)
  /\ Store(request[i].form.mapping)
  /\ UNCHANGED <<drawn, submits, fetcher, page, agents, sheet, dialogs, made,
                 shown, unwatched, strayed>>

DeleteAgentById(i) ==
  LET a == request[i].target IN
  /\ Sent(i, "DELETE")
  /\ rows[a] # None
  /\ rows' = [rows EXCEPT ![a] = None]
  /\ Committed(i, TRUE, a)
  /\ UNCHANGED <<drawn, submits, fetcher, page, agents, sheet, dialogs, made,
                 shown, unwatched, strayed, poisoned>>

\* update and delete throw when there is no such row.
NoSuchAgent(i) ==
  LET a == request[i].target IN
  /\ Sent(i, "PATCH") \/ Sent(i, "DELETE")
  /\ a \in Agent => rows[a] = None
  /\ Answer(i, FALSE, a)
  /\ mishap' = TRUE
  /\ UNCHANGED <<server, submits, fetcher, page, agents, sheet, dialogs, made,
                 shown, unwatched, strayed, poisoned>>

\* The query fails and changes nothing.
QueryFails(i) ==
  /\ request[i] # None
  /\ request[i].status = "sent"
  /\ Answer(i, FALSE, request[i].target)
  /\ mishap' = TRUE
  /\ UNCHANGED <<server, submits, fetcher, page, agents, sheet, dialogs, made,
                 shown, unwatched, strayed, poisoned>>

\* Another administrator deletes a row.
OtherDeletes(a) ==
  /\ rows[a] # None
  /\ rows' = [rows EXCEPT ![a] = None]
  /\ UNCHANGED <<drawn, request, submits, fetcher, page, agents, sheet,
                 dialogs, history>>
-------------------------------------------------------------------------------
(* Answers.                                                                *)

Waiting(f, i) == /\ page = "shown"
                 /\ fetcher[f] = [state |-> "submitting", waits |-> i]

Received(i) == request[i] # None /\ request[i].status \in {"ok", "thrown"}

\* What is known about the deployment once its answer is dealt with.
Settle(i) ==
  /\ request' = [request EXCEPT ![i] = None]
  /\ unwatched' = IF /\ request[i].kind = "POST"
                     /\ request[i].status = "ok"
                     /\ ~request[i].watched
                  THEN unwatched \cup {request[i].target} ELSE unwatched
  /\ strayed' = IF request[i].kind = "PATCH" /\ ~request[i].watched
                THEN strayed \cup {request[i].target} ELSE strayed

Loading(f) == fetcher' = [fetcher EXCEPT ![f] = [state |-> "loading",
                                                waits |-> 0]]

\* The answer to a deployment holds the token, that to an edit its hash.
AnsweredToken(i) ==
  <<request[i].target, IF request[i].kind = "POST" THEN 0 ELSE 1>>

\* Faulty variant: the edit's answer clears the agent and leaves the sheet.
ShowAnswerKeepsSheet(i) ==
  \/ /\ openType = "CREATE"
     /\ createdAgent' = AnsweredToken(i)
     /\ UNCHANGED <<openType, selectedAgent>>
  \/ /\ openType = "EDIT"
     /\ selectedAgent' = None
     /\ UNCHANGED <<openType, createdAgent>>
  \/ /\ openType \notin {"CREATE", "EDIT"}
     /\ UNCHANGED <<openType, selectedAgent, createdAgent>>

\* Faulty variant: every answer is taken for that to a deployment.
ShowAnswerAsDeployed(i) == /\ createdAgent' = AnsweredToken(i)
                           /\ UNCHANGED <<openType, selectedAgent>>

\* The effect on the shared fetcher's data, by the sheet that is open now.
ShowAnswer(i) ==
  \/ /\ openType = "CREATE"
     /\ createdAgent' = AnsweredToken(i)
     /\ UNCHANGED <<openType, selectedAgent>>
  \/ /\ openType = "EDIT"
     /\ openType' = "null"
     /\ selectedAgent' = None
     /\ UNCHANGED createdAgent
  \/ /\ openType \notin {"CREATE", "EDIT"}
     /\ UNCHANGED <<openType, selectedAgent, createdAgent>>

FormAnswered(i) ==
  /\ Waiting("form", i)
  /\ Received(i)
  /\ request[i].status = "ok"
  /\ ShowAnswer(i)
  /\ shown' = IF createdAgent' # createdAgent /\ createdAgent'[2] = 0
              THEN shown \cup {createdAgent'[1]} ELSE shown
  /\ Settle(i)
  /\ Loading("form")
  /\ UNCHANGED <<server, submits, page, agents, formData, toDelete,
                 typedName, made, poisoned, mishap>>

\* The dialog closes, whichever agent it is open for.
DeleteAnswered(i) ==
  /\ Waiting("delete", i)
  /\ Received(i)
  /\ request[i].status = "ok"
  /\ toDelete' = None
  /\ Settle(i)
  /\ Loading("delete")
  /\ UNCHANGED <<server, submits, page, agents, sheet, createdAgent, typedName,
                 made, shown, poisoned, mishap>>

\* An error reaches the root ErrorBoundary: the page and its state are gone,
\* and nobody waits for what it has sent.
LosePage ==
  /\ page' = "error"
  /\ fetcher' = [f \in Fetcher |-> Idle]
  /\ request' = [i \in 1 .. MaxSubmits |-> Unwatch(request[i])]
  /\ openType' = "null"
  /\ selectedAgent' = None
  /\ createdAgent' = None
  /\ toDelete' = None
  /\ typedName' = None
  /\ UNCHANGED <<server, submits, agents, formData, made, shown,
                 unwatched, strayed, poisoned>>

Throw(f, i) == /\ Waiting(f, i)
               /\ Received(i)
               /\ request[i].status = "thrown"
               /\ LosePage
               /\ UNCHANGED mishap

\* The request or its answer is lost on the way.
NetworkFails(f, i) == /\ Waiting(f, i)
                      /\ LosePage
                      /\ mishap' = TRUE

\* An answer nobody waits for is dropped.
Unclaimed(i) ==
  /\ Received(i)
  /\ \A f \in Fetcher : fetcher[f].waits # i
  /\ Settle(i)
  /\ UNCHANGED <<server, submits, fetcher, page, agents, sheet, dialogs, made,
                 shown, poisoned, mishap>>

\* After an answer the loader runs again.
Revalidate(f) ==
  /\ page = "shown"
  /\ fetcher[f].state = "loading"
  /\ ~LoaderFails
  /\ agents' = rows
  /\ fetcher' = [fetcher EXCEPT ![f] = Idle]
  /\ UNCHANGED <<server, request, submits, page, sheet, dialogs, history>>

\* The loader throws, by itself or with its query, or the reload is lost.
RevalidateFails(f) ==
  /\ page = "shown"
  /\ fetcher[f].state = "loading"
  /\ \/ LoaderFails /\ UNCHANGED mishap
     \/ mishap' = TRUE
  /\ LosePage

\* The page is loaded anew.
Reload ==
  /\ page = "error"
  /\ ~LoaderFails
  /\ page' = "shown"
  /\ agents' = rows
  /\ formData' = DefaultForm
  /\ UNCHANGED <<server, request, submits, fetcher, openType, selectedAgent,
                 dialogs, history>>
-------------------------------------------------------------------------------
User == \/ DeployNewAgent
        \/ \E a \in Agent, type \in {"EDIT", "DETAIL"} : OpenSheet(a, type)
        \/ CloseSheet
        \/ \E name \in Name : HandleInputChange(name)
        \/ \E mapping \in Mapping : EditMapping(mapping)
        \/ \E a \in Agent : OpenDeleteDialog(a)
        \/ CloseDeleteDialog
        \/ \E name \in Name : TypeName(name)
        \/ CloseCreatedDialog
        \/ SubmitCreate
        \/ SubmitEdit
        \/ HandleDeleteAgent
        \/ Reload

Handle(i) == \/ \E a \in Agent : CreateNewAgent(i, a)
             \/ UpdateAgentById(i)
             \/ DeleteAgentById(i)
             \/ NoSuchAgent(i)
             \/ QueryFails(i)

Deliver(i) == \/ FormAnswered(i)
              \/ DeleteAnswered(i)
              \/ \E f \in Fetcher : Throw(f, i)
              \/ Unclaimed(i)

Refresh(f) == Revalidate(f) \/ RevalidateFails(f)

Next == \/ User
        \/ \E i \in 1 .. MaxSubmits : Handle(i)
        \/ \E i \in 1 .. MaxSubmits : Deliver(i)
        \/ \E f \in Fetcher, i \in 1 .. MaxSubmits : NetworkFails(f, i)
        \/ \E f \in Fetcher : Refresh(f)
        \/ \E a \in Agent : OtherDeletes(a)

Spec == Init /\ [][Next]_vars
-------------------------------------------------------------------------------
ServerTypeOK ==
  /\ rows \in [Agent -> Row \cup {None}]
  /\ drawn \in SUBSET Agent

RequestTypeOK ==
  /\ request \in [1 .. MaxSubmits -> Request \cup {None}]
  /\ submits \in 0 .. MaxSubmits
  /\ fetcher \in [Fetcher -> FetcherState]

PageTypeOK ==
  /\ page \in {"shown", "error"}
  /\ agents \in [Agent -> Row \cup {None}]
  /\ openType \in SidebarAgentType \cup {"null"}
  /\ selectedAgent \in Agent \cup {None}
  /\ formData \in Row
  /\ createdAgent \in Token \cup {None}
  /\ toDelete \in [id : Agent, name : Name] \cup {None}
  /\ typedName \in Name \cup {None}

HistoryTypeOK ==
  /\ made \in SUBSET Agent
  /\ shown \in SUBSET Agent
  /\ unwatched \in SUBSET Agent
  /\ strayed \in SUBSET Agent
  /\ poisoned \in BOOLEAN
  /\ mishap \in BOOLEAN

TypeOK == ServerTypeOK /\ RequestTypeOK /\ PageTypeOK /\ HistoryTypeOK

\* "This command is only generated once": the token of every agent deployed
\* with success has been shown, or its answer is still on the way, or the
\* administrator closed the sheet, or lost the page, before it came.
DeployedTokenIsShown ==
  \A a \in made :
    \/ a \in shown
    \/ a \in unwatched
    \/ \E i \in 1 .. MaxSubmits :
         /\ request[i] # None
         /\ request[i].kind = "POST"
         /\ request[i].status = "ok"
         /\ request[i].target = a

\* A sheet that edits or shows an agent has one: an edit never goes to
\* /agents/undefined, however answers and clicks interleave.
SheetHasAgent == openType \in {"EDIT", "DETAIL"} => selectedAgent # None

\* The whole page is lost only after a mapping that is no JSON was stored, a
\* query, a request or an answer failed, or a row was gone: as long as calls
\* succeed, nothing else that administrators click or type, in whatever order
\* their submissions are handled and answered, ends at the ErrorBoundary.
PageLostForCause == page = "error" => poisoned \/ mishap

\* "Your agent ... is ready for deployment": the install command shown holds
\* a token with which the agent can report, unless its row has been deleted,
\* or the sheet was closed over an edit whose answer then found a deployment
\* open and was taken for its own.
ShownTokenAuthenticates ==
  createdAgent # None /\ rows[createdAgent[1]] # None =>
    Authenticates(createdAgent) \/ createdAgent[1] \in strayed
===============================================================================
