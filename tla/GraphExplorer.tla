------------------------------ MODULE GraphExplorer ------------------------------
(***************************************************************************)
(* The RBAC graph explorer: a graph of endpoints and roles, and a sheet    *)
(* per node with its recent request logs and, for an endpoint, its roles.  *)
(* An effect asks for the logs when another node is selected: until they   *)
(* have come the sheet shows those of the node before, if it has any.      *)
(* Another effect revalidates the graph after an answer of success.        *)
(***************************************************************************)
EXTENDS BrowserTab

CONSTANTS Endpoint, Role,
          LoggedRole,       \* roles of the request logs
          Learned           \* mappings there are at first

ASSUME NodesAssumption == /\ Endpoint \cap Role = {} /\ LoggedRole \subseteq Role
                          /\ Learned \subseteq Endpoint \X Role

VARIABLE mappings   \* table endpoint_role_mappings: pairs, unique

Graph == "authorization-graph-explorer"

GraphInit == mappings = Learned
-------------------------------------------------------------------------------
(* The page.                                                               *)

getDistinctRoles == {m[2] : m \in mappings} \cup LoggedRole

GraphLoader ==
  /\ LoaderAnswers(Graph, [links |-> mappings, roles |-> getDistinctRoles])
  /\ UNCHANGED mappings

\* buildGraphData
Nodes == {m[1] : m \in loaded.links} \cup {m[2] : m \in loaded.links}

SelectNode(node) ==
  /\ On(Graph)
  /\ selected = None
  /\ node \in Nodes
  /\ selected' = node
  /\ reader' = [reader EXCEPT !.opened = TRUE]
  /\ UNCHANGED <<shell, fetcher, action, saved, alone, untold, mappings>>

currentRoles == {r \in Role : <<selected, r>> \in loaded.links}

availableRoles == loaded.roles \ currentRoles

\* Faulty variant: the buttons do not wait for the graph.
isSavingUntilAnswer == fetcher.state = "submitting"

isSavingRoles == fetcher.state = "submitting" \/ load.revalidating

Change(intent, role) ==
  /\ On(Graph)
  /\ selected \in Endpoint
  /\ ~isSavingRoles
  /\ Submit(Graph, [intent |-> intent, mapping |-> <<selected, role>>])
  /\ UNCHANGED mappings

AddRole(role) == /\ On(Graph)
                 /\ selected \in Endpoint
                 /\ role \in availableRoles
                 /\ Change("add-role", role)

RemoveRole(role) == /\ On(Graph)
                    /\ selected \in Endpoint
                    /\ role \in currentRoles
                    /\ Change("remove-role", role)
-------------------------------------------------------------------------------
(* The recent logs of a node.                                              *)

ReaderGoesOn(next) ==
  /\ reader' = next
  /\ UNCHANGED <<shell, fetcher, action, selected, saved, alone, untold,
                 mappings>>

\* A newer question makes the answer to an older one void.
AskForLogs == /\ reader.opened
              /\ ReaderGoesOn([state |-> "loading", opened |-> FALSE])

LogsArrive == /\ reader.state = "loading"
              /\ ReaderGoesOn([reader EXCEPT !.state = "idle"])

LogsFail == reader.state = "loading" /\ LosePage /\ UNCHANGED mappings
-------------------------------------------------------------------------------
(* The action of the route.                                                *)

Changed(form) == IF form.intent = "add-role" THEN mappings \cup {form.mapping}
                 ELSE mappings \ {form.mapping}

ChangeRoles(s) ==
  LET form == action[s].form IN
  /\ Handling(s, Graph, "sent")
  /\ form.intent = "add-role" => form.mapping \notin mappings
  /\ mappings' = Changed(form)
  /\ ActionAnswers(s, TRUE, None)

\* The row exists already, or the database fails: before the change, or after
\* it.  The sheet does not say so.
ChangeFails(s) ==
  LET form == action[s].form IN
  /\ Handling(s, Graph, "sent")
  /\ \/ ActionAnswers(s, FALSE, "error") /\ UNCHANGED mappings
     \/ /\ form.intent = "add-role" => form.mapping \notin mappings
        /\ mappings' = Changed(form)
        /\ AnswersUntold(action, s)

\* Another session, or a learning scan.
OtherChangesRoles ==
  /\ \E m \in Endpoint \X Role :
       mappings' = IF m \in mappings THEN mappings \ {m} ELSE mappings \cup {m}
  /\ alone' = FALSE
  /\ UNCHANGED <<shell, fetcher, action, selected, reader, saved, untold>>

GraphUser == \E node \in Endpoint \cup Role : SelectNode(node)

GraphServer == \/ GraphLoader
               \/ AskForLogs
               \/ LogsArrive
               \/ \E s \in Slot : ChangeRoles(s) \/ ChangeFails(s)
-------------------------------------------------------------------------------
\* A sheet that does not say that it is saving shows the roles as the last
\* change has left them: the reload after an answer is not mistaken for the
\* end of it.  There are two exceptions.  Between the render of the answer and
\* its effect the sheet offers the old roles, with its buttons enabled; and a
\* change that was made but answered with an error is followed by no reload.
SavedRolesAreShown ==
  /\ On(Graph)
  /\ alone
  /\ saved # None
  /\ ~isSavingRoles
  /\ ~fetcher.pending
  /\ ~untold
  => (saved.mapping \in loaded.links) = (saved.intent = "add-role")
===============================================================================
