--------------------------- MODULE AgentsPageProofs ---------------------------
(***************************************************************************)
(* Safety of the agents page for any agents, names, mappings and number of *)
(* submissions.  The argument is about who an answer belongs to: an answer *)
(* somebody still waits for finds the sheet open that asked for it         *)
(* (WatchInv), because a sheet that is closed stops to wait, and because a *)
(* deployment keeps its button disabled.  From it follow which token a     *)
(* dialog shows (TokenInv) and that no deployed token gets lost.  That the *)
(* page is lost for a cause needs that nothing but a stored mapping, a row *)
(* that is gone or a failed query makes an action throw, and that a row    *)
(* the loader cannot parse has been stored as such (CauseInv).             *)
(***************************************************************************)
EXTENDS AgentsPage, TLAPS

Submission == 1 .. MaxSubmits

WaitsFor(f, i) == fetcher[f].state = "submitting" /\ fetcher[f].waits = i

\* Submissions are numbered in order; each fetcher sends its own kind; a
\* deployment has an agent once it succeeded, the others from the start.
RequestInv ==
  \A i \in Submission :
    /\ i > submits =>
         request[i] = None /\ \A f \in Fetcher : ~WaitsFor(f, i)
    /\ request[i] # None =>
         /\ WaitsFor("form", i) => request[i].kind # "DELETE"
         /\ WaitsFor("delete", i) => request[i].kind = "DELETE"
         /\ request[i].kind = "POST" /\ request[i].status = "sent" =>
              request[i].target = None
         /\ request[i].kind # "POST" \/ request[i].status = "ok" =>
              request[i].target \in Agent

WatchInv ==
  \A i \in Submission :
    request[i] # None /\ request[i].watched =>
      /\ request[i].kind = "POST" => openType = "CREATE" /\ WaitsFor("form", i)
      /\ request[i].kind = "PATCH" /\ WaitsFor("form", i) => openType = "EDIT"

\* A token in the dialog is as drawn and has been shown, or is that of an
\* edit that lost its sheet.
TokenInv ==
  createdAgent # None =>
    IF createdAgent[2] = 0 THEN createdAgent[1] \in shown
    ELSE createdAgent[1] \in strayed

CauseInv ==
  /\ \A a \in Agent : rows[a] # None /\ ~Parses(rows[a].mapping) => poisoned
  /\ \A i \in Submission :
       request[i] # None /\ request[i].status = "thrown" => poisoned \/ mishap
  /\ PageLostForCause

Inv ==
  /\ TypeOK
  /\ RequestInv
  /\ WatchInv
  /\ TokenInv
  /\ CauseInv
  /\ DeployedTokenIsShown
  /\ SheetHasAgent
-------------------------------------------------------------------------------
(* What the steps do to the submissions.                                   *)

\* A submission nobody waits for is the same submission.
LEMMA UnwatchedIsRequest ==
  ASSUME NEW r \in Request \cup {None}
  PROVE  /\ Unwatch(r) \in Request \cup {None}
         /\ Unwatch(r) # None <=> r # None
         /\ r # None => /\ Unwatch(r).kind = r.kind
                        /\ Unwatch(r).status = r.status
                        /\ Unwatch(r).target = r.target
                        /\ ~Unwatch(r).watched
<1>1. CASE r = None
  BY <1>1 DEF Unwatch
<1>2. CASE r # None
  <2>1. r \in Request
    BY <1>2
  <2>2. Unwatch(r) = [r EXCEPT !.watched = FALSE]
    BY <1>2 DEF Unwatch
  <2>3. /\ [r EXCEPT !.watched = FALSE] \in Request
        /\ [r EXCEPT !.watched = FALSE].kind = r.kind
        /\ [r EXCEPT !.watched = FALSE].status = r.status
        /\ [r EXCEPT !.watched = FALSE].target = r.target
        /\ ~[r EXCEPT !.watched = FALSE].watched
    BY <2>1 DEF Request
  <2>. QED  BY <1>2, <2>2, <2>3, NoneAssumption
<1>. QED  BY <1>1, <1>2

\* An answer changes one submission, and of it the status and the agent.
LEMMA AnswerEffect ==
  ASSUME RequestTypeOK, NEW i \in Submission, request[i] # None,
         NEW status \in {"ok", "thrown"}, NEW a \in Agent \cup {None},
         request' = [request EXCEPT ![i].status = status, ![i].target = a],
         UNCHANGED <<submits, fetcher>>
  PROVE  /\ RequestTypeOK'
         /\ request'[i] # None
         /\ request'[i].kind = request[i].kind
         /\ request'[i].status = status
         /\ request'[i].target = a
         /\ request'[i].watched = request[i].watched
         /\ \A j \in Submission \ {i} : request'[j] = request[j]
<1>. DEFINE r == [request[i] EXCEPT !.status = status, !.target = a]
<1>1. request[i] \in Request
  BY DEF RequestTypeOK, Submission
<1>2. /\ r \in Request
      /\ r.kind = request[i].kind
      /\ r.status = status
      /\ r.target = a
      /\ r.watched = request[i].watched
  BY <1>1 DEF Request
<1>3. request' = [request EXCEPT ![i] = r]
  BY DEF RequestTypeOK, Submission
<1>. HIDE DEF r
<1>4. request'[i] = r /\ \A j \in Submission \ {i} : request'[j] = request[j]
  BY <1>3 DEF RequestTypeOK, Submission
<1>5. RequestTypeOK'
  <2>1. request' \in [1 .. MaxSubmits -> Request \cup {None}]
    BY <1>2, <1>3 DEF RequestTypeOK, Submission
  <2>. QED  BY <2>1 DEF RequestTypeOK
<1>. QED  BY <1>2, <1>4, <1>5, NoneAssumption

\* A sheet that closes, or a page that goes, leaves its submissions behind.
LEMMA UnwatchEffect ==
  ASSUME RequestTypeOK,
         request' = [i \in 1 .. MaxSubmits |-> Unwatch(request[i])]
  PROVE  /\ request' \in [1 .. MaxSubmits -> Request \cup {None}]
         /\ \A i \in Submission :
              /\ request'[i] # None <=> request[i] # None
              /\ request[i] # None =>
                   /\ request'[i].kind = request[i].kind
                   /\ request'[i].status = request[i].status
                   /\ request'[i].target = request[i].target
                   /\ ~request'[i].watched
<1>1. \A i \in Submission :
        request'[i] = Unwatch(request[i]) /\ request[i] \in Request \cup {None}
  BY DEF RequestTypeOK, Submission
<1>2. \A i \in Submission : request'[i] \in Request \cup {None}
  BY <1>1, UnwatchedIsRequest
<1>3. request' \in [1 .. MaxSubmits -> Request \cup {None}]
  BY <1>1, <1>2 DEF Submission
<1>. QED  BY <1>1, <1>3, UnwatchedIsRequest

\* A new submission is the next number, and its fetcher waits for it alone.
LEMMA SubmitEffect ==
  ASSUME RequestTypeOK, NEW f \in Fetcher,
         NEW kind \in {"POST", "PATCH", "DELETE"},
         NEW target \in Agent \cup {None}, NEW form \in Row,
         Submit(f, kind, target, form)
  PROVE  /\ RequestTypeOK'
         /\ submits + 1 \in Submission
         /\ submits' = submits + 1
         /\ request'[submits + 1] # None
         /\ request'[submits + 1].kind = kind
         /\ request'[submits + 1].status = "sent"
         /\ request'[submits + 1].target = target
         /\ \A i \in Submission \ {submits + 1} : request'[i] = request[i]
         /\ fetcher'[f].state = "submitting"
         /\ fetcher'[f].waits = submits + 1
         /\ \A g \in Fetcher \ {f} : fetcher'[g] = fetcher[g]
<1>. DEFINE r == [kind |-> kind, target |-> target, form |-> form,
                  status |-> "sent", watched |-> TRUE]
            w == [state |-> "submitting", waits |-> submits + 1]
<1>1. /\ r \in Request
      /\ r.kind = kind
      /\ r.status = "sent"
      /\ r.target = target
  BY DEF Request
<1>2. submits \in 0 .. MaxSubmits /\ submits + 1 \in Submission
  BY SubmitsAssumption DEF RequestTypeOK, Submission, Submit
<1>3. w \in FetcherState
  BY <1>2, SubmitsAssumption DEF FetcherState, Submission
<1>4. /\ submits' = submits + 1
      /\ request' = [request EXCEPT ![submits + 1] = r]
      /\ fetcher' = [fetcher EXCEPT ![f] = w]
  BY DEF Submit
<1>5. w.state = "submitting" /\ w.waits = submits + 1
  OBVIOUS
<1>. HIDE DEF r, w
<1>6. /\ request'[submits + 1] = r
      /\ \A i \in Submission \ {submits + 1} : request'[i] = request[i]
      /\ fetcher'[f] = w
      /\ \A g \in Fetcher \ {f} : fetcher'[g] = fetcher[g]
  BY <1>2, <1>4 DEF RequestTypeOK, Submission
<1>7. submits' \in 0 .. MaxSubmits
  BY <1>2, <1>4, SubmitsAssumption DEF Submission
<1>8. RequestTypeOK'
  BY <1>1, <1>2, <1>3, <1>4, <1>7 DEF RequestTypeOK, Submission
<1>9. r # None
  BY <1>1, NoneAssumption
<1>. QED  BY <1>1, <1>2, <1>4, <1>5, <1>6, <1>8, <1>9

\* A submission that is dealt with is gone.
LEMMA SettleEffect ==
  ASSUME RequestTypeOK, NEW i \in Submission,
         request' = [request EXCEPT ![i] = None]
  PROVE  /\ request' \in [1 .. MaxSubmits -> Request \cup {None}]
         /\ request'[i] = None
         /\ \A j \in Submission \ {i} : request'[j] = request[j]
  BY DEF RequestTypeOK, Submission

\* A fetcher that has its answer loads and waits for none.
LEMMA LoadingEffect ==
  ASSUME RequestTypeOK, NEW f \in Fetcher, Loading(f)
  PROVE  /\ fetcher' \in [Fetcher -> FetcherState]
         /\ \A i \in Submission : ~WaitsFor(f, i)'
         /\ \A g \in Fetcher \ {f} : fetcher'[g] = fetcher[g]
<1>. DEFINE w == [state |-> "loading", waits |-> 0]
<1>1. /\ w \in FetcherState
      /\ w.state = "loading"
  BY SubmitsAssumption DEF FetcherState
<1>2. fetcher' = [fetcher EXCEPT ![f] = w]
  BY DEF Loading
<1>. HIDE DEF w
<1>. QED  BY <1>1, <1>2 DEF RequestTypeOK, WaitsFor

\* A page that goes has fetchers that wait for nothing.
LEMMA LosePageEffect ==
  ASSUME RequestTypeOK, LosePage
  PROVE  /\ RequestTypeOK'
         /\ \A i \in Submission :
              /\ request'[i] # None <=> request[i] # None
              /\ request[i] # None =>
                   /\ request'[i].kind = request[i].kind
                   /\ request'[i].status = request[i].status
                   /\ request'[i].target = request[i].target
                   /\ ~request'[i].watched
         /\ \A f \in Fetcher, i \in Submission : ~WaitsFor(f, i)'
<1>1. /\ Idle \in FetcherState
      /\ Idle.state = "idle"
  BY SubmitsAssumption DEF FetcherState, Idle
<1>2. /\ request' = [i \in 1 .. MaxSubmits |-> Unwatch(request[i])]
      /\ fetcher' = [f \in Fetcher |-> Idle]
      /\ submits' = submits
  BY DEF LosePage
<1>3. /\ fetcher' \in [Fetcher -> FetcherState]
      /\ \A f \in Fetcher : fetcher'[f] = Idle
  BY <1>1, <1>2
<1>4. request' \in [1 .. MaxSubmits -> Request \cup {None}]
  BY <1>2, UnwatchEffect
<1>5. RequestTypeOK'
  BY <1>2, <1>3, <1>4 DEF RequestTypeOK
<1>6. \A f \in Fetcher, i \in Submission : ~WaitsFor(f, i)'
  BY <1>1, <1>3 DEF WaitsFor
<1>. QED  BY <1>2, <1>5, <1>6, UnwatchEffect
-------------------------------------------------------------------------------
(* The administrator.                                                      *)

\* A step that leaves the submissions, the rows and the tokens alone, and
\* opens a sheet only where none is, keeps what is said about them.
LEMMA QuietStep ==
  ASSUME Inv,
         openType' = openType \/ openType = "null",
         createdAgent' \in {createdAgent, None},
         UNCHANGED <<server, request, submits, fetcher, page, history>>
  PROVE  /\ ServerTypeOK'
         /\ RequestTypeOK'
         /\ HistoryTypeOK'
         /\ RequestInv'
         /\ WatchInv'
         /\ TokenInv'
         /\ CauseInv'
         /\ DeployedTokenIsShown'
<1>1. ServerTypeOK' /\ RequestTypeOK' /\ HistoryTypeOK'
  BY DEF Inv, TypeOK, ServerTypeOK, RequestTypeOK, HistoryTypeOK, server,
         history
<1>2. RequestInv' /\ DeployedTokenIsShown'
  BY DEF Inv, RequestInv, DeployedTokenIsShown, WaitsFor, history
<1>3. WatchInv'
  <2>1. \A i \in Submission :
          request[i] # None => request[i].kind \in {"POST", "PATCH", "DELETE"}
    BY DEF Inv, TypeOK, RequestTypeOK, Request, Submission
  <2>. QED  BY <2>1 DEF Inv, WatchInv, WaitsFor
<1>4. TokenInv' /\ CauseInv'
  BY DEF Inv, TokenInv, CauseInv, PageLostForCause, server, history
<1>. QED  BY <1>1, <1>2, <1>3, <1>4

\* Clicks and typing.
LEMMA UserStep ==
  ASSUME Inv,
         \/ DeployNewAgent
         \/ \E a \in Agent, type \in {"EDIT", "DETAIL"} : OpenSheet(a, type)
         \/ \E name \in Name : HandleInputChange(name)
         \/ \E mapping \in Mapping : EditMapping(mapping)
         \/ \E a \in Agent : OpenDeleteDialog(a)
         \/ CloseDeleteDialog
         \/ \E name \in Name : TypeName(name)
         \/ CloseCreatedDialog
  PROVE  Inv'
<1>. USE DEF server, sheet, dialogs, history
<1>1. DefaultForm \in Row
  BY NamesAssumption, MappingAssumption DEF DefaultForm, Row
<1>2. \A a \in Agent : agents[a] # None => agents[a].name \in Name
  BY DEF Inv, TypeOK, PageTypeOK, Row
<1>3. CASE DeployNewAgent
  <2>1. PageTypeOK' /\ SheetHasAgent'
    BY <1>3 DEF Inv, TypeOK, PageTypeOK, SheetHasAgent, SidebarAgentType,
                DeployNewAgent
  <2>2. openType' = openType \/ openType = "null"
    BY <1>3 DEF DeployNewAgent, ListReachable
  <2>. QED  BY <1>3, <2>1, <2>2, QuietStep DEF Inv, TypeOK, DeployNewAgent
<1>4. ASSUME NEW a \in Agent, NEW type \in {"EDIT", "DETAIL"},
             OpenSheet(a, type)
      PROVE  Inv'
  <2>1. formData' \in Row
    BY <1>2, <1>4, MappingAssumption DEF OpenSheet, Row
  <2>2. PageTypeOK' /\ SheetHasAgent'
    BY <1>4, <2>1, NoneAssumption
    DEF Inv, TypeOK, PageTypeOK, SheetHasAgent, SidebarAgentType, OpenSheet
  <2>3. openType' = openType \/ openType = "null"
    BY <1>4 DEF OpenSheet, ListReachable
  <2>. QED  BY <1>4, <2>2, <2>3, QuietStep DEF Inv, TypeOK, OpenSheet
<1>5. ASSUME NEW name \in Name, HandleInputChange(name)
      PROVE  Inv'
  <2>1. formData' \in Row
    BY <1>5 DEF Inv, TypeOK, PageTypeOK, HandleInputChange, Row
  <2>2. PageTypeOK' /\ SheetHasAgent'
    BY <1>5, <2>1
    DEF Inv, TypeOK, PageTypeOK, SheetHasAgent, HandleInputChange
  <2>. QED  BY <1>5, <2>2, QuietStep DEF Inv, TypeOK, HandleInputChange
<1>6. ASSUME NEW mapping \in Mapping, EditMapping(mapping)
      PROVE  Inv'
  <2>1. formData' \in Row
    BY <1>6 DEF Inv, TypeOK, PageTypeOK, EditMapping, Row
  <2>2. PageTypeOK' /\ SheetHasAgent'
    BY <1>6, <2>1 DEF Inv, TypeOK, PageTypeOK, SheetHasAgent, EditMapping
  <2>. QED  BY <1>6, <2>2, QuietStep DEF Inv, TypeOK, EditMapping
<1>7. ASSUME NEW a \in Agent, OpenDeleteDialog(a)
      PROVE  Inv'
  <2>1. toDelete' \in [id : Agent, name : Name]
    BY <1>2, <1>7 DEF OpenDeleteDialog
  <2>2. PageTypeOK' /\ SheetHasAgent'
    BY <1>7, <2>1
    DEF Inv, TypeOK, PageTypeOK, SheetHasAgent, OpenDeleteDialog
  <2>. QED  BY <1>7, <2>2, QuietStep DEF Inv, TypeOK, OpenDeleteDialog
<1>8. CASE CloseDeleteDialog
  <2>1. PageTypeOK' /\ SheetHasAgent'
    BY <1>8 DEF Inv, TypeOK, PageTypeOK, SheetHasAgent, CloseDeleteDialog
  <2>. QED  BY <1>8, <2>1, QuietStep DEF Inv, TypeOK, CloseDeleteDialog
<1>9. ASSUME NEW name \in Name, TypeName(name)
      PROVE  Inv'
  <2>1. PageTypeOK' /\ SheetHasAgent'
    BY <1>9 DEF Inv, TypeOK, PageTypeOK, SheetHasAgent, TypeName
  <2>. QED  BY <1>9, <2>1, QuietStep DEF Inv, TypeOK, TypeName
<1>10. CASE CloseCreatedDialog
  <2>1. PageTypeOK' /\ SheetHasAgent'
    BY <1>10 DEF Inv, TypeOK, PageTypeOK, SheetHasAgent, CloseCreatedDialog
  <2>. QED  BY <1>10, <2>1, QuietStep DEF Inv, TypeOK, CloseCreatedDialog
<1>. QED  BY <1>3, <1>4, <1>5, <1>6, <1>7, <1>8, <1>9, <1>10

\* A new submission: a deployment is sent from its own sheet while nothing
\* else is under way, an edit from its own sheet.
LEMMA SubmitStep ==
  ASSUME Inv, NEW f \in Fetcher, NEW kind \in {"POST", "PATCH", "DELETE"},
         NEW target \in Agent \cup {None}, NEW form \in Row,
         Submit(f, kind, target, form),
         kind = "DELETE" => f = "delete",
         kind # "POST" => target \in Agent,
         kind # "DELETE" => f = "form",
         kind = "POST" => /\ openType = "CREATE"
                          /\ CreateEnabled
                          /\ target = None,
         kind = "PATCH" => openType = "EDIT"
  PROVE  Inv'
<1>1. PICK n \in Submission :
        /\ RequestTypeOK'
        /\ n = submits + 1
        /\ submits' = n
        /\ request'[n] # None
        /\ request'[n].kind = kind
        /\ request'[n].status = "sent"
        /\ request'[n].target = target
        /\ \A i \in Submission \ {n} : request'[i] = request[i]
        /\ fetcher'[f].state = "submitting"
        /\ fetcher'[f].waits = n
        /\ \A g \in Fetcher \ {f} : fetcher'[g] = fetcher[g]
  BY SubmitEffect DEF Inv, TypeOK
<1>2. UNCHANGED <<server, page, agents, sheet, dialogs, history>>
  BY DEF Submit
<1>3. ServerTypeOK' /\ PageTypeOK' /\ HistoryTypeOK' /\ SheetHasAgent'
      /\ TokenInv'
  BY <1>2 DEF Inv, TypeOK, ServerTypeOK, PageTypeOK, HistoryTypeOK,
              SheetHasAgent, TokenInv, server, sheet, dialogs, history
<1>4. /\ submits \in Nat
      /\ \A i \in Submission : i \in Nat
      /\ request[n] = None
      /\ \A g \in Fetcher : ~WaitsFor(g, n)
  BY <1>1, SubmitsAssumption
  DEF Inv, TypeOK, RequestTypeOK, RequestInv, Submission
<1>5. \A g \in Fetcher, i \in Submission :
        WaitsFor(g, i)' <=> IF g = f THEN i = n ELSE WaitsFor(g, i)
  BY <1>1 DEF WaitsFor
<1>6. f \in {"form", "delete"} /\ {"form", "delete"} = Fetcher
  BY DEF Fetcher
<1>7. \A i \in Submission : i # n /\ i > n => i > submits
  <2>1. n = submits + 1
    BY <1>1
  <2>. QED  BY <1>4, <2>1
<1>8. RequestInv'
  <2>. SUFFICES ASSUME NEW i \in Submission
                PROVE  /\ i > submits' =>
                            /\ request'[i] = None
                            /\ \A g \in Fetcher : ~WaitsFor(g, i)'
                       /\ request'[i] # None =>
                            /\ WaitsFor("form", i)' =>
                                 request'[i].kind # "DELETE"
                            /\ WaitsFor("delete", i)' =>
                                 request'[i].kind = "DELETE"
                            /\ /\ request'[i].kind = "POST"
                               /\ request'[i].status = "sent"
                               => request'[i].target = None
                            /\ \/ request'[i].kind # "POST"
                               \/ request'[i].status = "ok"
                               => request'[i].target \in Agent
    BY DEF RequestInv
  <2>1. CASE i = n
    <3>1. ~(i > submits')
      BY <1>1, <1>4, <2>1
    <3>2. /\ request'[i].kind = kind
          /\ request'[i].status = "sent"
          /\ request'[i].target = target
      BY <1>1, <2>1
    <3>3. WaitsFor("form", i)' => f = "form"
      BY <1>4, <1>5, <1>6, <2>1
    <3>4. WaitsFor("delete", i)' => f = "delete"
      BY <1>4, <1>5, <1>6, <2>1
    <3>. QED  BY <3>1, <3>2, <3>3, <3>4
  <2>2. CASE i # n
    <3>1. request'[i] = request[i]
      BY <1>1, <2>2
    <3>2. \A g \in Fetcher : WaitsFor(g, i)' => WaitsFor(g, i)
      BY <1>5, <2>2
    <3>3. i > n => request[i] = None /\ \A g \in Fetcher : ~WaitsFor(g, i)
      BY <1>7, <2>2 DEF Inv, RequestInv
    <3>. QED  BY <1>1, <1>6, <3>1, <3>2, <3>3 DEF Inv, RequestInv
  <2>. QED  BY <2>1, <2>2
<1>9. WatchInv'
  <2>. SUFFICES ASSUME NEW i \in Submission,
                       request'[i] # None, request'[i].watched
                PROVE  /\ request'[i].kind = "POST" =>
                            openType' = "CREATE" /\ WaitsFor("form", i)'
                       /\ request'[i].kind = "PATCH" /\ WaitsFor("form", i)' =>
                            openType' = "EDIT"
    BY DEF WatchInv
  <2>1. openType' = openType
    BY <1>2 DEF sheet
  <2>2. CASE i = n
    BY <1>1, <1>5, <1>6, <2>1, <2>2
  <2>3. CASE i # n
    <3>1. request'[i] = request[i]
      BY <1>1, <2>3
    <3>2. /\ request[i].kind = "POST" =>
               openType = "CREATE" /\ WaitsFor("form", i)
          /\ request[i].kind = "PATCH" /\ WaitsFor("form", i) =>
               openType = "EDIT"
      BY <3>1 DEF Inv, WatchInv
    <3>3. f = "form" /\ openType = "CREATE" => ~WaitsFor("form", i)
      BY <1>6 DEF CreateEnabled, WaitsFor
    <3>. QED  BY <1>5, <1>6, <2>1, <2>3, <3>1, <3>2, <3>3
  <2>. QED  BY <2>2, <2>3
<1>10. CauseInv'
  BY <1>1, <1>2 DEF Inv, CauseInv, PageLostForCause, server, history
<1>11. DeployedTokenIsShown'
  <2>1. \A i \in Submission : request[i] # None =>
          request'[i] = request[i]
    BY <1>1, <1>4
  <2>. QED  BY <1>2, <2>1 DEF Inv, DeployedTokenIsShown, history, Submission
<1>. QED  BY <1>1, <1>3, <1>8, <1>9, <1>10, <1>11 DEF Inv, TypeOK

\* The three buttons that send.
LEMMA ButtonStep ==
  ASSUME Inv, SubmitCreate \/ SubmitEdit \/ HandleDeleteAgent
  PROVE  Inv'
<1>1. formData \in Row /\ DefaultForm \in Row
  BY NamesAssumption, MappingAssumption
  DEF Inv, TypeOK, PageTypeOK, DefaultForm, Row
<1>2. openType = "EDIT" => selectedAgent \in Agent
  BY DEF Inv, TypeOK, PageTypeOK, SheetHasAgent
<1>3. "form" \in Fetcher /\ "delete" \in Fetcher
  BY DEF Fetcher
<1>4. CASE SubmitCreate
  <2>1. Submit("form", "POST", None, formData) /\ openType = "CREATE"
        /\ CreateEnabled
    BY <1>4 DEF SubmitCreate
  <2>. QED  BY <1>1, <1>3, <2>1, SubmitStep
<1>5. CASE SubmitEdit
  <2>1. Submit("form", "PATCH", selectedAgent, formData) /\ openType = "EDIT"
    BY <1>5 DEF SubmitEdit
  <2>. QED  BY <1>1, <1>2, <1>3, <2>1, SubmitStep
<1>6. CASE HandleDeleteAgent
  <2>1. toDelete.id \in Agent
    BY <1>6 DEF HandleDeleteAgent, DeleteReachable, Inv, TypeOK, PageTypeOK
  <2>2. Submit("delete", "DELETE", toDelete.id, DefaultForm)
    BY <1>6 DEF HandleDeleteAgent
  <2>. QED  BY <1>1, <1>3, <2>1, <2>2, SubmitStep
<1>. QED  BY <1>4, <1>5, <1>6

\* A sheet that closes stops to wait for its answers.
LEMMA CloseSheetStep ==
  ASSUME Inv, CloseSheet
  PROVE  Inv'
<1>1. /\ openType' = "null"
      /\ request' = [i \in 1 .. MaxSubmits |-> Unwatch(request[i])]
      /\ UNCHANGED <<server, submits, fetcher, page, agents, selectedAgent,
                     formData, dialogs, history>>
  BY DEF CloseSheet
<1>2. RequestTypeOK
  BY DEF Inv, TypeOK
<1>3. /\ request' \in [1 .. MaxSubmits -> Request \cup {None}]
      /\ \A i \in Submission :
           /\ request'[i] # None <=> request[i] # None
           /\ request[i] # None =>
                /\ request'[i].kind = request[i].kind
                /\ request'[i].status = request[i].status
                /\ request'[i].target = request[i].target
                /\ ~request'[i].watched
  BY <1>1, <1>2, UnwatchEffect
<1>4. RequestTypeOK'
  BY <1>1, <1>2, <1>3 DEF RequestTypeOK
<1>5. ServerTypeOK' /\ PageTypeOK' /\ HistoryTypeOK'
  BY <1>1 DEF Inv, TypeOK, ServerTypeOK, PageTypeOK, HistoryTypeOK, server,
              dialogs, history
<1>6. \A f \in Fetcher, i \in Submission : WaitsFor(f, i)' <=> WaitsFor(f, i)
  BY <1>1 DEF WaitsFor
<1>7. RequestInv'
  BY <1>1, <1>3, <1>6 DEF Inv, RequestInv, Fetcher
<1>8. WatchInv'
  BY <1>3 DEF WatchInv
<1>9. TokenInv' /\ SheetHasAgent'
  BY <1>1 DEF Inv, TokenInv, SheetHasAgent, dialogs, history
<1>10. CauseInv'
  BY <1>1, <1>3 DEF Inv, CauseInv, PageLostForCause, server, history
<1>11. DeployedTokenIsShown'
  BY <1>1, <1>3 DEF Inv, DeployedTokenIsShown, history, Submission
<1>. QED  BY <1>4, <1>5, <1>7, <1>8, <1>9, <1>10, <1>11 DEF Inv, TypeOK
-------------------------------------------------------------------------------
(* The server.                                                             *)

\* An answer under way belongs to who waits for it as the submission did.
LEMMA AnswerStep ==
  ASSUME Inv, NEW i \in Submission, request[i] # None,
         NEW status \in {"ok", "thrown"}, NEW a \in Agent \cup {None},
         a \in Agent \/ (request[i].kind = "POST" /\ status = "thrown"),
         request' = [request EXCEPT ![i].status = status, ![i].target = a],
         UNCHANGED <<submits, fetcher, openType>>
  PROVE  RequestTypeOK' /\ RequestInv' /\ WatchInv'
<1>1. /\ RequestTypeOK'
      /\ request'[i] # None
      /\ request'[i].kind = request[i].kind
      /\ request'[i].status = status
      /\ request'[i].target = a
      /\ request'[i].watched = request[i].watched
      /\ \A j \in Submission \ {i} : request'[j] = request[j]
  BY AnswerEffect DEF Inv, TypeOK
<1>2. \A f \in Fetcher, j \in Submission : WaitsFor(f, j)' <=> WaitsFor(f, j)
  BY DEF WaitsFor
<1>3. "form" \in Fetcher /\ "delete" \in Fetcher
  BY DEF Fetcher
<1>4. RequestInv'
  <2>. SUFFICES ASSUME NEW j \in Submission
                PROVE  /\ j > submits' =>
                            /\ request'[j] = None
                            /\ \A g \in Fetcher : ~WaitsFor(g, j)'
                       /\ request'[j] # None =>
                            /\ WaitsFor("form", j)' =>
                                 request'[j].kind # "DELETE"
                            /\ WaitsFor("delete", j)' =>
                                 request'[j].kind = "DELETE"
                            /\ /\ request'[j].kind = "POST"
                               /\ request'[j].status = "sent"
                               => request'[j].target = None
                            /\ \/ request'[j].kind # "POST"
                               \/ request'[j].status = "ok"
                               => request'[j].target \in Agent
    BY DEF RequestInv
  <2>1. CASE j = i
    BY <1>1, <1>2, <1>3, <2>1 DEF Inv, RequestInv
  <2>2. CASE j # i
    BY <1>1, <1>2, <1>3, <2>2 DEF Inv, RequestInv
  <2>. QED  BY <2>1, <2>2
<1>5. WatchInv'
  BY <1>1, <1>2, <1>3 DEF Inv, WatchInv
<1>. QED  BY <1>1, <1>4, <1>5

\* A handler that answers, stores rows that are accounted for, and deploys
\* no agent but the one it answers with.
LEMMA HandledStep ==
  ASSUME Inv, NEW i \in Submission, request[i] # None,
         request[i].status = "sent",
         NEW status \in {"ok", "thrown"}, NEW a \in Agent \cup {None},
         a \in Agent \/ (request[i].kind = "POST" /\ status = "thrown"),
         request' = [request EXCEPT ![i].status = status, ![i].target = a],
         UNCHANGED <<submits, fetcher, page, agents, sheet, dialogs, shown,
                     unwatched, strayed>>,
         ServerTypeOK', HistoryTypeOK',
         poisoned \/ mishap => poisoned' \/ mishap',
         status = "thrown" => poisoned' \/ mishap',
         \A b \in Agent :
           (rows[b] # None /\ ~Parses(rows[b].mapping))' => poisoned',
         made' \subseteq made \cup {a},
         made' # made => request[i].kind = "POST" /\ status = "ok"
  PROVE  Inv'
<1>1. UNCHANGED <<submits, fetcher, openType>>
  BY DEF sheet
<1>2. RequestTypeOK' /\ RequestInv' /\ WatchInv'
  BY <1>1, AnswerStep
<1>3. /\ request'[i] # None
      /\ request'[i].kind = request[i].kind
      /\ request'[i].status = status
      /\ request'[i].target = a
      /\ \A j \in Submission \ {i} : request'[j] = request[j]
  BY AnswerEffect DEF Inv, TypeOK
<1>4. PageTypeOK' /\ SheetHasAgent' /\ TokenInv'
  BY DEF Inv, TypeOK, PageTypeOK, SheetHasAgent, TokenInv, sheet, dialogs
<1>5. CauseInv'
  <2>1. \A j \in Submission :
          request'[j] # None /\ request'[j].status = "thrown" =>
            poisoned' \/ mishap'
    BY <1>3 DEF Inv, CauseInv
  <2>2. PageLostForCause'
    BY DEF Inv, CauseInv, PageLostForCause
  <2>. QED  BY <2>1, <2>2 DEF CauseInv
<1>6. DeployedTokenIsShown'
  <2>. SUFFICES ASSUME NEW b \in made', b \notin shown, b \notin unwatched
                PROVE  \E j \in Submission : /\ request'[j] # None
                                            /\ request'[j].kind = "POST"
                                            /\ request'[j].status = "ok"
                                            /\ request'[j].target = b
    BY DEF DeployedTokenIsShown, Submission
  <2>1. CASE b \in made
    <3>1. PICK j \in Submission : /\ request[j] # None
                                  /\ request[j].kind = "POST"
                                  /\ request[j].status = "ok"
                                  /\ request[j].target = b
      BY <2>1 DEF Inv, DeployedTokenIsShown, Submission
    <3>2. j # i
      BY <3>1
    <3>. QED  BY <1>3, <3>1, <3>2
  <2>2. CASE b \notin made
    BY <1>3, <2>2
  <2>. QED  BY <2>1, <2>2
<1>. QED  BY <1>2, <1>4, <1>5, <1>6 DEF Inv, TypeOK

\* The mapping stored is accounted for.
LEMMA StoreEffect ==
  ASSUME Inv, NEW form \in Row, NEW a \in Agent,
         rows' = [rows EXCEPT ![a] = form], Store(form.mapping)
  PROVE  /\ rows' \in [Agent -> Row \cup {None}]
         /\ poisoned' \in BOOLEAN
         /\ poisoned \/ ~Parses(form.mapping) => poisoned'
         /\ \A b \in Agent :
              (rows[b] # None /\ ~Parses(rows[b].mapping))' => poisoned'
<1>1. poisoned' \in BOOLEAN /\ (poisoned \/ ~Parses(form.mapping) => poisoned')
  BY MappingAssumption DEF Store, Parses, Row
<1>2. rows' \in [Agent -> Row \cup {None}]
  BY DEF Inv, TypeOK, ServerTypeOK
<1>3. \A b \in Agent :
        rows'[b] # None /\ ~Parses(rows'[b].mapping) => poisoned'
  BY <1>1 DEF Inv, TypeOK, ServerTypeOK, CauseInv
<1>4. \A b \in Agent :
        (rows[b] # None /\ ~Parses(rows[b].mapping))' => poisoned'
  BY <1>3 DEF Parses
<1>. QED  BY <1>1, <1>2, <1>4

\* A change the table has taken is answered as it should be, or it throws
\* with a mishap.
LEMMA CommittedEffect ==
  ASSUME Inv, NEW i \in Submission, NEW ok \in BOOLEAN, NEW a \in Agent,
         Committed(i, ok, a)
  PROVE  \E status \in {"ok", "thrown"} :
           /\ request' = [request EXCEPT ![i].status = status, ![i].target = a]
           /\ mishap' \in BOOLEAN /\ (mishap => mishap')
           /\ status = "thrown" => ~ok \/ mishap'
<1>1. mishap \in BOOLEAN
  BY DEF Inv, TypeOK, HistoryTypeOK
<1>2. CASE Answer(i, ok, a) /\ UNCHANGED mishap
  <2>1. CASE ok
    BY <1>1, <1>2, <2>1 DEF Answer
  <2>2. CASE ~ok
    BY <1>1, <1>2, <2>2 DEF Answer
  <2>. QED  BY <2>1, <2>2
<1>3. CASE Answer(i, FALSE, a) /\ mishap' = TRUE
  BY <1>3 DEF Answer
<1>. QED  BY <1>2, <1>3 DEF Committed

\* The three handlers, the row that is not there, and the query that fails.
LEMMA HandleStep ==
  ASSUME Inv, NEW i \in 1 .. MaxSubmits, Handle(i)
  PROVE  Inv'
<1>. i \in Submission
  BY DEF Submission
<1>1. request[i] # None /\ request[i].status = "sent"
  BY DEF Handle, CreateNewAgent, UpdateAgentById, DeleteAgentById, NoSuchAgent,
         QueryFails, Sent
<1>2. /\ request[i] \in Request
      /\ request[i].form \in Row
      /\ request[i].target \in Agent \cup {None}
  BY <1>1 DEF Inv, TypeOK, RequestTypeOK, Submission, Request
<1>. DEFINE form == request[i].form
<1>3. form \in Row /\ Parses(form.mapping) \in BOOLEAN
  BY <1>2 DEF Parses
<1>4. ASSUME NEW a \in Agent, CreateNewAgent(i, a)
      PROVE  Inv'
  <2>1. /\ request[i].kind = "POST"
        /\ Committed(i, Parses(form.mapping), a)
        /\ drawn' = drawn \cup {a}
        /\ rows' = [rows EXCEPT ![a] = form]
        /\ Store(form.mapping)
        /\ made' = IF request'[i].status = "ok" THEN made \cup {a} ELSE made
        /\ UNCHANGED <<submits, fetcher, page, agents, sheet, dialogs, shown,
                       unwatched, strayed>>
    BY <1>4 DEF CreateNewAgent, Sent
  <2>. HIDE DEF form
  <2>2. PICK status \in {"ok", "thrown"} :
          /\ request' = [request EXCEPT ![i].status = status, ![i].target = a]
          /\ mishap' \in BOOLEAN /\ (mishap => mishap')
          /\ status = "thrown" => ~Parses(form.mapping) \/ mishap'
    BY <1>3, <2>1, CommittedEffect
  <2>3. /\ rows' \in [Agent -> Row \cup {None}]
        /\ poisoned' \in BOOLEAN
        /\ poisoned \/ ~Parses(form.mapping) => poisoned'
        /\ \A b \in Agent :
             (rows[b] # None /\ ~Parses(rows[b].mapping))' => poisoned'
    BY <1>3, <2>1, StoreEffect
  <2>4. request'[i].status = status
    BY <1>1, <2>1, <2>2, AnswerEffect DEF Inv, TypeOK
  <2>5. ServerTypeOK' /\ HistoryTypeOK'
    BY <2>1, <2>2, <2>3
    DEF Inv, TypeOK, ServerTypeOK, HistoryTypeOK
  <2>6. /\ poisoned \/ mishap => poisoned' \/ mishap'
        /\ status = "thrown" => poisoned' \/ mishap'
    BY <2>2, <2>3
  <2>7. /\ made' \subseteq made \cup {a}
        /\ made' # made => request[i].kind = "POST" /\ status = "ok"
    BY <2>1, <2>4
  <2>. QED  BY <1>1, <2>1, <2>2, <2>3, <2>5, <2>6, <2>7, HandledStep
<1>5. CASE UpdateAgentById(i)
  <2>. DEFINE a == request[i].target
  <2>1. /\ a \in Agent
        /\ Committed(i, Parses(form.mapping), a)
        /\ rows' = [rows EXCEPT ![a] = form]
        /\ Store(form.mapping)
        /\ UNCHANGED <<drawn, submits, fetcher, page, agents, sheet, dialogs,
                       made, shown, unwatched, strayed>>
    BY <1>5 DEF UpdateAgentById, Sent
  <2>. HIDE DEF form, a
  <2>2. PICK status \in {"ok", "thrown"} :
          /\ request' = [request EXCEPT ![i].status = status, ![i].target = a]
          /\ mishap' \in BOOLEAN /\ (mishap => mishap')
          /\ status = "thrown" => ~Parses(form.mapping) \/ mishap'
    BY <1>3, <2>1, CommittedEffect
  <2>3. /\ rows' \in [Agent -> Row \cup {None}]
        /\ poisoned' \in BOOLEAN
        /\ poisoned \/ ~Parses(form.mapping) => poisoned'
        /\ \A b \in Agent :
             (rows[b] # None /\ ~Parses(rows[b].mapping))' => poisoned'
    BY <1>3, <2>1, StoreEffect
  <2>4. ServerTypeOK' /\ HistoryTypeOK'
    BY <2>1, <2>2, <2>3 DEF Inv, TypeOK, ServerTypeOK, HistoryTypeOK
  <2>5. /\ poisoned \/ mishap => poisoned' \/ mishap'
        /\ status = "thrown" => poisoned' \/ mishap'
    BY <2>2, <2>3
  <2>6. /\ made' \subseteq made \cup {a}
        /\ made' # made => request[i].kind = "POST" /\ status = "ok"
    BY <2>1
  <2>. QED  BY <1>1, <2>1, <2>2, <2>3, <2>4, <2>5, <2>6, HandledStep
<1>6. CASE DeleteAgentById(i)
  <2>. DEFINE a == request[i].target
  <2>1. /\ request[i].kind = "DELETE"
        /\ Committed(i, TRUE, a)
        /\ rows' = [rows EXCEPT ![a] = None]
        /\ UNCHANGED <<drawn, submits, fetcher, page, agents, sheet, dialogs,
                       made, shown, unwatched, strayed, poisoned>>
    BY <1>6 DEF DeleteAgentById, Sent
  <2>2. a \in Agent
    BY <1>1, <2>1 DEF Inv, RequestInv
  <2>. HIDE DEF a
  <2>3. PICK status \in {"ok", "thrown"} :
          /\ request' = [request EXCEPT ![i].status = status, ![i].target = a]
          /\ mishap' \in BOOLEAN /\ (mishap => mishap')
          /\ status = "thrown" => ~TRUE \/ mishap'
    BY <2>1, <2>2, CommittedEffect
  <2>4. ServerTypeOK' /\ HistoryTypeOK'
    BY <2>1, <2>2, <2>3 DEF Inv, TypeOK, ServerTypeOK, HistoryTypeOK
  <2>5. \A b \in Agent :
          rows'[b] # None => rows'[b] = rows[b]
    BY <2>1, <2>2 DEF Inv, TypeOK, ServerTypeOK
  <2>6. \A b \in Agent :
          (rows[b] # None /\ ~Parses(rows[b].mapping))' => poisoned'
    <3>1. \A b \in Agent :
            rows'[b] # None /\ ~Parses(rows'[b].mapping) => poisoned'
      BY <2>1, <2>5 DEF Inv, CauseInv
    <3>. QED  BY <3>1 DEF Parses
  <2>7. /\ made' \subseteq made \cup {a}
        /\ made' # made => request[i].kind = "POST" /\ status = "ok"
    BY <2>1
  <2>8. /\ poisoned \/ mishap => poisoned' \/ mishap'
        /\ status = "thrown" => poisoned' \/ mishap'
    BY <2>1, <2>3
  <2>. QED  BY <1>1, <2>1, <2>2, <2>3, <2>4, <2>6, <2>7, <2>8, HandledStep
<1>7. CASE NoSuchAgent(i) \/ QueryFails(i)
  <2>. DEFINE a == request[i].target
  <2>1. /\ request' = [request EXCEPT ![i].status = "thrown", ![i].target = a]
        /\ mishap' = TRUE
        /\ UNCHANGED <<server, submits, fetcher, page, agents, sheet, dialogs,
                       made, shown, unwatched, strayed, poisoned>>
    BY <1>7 DEF NoSuchAgent, QueryFails, Answer
  <2>2. /\ a \in Agent \cup {None}
        /\ a \in Agent \/ request[i].kind = "POST"
    BY <1>1, <1>2 DEF Inv, RequestInv
  <2>. HIDE DEF a
  <2>3. ServerTypeOK' /\ HistoryTypeOK'
    BY <2>1 DEF Inv, TypeOK, ServerTypeOK, HistoryTypeOK, server
  <2>4. \A b \in Agent :
          (rows[b] # None /\ ~Parses(rows[b].mapping))' => poisoned'
    BY <2>1 DEF Inv, CauseInv, server, Parses
  <2>5. made' \subseteq made \cup {a} /\ made' = made
    BY <2>1
  <2>. QED  BY <1>1, <2>1, <2>2, <2>3, <2>4, <2>5, HandledStep
<1>. QED  BY <1>4, <1>5, <1>6, <1>7 DEF Handle

\* Another administrator takes a row away.
LEMMA OtherDeletesStep ==
  ASSUME Inv, NEW a \in Agent, OtherDeletes(a)
  PROVE  Inv'
<1>1. /\ rows' = [rows EXCEPT ![a] = None]
      /\ UNCHANGED <<drawn, request, submits, fetcher, page, agents, sheet,
                     dialogs, history>>
  BY DEF OtherDeletes
<1>2. ServerTypeOK' /\ HistoryTypeOK'
  BY <1>1 DEF Inv, TypeOK, ServerTypeOK, HistoryTypeOK, history
<1>3. RequestTypeOK' /\ PageTypeOK' /\ SheetHasAgent' /\ TokenInv'
  BY <1>1 DEF Inv, TypeOK, RequestTypeOK, PageTypeOK, SheetHasAgent, TokenInv,
              sheet, dialogs, history
<1>4. RequestInv' /\ WatchInv' /\ DeployedTokenIsShown'
  BY <1>1 DEF Inv, RequestInv, WatchInv, WaitsFor, DeployedTokenIsShown, sheet,
              history
<1>5. CauseInv'
  <2>1. \A b \in Agent : rows'[b] # None => rows'[b] = rows[b]
    BY <1>1 DEF Inv, TypeOK, ServerTypeOK
  <2>. QED  BY <1>1, <2>1 DEF Inv, CauseInv, PageLostForCause, Parses, history
<1>. QED  BY <1>2, <1>3, <1>4, <1>5 DEF Inv, TypeOK
-------------------------------------------------------------------------------
(* Answers.                                                                *)

\* A submission that is dealt with leaves the others as they were, and what
\* nobody waited for is written down.
LEMMA SettledStep ==
  ASSUME Inv, NEW i \in Submission, request[i] # None,
         request[i].status # "sent", Settle(i)
  PROVE  /\ request' \in [1 .. MaxSubmits -> Request \cup {None}]
         /\ request'[i] = None
         /\ \A j \in Submission \ {i} : request'[j] = request[j]
         /\ unwatched' \in SUBSET Agent /\ strayed' \in SUBSET Agent
         /\ unwatched \subseteq unwatched' /\ strayed \subseteq strayed'
         /\ request[i].kind = "POST" /\ request[i].status = "ok"
              /\ ~request[i].watched => request[i].target \in unwatched'
         /\ request[i].kind = "PATCH" /\ ~request[i].watched =>
              request[i].target \in strayed'
<1>1. request' = [request EXCEPT ![i] = None]
  BY DEF Settle
<1>2. RequestTypeOK
  BY DEF Inv, TypeOK
<1>. DEFINE lost == /\ request[i].kind = "POST"
                    /\ request[i].status = "ok"
                    /\ ~request[i].watched
<1>3. lost \/ request[i].kind = "PATCH" => request[i].target \in Agent
  BY DEF Inv, RequestInv
<1>4. /\ unwatched' = IF lost THEN unwatched \cup {request[i].target}
                      ELSE unwatched
      /\ strayed' = IF request[i].kind = "PATCH" /\ ~request[i].watched
                    THEN strayed \cup {request[i].target} ELSE strayed
  BY DEF Settle
<1>5. unwatched \in SUBSET Agent /\ strayed \in SUBSET Agent
  BY DEF Inv, TypeOK, HistoryTypeOK
<1>6. /\ request' \in [1 .. MaxSubmits -> Request \cup {None}]
      /\ request'[i] = None
      /\ \A j \in Submission \ {i} : request'[j] = request[j]
  BY <1>1, <1>2, SettleEffect
<1>7. /\ unwatched' \in SUBSET Agent
      /\ unwatched \subseteq unwatched'
      /\ lost => request[i].target \in unwatched'
  <2>1. CASE lost
    BY <1>3, <1>4, <1>5, <2>1
  <2>2. CASE ~lost
    BY <1>4, <1>5, <2>2
  <2>. QED  BY <2>1, <2>2
<1>8. /\ strayed' \in SUBSET Agent
      /\ strayed \subseteq strayed'
      /\ request[i].kind = "PATCH" /\ ~request[i].watched =>
           request[i].target \in strayed'
  <2>1. CASE request[i].kind = "PATCH" /\ ~request[i].watched
    BY <1>3, <1>4, <1>5, <2>1
  <2>2. CASE ~(request[i].kind = "PATCH" /\ ~request[i].watched)
    BY <1>4, <1>5, <2>2
  <2>. QED  BY <2>1, <2>2
<1>. QED  BY <1>6, <1>7, <1>8

\* The answer to the shared fetcher: a deployment finds its own sheet, or
\* nobody waited for it; an edit nobody waited for may find any sheet.
LEMMA FormAnsweredStep ==
  ASSUME Inv, NEW i \in Submission, FormAnswered(i)
  PROVE  Inv'
<1>1. /\ request[i] # None
      /\ request[i].status = "ok"
      /\ request[i] \in Request
      /\ WaitsFor("form", i)
      /\ \A j \in Submission \ {i} : ~WaitsFor("form", j)
  BY DEF FormAnswered, Waiting, Received, WaitsFor, Inv, TypeOK, RequestTypeOK,
         Submission
<1>2. /\ request[i].kind \in {"POST", "PATCH"}
      /\ request[i].target \in Agent
  BY <1>1 DEF Inv, RequestInv, Request
<1>3. /\ ShowAnswer(i)
      /\ Settle(i)
      /\ Loading("form")
      /\ UNCHANGED <<server, submits, page, agents, formData, toDelete,
                     typedName, made, poisoned, mishap>>
      /\ shown' = IF createdAgent' # createdAgent /\ createdAgent'[2] = 0
                  THEN shown \cup {createdAgent'[1]} ELSE shown
  BY DEF FormAnswered
<1>4. /\ request' \in [1 .. MaxSubmits -> Request \cup {None}]
      /\ request'[i] = None
      /\ \A j \in Submission \ {i} : request'[j] = request[j]
      /\ unwatched' \in SUBSET Agent /\ strayed' \in SUBSET Agent
      /\ unwatched \subseteq unwatched' /\ strayed \subseteq strayed'
      /\ request[i].kind = "POST" /\ ~request[i].watched =>
           request[i].target \in unwatched'
      /\ request[i].kind = "PATCH" /\ ~request[i].watched =>
           request[i].target \in strayed'
  BY <1>1, <1>3, SettledStep
<1>5. "form" \in Fetcher /\ "delete" \in Fetcher
  BY DEF Fetcher
<1>6. /\ fetcher' \in [Fetcher -> FetcherState]
      /\ \A j \in Submission : ~WaitsFor("form", j)'
      /\ \A g \in Fetcher \ {"form"} : fetcher'[g] = fetcher[g]
  BY <1>3, <1>5, LoadingEffect DEF Inv, TypeOK
<1>7. \A g \in Fetcher, j \in Submission : WaitsFor(g, j)' => WaitsFor(g, j)
  BY <1>6 DEF WaitsFor
<1>8. RequestTypeOK' /\ ServerTypeOK'
  BY <1>3, <1>4, <1>6
  DEF Inv, TypeOK, RequestTypeOK, ServerTypeOK, server
<1>9. RequestInv'
  BY <1>3, <1>4, <1>5, <1>7 DEF Inv, RequestInv
<1>10. /\ AnsweredToken(i) \in Token
       /\ AnsweredToken(i)[1] = request[i].target
       /\ AnsweredToken(i)[2] = IF request[i].kind = "POST" THEN 0 ELSE 1
  BY <1>2 DEF AnsweredToken, Token
<1>11. /\ openType' \in {openType, "null"}
       /\ selectedAgent' \in {selectedAgent, None}
       /\ createdAgent' \in {createdAgent, AnsweredToken(i)}
       /\ openType' = openType => selectedAgent' = selectedAgent
       /\ openType = "CREATE" => createdAgent' = AnsweredToken(i)
       /\ createdAgent' # createdAgent => openType = "CREATE"
  BY <1>3 DEF ShowAnswer
<1>12. PageTypeOK' /\ SheetHasAgent'
  <2>1. PageTypeOK'
    BY <1>3, <1>10, <1>11 DEF Inv, TypeOK, PageTypeOK
  <2>2. SheetHasAgent'
    BY <1>11 DEF Inv, SheetHasAgent
  <2>. QED  BY <2>1, <2>2
<1>13. WatchInv'
  <2>. SUFFICES ASSUME NEW j \in Submission,
                       request'[j] # None, request'[j].watched
                PROVE  /\ request'[j].kind # "POST"
                       /\ ~WaitsFor("form", j)'
    BY DEF WatchInv
  <2>1. j # i /\ request'[j] = request[j]
    BY <1>4
  <2>. QED  BY <1>1, <1>6, <2>1 DEF Inv, WatchInv
<1>14. CauseInv'
  BY <1>3, <1>4 DEF Inv, CauseInv, PageLostForCause, server, Parses
<1>15. shown \subseteq shown' /\ shown' \in SUBSET Agent
  <2>1. CASE createdAgent' # createdAgent /\ createdAgent'[2] = 0
    <3>1. createdAgent'[1] \in Agent
      BY <1>2, <1>10, <1>11, <2>1
    <3>. QED  BY <1>3, <2>1, <3>1 DEF Inv, TypeOK, HistoryTypeOK
  <2>2. CASE ~(createdAgent' # createdAgent /\ createdAgent'[2] = 0)
    BY <1>3, <2>2 DEF Inv, TypeOK, HistoryTypeOK
  <2>. QED  BY <2>1, <2>2
<1>16. HistoryTypeOK'
  BY <1>3, <1>4, <1>15 DEF Inv, TypeOK, HistoryTypeOK
<1>17. TokenInv'
  <2>1. CASE createdAgent' = createdAgent
    BY <1>4, <1>15, <2>1 DEF Inv, TokenInv
  <2>2. CASE createdAgent' # createdAgent
    <3>1. createdAgent' = AnsweredToken(i) /\ openType = "CREATE"
      BY <1>11, <2>2
    <3>2. CASE request[i].kind = "POST"
      <4>1. createdAgent'[2] = 0 /\ createdAgent'[1] \in shown'
        BY <1>3, <1>10, <2>2, <3>1, <3>2
      <4>. QED  BY <4>1 DEF TokenInv
    <3>3. CASE request[i].kind = "PATCH"
      <4>1. ~request[i].watched
        BY <1>1, <3>1, <3>3 DEF Inv, WatchInv
      <4>2. createdAgent'[2] = 1 /\ createdAgent'[1] \in strayed'
        BY <1>4, <1>10, <3>1, <3>3, <4>1
      <4>. QED  BY <4>2 DEF TokenInv
    <3>. QED  BY <1>2, <3>2, <3>3
  <2>. QED  BY <2>1, <2>2
<1>18. request[i].kind = "POST" =>
         request[i].target \in shown' \/ request[i].target \in unwatched'
  <2>. SUFFICES ASSUME request[i].kind = "POST", request[i].watched
                PROVE  request[i].target \in shown'
    BY <1>4
  <2>1. createdAgent' = AnsweredToken(i)
    BY <1>1, <1>11 DEF Inv, WatchInv
  <2>2. createdAgent'[2] = 0 /\ createdAgent'[1] = request[i].target
    BY <1>10, <2>1
  <2>3. createdAgent' # None
    BY <1>10, <2>1, NoneAssumption
  <2>. QED  BY <1>17, <2>2, <2>3 DEF TokenInv
<1>19. DeployedTokenIsShown'
  BY <1>3, <1>4, <1>15, <1>18 DEF Inv, DeployedTokenIsShown, Submission
<1>. QED  BY <1>8, <1>9, <1>12, <1>13, <1>14, <1>16, <1>17, <1>19
          DEF Inv, TypeOK

\* An answer that touches no sheet.
LEMMA DroppedStep ==
  ASSUME Inv, NEW i \in Submission, request[i] # None,
         request[i].status # "sent", Settle(i),
         request[i].kind = "POST" => ~request[i].watched,
         fetcher' \in [Fetcher -> FetcherState],
         \A g \in Fetcher, j \in Submission :
           WaitsFor(g, j)' => WaitsFor(g, j),
         \A j \in Submission : WaitsFor("form", j)' <=> WaitsFor("form", j),
         PageTypeOK',
         UNCHANGED <<server, submits, page, agents, sheet, createdAgent, made,
                     shown, poisoned, mishap>>
  PROVE  Inv'
<1>1. /\ request' \in [1 .. MaxSubmits -> Request \cup {None}]
      /\ request'[i] = None
      /\ \A j \in Submission \ {i} : request'[j] = request[j]
      /\ unwatched' \in SUBSET Agent /\ strayed' \in SUBSET Agent
      /\ unwatched \subseteq unwatched' /\ strayed \subseteq strayed'
      /\ request[i].kind = "POST" /\ request[i].status = "ok"
           /\ ~request[i].watched => request[i].target \in unwatched'
  BY SettledStep
<1>2. RequestTypeOK' /\ ServerTypeOK'
  BY <1>1 DEF Inv, TypeOK, RequestTypeOK, ServerTypeOK, server
<1>3. HistoryTypeOK' /\ TokenInv' /\ SheetHasAgent'
  BY <1>1 DEF Inv, TypeOK, HistoryTypeOK, TokenInv, SheetHasAgent, sheet
<1>4. RequestInv'
  BY <1>1 DEF Inv, RequestInv, Fetcher
<1>5. WatchInv'
  BY <1>1 DEF Inv, WatchInv, sheet
<1>6. CauseInv'
  BY <1>1 DEF Inv, CauseInv, PageLostForCause, server, Parses
<1>7. DeployedTokenIsShown'
  BY <1>1 DEF Inv, DeployedTokenIsShown, Submission
<1>. QED  BY <1>2, <1>3, <1>4, <1>5, <1>6, <1>7 DEF Inv, TypeOK

\* The answer to a deletion, and one nobody waits for: a deployment of
\* theirs would be watched from the shared fetcher.
LEMMA DroppedAnswerStep ==
  ASSUME Inv, NEW i \in Submission, DeleteAnswered(i) \/ Unclaimed(i)
  PROVE  Inv'
<1>1. RequestTypeOK /\ "form" \in Fetcher /\ "delete" \in Fetcher
  BY DEF Inv, TypeOK, Fetcher
<1>2. CASE DeleteAnswered(i)
  <2>1. /\ request[i] # None
        /\ request[i].status # "sent"
        /\ WaitsFor("delete", i)
        /\ Settle(i)
        /\ Loading("delete")
        /\ toDelete' = None
        /\ UNCHANGED <<server, submits, page, agents, sheet, createdAgent,
                       typedName, made, shown, poisoned, mishap>>
    BY <1>2 DEF DeleteAnswered, Waiting, Received, WaitsFor
  <2>2. request[i].kind = "DELETE"
    BY <2>1 DEF Inv, RequestInv
  <2>3. /\ fetcher' \in [Fetcher -> FetcherState]
        /\ \A j \in Submission : ~WaitsFor("delete", j)'
        /\ \A g \in Fetcher \ {"delete"} : fetcher'[g] = fetcher[g]
    BY <1>1, <2>1, LoadingEffect
  <2>4. \A g \in Fetcher, j \in Submission : WaitsFor(g, j)' => WaitsFor(g, j)
    BY <2>3 DEF WaitsFor
  <2>5. \A j \in Submission : WaitsFor("form", j)' <=> WaitsFor("form", j)
    BY <1>1, <2>3 DEF WaitsFor
  <2>6. PageTypeOK'
    BY <2>1 DEF Inv, TypeOK, PageTypeOK, sheet
  <2>. QED  BY <2>1, <2>2, <2>3, <2>4, <2>5, <2>6, DroppedStep
<1>3. CASE Unclaimed(i)
  <2>1. /\ request[i] # None
        /\ request[i].status # "sent"
        /\ ~WaitsFor("form", i)
        /\ Settle(i)
        /\ UNCHANGED <<server, submits, fetcher, page, agents, sheet, dialogs,
                       made, shown, poisoned, mishap>>
    BY <1>1, <1>3 DEF Unclaimed, Received, WaitsFor
  <2>2. request[i].kind = "POST" => ~request[i].watched
    BY <2>1 DEF Inv, WatchInv
  <2>3. fetcher' \in [Fetcher -> FetcherState]
    BY <1>1, <2>1 DEF RequestTypeOK
  <2>4. \A g \in Fetcher, j \in Submission : WaitsFor(g, j)' <=> WaitsFor(g, j)
    BY <2>1 DEF WaitsFor
  <2>5. PageTypeOK'
    BY <2>1 DEF Inv, TypeOK, PageTypeOK, sheet, dialogs
  <2>6. UNCHANGED <<server, submits, page, agents, sheet, createdAgent, made,
                    shown, poisoned, mishap>>
    BY <2>1 DEF dialogs
  <2>. QED  BY <1>1, <2>1, <2>2, <2>3, <2>4, <2>5, <2>6, DroppedStep
<1>. QED  BY <1>2, <1>3

\* The page is lost, for a cause.
LEMMA LosePageStep ==
  ASSUME Inv, LosePage, mishap' \in BOOLEAN, mishap => mishap',
         poisoned \/ mishap'
  PROVE  Inv'
<1>1. /\ page' = "error" /\ openType' = "null" /\ selectedAgent' = None
      /\ createdAgent' = None /\ toDelete' = None /\ typedName' = None
      /\ UNCHANGED <<server, submits, agents, formData, made, shown,
                     unwatched, strayed, poisoned>>
  BY DEF LosePage
<1>2. /\ RequestTypeOK'
      /\ \A i \in Submission :
           /\ request'[i] # None <=> request[i] # None
           /\ request[i] # None =>
                /\ request'[i].kind = request[i].kind
                /\ request'[i].status = request[i].status
                /\ request'[i].target = request[i].target
                /\ ~request'[i].watched
      /\ \A f \in Fetcher, i \in Submission : ~WaitsFor(f, i)'
  BY LosePageEffect DEF Inv, TypeOK
<1>3. ServerTypeOK' /\ PageTypeOK' /\ HistoryTypeOK'
  BY <1>1 DEF Inv, TypeOK, ServerTypeOK, PageTypeOK, HistoryTypeOK, server
<1>4. TokenInv' /\ SheetHasAgent'
  BY <1>1 DEF TokenInv, SheetHasAgent
<1>5. RequestInv'
  BY <1>1, <1>2 DEF Inv, RequestInv, Fetcher
<1>6. WatchInv'
  BY <1>2 DEF WatchInv
<1>7. CauseInv'
  BY <1>1, <1>2 DEF Inv, CauseInv, PageLostForCause, server, Parses
<1>8. DeployedTokenIsShown'
  BY <1>1, <1>2 DEF Inv, DeployedTokenIsShown, Submission
<1>. QED  BY <1>2, <1>3, <1>4, <1>5, <1>6, <1>7, <1>8 DEF Inv, TypeOK

\* A row the loader cannot parse was stored as such.
LEMMA LoaderFailsForCause ==
  ASSUME Inv, LoaderFails
  PROVE  poisoned
BY DEF LoaderFails, Inv, CauseInv

\* An answer that throws does so for a cause, and so does the loader; a
\* request, an answer or a reload that is lost is a mishap.
LEMMA PageErrorStep ==
  ASSUME Inv,
         \/ \E f \in Fetcher, i \in Submission : Throw(f, i)
         \/ \E f \in Fetcher, i \in Submission : NetworkFails(f, i)
         \/ \E f \in Fetcher : RevalidateFails(f)
  PROVE  Inv'
<1>1. mishap \in BOOLEAN
  BY DEF Inv, TypeOK, HistoryTypeOK
<1>2. ASSUME NEW f \in Fetcher, NEW i \in Submission, Throw(f, i)
      PROVE  Inv'
  <2>1. LosePage /\ UNCHANGED mishap
    BY <1>2 DEF Throw
  <2>2. request[i] # None /\ request[i].status = "thrown"
    BY <1>2 DEF Throw, Received
  <2>3. poisoned \/ mishap
    BY <2>2 DEF Inv, CauseInv
  <2>. QED  BY <1>1, <2>1, <2>3, LosePageStep
<1>3. ASSUME NEW f \in Fetcher, NEW i \in Submission, NetworkFails(f, i)
      PROVE  Inv'
  <2>1. LosePage /\ mishap' = TRUE
    BY <1>3 DEF NetworkFails
  <2>. QED  BY <2>1, LosePageStep
<1>4. ASSUME NEW f \in Fetcher, RevalidateFails(f)
      PROVE  Inv'
  <2>1. LosePage
    BY <1>4 DEF RevalidateFails
  <2>2. (UNCHANGED mishap /\ poisoned) \/ mishap' = TRUE
    BY <1>4, LoaderFailsForCause DEF RevalidateFails
  <2>3. mishap' \in BOOLEAN /\ (mishap => mishap') /\ (poisoned \/ mishap')
    BY <1>1, <2>2
  <2>. QED  BY <2>1, <2>3, LosePageStep
<1>. QED  BY <1>2, <1>3, <1>4

\* The loader runs again, or the page is loaded anew.
LEMMA LoadStep ==
  ASSUME Inv, Reload \/ \E f \in Fetcher : Revalidate(f)
  PROVE  Inv'
<1>1. agents' = rows /\ rows \in [Agent -> Row \cup {None}]
  BY DEF Reload, Revalidate, Inv, TypeOK, ServerTypeOK
<1>2. CASE Reload
  <2>1. /\ page' = "shown"
        /\ formData' = DefaultForm
        /\ UNCHANGED <<server, request, submits, fetcher, openType,
                       selectedAgent, dialogs, history>>
    BY <1>2 DEF Reload
  <2>2. DefaultForm \in Row
    BY NamesAssumption, MappingAssumption DEF DefaultForm, Row
  <2>3. ServerTypeOK' /\ RequestTypeOK' /\ HistoryTypeOK' /\ SheetHasAgent'
        /\ TokenInv'
    BY <2>1
    DEF Inv, TypeOK, ServerTypeOK, RequestTypeOK, HistoryTypeOK, SheetHasAgent,
        TokenInv, server, dialogs, history
  <2>4. PageTypeOK'
    BY <1>1, <2>1, <2>2 DEF Inv, TypeOK, PageTypeOK, dialogs
  <2>5. RequestInv' /\ WatchInv' /\ DeployedTokenIsShown'
    BY <2>1 DEF Inv, RequestInv, WatchInv, WaitsFor, DeployedTokenIsShown,
                history
  <2>6. CauseInv'
    BY <2>1 DEF Inv, CauseInv, PageLostForCause, Parses, server, history
  <2>. QED  BY <2>3, <2>4, <2>5, <2>6 DEF Inv, TypeOK
<1>3. ASSUME NEW f \in Fetcher, Revalidate(f)
      PROVE  Inv'
  <2>1. /\ fetcher' = [fetcher EXCEPT ![f] = Idle]
        /\ fetcher[f].state = "loading"
        /\ UNCHANGED <<server, request, submits, page, sheet, dialogs,
                       history>>
    BY <1>3 DEF Revalidate
  <2>2. /\ Idle \in FetcherState
        /\ Idle.state = "idle"
    BY SubmitsAssumption DEF FetcherState, Idle
  <2>3. fetcher' \in [Fetcher -> FetcherState]
    BY <2>1, <2>2 DEF Inv, TypeOK, RequestTypeOK
  <2>4. \A g \in Fetcher, i \in Submission : WaitsFor(g, i)' <=> WaitsFor(g, i)
    BY <2>1, <2>2 DEF Inv, TypeOK, RequestTypeOK, WaitsFor
  <2>5. ServerTypeOK' /\ RequestTypeOK' /\ HistoryTypeOK' /\ SheetHasAgent'
        /\ TokenInv'
    BY <2>1, <2>3
    DEF Inv, TypeOK, ServerTypeOK, RequestTypeOK, HistoryTypeOK, SheetHasAgent,
        TokenInv, server, sheet, dialogs, history
  <2>6. PageTypeOK'
    BY <1>1, <2>1 DEF Inv, TypeOK, PageTypeOK, sheet, dialogs
  <2>7. RequestInv' /\ WatchInv' /\ DeployedTokenIsShown'
    BY <2>1, <2>4 DEF Inv, RequestInv, WatchInv, DeployedTokenIsShown, Fetcher,
                      sheet, history
  <2>8. CauseInv'
    BY <2>1 DEF Inv, CauseInv, PageLostForCause, Parses, server, history
  <2>. QED  BY <2>5, <2>6, <2>7, <2>8 DEF Inv, TypeOK
<1>. QED  BY <1>2, <1>3
-------------------------------------------------------------------------------
\* A page just opened: no submissions, and rows that parse.
LEMMA InitEstablishesInv == Init => Inv
<1>. SUFFICES ASSUME Init PROVE Inv
  OBVIOUS
<1>. USE DEF Init
<1>1. rows \in [Agent -> Row \cup {None}] /\ drawn \in SUBSET Agent
  OBVIOUS
<1>2. DefaultForm \in Row
  BY NamesAssumption, MappingAssumption DEF DefaultForm, Row
<1>3. Idle \in FetcherState
      /\ Idle.state = "idle"
  BY SubmitsAssumption DEF FetcherState, Idle
<1>4. ServerTypeOK /\ PageTypeOK /\ HistoryTypeOK
  BY <1>1, <1>2 DEF ServerTypeOK, PageTypeOK, HistoryTypeOK
<1>5. /\ request \in [1 .. MaxSubmits -> Request \cup {None}]
      /\ fetcher \in [Fetcher -> FetcherState]
      /\ submits \in 0 .. MaxSubmits
  BY <1>3, SubmitsAssumption
<1>6. \A f \in Fetcher, i \in Submission : ~WaitsFor(f, i)
  BY <1>3 DEF WaitsFor
<1>7. RequestInv /\ WatchInv
  BY <1>6 DEF RequestInv, WatchInv, Submission
<1>8. \A a \in Agent : rows[a] # None => Parses(rows[a].mapping)
  BY DEF Parses
<1>9. TokenInv /\ CauseInv /\ DeployedTokenIsShown /\ SheetHasAgent
  BY <1>8 DEF TokenInv, CauseInv, PageLostForCause, DeployedTokenIsShown,
              SheetHasAgent, Submission
<1>. QED  BY <1>4, <1>5, <1>7, <1>9 DEF Inv, TypeOK, RequestTypeOK

\* Every step of administrator, server and page keeps the invariant.
LEMMA NextKeepsInv == Inv /\ [Next]_vars => Inv'
<1>. SUFFICES ASSUME Inv, [Next]_vars PROVE Inv'
  OBVIOUS
<1>1. Submission = 1 .. MaxSubmits
  BY DEF Submission
<1>2. CASE User
  <2>1. \/ CloseSheet
        \/ SubmitCreate \/ SubmitEdit \/ HandleDeleteAgent
        \/ Reload
        \/ \/ DeployNewAgent
           \/ \E a \in Agent, type \in {"EDIT", "DETAIL"} : OpenSheet(a, type)
           \/ \E name \in Name : HandleInputChange(name)
           \/ \E mapping \in Mapping : EditMapping(mapping)
           \/ \E a \in Agent : OpenDeleteDialog(a)
           \/ CloseDeleteDialog
           \/ \E name \in Name : TypeName(name)
           \/ CloseCreatedDialog
    BY <1>2 DEF User
  <2>. QED  BY <2>1, CloseSheetStep, ButtonStep, LoadStep, UserStep
<1>3. CASE \E i \in 1 .. MaxSubmits : Handle(i)
  BY <1>3, HandleStep
<1>4. CASE \E i \in 1 .. MaxSubmits : Deliver(i)
  <2>. PICK i \in Submission : Deliver(i)
    BY <1>1, <1>4
  <2>. QED  BY FormAnsweredStep, DroppedAnswerStep, PageErrorStep DEF Deliver
<1>5. CASE \E f \in Fetcher, i \in 1 .. MaxSubmits : NetworkFails(f, i)
  BY <1>1, <1>5, PageErrorStep
<1>6. CASE \E f \in Fetcher : Refresh(f)
  BY <1>6, LoadStep, PageErrorStep DEF Refresh
<1>7. CASE \E a \in Agent : OtherDeletes(a)
  BY <1>7, OtherDeletesStep
<1>8. CASE UNCHANGED vars
  <2>1. UNCHANGED <<server, request, submits, fetcher, page, agents, sheet,
                    dialogs, history>>
    BY <1>8 DEF vars
  <2>2. PageTypeOK' /\ SheetHasAgent'
    BY <2>1 DEF Inv, TypeOK, PageTypeOK, SheetHasAgent, sheet, dialogs
  <2>3. openType' = openType /\ createdAgent' = createdAgent
    BY <2>1 DEF sheet, dialogs
  <2>. QED  BY <2>1, <2>2, <2>3, QuietStep DEF Inv, TypeOK
<1>. QED  BY <1>2, <1>3, <1>4, <1>5, <1>6, <1>7, <1>8 DEF Next

\* The strengthened invariant.
THEOREM Invariance == Spec => []Inv
BY InitEstablishesInv, NextKeepsInv, PTL DEF Spec

\* The types of the page, its submissions and the table.
THEOREM TypeCorrectness == Spec => []TypeOK
<1>1. Inv => TypeOK
  BY DEF Inv
<1>. QED  BY <1>1, Invariance, PTL

\* No token of an agent deployed with success is lost but to an administrator
\* who closed the sheet or lost the page before the answer came.
THEOREM DeployedShown == Spec => []DeployedTokenIsShown
<1>1. Inv => DeployedTokenIsShown
  BY DEF Inv
<1>. QED  BY <1>1, Invariance, PTL

\* No edit goes to an agent that is not there to be edited.
THEOREM SheetsHaveAgents == Spec => []SheetHasAgent
<1>1. Inv => SheetHasAgent
  BY DEF Inv
<1>. QED  BY <1>1, Invariance, PTL

\* Only a stored mapping that is no JSON, a row that is gone or an answer that
\* is lost takes the whole page down.
THEOREM PageIsLostForCause == Spec => []PageLostForCause
<1>1. Inv => PageLostForCause
  BY DEF Inv, CauseInv
<1>. QED  BY <1>1, Invariance, PTL

\* The install command shown holds a token that authenticates, but for the
\* edit answered under a deployment's sheet.
THEOREM TokensAuthenticate == Spec => []ShownTokenAuthenticates
<1>1. Inv => ShownTokenAuthenticates
  <2>. SUFFICES ASSUME Inv, createdAgent # None, rows[createdAgent[1]] # None,
                       createdAgent[1] \notin strayed
                PROVE  Authenticates(createdAgent)
    BY DEF ShownTokenAuthenticates
  <2>1. createdAgent \in Token /\ createdAgent[2] = 0
    BY DEF Inv, TypeOK, PageTypeOK, TokenInv
  <2>2. createdAgent[1] \in Agent
        /\ hashAgentToken(createdAgent) = <<createdAgent[1], 1>>
    BY <2>1 DEF hashAgentToken, Token
  <2>. QED  BY <2>2 DEF Authenticates
<1>. QED  BY <1>1, Invariance, PTL
===============================================================================
