------------------------------- MODULE BrowserTab -------------------------------
(***************************************************************************)
(* One tab of the dashboard as React Router runs it: pages and their       *)
(* loaders, the fetcher a page submits with, the calls the server still    *)
(* handles for it, and the links of the sidebar.                           *)
(*                                                                         *)
(* The tab waits for one load at a time: a newer one replaces it, whoever  *)
(* asked for it, and keeps its target unless it is a navigation.  After an *)
(* action that succeeded the loaders run again; after a 4xx or 5xx answer  *)
(* they do not.  A page that is left loses its state, but the server goes  *)
(* on with what it was asked.  A loader or a request that fails shows the  *)
(* root ErrorBoundary in place of the page.  An effect of a page runs some *)
(* time after the render it belongs to, and before the page is left.       *)
(***************************************************************************)
EXTENDS Integers

CONSTANT None   \* no data, no selection, no form

VARIABLES
  location,  \* page shown, with the page number and size of the request logs
  loaded,    \* data of the page's loader
  load,      \* the load the tab waits for
  fetcher,   \* fetcher the page submits with, its last answer, and whether the
             \* effect on that answer is pending
  action,    \* calls the server handles: of the fetcher, and of one left behind
  selected,  \* row or node whose sheet is open
  reader,    \* fetcher of the graph's sheet, and its effect
  saved,     \* history: last form of this page answered with success
  alone,     \* history: nobody else wrote, and no call was left behind
  untold     \* history: a call of this page took effect, or left its work undone,
             \* and was answered with an error; none has succeeded since

shell == <<location, loaded, load>>
tab == <<shell, fetcher, action, selected, reader, saved, alone, untold>>
-------------------------------------------------------------------------------
\* Pages of the layout that are modelled here, and no page.
Page == {"findings", "ai-checker", "authorization-graph-explorer",
         "request-logs", "settings"}

Url(page, no, size) == [page |-> page, no |-> no, size |-> size]

Blank == Url("none", 0, 0)

NoLoad == [to |-> Blank, pc |-> "none", total |-> 0, data |-> None,
           revalidating |-> FALSE]

Slot == {"current", "abandoned"}

NoCall == [pc |-> "none", page |-> "none", form |-> None, newest |-> FALSE,
           ok |-> FALSE, data |-> None]

IdleFetcher == [state |-> "idle", ok |-> FALSE, data |-> None,
                pending |-> FALSE]

NoReader == [state |-> "idle", opened |-> FALSE]

TabInit == /\ location = Blank
           /\ loaded = None
           /\ load = NoLoad
           /\ fetcher = IdleFetcher
           /\ action = [s \in Slot |-> NoCall]
           /\ selected = None
           /\ reader = NoReader
           /\ saved = None
           /\ alone = TRUE
           /\ untold = FALSE

On(page) == location.page = page

Target == IF load.pc = "none" THEN location ELSE load.to

LoadFor(url, byRevalidator) ==
  [NoLoad EXCEPT !.to = url, !.pc = "sent",
                 !.revalidating = load.revalidating \/ byRevalidator]

\* What the fetcher waits for is left to the server; there is room for one.
LeaveCall(new) ==
  IF action["current"].pc = "none"
  THEN action' = [action EXCEPT !["current"] = new]
  ELSE /\ action["abandoned"].pc = "none"
       /\ action' = [s \in Slot |-> IF s = "current" THEN new
                                    ELSE action["current"]]

Unmount == /\ LeaveCall(NoCall)
           /\ fetcher' = IdleFetcher
           /\ selected' = None
           /\ reader' = NoReader
           /\ saved' = None
           /\ alone' = (alone /\ action["current"].pc = "none")
           /\ untold' = FALSE

LosePage == /\ location' = Blank
            /\ loaded' = None
            /\ load' = NoLoad
            /\ Unmount
-------------------------------------------------------------------------------
(* Navigation.                                                             *)

Go(url) == /\ load' = LoadFor(url, FALSE)
           /\ UNCHANGED <<location, loaded, fetcher, action, selected, reader,
                          saved, alone, untold>>

Open(url) == On("none") /\ load.pc = "none" /\ Go(url)

\* An open sheet covers the sidebar.
FollowLink(url) == ~On("none") /\ selected = None /\ Go(url)

LoaderStep(page, pc) == load.to.page = page /\ load.pc = pc

LoadGoesOn(next) ==
  /\ load' = next
  /\ UNCHANGED <<location, loaded, fetcher, action, selected, reader, saved,
                 alone, untold>>

LoaderAnswers(page, data) ==
  /\ LoaderStep(page, "sent")
  /\ LoadGoesOn([load EXCEPT !.pc = "loaded", !.data = data])

\* The fetcher and the revalidator are idle with the load that ends.
ShowPage ==
  /\ load.pc = "loaded"
  /\ location' = load.to
  /\ loaded' = load.data
  /\ load' = NoLoad
  /\ IF On(load.to.page)
     THEN /\ fetcher' = [fetcher EXCEPT !.state = IF @ = "loading" THEN "idle"
                                                  ELSE @]
          /\ UNCHANGED <<action, selected, reader, saved, alone, untold>>
     ELSE ~fetcher.pending /\ Unmount

FollowRedirect == load.pc = "redirect" /\ Go(load.data)

LoaderFails == load.pc \in {"sent", "counted"} /\ LosePage

CloseSheet == /\ selected # None
              /\ ~reader.opened
              /\ selected' = None
              /\ UNCHANGED <<shell, fetcher, action, reader, saved, alone,
                             untold>>
-------------------------------------------------------------------------------
(* Submissions.                                                            *)

\* fetcher.submit: the fetcher keeps its last answer meanwhile.
Submit(page, form) ==
  /\ On(page)
  /\ LeaveCall([NoCall EXCEPT !.pc = "sent", !.page = page, !.form = form])
  /\ fetcher' = [fetcher EXCEPT !.state = "submitting"]
  /\ UNCHANGED <<shell, selected, reader, saved, alone, untold>>

Handling(s, page, pc) == action[s].page = page /\ action[s].pc = pc

CallGoesOn(calls) ==
  /\ action' = calls
  /\ UNCHANGED <<shell, fetcher, selected, reader, saved, alone, untold>>

Answered(calls, s, ok, data) ==
  [calls EXCEPT ![s].pc = "answered", ![s].ok = ok, ![s].data = data]

ActionAnswers(s, ok, data) == CallGoesOn(Answered(action, s, ok, data))

\* An error, although the database has done what was asked or has not undone it.
AnswersUntold(calls, s) ==
  /\ action' = Answered(calls, s, FALSE, "error")
  /\ untold' = TRUE
  /\ UNCHANGED <<shell, fetcher, selected, reader, saved, alone>>

Revalidated(ok) == IF ok THEN LoadFor(Target, FALSE) ELSE load

\* The effect of the graph's sheet on an answer.
Revalidates(call) == On("authorization-graph-explorer") /\ call.ok

ReceiveAnswer ==
  LET call == action["current"] IN
  /\ call.pc = "answered"
  /\ action' = [action EXCEPT !["current"] = NoCall]
  /\ fetcher' = [state |-> IF call.ok THEN "loading" ELSE "idle",
                 ok |-> call.ok, data |-> call.data,
                 pending |-> fetcher.pending \/ Revalidates(call)]
  /\ load' = Revalidated(call.ok)
  /\ saved' = IF call.ok THEN call.form ELSE saved
  /\ untold' = (untold /\ ~call.ok)
  /\ UNCHANGED <<location, loaded, selected, reader, alone>>

RunEffect == /\ fetcher.pending
             /\ fetcher' = [fetcher EXCEPT !.pending = FALSE]
             /\ load' = LoadFor(Target, TRUE)
             /\ UNCHANGED <<location, loaded, action, selected, reader, saved,
                            alone, untold>>

\* A document that was loaded anew does not know the call any more.
AnswerToLeftPage ==
  LET call == action["abandoned"] IN
  /\ call.pc = "answered"
  /\ action' = [action EXCEPT !["abandoned"] = NoCall]
  /\ load' \in {load, Revalidated(call.ok /\ Target # Blank)}
  /\ UNCHANGED <<location, loaded, fetcher, selected, reader, saved,
                 alone, untold>>

\* The request throws: the server may still handle it.
RequestFails == action["current"].pc # "none" /\ LosePage

Tab == \/ CloseSheet \/ FollowRedirect
       \/ ReceiveAnswer \/ RunEffect \/ AnswerToLeftPage

TabFails == LoaderFails \/ RequestFails
===============================================================================
