------------------------------ MODULE FindingsPage ------------------------------
(***************************************************************************)
(* The findings page, its sheet and the button that asks for a deep        *)
(* analysis; and the page of the AI checker, which shows the same requests.*)
(* Of the requests of a finding the newest counts.  The consumer of the    *)
(* checker is the module CheckRequests; here it answers some time.         *)
(***************************************************************************)
EXTENDS BrowserTab

CONSTANT Finding   \* violations the engine has found

\* No error is an error of its own.
ASSUME ErrorAssumption == None # "duplicate"

VARIABLE requests  \* status of the newest request per finding

Status == {"none", "running", "failed", "complete"}

FindingsInit == requests = [f \in Finding |-> "none"]
-------------------------------------------------------------------------------
(* Pages.                                                                  *)

FindingsLoader == LoaderAnswers("findings", requests) /\ UNCHANGED requests

AICheckerLoader == LoaderAnswers("ai-checker", requests) /\ UNCHANGED requests

OpenSheet(item) ==
  /\ selected = None
  /\ selected' = item
  /\ UNCHANGED <<shell, fetcher, action, reader, saved, alone, untold,
                 requests>>

\* The sheet follows the loader.
SelectFinding(f) == On("findings") /\ OpenSheet(f)

\* The sheet keeps the row as it was.
SelectRequest(f) == /\ On("ai-checker")
                    /\ loaded[f] # "none"
                    /\ OpenSheet(<<f, loaded[f]>>)

currentRequest == loaded[selected]

canRequestDeepAnalysis == currentRequest \in {"none", "failed"}

\* Faulty variant: the button waits for the answer only.
isRequestingUntilAnswer == fetcher.state = "submitting"

isRequestingDeepAnalysis == fetcher.state \in {"submitting", "loading"}

\* The page's fetcher, whichever finding it was about.
deepAnalysisError == IF fetcher.ok THEN None ELSE fetcher.data

RequestDeepAnalysis ==
  /\ On("findings")
  /\ selected # None
  /\ currentRequest # "complete"
  /\ ~isRequestingDeepAnalysis
  /\ canRequestDeepAnalysis
  /\ Submit("findings", selected)
  /\ UNCHANGED requests
-------------------------------------------------------------------------------
(* createAICheckerRequest.                                                 *)

\* The newest request of f is now another one than what calls have made.
Superseded(f) == [s \in Slot |-> IF action[s].form = f
                                 THEN [action[s] EXCEPT !.newest = FALSE]
                                 ELSE action[s]]

CreateRequest(s) ==
  LET f == action[s].form IN
  /\ Handling(s, "findings", "sent")
  /\ requests[f] \in {"none", "failed"}
  /\ requests' = [requests EXCEPT ![f] = "running"]
  /\ CallGoesOn([Superseded(f) EXCEPT ![s].pc = "produce", ![s].newest = TRUE])

RefuseDuplicate(s) ==
  /\ Handling(s, "findings", "sent")
  /\ requests[action[s].form] \notin {"none", "failed"}
  /\ ActionAnswers(s, FALSE, "duplicate")
  /\ UNCHANGED requests

\* The transaction fails, or commits and the answer to that is lost.
CreateFails(s) ==
  LET f == action[s].form IN
  /\ Handling(s, "findings", "sent")
  /\ \/ ActionAnswers(s, FALSE, "error") /\ UNCHANGED requests
     \/ /\ requests[f] \in {"none", "failed"}
        /\ requests' = [requests EXCEPT ![f] = "running"]
        /\ AnswersUntold(Superseded(f), s)

Produced(s) == /\ Handling(s, "findings", "produce")
               /\ ActionAnswers(s, TRUE, None)
               /\ UNCHANGED requests

\* The request that was created is marked, whatever has come of it since; or
\* the update fails too, and it stays running.
ProduceFails(s) ==
  /\ Handling(s, "findings", "produce")
  /\ \/ /\ requests' = IF action[s].newest
                       THEN [requests EXCEPT ![action[s].form] = "failed"]
                       ELSE requests
        /\ ActionAnswers(s, FALSE, "error")
     \/ AnswersUntold(action, s) /\ UNCHANGED requests

CreateAICheckerRequest(s) ==
  \/ CreateRequest(s)
  \/ RefuseDuplicate(s)
  \/ CreateFails(s)
  \/ Produced(s)
  \/ ProduceFails(s)
-------------------------------------------------------------------------------
(* Others.                                                                 *)

CheckerAnswers(f) ==
  /\ requests[f] = "running"
  /\ \E status \in {"failed", "complete"} :
       requests' = [requests EXCEPT ![f] = status]
  /\ UNCHANGED tab

OtherRequests(f) ==
  /\ requests[f] \in {"none", "failed"}
  /\ requests' = [requests EXCEPT ![f] = "running"]
  /\ action' = Superseded(f)
  /\ alone' = FALSE
  /\ UNCHANGED <<shell, fetcher, selected, reader, saved, untold>>

FindingsUser == \E f \in Finding : SelectFinding(f) \/ SelectRequest(f)

FindingsServer == \/ FindingsLoader
                  \/ AICheckerLoader
                  \/ \E s \in Slot : CreateAICheckerRequest(s)

FindingsOthers == \E f \in Finding : CheckerAnswers(f) \/ OtherRequests(f)
-------------------------------------------------------------------------------
\* The button and the transaction agree: the page is told that an analysis
\* is in progress only if another session asked for one, if a call was left
\* behind, or if a call of the page has left a running request and answered
\* with an error, after which the list is not read again.  No second click,
\* and no failure that the page and the table agree on, brings it about.
RefusedForCause ==
  On("findings") /\ deepAnalysisError = "duplicate" => ~alone \/ untold
===============================================================================
