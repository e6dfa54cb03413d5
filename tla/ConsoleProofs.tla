----------------------------- MODULE ConsoleProofs -----------------------------
(***************************************************************************)
(* Safety of the dashboard's pages in one tab, for any findings, nodes,    *)
(* logs, page sizes, forms, documents and number of clicks.                *)
(*                                                                         *)
(* What a page shows has travelled: the server read it, a load or an       *)
(* answer carried it, the page kept it.  Each part of Inv says what holds  *)
(* at every stop, and when it need not: while the server has done what the *)
(* fetcher waits for and the page has not been told.  CallsInv is about    *)
(* the fetcher itself and what the others rest on.                         *)
(***************************************************************************)
EXTENDS Console, FiniteSetTheorems, TLAPS

Current == action["current"]

\* The fetcher waits for the call of the page that is shown; there is no
\* other call unless one was left behind; only a success is followed by a
\* reload, and only the graph's sheet has an effect on it.
CallsInv ==
  /\ fetcher.state = "submitting" <=> Current.pc # "none"
  /\ Current.pc # "none" => On(Current.page)
  /\ alone => action["abandoned"].pc = "none"
  /\ fetcher.state = "loading" => fetcher.ok
  /\ fetcher.pending => On(Graph)

\* The server has done what the fetcher waits for.
Done == Current.pc = "answered" /\ Current.ok

\* What the page knows of its own calls is what they did.
Told(page) == alone /\ (On(page) => ~untold)

Open4 == {"none", "failed"}

\* The current call has made a request for f, or is about to say so.
Making(f) ==
  /\ Current.page = "findings"
  /\ Current.form = f
  /\ Current.pc = "produce" \/ Done

\* A finding the data offers for analysis can be analysed.
Offers(data, f) == data[f] \in Open4 => requests[f] \in Open4

FindingsInv ==
  Told("findings") =>
    /\ On("findings") /\ fetcher.state # "loading" =>
         \A f \in Finding : Making(f) \/ Offers(loaded, f)
    /\ load.pc = "loaded" /\ load.to.page = "findings" =>
         \A f \in Finding : Making(f) \/ Offers(load.data, f)
    /\ Current.page = "findings" =>
         /\ Current.pc = "sent" => requests[Current.form] \in Open4
         /\ Current.pc = "produce" => Current.newest
         /\ Current.pc = "answered" /\ ~Current.ok => Current.data # "duplicate"
    /\ On("findings") /\ ~fetcher.ok => fetcher.data # "duplicate"

\* The pairs are as the change has left them.
Shows(pairs, form) == (form.mapping \in pairs) = (form.intent = "add-role")

RolesInv ==
  alone /\ On(Graph) =>
    /\ Done => Shows(mappings, Current.form)
    /\ saved # None /\ ~Done /\ ~untold =>
         /\ Shows(mappings, saved)
         /\ ~load.revalidating /\ ~fetcher.pending => Shows(loaded.links, saved)
         /\ load.pc = "loaded" /\ load.to.page = Graph =>
              Shows(load.data.links, saved)

\* The logs that are newer than x: every query returns them before x.
Ahead(x) == {y \in DOMAIN logs : logs[y] > logs[x]}

\* Of the logs known then, those that were not seen have so many before them.
Covered(known, seen, places) ==
  \A x \in 1 .. known : Cardinality(Ahead(x)) < places => Tied(x) \/ x \in seen

AllSeen(known, seen) == \A x \in 1 .. known : Tied(x) \/ x \in seen

LastPage(data) == data.no = TotalPages(data.total, data.size)

WalkInv ==
  On("request-logs") /\ walk # NoWalk =>
    /\ walk.known <= Len(logs)
    /\ Covered(walk.known, walk.seen, loaded.no * loaded.size)
    /\ ~walk.torn /\ LastPage(loaded) => AllSeen(walk.known, walk.seen)

\* The same of the walk the data would make, once it is shown.
AheadInv ==
  load.pc = "loaded" /\ load.to.page = "request-logs" =>
    LET next == Walked(load.data) IN
    next # NoWalk =>
      /\ next.known <= Len(logs)
      /\ Covered(next.known, next.seen, load.data.no * load.data.size)
      /\ ~next.torn /\ LastPage(load.data) => AllSeen(next.known, next.seen)

\* The form and the table, at every stop of a save and of a load.
SettingsInv ==
  alone =>
    /\ On("settings") /\ Done => Current.data = getLearningScanSettings
    /\ On("settings") /\ ~untold /\ ~Done =>
         /\ fetcher.ok => fetcher.data = getLearningScanSettings
         /\ fetcher.state # "loading" => loaded = getLearningScanSettings
    /\ Told("settings") /\ load.pc = "loaded" /\ load.to.page = "settings" =>
         (On("settings") /\ Done) \/ load.data = getLearningScanSettings

Inv == /\ TypeOK
       /\ CallsInv
       /\ FindingsInv
       /\ RolesInv
       /\ WalkInv
       /\ AheadInv
       /\ SettingsInv
-------------------------------------------------------------------------------
(* Types.                                                                  *)

\* The data and the forms of each page.
LEMMA PageData ==
  /\ DataOf("findings") = [Finding -> Status]
  /\ DataOf("ai-checker") = [Finding -> Status]
  /\ DataOf(Graph) = [links : SUBSET (Endpoint \X Role), roles : SUBSET Role]
  /\ DataOf("request-logs") = LogsData
  /\ DataOf("settings") = [Key -> Int]
  /\ FormOf("findings") = Finding
  /\ FormOf(Graph) = [intent : {"add-role", "remove-role"},
                      mapping : Endpoint \X Role]
  /\ FormOf("settings") = Form
BY DEF DataOf, FormOf, Graph

LEMMA AnyDataHolds ==
  /\ None \in AnyData /\ Place \subseteq AnyData
  /\ \A page \in Page : DataOf(page) \subseteq AnyData
BY DEF AnyData

LEMMA AnyFormHolds ==
  None \in AnyForm /\ \A page \in Page : FormOf(page) \subseteq AnyForm
BY DEF AnyForm

\* A page is one of five, and no page is none of them.
LEMMA Pages ==
  /\ Page = {"findings", "ai-checker", Graph, "request-logs", "settings"}
  /\ "none" \notin Page
  /\ Blank.page = "none" /\ Blank \notin Place
  /\ \A url \in Place : url.page \in Page
  /\ sidebarItems \subseteq Place
  /\ \A url \in sidebarItems \cup Address : url \in Place
BY AddressAssumption DEF Page, Graph, Blank, Url, Place, sidebarItems

\* A load that starts knows where it goes, and nothing else but whether the
\* revalidator asked for one since the last page was shown.
LEMMA LoadStarts ==
  ASSUME TypeOK, NEW url \in Place, NEW b \in BOOLEAN
  PROVE  /\ LoadFor(url, b) \in Load
         /\ LoadFor(url, b).to = url
         /\ LoadFor(url, b).pc = "sent"
         /\ LoadFor(url, b).revalidating = (load.revalidating \/ b)
<1>1. MaxLogs \in Nat
  BY SizesAssumption
<1>2. load.revalidating \in BOOLEAN
  BY DEF TypeOK, PageTypeOK, Load
<1>3. PICK c \in BOOLEAN : c = (load.revalidating \/ b)
  BY <1>2
<1>4. LoadFor(url, b) = [NoLoad EXCEPT !.to = url, !.pc = "sent",
                                       !.revalidating = c]
  BY <1>3, Zenon DEF LoadFor
<1>5. LoadFor(url, b) = [to |-> url, pc |-> "sent", total |-> 0,
                         data |-> None, revalidating |-> c]
  BY <1>4 DEF NoLoad
<1>6. LoadFor(url, b) \in Load
  BY <1>1, <1>5, AnyDataHolds DEF Load
<1>7. LoadFor(url, b).revalidating = (load.revalidating \/ b)
  BY <1>3, <1>5
<1> QED
  BY <1>5, <1>6, <1>7

\* No load at all.
LEMMA NoLoadType ==
  NoLoad \in Load /\ NoLoad.pc = "none" /\ ~NoLoad.revalidating
BY SizesAssumption, AnyDataHolds DEF NoLoad, Load

\* What the tab waits for next, or shows, is a page.
LEMMA TargetType ==
  ASSUME TypeOK, Target # Blank
  PROVE  Target \in Place
BY DEF TypeOK, PageTypeOK, Target

CallOK(call) == call.pc # "none" => /\ call.page \in Page
                                    /\ call.form \in FormOf(call.page)

\* The call of a submission.
NewCall(page, form) ==
  [NoCall EXCEPT !.pc = "sent", !.page = page, !.form = form]

\* No call, and a new one.
LEMMA NoCallType == NoCall \in Call /\ CallOK(NoCall) /\ NoCall.pc = "none"
BY AnyFormHolds DEF NoCall, Call, CallOK, Answer

LEMMA NewCallType ==
  ASSUME NEW page \in Page, NEW form \in FormOf(page)
  PROVE  /\ NewCall(page, form) \in Call /\ CallOK(NewCall(page, form))
         /\ NewCall(page, form).pc = "sent"
         /\ NewCall(page, form).page = page
         /\ NewCall(page, form).form = form
         /\ ~NewCall(page, form).ok
BY AnyFormHolds DEF NewCall, NoCall, Call, CallOK, Answer

\* The call in progress is left behind, if there is one.
LEMMA LeaveCallType ==
  ASSUME TypeOK, NEW new \in Call, CallOK(new), LeaveCall(new)
  PROVE  /\ action' \in [Slot -> Call]
         /\ \A s \in Slot : CallOK(action'[s])
         /\ action'["current"] = new
         /\ action'["abandoned"] = IF Current.pc = "none" THEN action["abandoned"]
                                   ELSE Current
<1>1. action \in [Slot -> Call] /\ \A s \in Slot : CallOK(action[s])
  BY DEF TypeOK, CallsTypeOK, CallOK
<1> QED
  BY <1>1 DEF LeaveCall, Slot, Current
-------------------------------------------------------------------------------
(* The parser.                                                             *)

\* The integer part is whole, and that of a whole number is the number.
LEMMA TruncIsWhole ==
  ASSUME NEW v \in Int
  PROVE  /\ Trunc(v) \in Int /\ Trunc(v) % 2 = 0
         /\ v % 2 = 0 => Trunc(v) = v
<1>1. CASE v >= 0
  <2>1. (v - (v % 2)) % 2 = 0 /\ v - (v % 2) \in Int
    BY <1>1
  <2> QED
    BY <1>1, <2>1 DEF Trunc
<1>2. CASE ~(v >= 0)
  <2>1. (v + ((-v) % 2)) % 2 = 0 /\ v + ((-v) % 2) \in Int
    BY <1>2
  <2>2. v % 2 = 0 => (-v) % 2 = 0
    BY <1>2
  <2> QED
    BY <1>2, <2>1, <2>2 DEF Trunc
<1> QED
  BY <1>1, <1>2

\* Clamping a second time changes nothing.
LEMMA ClampOnce ==
  ASSUME NEW k \in Key, NEW v \in Int
  PROVE  /\ ClampNumber(k, v) \in Int
         /\ ClampNumber(k, ClampNumber(k, v)) = ClampNumber(k, v)
<1>1. /\ BOUNDS[k].min \in Int /\ BOUNDS[k].max \in Int
      /\ BOUNDS[k].min <= BOUNDS[k].max
      /\ k \in IntKey => BOUNDS[k].min % 2 = 0 /\ BOUNDS[k].max % 2 = 0
  <2>1. CASE k = "learning_window_days"
    BY <2>1 DEF BOUNDS
  <2>2. CASE k = "minimum_sample_size"
    BY <2>2 DEF BOUNDS
  <2>3. CASE k = "violation_threshold_percent"
    BY <2>3 DEF BOUNDS, IntKey
  <2>4. CASE k = "resource_dominance_percent"
    BY <2>4 DEF BOUNDS, IntKey
  <2> QED
    BY <2>1, <2>2, <2>3, <2>4 DEF Key, IntKey
<1>2. ASSUME NEW w \in Int
      PROVE  Clamp(k, w) \in Int /\ Clamp(k, Clamp(k, w)) = Clamp(k, w)
  BY <1>1 DEF Clamp
<1>3. CASE k \notin IntKey
  BY <1>2, <1>3 DEF ClampNumber
<1>4. CASE k \in IntKey
  <2>1. Trunc(v) \in Int /\ Trunc(v) % 2 = 0
    BY TruncIsWhole
  <2>2. Clamp(k, Trunc(v)) % 2 = 0
    BY <1>1, <1>4, <2>1 DEF Clamp
  <2>3. Trunc(Clamp(k, Trunc(v))) = Clamp(k, Trunc(v))
    BY <1>2, <2>1, <2>2, TruncIsWhole
  <2> QED
    BY <1>2, <1>4, <2>1, <2>3 DEF ClampNumber
<1> QED
  BY <1>3, <1>4

\* A document that was parsed is stored and parsed again as it is.
LEMMA Parsed ==
  ASSUME NEW doc \in Documents
  PROVE  LET parsed == parseLearningScanSettingsValue(doc) IN
         /\ parsed \in [Key -> Int]
         /\ parseLearningScanSettingsValue(parsed) = parsed
<1> DEFINE parsed == parseLearningScanSettingsValue(doc)
<1>1. \A k \in Key : numFromJson(doc, k) \in Int
  BY DEF Documents, numFromJson, DEFAULT_LEARNING_SCAN_SETTINGS, Key, IntKey
<1>2. parsed \in [Key -> Int]
  BY <1>1, ClampOnce DEF parseLearningScanSettingsValue
<1>3. \A k \in Key : numFromJson(parsed, k) = parsed[k]
  BY <1>2, NoNumberAssumption DEF numFromJson
<1>4. \A k \in Key : ClampNumber(k, parsed[k]) = parsed[k]
  BY <1>1, ClampOnce DEF parseLearningScanSettingsValue
<1>5. parseLearningScanSettingsValue(parsed)
        = [k \in Key |-> ClampNumber(k, numFromJson(parsed, k))]
  BY DEF parseLearningScanSettingsValue
<1>6. parseLearningScanSettingsValue(parsed) = [k \in Key |-> parsed[k]]
  BY <1>3, <1>4, <1>5
<1> QED
  BY <1>2, <1>6

\* The settings of the table are numbers, whatever is stored.
LEMMA StoredParsed ==
  ASSUME stored \in {None} \cup Documents
  PROVE  getLearningScanSettings \in [Key -> Int]
<1>1. DEFAULT_LEARNING_SCAN_SETTINGS \in [Key -> Int]
  BY DEF DEFAULT_LEARNING_SCAN_SETTINGS, Key, IntKey
<1> QED
  BY <1>1, Parsed DEF getLearningScanSettings
-------------------------------------------------------------------------------
(* Pages of logs.                                                          *)

\* There is a page for every log.
LEMMA PagesHold ==
  ASSUME NEW total \in Nat, NEW size \in Nat \ {0}
  PROVE  /\ TotalPages(total, size) \in Nat \ {0}
         /\ TotalPages(total, size) * size >= total
<1>1. CASE total = 0
  BY <1>1 DEF TotalPages
<1>2. CASE total # 0
  <2> DEFINE n == total + size - 1
  <2>1. n \in Nat
    BY <1>2
  <2>2. n = size * (n \div size) + (n % size) /\ n % size \in 0 .. size - 1
    BY <2>1
  <2>3. n \div size >= 1 /\ n \div size \in Nat
    BY <1>2
  <2>4. (n \div size) * size >= total
    BY <2>2, <2>3
  <2> QED
    BY <1>2, <2>3, <2>4 DEF TotalPages
<1> QED
  BY <1>1, <1>2
-------------------------------------------------------------------------------
(* The steps of the tab: its types, and CallsInv.                          *)

TabInv == PageTypeOK /\ CallsTypeOK /\ CallsInv

\* A navigation, or a reload.
LEMMA GoTab ==
  ASSUME TypeOK, CallsInv, NEW url \in Place, Go(url)
  PROVE  /\ TabInv'
         /\ load'.pc = "sent" /\ load'.to = url
         /\ load'.revalidating = load.revalidating
<1>1. load' \in Load /\ load'.pc = "sent" /\ load'.to = url
      /\ load'.revalidating = load.revalidating
  BY LoadStarts DEF Go, TypeOK, PageTypeOK, Load
<1>2. PageTypeOK'
  BY <1>1 DEF Go, TypeOK, PageTypeOK, On
<1>3. CallsTypeOK' /\ CallsInv'
  BY DEF Go, TypeOK, CallsTypeOK, CallsInv, Current, On
<1> QED
  BY <1>1, <1>2, <1>3 DEF TabInv

\* A step of the loader.
LEMMA LoaderTab ==
  ASSUME TypeOK, CallsInv, NEW next \in Load, LoadGoesOn(next),
         load.pc # "none", next.to = load.to,
         next.pc = "loaded" => next.data \in DataOf(load.to.page),
         next.pc = "redirect" => next.data \in Place
  PROVE  TabInv'
<1>1. PageTypeOK'
  BY DEF LoadGoesOn, TypeOK, PageTypeOK, On
<1>2. CallsTypeOK' /\ CallsInv'
  BY DEF LoadGoesOn, TypeOK, CallsTypeOK, CallsInv, Current, On
<1> QED
  BY <1>1, <1>2 DEF TabInv

\* A page is left: nothing of it remains but what the server still handles.
LEMMA UnmountCalls ==
  ASSUME TypeOK, CallsInv, Unmount
  PROVE  /\ CallsTypeOK' /\ CallsInv'
         /\ Current' = NoCall
         /\ selected' = None /\ reader' = NoReader
<1>1. /\ action' \in [Slot -> Call]
      /\ \A s \in Slot : CallOK(action'[s])
      /\ Current' = NoCall
      /\ action'["abandoned"] = IF Current.pc = "none" THEN action["abandoned"]
                                ELSE Current
  BY NoCallType, LeaveCallType DEF Unmount, Current
<1>2. fetcher' = IdleFetcher /\ saved' = None /\ untold' = FALSE
      /\ alone' = (alone /\ Current.pc = "none")
  BY DEF Unmount, Current
<1>3. alone \in BOOLEAN
  BY DEF TypeOK, CallsTypeOK
<1>4. CallsTypeOK'
  BY <1>1, <1>2, <1>3 DEF CallsTypeOK, CallOK, IdleFetcher, Answer
<1>5. CallsInv'
  BY <1>1, <1>2, <1>3, NoCallType DEF CallsInv, IdleFetcher
<1> QED
  BY <1>1, <1>4, <1>5 DEF Unmount

\* The page is lost.
LEMMA LosePageTab ==
  ASSUME TypeOK, CallsInv, LosePage
  PROVE  /\ TabInv'
         /\ location' = Blank /\ load' = NoLoad /\ Current' = NoCall
<1>1. CallsTypeOK' /\ CallsInv' /\ Current' = NoCall
      /\ selected' = None /\ reader' = NoReader
  BY UnmountCalls DEF LosePage
<1>2. location' = Blank /\ load' = NoLoad
  BY DEF LosePage
<1>3. PageTypeOK'
  BY <1>1, <1>2, NoLoadType, Pages DEF PageTypeOK, On, NoReader, Node
<1> QED
  BY <1>1, <1>2, <1>3 DEF TabInv

\* A page is shown, the one that was there or another.
LEMMA ShowPageTab ==
  ASSUME TypeOK, CallsInv, ShowPage
  PROVE  /\ TabInv'
         /\ location' = load.to /\ loaded' = load.data /\ load' = NoLoad
         /\ \/ /\ On(load.to.page)
               /\ fetcher' = [fetcher EXCEPT
                    !.state = IF @ = "loading" THEN "idle" ELSE @]
               /\ UNCHANGED <<action, selected, reader, saved, alone, untold>>
            \/ /\ ~On(load.to.page)
               /\ Current' = NoCall
               /\ fetcher' = IdleFetcher
               /\ saved' = None /\ untold' = FALSE
               /\ alone' = (alone /\ Current.pc = "none")
<1>1. location' = load.to /\ loaded' = load.data /\ load' = NoLoad
      /\ load.pc = "loaded"
  BY DEF ShowPage
<1>2. load.to \in Place /\ load.data \in DataOf(load.to.page)
  BY <1>1 DEF TypeOK, PageTypeOK
<1>3. CASE On(load.to.page)
  <2>1. /\ fetcher' = [fetcher EXCEPT
             !.state = IF @ = "loading" THEN "idle" ELSE @]
        /\ UNCHANGED <<action, selected, reader, saved, alone, untold>>
    BY <1>3 DEF ShowPage
  <2>2. location'.page = location.page
    BY <1>1, <1>3 DEF On
  <2>3. PageTypeOK'
    BY <1>1, <1>2, <2>1, <2>2, NoLoadType DEF TypeOK, PageTypeOK, On
  <2>4. CallsTypeOK'
    BY <2>1, <2>2 DEF TypeOK, CallsTypeOK
  <2>5. CallsInv'
    BY <2>1, <2>2 DEF TypeOK, CallsTypeOK, CallsInv, Current, On
  <2> QED
    BY <1>1, <1>3, <2>1, <2>3, <2>4, <2>5 DEF TabInv
<1>4. CASE ~On(load.to.page)
  <2>1. Unmount
    BY <1>4 DEF ShowPage
  <2>2. CallsTypeOK' /\ CallsInv' /\ Current' = NoCall
        /\ selected' = None /\ reader' = NoReader
    BY <2>1, UnmountCalls
  <2>3. PageTypeOK'
    BY <1>1, <1>2, <2>2, NoLoadType DEF PageTypeOK, On, NoReader, Node
  <2> QED
    BY <1>1, <1>4, <2>1, <2>2, <2>3 DEF TabInv, Unmount, Current
<1> QED
  BY <1>3, <1>4

\* A sheet opens, closes or is filled.
LEMMA SheetTab ==
  ASSUME TypeOK, CallsInv,
         UNCHANGED <<shell, fetcher, action, saved, alone, untold>>,
         On("findings") => selected' \in Finding \cup {None},
         On(Graph) => selected' \in Node,
         reader' \in [state : {"idle", "loading"}, opened : BOOLEAN]
  PROVE  TabInv'
<1>1. PageTypeOK'
  BY DEF TypeOK, PageTypeOK, On, shell
<1>2. CallsTypeOK' /\ CallsInv'
  BY DEF TypeOK, CallsTypeOK, CallsInv, Current, On, shell
<1> QED
  BY <1>1, <1>2 DEF TabInv

\* A submission: the fetcher was free, and nothing is left behind.
LEMMA SubmitTab ==
  ASSUME TypeOK, CallsInv, NEW page \in Page, NEW form \in FormOf(page),
         fetcher.state # "submitting", Submit(page, form)
  PROVE  /\ TabInv'
         /\ Current.pc = "none"
         /\ Current' = NewCall(page, form)
         /\ fetcher' = [fetcher EXCEPT !.state = "submitting"]
<1> DEFINE call == NewCall(page, form)
<1>1. /\ call \in Call /\ CallOK(call)
      /\ call.pc = "sent" /\ call.page = page
  BY NewCallType
<1>2. Current.pc = "none"
  BY DEF CallsInv
<1>3. LeaveCall(call) /\ On(page)
      /\ fetcher' = [fetcher EXCEPT !.state = "submitting"]
      /\ UNCHANGED <<shell, selected, reader, saved, alone, untold>>
  BY DEF Submit, NewCall
<1> HIDE DEF call
<1>4. /\ action' \in [Slot -> Call]
      /\ \A s \in Slot : CallOK(action'[s])
      /\ Current' = call
      /\ action'["abandoned"] = action["abandoned"]
  BY <1>1, <1>2, <1>3, LeaveCallType DEF Current
<1>5. PageTypeOK'
  BY <1>3 DEF TypeOK, PageTypeOK, On, shell
<1>6. CallsTypeOK'
  BY <1>3, <1>4 DEF TypeOK, CallsTypeOK, CallOK, shell
<1>7. CallsInv'
  BY <1>1, <1>3, <1>4 DEF TypeOK, CallsTypeOK, CallsInv, On, shell
<1> QED
  BY <1>2, <1>3, <1>4, <1>5, <1>6, <1>7 DEF TabInv, call

\* A step of the server: no call comes or goes.
LEMMA ServerTab ==
  ASSUME TypeOK, CallsInv,
         UNCHANGED <<shell, fetcher, selected, reader, saved>>,
         alone' \in BOOLEAN, alone' => alone, untold' \in BOOLEAN,
         action' \in [Slot -> Call],
         \A s \in Slot : /\ (action'[s].pc = "none") = (action[s].pc = "none")
                         /\ action'[s].page = action[s].page
                         /\ action'[s].form = action[s].form
  PROVE  TabInv'
<1>1. PageTypeOK'
  BY DEF TypeOK, PageTypeOK, On, shell
<1>2. CallsTypeOK'
  BY DEF TypeOK, CallsTypeOK, shell
<1>3. CallsInv'
  BY DEF TypeOK, CallsInv, Current, On, Slot, shell
<1> QED
  BY <1>1, <1>2, <1>3 DEF TabInv

\* An answer reaches the page.
LEMMA ReceiveTab ==
  ASSUME TypeOK, CallsInv, ReceiveAnswer
  PROVE  /\ TabInv'
         /\ Current.pc = "answered" /\ On(Current.page) /\ Current' = NoCall
         /\ Current.form \in FormOf(Current.page)
         /\ fetcher'.state = IF Current.ok THEN "loading" ELSE "idle"
         /\ fetcher'.ok = Current.ok /\ fetcher'.data = Current.data
         /\ fetcher'.pending = (fetcher.pending \/ (On(Graph) /\ Current.ok))
         /\ saved' = IF Current.ok THEN Current.form ELSE saved
         /\ Current.ok => load'.pc = "sent" /\ ~untold'
         /\ ~Current.ok => load' = load /\ untold' = untold
         /\ load'.revalidating = load.revalidating
<1>0. fetcher.pending \in BOOLEAN /\ untold \in BOOLEAN /\ Current \in Call
  BY DEF TypeOK, CallsTypeOK, Current, Slot
<1> DEFINE pend == fetcher.pending \/ (On(Graph) /\ Current.ok)
<1>1. /\ Current.pc = "answered" /\ Current' = NoCall
      /\ fetcher' = [state |-> IF Current.ok THEN "loading" ELSE "idle",
                     ok |-> Current.ok, data |-> Current.data,
                     pending |-> pend]
      /\ saved' = IF Current.ok THEN Current.form ELSE saved
      /\ load' = Revalidated(Current.ok)
      /\ action' = [action EXCEPT !["current"] = NoCall]
      /\ UNCHANGED <<location, loaded, selected, reader, alone>>
  BY Zenon DEF ReceiveAnswer, Revalidates, Graph, Current, TypeOK, CallsTypeOK, Slot
<1>2. On(Current.page) /\ Current.form \in FormOf(Current.page)
      /\ Current.page \in Page
  BY <1>1 DEF CallsInv, TypeOK, CallsTypeOK, Current, Slot
<1>3. location.page # "none"
  BY <1>2, Pages DEF On
<1>4. PICK pending \in BOOLEAN : pending = pend
  BY <1>0
<1> HIDE DEF pend
<1>5. fetcher' = [state |-> IF Current.ok THEN "loading" ELSE "idle",
                  ok |-> Current.ok, data |-> Current.data, pending |-> pending]
  BY <1>1, <1>4
<1>6. ASSUME Current.ok
      PROVE  /\ load' \in Load /\ load'.pc = "sent" /\ load'.to \in Place
             /\ load'.revalidating = load.revalidating
             /\ ~untold'
  <2>1. Target # Blank
    BY <1>3, Pages DEF TypeOK, PageTypeOK, Target
  <2>2. load' = LoadFor(Target, FALSE)
    BY <1>1, <1>6 DEF Revalidated
  <2>3. load.revalidating \in BOOLEAN
    BY DEF TypeOK, PageTypeOK, Load
  <2>4. ~untold'
    BY <1>6 DEF ReceiveAnswer, Current
  <2> QED
    BY <2>1, <2>2, <2>3, <2>4, TargetType, LoadStarts
<1>7. ASSUME ~Current.ok
      PROVE  load' = load /\ untold' = untold
  BY <1>0, <1>1, <1>7 DEF Revalidated, ReceiveAnswer, Current
<1>8. PageTypeOK'
  BY <1>1, <1>6, <1>7 DEF TypeOK, PageTypeOK, On
<1>9. CallsTypeOK'
  <2>1. action' \in [Slot -> Call] /\ \A s \in Slot : CallOK(action'[s])
    BY <1>1, NoCallType DEF TypeOK, CallsTypeOK, CallOK
  <2>2. fetcher' \in [state : {"idle", "submitting", "loading"}, ok : BOOLEAN,
                      data : Answer, pending : BOOLEAN]
    BY <1>0, <1>5 DEF Call
  <2>3. saved' # None => saved' \in FormOf(location.page)
    BY <1>1, <1>2 DEF TypeOK, CallsTypeOK, On
  <2>4. PICK still \in BOOLEAN : still = (untold /\ ~Current.ok)
    BY <1>0
  <2>5. untold' = still
    BY <2>4, Zenon DEF ReceiveAnswer, Current
  <2> QED
    BY <1>1, <2>1, <2>2, <2>3, <2>5 DEF TypeOK, CallsTypeOK, CallOK
<1>10. CallsInv'
  <2>1. pending => On(Graph)
    BY <1>4 DEF pend, CallsInv
  <2> QED
    BY <1>1, <1>5, <2>1, NoCallType
    DEF TypeOK, CallsTypeOK, CallsInv, Current, Slot, On
<1>11. /\ fetcher'.state = IF Current.ok THEN "loading" ELSE "idle"
       /\ fetcher'.ok = Current.ok /\ fetcher'.data = Current.data
       /\ fetcher'.pending = pending
  BY <1>5
<1> QED
  BY <1>1, <1>2, <1>4, <1>6, <1>7, <1>8, <1>9, <1>10, <1>11 DEF TabInv, pend

\* The effect on an answer runs.
LEMMA EffectTab ==
  ASSUME TypeOK, CallsInv, RunEffect
  PROVE  /\ TabInv'
         /\ On(Graph)
         /\ load'.pc = "sent" /\ load'.revalidating
         /\ fetcher'.state = fetcher.state
         /\ fetcher'.ok = fetcher.ok /\ fetcher'.data = fetcher.data
<1>1. /\ fetcher' = [fetcher EXCEPT !.pending = FALSE]
      /\ load' = LoadFor(Target, TRUE)
      /\ UNCHANGED <<location, loaded, action, selected, reader, saved, alone,
                     untold>>
  BY DEF RunEffect
<1>2. On(Graph)
  BY DEF RunEffect, CallsInv
<1>3. Target # Blank
  BY <1>2, Pages DEF TypeOK, PageTypeOK, Target, On
<1>4. /\ load' \in Load /\ load'.pc = "sent" /\ load'.to \in Place
      /\ load'.revalidating
  BY <1>1, <1>3, TargetType, LoadStarts
<1>5. PageTypeOK'
  BY <1>1, <1>4 DEF TypeOK, PageTypeOK, On
<1>6. CallsTypeOK' /\ CallsInv'
  BY <1>1 DEF TypeOK, CallsTypeOK, CallsInv, Current, On
<1>7. /\ fetcher'.state = fetcher.state
      /\ fetcher'.ok = fetcher.ok /\ fetcher'.data = fetcher.data
  BY <1>1 DEF TypeOK, CallsTypeOK
<1> QED
  BY <1>2, <1>4, <1>5, <1>6, <1>7 DEF TabInv

\* The answer to a call that was left behind reloads the page, or nothing.
LEMMA LeftTab ==
  ASSUME TypeOK, CallsInv, AnswerToLeftPage
  PROVE  /\ TabInv'
         /\ ~alone /\ ~alone'
<1>1. /\ action["abandoned"].pc = "answered"
      /\ action' = [action EXCEPT !["abandoned"] = NoCall]
      /\ UNCHANGED <<location, loaded, fetcher, selected, reader, saved, alone,
                     untold>>
  BY DEF AnswerToLeftPage
<1>2. \/ load' = load
      \/ Target # Blank /\ load' = LoadFor(Target, FALSE)
  BY DEF AnswerToLeftPage, Revalidated
<1>3. load' = load \/ (/\ load' \in Load /\ load'.pc = "sent"
                       /\ load'.to \in Place)
  BY <1>2, TargetType, LoadStarts
<1>4. PageTypeOK'
  BY <1>1, <1>3 DEF TypeOK, PageTypeOK, On
<1>5. CallsTypeOK'
  <2>1. action' \in [Slot -> Call] /\ \A s \in Slot : CallOK(action'[s])
    BY <1>1, NoCallType DEF TypeOK, CallsTypeOK, CallOK
  <2> QED
    BY <1>1, <2>1 DEF TypeOK, CallsTypeOK, CallOK
<1>6. ~alone
  BY <1>1 DEF CallsInv
<1>7. CallsInv'
  BY <1>1, <1>6 DEF TypeOK, CallsTypeOK, CallsInv, Current, Slot, On
<1> QED
  BY <1>1, <1>4, <1>5, <1>6, <1>7 DEF TabInv
-------------------------------------------------------------------------------
(* What a step of one page leaves to the others.                           *)

SameCall == /\ Current'.pc = Current.pc
            /\ Current'.page = Current.page
            /\ Current'.form = Current.form
            /\ Current'.ok = Current.ok
            /\ Current'.data = Current.data

\* Only the page itself, when it is shown, and its loads; any load may start.
Elsewhere(pages) ==
  /\ UNCHANGED <<location, loaded, saved>>
  /\ (alone' => alone) /\ (untold => untold')
  /\ \/ load' = load
     \/ load.to.page \in pages /\ load'.to = load.to
     \/ load'.pc = "sent"
  /\ load'.revalidating = load.revalidating
  /\ location.page \notin pages =>
       /\ SameCall
       /\ "findings" \notin pages => Current' = Current
       /\ fetcher' = fetcher

\* The loader of a page answers.
LEMMA AnswersElsewhere ==
  ASSUME TypeOK, CallsInv, NEW pages, NEW page \in Page \cap pages,
         NEW data \in DataOf(page), LoaderAnswers(page, data)
  PROVE  /\ TabInv' /\ Elsewhere(pages)
         /\ load'.pc = "loaded" /\ load'.to = load.to /\ load'.data = data
         /\ load.to.page = page
<1> DEFINE next == [load EXCEPT !.pc = "loaded", !.data = data]
<1>1. load.to.page = page /\ load.pc = "sent" /\ LoadGoesOn(next)
  BY DEF LoaderAnswers, LoaderStep
<1>2. load \in Load /\ data \in AnyData
  BY AnyDataHolds DEF TypeOK, PageTypeOK
<1>3. /\ next \in Load /\ next.to = load.to /\ next.pc = "loaded"
      /\ next.data = data /\ next.revalidating = load.revalidating
  BY <1>2 DEF Load
<1> HIDE DEF next
<1>4. TabInv'
  BY <1>1, <1>3, LoaderTab
<1>5. load' = next
      /\ UNCHANGED <<location, loaded, fetcher, action, selected, reader, saved,
                     alone, untold>>
  BY <1>1 DEF LoadGoesOn
<1>6. Elsewhere(pages)
  BY <1>1, <1>3, <1>5 DEF Elsewhere, SameCall, Current
<1> QED
  BY <1>1, <1>3, <1>4, <1>5, <1>6

\* A page submits its form.
LEMMA SubmitElsewhere ==
  ASSUME TypeOK, CallsInv, NEW pages, NEW page \in Page \cap pages,
         NEW form \in FormOf(page), fetcher.state # "submitting",
         Submit(page, form)
  PROVE  TabInv' /\ Elsewhere(pages)
<1>1. TabInv'
  BY SubmitTab
<1>2. /\ On(page) /\ UNCHANGED <<shell, selected, reader, saved, alone, untold>>
  BY DEF Submit
<1>3. Elsewhere(pages)
  BY <1>2 DEF Elsewhere, On, shell
<1> QED
  BY <1>1, <1>3

\* The server goes on with a call of the page, or answers it.
LEMMA CallElsewhere ==
  ASSUME TypeOK, CallsInv, NEW pages, NEW calls \in [Slot -> Call],
         action' = calls, untold' \in {untold, TRUE},
         UNCHANGED <<shell, fetcher, selected, reader, saved, alone>>,
         \A s \in Slot : /\ (calls[s].pc = "none") = (action[s].pc = "none")
                         /\ calls[s].page = action[s].page
                         /\ calls[s].form = action[s].form,
         location.page \notin pages =>
           /\ calls["current"].pc = Current.pc
           /\ calls["current"].ok = Current.ok
           /\ calls["current"].data = Current.data
           /\ "findings" \notin pages => calls["current"] = Current
  PROVE  TabInv' /\ Elsewhere(pages)
<1>1. /\ alone' \in BOOLEAN /\ (alone' => alone)
      /\ untold' \in BOOLEAN /\ (untold => untold')
  BY DEF TypeOK, CallsTypeOK
<1>2. TabInv'
  BY <1>1, ServerTab
<1>3. Elsewhere(pages)
  BY <1>1 DEF Elsewhere, SameCall, Current, Slot, shell
<1> QED
  BY <1>2, <1>3

\* The call is answered, after another step of the calls or none.
LEMMA AnsweredElsewhere ==
  ASSUME TypeOK, CallsInv, NEW pages, NEW page \in Page \cap pages,
         NEW s \in Slot, NEW pc \in {"sent", "produce"}, Handling(s, page, pc),
         NEW ok \in BOOLEAN, NEW data \in Answer, NEW calls \in [Slot -> Call],
         \A t \in Slot : /\ calls[t].pc = action[t].pc
                         /\ calls[t].page = action[t].page
                         /\ calls[t].form = action[t].form
                         /\ calls[t].ok = action[t].ok
                         /\ calls[t].data = action[t].data,
         calls = action \/ "findings" \in pages,
         action' = Answered(calls, s, ok, data), untold' \in {untold, TRUE},
         UNCHANGED <<shell, fetcher, selected, reader, saved, alone>>
  PROVE  TabInv' /\ Elsewhere(pages)
<1> DEFINE call == [calls[s] EXCEPT !.pc = "answered", !.ok = ok, !.data = data]
           next == [calls EXCEPT ![s] = call]
<1>1. action[s].page = page /\ action[s].pc = pc
  BY DEF Handling
<1>2. /\ call \in Call /\ call.pc = "answered"
      /\ call.page = action[s].page /\ call.form = action[s].form
  BY DEF Call
<1>3. action' = next
  BY DEF Answered, Call
<1> HIDE DEF call
<1>4. /\ next \in [Slot -> Call] /\ next[s] = call
      /\ \A t \in Slot \ {s} : next[t] = calls[t]
  BY <1>2
<1> HIDE DEF next
<1>5. \A t \in Slot : /\ (next[t].pc = "none") = (action[t].pc = "none")
                      /\ next[t].page = action[t].page
                      /\ next[t].form = action[t].form
  BY <1>1, <1>2, <1>4
<1>6. ASSUME location.page \notin pages
      PROVE  /\ next["current"] = calls["current"]
             /\ "findings" \notin pages => next["current"] = Current
  <2>1. s # "current"
    BY <1>1, <1>6 DEF CallsInv, Current, On
  <2> QED
    BY <1>4, <2>1 DEF Current, Slot
<1>7. location.page \notin pages =>
        /\ next["current"].pc = Current.pc
        /\ next["current"].ok = Current.ok
        /\ next["current"].data = Current.data
        /\ "findings" \notin pages => next["current"] = Current
  BY <1>6 DEF Current, Slot
<1> QED
  BY <1>3, <1>4, <1>5, <1>7, CallElsewhere

LEMMA AnswerElsewhere ==
  ASSUME TypeOK, CallsInv, NEW pages, NEW page \in Page \cap pages,
         NEW s \in Slot, NEW pc \in {"sent", "produce"}, Handling(s, page, pc),
         \/ \E ok \in BOOLEAN, data \in Answer : ActionAnswers(s, ok, data)
         \/ AnswersUntold(action, s)
  PROVE  TabInv' /\ Elsewhere(pages)
<1>1. PICK ok \in BOOLEAN, data \in Answer :
        /\ action' = Answered(action, s, ok, data) /\ untold' \in {untold, TRUE}
        /\ UNCHANGED <<shell, fetcher, selected, reader, saved, alone>>
  BY DEF ActionAnswers, CallGoesOn, AnswersUntold, Answer
<1>2. action \in [Slot -> Call]
  BY DEF TypeOK, CallsTypeOK
<1> QED
  BY <1>1, <1>2, AnsweredElsewhere
-------------------------------------------------------------------------------
(* The steps of each page, and of the others who write its table.          *)

FindingsPages == {"findings", "ai-checker"}

FindingsStep == FindingsUser \/ RequestDeepAnalysis \/ FindingsServer
                \/ FindingsOthers

GraphStep == \/ \E role \in Role : AddRole(role) \/ RemoveRole(role)
             \/ GraphUser \/ GraphServer \/ OtherChangesRoles

LogsStep == CountLogs \/ FindLogs \/ NewLog

SettingsStep == \/ \E form \in Form : SaveSettings(form)
                \/ SettingsServer \/ OtherSaves

\* Another request of the finding changes nothing else of the calls.
LEMMA SupersededCalls ==
  ASSUME TypeOK, NEW f
  PROVE  /\ Superseded(f) \in [Slot -> Call]
         /\ \A s \in Slot :
              /\ Superseded(f)[s].pc = action[s].pc
              /\ Superseded(f)[s].page = action[s].page
              /\ Superseded(f)[s].form = action[s].form
              /\ Superseded(f)[s].ok = action[s].ok
              /\ Superseded(f)[s].data = action[s].data
<1>1. action \in [Slot -> Call]
  BY DEF TypeOK, CallsTypeOK
<1>2. \A s \in Slot : [action[s] EXCEPT !.newest = FALSE] \in Call
  BY <1>1 DEF Call
<1> QED
  BY <1>1, <1>2 DEF Superseded, Call

\* A request is made for a call of the findings.
LEMMA CreateElsewhere ==
  ASSUME TypeOK, CallsInv, NEW s \in Slot, CreateRequest(s)
  PROVE  TabInv' /\ Elsewhere(FindingsPages)
<1> DEFINE f == action[s].form
           next == [Superseded(f)[s] EXCEPT !.pc = "produce", !.newest = TRUE]
           calls == [Superseded(f) EXCEPT ![s] = next]
<1>1. action[s].page = "findings" /\ action[s].pc = "sent"
      /\ CallGoesOn([Superseded(f) EXCEPT ![s].pc = "produce",
                                          ![s].newest = TRUE])
  BY DEF CreateRequest, Handling
<1>2. /\ Superseded(f) \in [Slot -> Call]
      /\ \A t \in Slot :
           /\ Superseded(f)[t].pc = action[t].pc
           /\ Superseded(f)[t].page = action[t].page
           /\ Superseded(f)[t].form = action[t].form
           /\ Superseded(f)[t].ok = action[t].ok
           /\ Superseded(f)[t].data = action[t].data
  BY SupersededCalls
<1> HIDE DEF f
<1>3. CallGoesOn(calls)
  BY <1>1, <1>2 DEF Call
<1>4. /\ next \in Call /\ next.pc = "produce"
      /\ next.page = action[s].page /\ next.form = action[s].form
  BY <1>2 DEF Call
<1> HIDE DEF next
<1>5. /\ calls \in [Slot -> Call]
      /\ calls[s] = next
      /\ \A t \in Slot \ {s} : calls[t] = Superseded(f)[t]
  BY <1>2, <1>4
<1> HIDE DEF calls
<1>6. ASSUME location.page \notin FindingsPages
      PROVE  s # "current"
  BY <1>1, <1>6 DEF CallsInv, Current, On, FindingsPages
<1>7. \A t \in Slot : /\ (calls[t].pc = "none") = (action[t].pc = "none")
                      /\ calls[t].page = action[t].page
                      /\ calls[t].form = action[t].form
  BY <1>1, <1>2, <1>4, <1>5
<1>8. location.page \notin FindingsPages =>
        /\ calls["current"].pc = Current.pc
        /\ calls["current"].ok = Current.ok
        /\ calls["current"].data = Current.data
  BY <1>2, <1>5, <1>6 DEF Current, Slot
<1>9. "findings" \in FindingsPages
  BY DEF FindingsPages
<1> QED
  BY <1>3, <1>5, <1>7, <1>8, <1>9, CallElsewhere DEF CallGoesOn

\* Types, CallsInv and the other pages after a step of the findings.
LEMMA FindingsTab ==
  ASSUME TypeOK, CallsInv, FindingsStep
  PROVE  TabInv' /\ Elsewhere(FindingsPages)
<1> USE DEF FindingsPages
<1>0. requests \in DataOf("findings") /\ requests \in DataOf("ai-checker")
  BY PageData DEF TypeOK, ServerTypeOK
<1>1. CASE FindingsUser
  <2>1. PICK f \in Finding : SelectFinding(f) \/ SelectRequest(f)
    BY <1>1 DEF FindingsUser
  <2>2. /\ UNCHANGED <<shell, fetcher, action, reader, saved, alone, untold>>
        /\ \/ On("findings") /\ selected' = f
           \/ On("ai-checker")
    BY <2>1 DEF SelectFinding, SelectRequest, OpenSheet
  <2>3. TabInv'
    BY <2>2, SheetTab DEF TypeOK, PageTypeOK, On, Graph
  <2> QED
    BY <2>2, <2>3 DEF Elsewhere, On, Graph, shell
<1>2. CASE RequestDeepAnalysis
  <2>1. /\ Submit("findings", selected) /\ On("findings")
        /\ selected # None /\ fetcher.state # "submitting"
    BY <1>2 DEF RequestDeepAnalysis, isRequestingDeepAnalysis
  <2>2. selected \in FormOf("findings")
    BY <2>1, PageData DEF TypeOK, PageTypeOK
  <2> QED
    BY <2>1, <2>2, SubmitElsewhere DEF Page
<1>3. CASE FindingsLoader
  BY <1>0, <1>3, AnswersElsewhere DEF FindingsLoader, Page
<1>4. CASE AICheckerLoader
  BY <1>0, <1>4, AnswersElsewhere DEF AICheckerLoader, Page
<1>5. CASE \E s \in Slot : CreateAICheckerRequest(s)
  <2>1. PICK s \in Slot : CreateAICheckerRequest(s)
    BY <1>5
  <2>2. CASE CreateRequest(s)
    BY <2>2, CreateElsewhere
  <2>3. CASE RefuseDuplicate(s)
    BY <2>3, AnswerElsewhere DEF RefuseDuplicate, Answer, Page
  <2>4. CASE CreateFails(s)
    <3>1. CASE ActionAnswers(s, FALSE, "error")
      BY <2>4, <3>1, AnswerElsewhere DEF CreateFails, Answer, Page
    <3>2. CASE AnswersUntold(Superseded(action[s].form), s)
      <4> DEFINE calls == Superseded(action[s].form)
      <4>1. /\ calls \in [Slot -> Call]
            /\ \A t \in Slot : /\ calls[t].pc = action[t].pc
                               /\ calls[t].page = action[t].page
                               /\ calls[t].form = action[t].form
                               /\ calls[t].ok = action[t].ok
                               /\ calls[t].data = action[t].data
        BY SupersededCalls
      <4>2. /\ action' = Answered(calls, s, FALSE, "error") /\ untold' = TRUE
            /\ UNCHANGED <<shell, fetcher, selected, reader, saved, alone>>
        BY <3>2 DEF AnswersUntold
      <4>3. Handling(s, "findings", "sent")
        BY <2>4 DEF CreateFails
      <4>4. "findings" \in Page \cap FindingsPages /\ "error" \in Answer
        BY DEF Page, Answer
      <4> HIDE DEF calls, FindingsPages
      <4>5. "findings" \in FindingsPages
        BY <4>4
      <4> QED
        BY <4>1, <4>2, <4>3, <4>4, <4>5, AnsweredElsewhere
    <3> QED
      BY <2>4, <3>1, <3>2 DEF CreateFails
  <2>5. CASE Produced(s)
    BY <2>5, AnswerElsewhere DEF Produced, Answer, Page
  <2>6. CASE ProduceFails(s)
    BY <2>6, AnswerElsewhere DEF ProduceFails, Answer, Page
  <2> QED
    BY <2>1, <2>2, <2>3, <2>4, <2>5, <2>6 DEF CreateAICheckerRequest
<1>6. CASE \E f \in Finding : CheckerAnswers(f)
  <2>1. UNCHANGED tab
    BY <1>6 DEF CheckerAnswers
  <2> QED
    BY <2>1 DEF TypeOK, TabInv, PageTypeOK, CallsTypeOK, CallsInv, Current, On,
                Elsewhere, SameCall, tab, shell
<1>7. CASE \E f \in Finding : OtherRequests(f)
  <2>1. PICK f \in Finding : OtherRequests(f)
    BY <1>7
  <2>2. /\ action' = Superseded(f) /\ alone' = FALSE
        /\ UNCHANGED <<shell, fetcher, selected, reader, saved, untold>>
    BY <2>1 DEF OtherRequests
  <2>3. TabInv'
    <3>1. untold' \in BOOLEAN /\ alone' \in BOOLEAN /\ ~alone'
      BY <2>2 DEF TypeOK, CallsTypeOK
    <3>2. /\ action' \in [Slot -> Call]
          /\ \A s \in Slot :
               /\ (action'[s].pc = "none") = (action[s].pc = "none")
               /\ action'[s].page = action[s].page
               /\ action'[s].form = action[s].form
      BY <2>2, SupersededCalls
    <3> QED
      BY <2>2, <3>1, <3>2, ServerTab
  <2> QED
    BY <2>2, <2>3, SupersededCalls DEF Elsewhere, SameCall, Current, Slot, shell
<1> QED
  BY <1>1, <1>2, <1>3, <1>4, <1>5, <1>6, <1>7
  DEF FindingsStep, FindingsServer, FindingsOthers

LEMMA FindingsTable ==
  ASSUME TypeOK, FindingsStep
  PROVE  requests' \in [Finding -> Status]
<1>1. requests \in [Finding -> Status]
  BY DEF TypeOK, ServerTypeOK
<1>2. \A s \in Slot : action[s].pc # "none" /\ action[s].page = "findings"
        => action[s].form \in Finding
  BY PageData DEF TypeOK, CallsTypeOK
<1> QED
  BY <1>1, <1>2
  DEF FindingsStep, FindingsUser, SelectFinding, SelectRequest, OpenSheet,
      RequestDeepAnalysis, FindingsServer, FindingsLoader, AICheckerLoader,
      CreateAICheckerRequest, CreateRequest, RefuseDuplicate, CreateFails,
      Produced, ProduceFails, FindingsOthers, CheckerAnswers, OtherRequests,
      Handling, Status

\* The same of the graph, its sheet, and the action of its route.
LEMMA GraphTab ==
  ASSUME TypeOK, CallsInv, GraphStep
  PROVE  TabInv' /\ Elsewhere({Graph})
<1>1. CASE \E role \in Role : AddRole(role) \/ RemoveRole(role)
  <2>1. PICK role \in Role, intent \in {"add-role", "remove-role"} :
          /\ selected \in Endpoint
          /\ fetcher.state # "submitting"
          /\ Submit(Graph, [intent |-> intent, mapping |-> <<selected, role>>])
    BY <1>1 DEF AddRole, RemoveRole, Change, isSavingRoles
  <2>2. [intent |-> intent, mapping |-> <<selected, role>>] \in FormOf(Graph)
    BY <2>1, PageData
  <2> QED
    BY <2>1, <2>2, SubmitElsewhere, Pages
<1>2. CASE GraphUser
  <2>1. PICK node \in Endpoint \cup Role : SelectNode(node)
    BY <1>2 DEF GraphUser
  <2>2. /\ UNCHANGED <<shell, fetcher, action, saved, alone, untold>>
        /\ On(Graph) /\ selected' = node
        /\ reader' = [reader EXCEPT !.opened = TRUE]
    BY <2>1 DEF SelectNode
  <2>3. /\ reader' \in [state : {"idle", "loading"}, opened : BOOLEAN]
        /\ selected' \in Node
    BY <2>2 DEF TypeOK, PageTypeOK, Node
  <2>4. TabInv'
    BY <2>2, <2>3, SheetTab DEF On, Graph
  <2> QED
    BY <2>2, <2>4 DEF Elsewhere, On, shell
<1>3. CASE GraphLoader
  <2>1. [links |-> mappings, roles |-> getDistinctRoles] \in DataOf(Graph)
    BY PageData, NodesAssumption DEF TypeOK, ServerTypeOK, getDistinctRoles
  <2> QED
    BY <1>3, <2>1, AnswersElsewhere, Pages DEF GraphLoader
<1>4. CASE AskForLogs \/ LogsArrive
  <2>1. /\ UNCHANGED <<shell, fetcher, action, selected, saved, alone, untold>>
        /\ reader' \in {[state |-> "loading", opened |-> FALSE],
                        [reader EXCEPT !.state = "idle"]}
    BY <1>4 DEF AskForLogs, LogsArrive, ReaderGoesOn
  <2>2. reader' \in [state : {"idle", "loading"}, opened : BOOLEAN]
    <3>1. reader \in [state : {"idle", "loading"}, opened : BOOLEAN]
      BY DEF TypeOK, PageTypeOK
    <3>2. [state |-> "loading", opened |-> FALSE]
            \in [state : {"idle", "loading"}, opened : BOOLEAN]
      OBVIOUS
    <3> QED
      BY <2>1, <3>1, <3>2
  <2>3. TabInv'
    BY <2>1, <2>2, SheetTab DEF TypeOK, PageTypeOK
  <2> QED
    BY <2>1, <2>3 DEF Elsewhere, SameCall, Current, shell
<1>5. CASE \E s \in Slot : ChangeRoles(s) \/ ChangeFails(s)
  <2>1. PICK s \in Slot : ChangeRoles(s) \/ ChangeFails(s)
    BY <1>5
  <2>2. CASE ChangeRoles(s)
    BY <2>2, AnswerElsewhere, Pages DEF ChangeRoles, Answer
  <2>3. CASE ChangeFails(s)
    BY <2>3, AnswerElsewhere, Pages DEF ChangeFails, Answer
  <2> QED
    BY <2>1, <2>2, <2>3
<1>6. CASE OtherChangesRoles
  <2>1. alone' = FALSE
        /\ UNCHANGED <<shell, fetcher, action, selected, reader, saved, untold>>
    BY <1>6 DEF OtherChangesRoles
  <2>2. TabInv'
    BY <2>1, ServerTab DEF TypeOK, CallsTypeOK
  <2> QED
    BY <2>1, <2>2 DEF Elsewhere, SameCall, Current, shell
<1> QED
  BY <1>1, <1>2, <1>3, <1>4, <1>5, <1>6 DEF GraphStep, GraphServer

LEMMA GraphTable ==
  ASSUME TypeOK, GraphStep
  PROVE  mappings' \subseteq Endpoint \X Role
<1>1. mappings \subseteq Endpoint \X Role
  BY DEF TypeOK, ServerTypeOK
<1>2. \A s \in Slot : action[s].pc # "none" /\ action[s].page = Graph
        => action[s].form.mapping \in Endpoint \X Role
  <2>1. \A s \in Slot : action[s].pc # "none" /\ action[s].page = Graph
          => action[s].form \in FormOf(Graph)
    BY DEF TypeOK, CallsTypeOK
  <2> QED
    BY <2>1, PageData
<1>3. ASSUME NEW s \in Slot, ChangeRoles(s) \/ ChangeFails(s)
      PROVE  mappings' \subseteq Endpoint \X Role
  BY <1>1, <1>2, <1>3 DEF ChangeRoles, ChangeFails, Changed, Handling
<1>4. CASE OtherChangesRoles
  BY <1>1, <1>4 DEF OtherChangesRoles
<1>5. CASE UNCHANGED mappings
  BY <1>1, <1>5
<1> QED
  BY <1>3, <1>4, <1>5
  DEF GraphStep, AddRole, RemoveRole, Change, GraphUser, SelectNode, GraphServer,
      GraphLoader, AskForLogs, LogsArrive, ReaderGoesOn

\* The same of the settings.
LEMMA SettingsTab ==
  ASSUME TypeOK, CallsInv, SettingsStep
  PROVE  TabInv' /\ Elsewhere({"settings"})
<1>1. CASE \E form \in Form : SaveSettings(form)
  BY <1>1, PageData, SubmitElsewhere DEF SaveSettings, Page
<1>2. CASE SettingsLoader
  <2>1. getLearningScanSettings \in DataOf("settings")
    BY PageData, StoredParsed DEF TypeOK, ServerTypeOK
  <2> QED
    BY <1>2, <2>1, AnswersElsewhere DEF SettingsLoader, Page
<1>3. CASE \E s \in Slot : UpsertSettings(s)
  <2>1. PICK s \in Slot : UpsertSettings(s)
    BY <1>3
  <2>2. action[s].form \in Documents
    BY <2>1, PageData, FormsAssumption
    DEF UpsertSettings, Handling, TypeOK, CallsTypeOK
  <2>3. SavedAnswer(action[s].form) \in Answer
    BY <2>2, Parsed DEF SavedAnswer, Answer
  <2> QED
    BY <2>1, <2>3, AnswerElsewhere DEF UpsertSettings, Page
<1>4. CASE \E s \in Slot : SaveFails(s)
  BY <1>4, AnswerElsewhere DEF SaveFails, Page, Answer
<1>5. CASE OtherSaves
  <2>1. alone' = FALSE
        /\ UNCHANGED <<shell, fetcher, action, selected, reader, saved, untold>>
    BY <1>5 DEF OtherSaves
  <2>2. TabInv'
    BY <2>1, ServerTab DEF TypeOK, CallsTypeOK
  <2> QED
    BY <2>1, <2>2 DEF Elsewhere, SameCall, Current, shell
<1> QED
  BY <1>1, <1>2, <1>3, <1>4, <1>5 DEF SettingsStep, SettingsServer

LEMMA SettingsTable ==
  ASSUME TypeOK, SettingsStep
  PROVE  stored' \in {None} \cup Documents
<1>1. stored \in {None} \cup Documents
  BY DEF TypeOK, ServerTypeOK
<1>2. \A s \in Slot : action[s].pc # "none" /\ action[s].page = "settings"
        => action[s].form \in Documents
  BY PageData, FormsAssumption DEF TypeOK, CallsTypeOK
<1>3. ASSUME NEW s \in Slot, UpsertSettings(s) \/ SaveFails(s)
      PROVE  stored' \in {None} \cup Documents
  BY <1>1, <1>2, <1>3, Parsed DEF UpsertSettings, SaveFails, Handling, Documents
<1>4. CASE OtherSaves
  BY <1>4, FormsAssumption DEF OtherSaves
<1>5. CASE UNCHANGED stored
  BY <1>1, <1>5
<1> QED
  BY <1>3, <1>4, <1>5
  DEF SettingsStep, SaveSettings, SettingsServer, SettingsLoader

\* The same of the request logs; every page and size asked for makes sense.
LEMMA AskedSizes ==
  ASSUME TypeOK
  PROVE  /\ SafeSize \in 1 .. MAX_PAGE_SIZE
         /\ load.pc # "none" => ClampedPage \in Nat \ {0}
<1>1. load.to.no \in Nat /\ load.to.size \in Nat /\ load.total \in Nat
  BY SizesAssumption DEF TypeOK, PageTypeOK, Load, Place, Blank, Url
<1>2. AskedSize \in Nat \ {0} /\ AskedPage \in Nat \ {0}
  BY <1>1, SizesAssumption DEF AskedSize, AskedPage, parsePositiveInt
<1>3. SafeSize \in 1 .. MAX_PAGE_SIZE
  BY <1>2, SizesAssumption DEF SafeSize
<1>4. SafeSize \in Nat \ {0}
  BY <1>3, SizesAssumption
<1>5. TotalPages(load.total, SafeSize) \in Nat \ {0}
  BY <1>1, <1>4, PagesHold
<1> QED
  BY <1>2, <1>3, <1>5 DEF ClampedPage

LEMMA FindLogsTab ==
  ASSUME TypeOK, CallsInv, FindLogs
  PROVE  /\ TabInv' /\ Elsewhere({"request-logs"})
         /\ load'.to = load.to
         /\ \/ load'.pc = "redirect"
            \/ /\ load'.pc = "loaded"
               /\ \E rows \in Rows :
                    load'.data = [rows |-> rows, total |-> load.total,
                                  no |-> ClampedPage, size |-> SafeSize,
                                  known |-> Len(logs)]
<1>0. PICK rows \in Rows :
        LoadGoesOn(
          IF AskedPage = ClampedPage /\ AskedSize = SafeSize
          THEN [load EXCEPT !.pc = "loaded",
                            !.data = [rows |-> rows, total |-> load.total,
                                      no |-> ClampedPage, size |-> SafeSize,
                                      known |-> Len(logs)]]
          ELSE [load EXCEPT !.pc = "redirect",
                            !.data = Url("request-logs", ClampedPage, SafeSize)])
  BY DEF FindLogs
<1> DEFINE data == [rows |-> rows, total |-> load.total, no |-> ClampedPage,
                    size |-> SafeSize, known |-> Len(logs)]
           place == Url("request-logs", ClampedPage, SafeSize)
           shown == [load EXCEPT !.pc = "loaded", !.data = data]
           other == [load EXCEPT !.pc = "redirect", !.data = place]
<1>1. load.to.page = "request-logs" /\ load.pc = "counted"
  BY DEF FindLogs, LoaderStep
<1>2. SafeSize \in 1 .. MAX_PAGE_SIZE /\ ClampedPage \in Nat \ {0}
  BY <1>1, AskedSizes
<1>3. load \in Load /\ load.total \in 0 .. MaxLogs
      /\ logs \in Seq(Time) /\ Len(logs) <= MaxLogs
  BY DEF TypeOK, PageTypeOK, ServerTypeOK, Load
<1>4. Len(logs) \in 0 .. MaxLogs
  BY <1>3, SizesAssumption
<1>5. rows \subseteq 1 .. MaxLogs
  <2>1. DOMAIN logs \subseteq 1 .. MaxLogs
    BY <1>3, <1>4, SizesAssumption
  <2> QED
    BY <2>1 DEF Rows
<1>6. data \in DataOf("request-logs") /\ data \in AnyData
  <2>1. data \in LogsData
    BY <1>2, <1>3, <1>4, <1>5 DEF LogsData
  <2> HIDE DEF data
  <2> QED
    BY <2>1, PageData, AnyDataHolds DEF Page
<1>7. place \in Place /\ place \in AnyData
  <2>1. place \in Place
    BY <1>2, SizesAssumption DEF Place, Page, Url
  <2> QED
    BY <2>1, AnyDataHolds
<1>8. LoadGoesOn(shown) \/ LoadGoesOn(other)
  BY <1>0
<1> HIDE DEF data, place
<1>9. /\ shown \in Load /\ shown.to = load.to /\ shown.pc = "loaded"
      /\ shown.data = data /\ shown.revalidating = load.revalidating
      /\ other \in Load /\ other.to = load.to /\ other.pc = "redirect"
      /\ other.data = place /\ other.revalidating = load.revalidating
  BY <1>3, <1>6, <1>7 DEF Load
<1>10. PICK next \in {shown, other} : LoadGoesOn(next)
  BY <1>8
<1> HIDE DEF shown, other
<1>11. TabInv'
  BY <1>1, <1>6, <1>7, <1>9, <1>10, LoaderTab
<1>12. Elsewhere({"request-logs"})
  BY <1>1, <1>9, <1>10 DEF LoadGoesOn, Elsewhere, SameCall, Current, Graph
<1> QED
  BY <1>9, <1>10, <1>11, <1>12 DEF LoadGoesOn, data

LEMMA LogsTab ==
  ASSUME TypeOK, CallsInv, LogsStep
  PROVE  TabInv' /\ Elsewhere({"request-logs"})
<1>1. CASE CountLogs
  <2> DEFINE next == [load EXCEPT !.pc = "counted", !.total = Len(logs)]
  <2>1. LoadGoesOn(next) /\ load.to.page = "request-logs" /\ load.pc = "sent"
    BY <1>1 DEF CountLogs, LoaderStep
  <2>2. load \in Load /\ Len(logs) \in 0 .. MaxLogs
    BY SizesAssumption DEF TypeOK, PageTypeOK, ServerTypeOK
  <2>3. /\ next \in Load /\ next.to = load.to /\ next.pc = "counted"
        /\ next.revalidating = load.revalidating
    BY <2>2 DEF Load
  <2> HIDE DEF next
  <2>4. TabInv'
    BY <2>1, <2>3, LoaderTab
  <2> QED
    BY <2>1, <2>3, <2>4
    DEF LoadGoesOn, Elsewhere, SameCall, Current, Graph
<1>2. CASE FindLogs
  BY <1>2, FindLogsTab
<1>3. CASE NewLog
  <2>1. UNCHANGED tab
    BY <1>3 DEF NewLog
  <2> QED
    BY <2>1 DEF TypeOK, TabInv, PageTypeOK, CallsTypeOK, CallsInv, Current, On,
                Elsewhere, SameCall, tab, shell
<1> QED
  BY <1>1, <1>2, <1>3 DEF LogsStep

\* A new log comes last.
LEMMA NewLogTable ==
  ASSUME TypeOK, NewLog
  PROVE  /\ logs' \in Seq(Time) /\ Len(logs') <= MaxLogs
         /\ Len(logs') = Len(logs) + 1
         /\ \A x \in 1 .. Len(logs) : logs'[x] = logs[x]
<1>1. logs \in Seq(Time) /\ Len(logs) \in Nat /\ MaxLogs \in Nat
  BY SizesAssumption DEF TypeOK, ServerTypeOK
<1>2. Len(logs) < MaxLogs
  BY DEF NewLog
<1>3. PICK time \in Time : logs' = Append(logs, time)
  BY DEF NewLog
<1> QED
  BY <1>1, <1>2, <1>3
-------------------------------------------------------------------------------
(* The steps, by what they do to the pages.                                *)

LEMMA GoElsewhere ==
  ASSUME TypeOK, CallsInv, NEW url \in Place, Go(url)
  PROVE  TabInv' /\ Elsewhere({})
<1>1. TabInv' /\ load'.pc = "sent" /\ load'.revalidating = load.revalidating
  BY GoTab
<1>2. UNCHANGED <<location, loaded, fetcher, action, selected, reader, saved,
                  alone, untold>>
  BY DEF Go
<1> QED
  BY <1>1, <1>2 DEF Elsewhere, SameCall, Current

\* The pages of the request logs have addresses.
LEMMA LogsGo ==
  ASSUME TypeOK, CallsInv, LogsUser
  PROVE  TabInv' /\ Elsewhere({}) /\ UNCHANGED <<logs, walk>>
<1>1. On("request-logs") => loaded.no \in Nat \ {0} /\ loaded.size \in Nat
  <2>1. On("request-logs") => loaded \in LogsData
    BY PageData DEF TypeOK, PageTypeOK, On
  <2> QED
    BY <2>1, SizesAssumption DEF LogsData
<1>2. \A size \in PAGE_SIZES : size \in Nat
  BY SizesAssumption
<1>3. \E no, size \in Nat : Go(Url("request-logs", no, size))
                            /\ UNCHANGED <<logs, walk>>
  BY <1>1, <1>2 DEF LogsUser, Previous, NextPage, SetPageSize
<1>4. \A no, size \in Nat : Url("request-logs", no, size) \in Place
  BY DEF Place, Page, Url
<1> QED
  BY <1>3, <1>4, GoElsewhere

\* A sheet is closed; an answer reaches a page that was left; a redirect.
LEMMA TabGo ==
  ASSUME TypeOK, CallsInv, CloseSheet \/ FollowRedirect \/ AnswerToLeftPage
  PROVE  TabInv' /\ Elsewhere({})
<1>1. CASE CloseSheet
  <2>1. UNCHANGED <<shell, fetcher, action, reader, saved, alone, untold>>
        /\ selected' = None
    BY <1>1 DEF CloseSheet
  <2>2. TabInv'
    BY <2>1, SheetTab DEF TypeOK, PageTypeOK, Node
  <2> QED
    BY <2>1, <2>2 DEF Elsewhere, SameCall, Current, shell
<1>2. CASE FollowRedirect
  BY <1>2, GoElsewhere DEF FollowRedirect, TypeOK, PageTypeOK
<1>3. CASE AnswerToLeftPage
  <2>1. TabInv' /\ ~alone'
    BY <1>3, LeftTab
  <2>2. /\ UNCHANGED <<location, loaded, fetcher, selected, reader, saved, untold>>
        /\ action' = [action EXCEPT !["abandoned"] = NoCall]
    BY <1>3 DEF AnswerToLeftPage
  <2>3. load' = load \/ (Target # Blank /\ load' = LoadFor(Target, FALSE))
    BY <1>3 DEF AnswerToLeftPage, Revalidated
  <2>4. load' = load \/ (load'.pc = "sent"
                         /\ load'.revalidating = load.revalidating)
    <3>1. load.revalidating \in BOOLEAN
      BY DEF TypeOK, PageTypeOK, Load
    <3>2. Target # Blank =>
            /\ LoadFor(Target, FALSE).pc = "sent"
            /\ LoadFor(Target, FALSE).revalidating = (load.revalidating \/ FALSE)
      BY TargetType, LoadStarts
    <3> QED
      BY <2>3, <3>1, <3>2
  <2> QED
    BY <2>1, <2>2, <2>4 DEF Elsewhere, SameCall, Current, TypeOK, CallsTypeOK, Slot
<1> QED
  BY <1>1, <1>2, <1>3

LEMMA Steps ==
  ASSUME TypeOK, CallsInv, Next
  PROVE  \/ TabInv' /\ Elsewhere({}) /\ OnlyTab
         \/ LosePage /\ OnlyTab
         \/ ShowLogs /\ OnlyLogs
         \/ ReceiveAnswer /\ OnlyTab
         \/ RunEffect /\ OnlyTab
         \/ FindingsStep /\ OnlyFindings
         \/ GraphStep /\ OnlyGraph
         \/ LogsStep /\ OnlyLogs
         \/ SettingsStep /\ OnlySettings
<1>1. CASE User
  <2>1. CASE (\E url \in sidebarItems : FollowLink(url)) /\ OnlyTab
    BY <2>1, Pages, GoElsewhere DEF FollowLink
  <2>2. CASE RequestDeepAnalysis /\ OnlyFindings
    BY <2>2 DEF FindingsStep
  <2>3. CASE (\E role \in Role : AddRole(role) \/ RemoveRole(role)) /\ OnlyGraph
    BY <2>3 DEF GraphStep
  <2>4. CASE LogsUser /\ OnlyLogs
    BY <2>4, LogsGo DEF OnlyLogs, OnlyTab
  <2>5. CASE (\E form \in Form : SaveSettings(form)) /\ OnlySettings
    BY <2>5 DEF SettingsStep
  <2> QED
    BY <1>1, <2>1, <2>2, <2>3, <2>4, <2>5 DEF User
<1>2. CASE Others
  <2>1. CASE FindingsOthers /\ OnlyFindings
    BY <2>1 DEF FindingsStep
  <2>2. CASE OtherChangesRoles /\ OnlyGraph
    BY <2>2 DEF GraphStep
  <2>3. CASE NewLog /\ OnlyLogs
    BY <2>3 DEF LogsStep
  <2>4. CASE OtherSaves /\ OnlySettings
    BY <2>4 DEF SettingsStep
  <2>5. CASE LogsFail /\ OnlyGraph
    BY <2>5 DEF LogsFail, OnlyGraph, OnlyTab
  <2>6. CASE TabFails /\ OnlyTab
    BY <2>6 DEF TabFails, LoaderFails, RequestFails
  <2> QED
    BY <1>2, <2>1, <2>2, <2>3, <2>4, <2>5, <2>6 DEF Others
<1>3. CASE Free
  <2>1. CASE FindingsUser /\ OnlyFindings
    BY <2>1 DEF FindingsStep
  <2>2. CASE FindingsServer /\ OnlyFindings
    BY <2>2 DEF FindingsStep
  <2>3. CASE GraphUser /\ OnlyGraph
    BY <2>3 DEF GraphStep
  <2>4. CASE GraphServer /\ OnlyGraph
    BY <2>4 DEF GraphStep
  <2>5. CASE LogsServer /\ OnlyLogs
    BY <2>5 DEF LogsServer, LogsStep
  <2>6. CASE SettingsServer /\ OnlySettings
    BY <2>6 DEF SettingsStep
  <2>7. CASE Tab /\ OnlyTab
    BY <2>7, TabGo DEF Tab
  <2>8. CASE (\E url \in sidebarItems \cup Address : Open(url)) /\ OnlyTab
    BY <2>8, Pages, GoElsewhere DEF Open
  <2> QED
    BY <1>3, <2>1, <2>2, <2>3, <2>4, <2>5, <2>6, <2>7, <2>8 DEF Free
<1> QED
  BY <1>1, <1>2, <1>3 DEF Next

\* The bounds.
LEMMA Counters ==
  ASSUME TypeOK, Next
  PROVE  clicks' \in 0 .. MaxClicks /\ changes' \in 0 .. MaxChanges
<1>1. clicks \in 0 .. MaxClicks /\ changes \in 0 .. MaxChanges
      /\ MaxClicks \in Nat /\ MaxChanges \in Nat
  BY BoundsAssumption DEF TypeOK
<1>2. CASE User
  <2>1. Click
    BY <1>2 DEF User
  <2> QED
    BY <1>1, <2>1 DEF Click
<1>3. CASE Others
  <2>1. OthersAct
    BY <1>3 DEF Others
  <2> QED
    BY <1>1, <2>1 DEF OthersAct
<1> QED
  BY <1>1, <1>2, <1>3 DEF Next

\* What the logs and the walk hold.
LEMMA LogsTable ==
  ASSUME TypeOK, LogsStep
  PROVE  /\ logs' \in Seq(Time) /\ Len(logs') <= MaxLogs
         /\ walk' = walk
<1>1. CASE NewLog
  BY <1>1, NewLogTable DEF NewLog
<1>2. CASE CountLogs \/ FindLogs
  BY <1>2 DEF CountLogs, FindLogs, TypeOK, ServerTypeOK
<1> QED
  BY <1>1, <1>2 DEF LogsStep

LEMMA WalkedType ==
  ASSUME TypeOK, NEW data \in LogsData
  PROVE  Walked(data) \in [known : 0 .. MaxLogs, seen : SUBSET (1 .. MaxLogs),
                           torn : BOOLEAN]
<1>1. walk \in [known : 0 .. MaxLogs, seen : SUBSET (1 .. MaxLogs),
                torn : BOOLEAN]
  BY DEF TypeOK, ServerTypeOK
<1>2. PICK torn \in BOOLEAN : torn = (data.known # data.total)
  OBVIOUS
<1>3. PICK both \in BOOLEAN : both = (walk.torn \/ torn)
  OBVIOUS
<1>4. CASE data.no = 1
  <2>1. Walked(data) = [known |-> data.known, seen |-> data.rows, torn |-> torn]
    BY <1>2, <1>4 DEF Walked
  <2> QED
    BY <2>1 DEF LogsData
<1>5. CASE data.no # 1 /\ Continues(data)
  <2>1. Walked(data) = [walk EXCEPT !.seen = @ \cup data.rows, !.torn = both]
    BY <1>2, <1>3, <1>5, Zenon DEF Walked
  <2> QED
    BY <1>1, <2>1 DEF LogsData
<1>6. CASE data.no # 1 /\ ~Continues(data)
  <2>1. Walked(data) = NoWalk
    BY <1>6 DEF Walked
  <2> QED
    BY <2>1, SizesAssumption DEF NoWalk
<1> QED
  BY <1>4, <1>5, <1>6

\* Types, and CallsInv.
LEMMA TypesKept ==
  ASSUME TypeOK, CallsInv, Next
  PROVE  TypeOK' /\ CallsInv'
<1>1. clicks' \in 0 .. MaxClicks /\ changes' \in 0 .. MaxChanges
  BY Counters
<1>2. ASSUME TabInv', ServerTypeOK'
      PROVE  TypeOK' /\ CallsInv'
  BY <1>1, <1>2 DEF TypeOK, TabInv
<1>3. ServerTypeOK
  BY DEF TypeOK
<1>4. CASE TabInv' /\ OnlyTab
  BY <1>2, <1>3, <1>4 DEF ServerTypeOK, OnlyTab
<1>5. CASE LosePage /\ OnlyTab
  BY <1>4, <1>5, LosePageTab
<1>6. CASE ShowLogs /\ OnlyLogs
  <2>1. TabInv'
    BY <1>6, ShowPageTab DEF ShowLogs
  <2>2. walk' \in [known : 0 .. MaxLogs, seen : SUBSET (1 .. MaxLogs),
                   torn : BOOLEAN]
    <3>1. CASE load.to.page = "request-logs"
      <4>1. load.data \in LogsData
        BY <1>6, <3>1, PageData DEF ShowLogs, ShowPage, TypeOK, PageTypeOK
      <4>2. walk' = Walked(load.data)
        BY <1>6, <3>1 DEF ShowLogs
      <4> QED
        BY <4>1, <4>2, WalkedType
    <3>2. CASE load.to.page # "request-logs"
      <4>1. walk' = NoWalk
        BY <1>6, <3>2 DEF ShowLogs
      <4> QED
        BY <4>1, SizesAssumption DEF NoWalk
    <3> QED
      BY <3>1, <3>2
  <2> QED
    BY <1>2, <1>3, <1>6, <2>1, <2>2 DEF ServerTypeOK, ShowLogs, OnlyLogs
<1>7. CASE ReceiveAnswer /\ OnlyTab
  BY <1>4, <1>7, ReceiveTab
<1>8. CASE FindingsStep /\ OnlyFindings
  BY <1>2, <1>3, <1>8, FindingsTab, FindingsTable DEF ServerTypeOK, OnlyFindings
<1>9. CASE GraphStep /\ OnlyGraph
  BY <1>2, <1>3, <1>9, GraphTab, GraphTable DEF ServerTypeOK, OnlyGraph
<1>10. CASE LogsStep /\ OnlyLogs
  BY <1>2, <1>3, <1>10, LogsTab, LogsTable DEF ServerTypeOK, OnlyLogs
<1>11. CASE SettingsStep /\ OnlySettings
  BY <1>2, <1>3, <1>11, SettingsTab, SettingsTable DEF ServerTypeOK, OnlySettings
<1>12. CASE RunEffect /\ OnlyTab
  BY <1>4, <1>12, EffectTab
<1> QED
  BY <1>4, <1>5, <1>6, <1>7, <1>8, <1>9, <1>10, <1>11, <1>12, Steps
-------------------------------------------------------------------------------
(* The findings.                                                           *)

LEMMA FindingsElsewhere ==
  ASSUME TypeOK, CallsInv, CallsInv', FindingsInv, NEW pages,
         "findings" \notin pages, Elsewhere(pages), requests' = requests
  PROVE  FindingsInv'
<1>1. /\ UNCHANGED <<location, loaded>>
      /\ Told("findings")' => Told("findings")
      /\ \/ load' = load
         \/ load'.pc = "sent"
         \/ load'.to.page # "findings"
  BY DEF Elsewhere, Told, On
<1>2. CASE location.page \notin pages
  <2>1. Current' = Current /\ fetcher' = fetcher
    BY <1>2 DEF Elsewhere
  <2>2. \A f : Making(f)' = Making(f)
    BY <2>1 DEF Making, Done
  <2> QED
    BY <1>1, <2>1, <2>2 DEF FindingsInv, On, Offers
<1>3. CASE location.page \in pages
  <2>1. ~On("findings") /\ ~On("findings")'
    BY <1>1, <1>3 DEF On
  <2>2. /\ Current.page = "findings" => Current.pc = "none"
        /\ Current'.page = "findings" => Current'.pc = "none"
    BY <1>1, <2>1 DEF CallsInv, On
  <2>3. \A f : ~Making(f)
    BY <2>2 DEF Making, Done
  <2> QED
    BY <1>1, <2>1, <2>2, <2>3 DEF FindingsInv, Offers
<1> QED
  BY <1>2, <1>3

\* The requests that calls make, alone.
LEMMA FindingsCalls ==
  ASSUME TypeOK, CallsInv, FindingsInv, Told("findings"), Told("findings")',
         NEW s \in Slot, CreateAICheckerRequest(s)
  PROVE  FindingsInv'
<1>1. /\ UNCHANGED <<shell, fetcher, alone>>
      /\ action[s].page = "findings" /\ action[s].pc \in {"sent", "produce"}
  BY DEF CreateAICheckerRequest, CreateRequest, RefuseDuplicate, CreateFails,
         Produced, ProduceFails, ActionAnswers, AnswersUntold, CallGoesOn,
         Handling
<1>2. s = "current" /\ On("findings") /\ alone /\ ~untold'
  BY <1>1 DEF CallsInv, Slot, Current, Told, On, shell
<1>3. /\ action \in [Slot -> Call] /\ requests \in [Finding -> Status]
      /\ Current.form \in Finding
  BY <1>1, <1>2, PageData DEF TypeOK, CallsTypeOK, ServerTypeOK, Current
<1>4. /\ Current.pc = "sent" => requests[Current.form] \in Open4
      /\ Current.pc = "produce" => Current.newest
  BY <1>1, <1>2 DEF FindingsInv, Current
<1>5. CASE CreateRequest(s)
  <2>1. /\ Current.pc = "sent"
        /\ requests' = [requests EXCEPT ![Current.form] = "running"]
        /\ action' = [Superseded(Current.form) EXCEPT ![s].pc = "produce",
                                                     ![s].newest = TRUE]
    BY <1>2, <1>5 DEF CreateRequest, Handling, CallGoesOn, Current
  <2>2. /\ Current'.pc = "produce" /\ Current'.newest
        /\ Current'.page = "findings" /\ Current'.form = Current.form
    <3>1. /\ Superseded(Current.form) \in [Slot -> Call]
          /\ Superseded(Current.form)[s].page = action[s].page
          /\ Superseded(Current.form)[s].form = action[s].form
      BY SupersededCalls
    <3> QED
      BY <1>1, <1>2, <2>1, <3>1 DEF Current, Call
  <2>3. Making(Current.form)' /\ \A f : ~Making(f)
    BY <2>1, <2>2 DEF Making, Done
  <2>4. \A f \in Finding : f # Current.form => requests'[f] = requests[f]
    BY <1>3, <2>1
  <2>5. \A f \in Finding : f = Current.form \/ ~Making(f)'
    BY <2>2 DEF Making
  <2> QED
    BY <1>1, <2>2, <2>3, <2>4 DEF FindingsInv, Offers, On, shell, Making
<1>6. CASE RefuseDuplicate(s)
  BY <1>2, <1>4, <1>6 DEF RefuseDuplicate, Handling, Current, Open4
<1>7. CASE CreateFails(s) \/ Produced(s)
  <2>1. /\ requests' = requests
        /\ \/ Current.pc = "sent" /\ ~Current'.ok /\ Current'.data = "error"
           \/ Current.pc = "produce" /\ Current'.ok
        /\ Current'.pc = "answered"
        /\ Current'.page = "findings" /\ Current'.form = Current.form
    BY <1>1, <1>2, <1>3, <1>7
    DEF CreateFails, Produced, ActionAnswers, AnswersUntold, Answered, CallGoesOn,
        Handling, Current, Call
  <2>2. \A f : Making(f) => Making(f)'
    BY <2>1 DEF Making, Done
  <2> QED
    BY <1>1, <2>1, <2>2 DEF FindingsInv, Offers, On, shell
<1>8. CASE ProduceFails(s)
  <2>1. /\ Current.pc = "produce"
        /\ requests' = [requests EXCEPT ![Current.form] = "failed"]
        /\ ~Current'.ok /\ Current'.data = "error"
        /\ Current'.pc = "answered"
        /\ Current'.page = "findings" /\ Current'.form = Current.form
    BY <1>1, <1>2, <1>3, <1>4, <1>8
    DEF ProduceFails, ActionAnswers, AnswersUntold, Answered, CallGoesOn, Handling,
        Current, Call
  <2>2. \A f : Making(f) => f = Current.form
    BY DEF Making
  <2>3. \A f \in Finding : IF f = Current.form THEN requests'[f] = "failed"
                           ELSE requests'[f] = requests[f]
    BY <1>3, <2>1
  <2> QED
    BY <1>1, <2>1, <2>2, <2>3 DEF FindingsInv, Offers, On, shell, Open4
<1> QED
  BY <1>5, <1>6, <1>7, <1>8 DEF CreateAICheckerRequest

LEMMA FindingsOwn ==
  ASSUME TypeOK, CallsInv, CallsInv', FindingsInv, FindingsStep
  PROVE  FindingsInv'
<1>0. requests \in [Finding -> Status]
  BY DEF TypeOK, ServerTypeOK
<1>1. SUFFICES ASSUME Told("findings"), Told("findings")'
               PROVE  FindingsInv'
  <2>1. Told("findings")' => Told("findings")
    BY FindingsTab DEF Elsewhere, Told, On
  <2> QED
    BY <1>1, <2>1 DEF FindingsInv
<1>2. CASE FindingsUser
  <2>1. UNCHANGED <<shell, fetcher, action, requests>>
    BY <1>2 DEF FindingsUser, SelectFinding, SelectRequest, OpenSheet
  <2>2. \A f : Making(f)' = Making(f)
    BY <2>1 DEF Making, Done, Current
  <2> QED
    BY <1>1, <2>1, <2>2 DEF FindingsInv, Offers, On, Current, shell
<1>3. CASE RequestDeepAnalysis
  <2>1. /\ Submit("findings", selected) /\ On("findings") /\ requests' = requests
        /\ selected # None /\ fetcher.state = "idle"
        /\ loaded[selected] \in Open4
    BY <1>3 DEF RequestDeepAnalysis, isRequestingDeepAnalysis, Open4, currentRequest,
                canRequestDeepAnalysis, TypeOK, CallsTypeOK
  <2>2. selected \in Finding /\ selected \in FormOf("findings")
    BY <2>1, PageData DEF TypeOK, PageTypeOK
  <2>3. /\ Current.pc = "none"
        /\ Current' = NewCall("findings", selected)
        /\ fetcher' = [fetcher EXCEPT !.state = "submitting"]
    BY <2>1, <2>2, SubmitTab DEF Page
  <2>4. Current'.page = "findings" /\ Current'.form = selected
        /\ Current'.pc = "sent"
    BY <2>2, <2>3, NewCallType DEF Page
  <2>5. /\ UNCHANGED shell
        /\ fetcher'.ok = fetcher.ok /\ fetcher'.data = fetcher.data
    BY <2>1, <2>3 DEF Submit, TypeOK, CallsTypeOK
  <2>6. \A f : ~Making(f)
    BY <2>3 DEF Making, Done
  <2>7. requests[selected] \in Open4
    BY <1>1, <2>1, <2>2, <2>6 DEF FindingsInv, Offers
  <2> QED
    BY <1>1, <2>1, <2>4, <2>5, <2>6, <2>7 DEF FindingsInv, Offers, On, shell
<1>4. CASE FindingsLoader \/ AICheckerLoader
  <2>1. /\ UNCHANGED <<location, loaded, fetcher, action, requests>>
        /\ load'.data = requests
    BY <1>4 DEF FindingsLoader, AICheckerLoader, LoaderAnswers, LoadGoesOn, TypeOK,
                PageTypeOK, Load
  <2>2. \A f : Making(f)' = Making(f)
    BY <2>1 DEF Making, Done, Current
  <2> QED
    BY <1>1, <2>1, <2>2 DEF FindingsInv, Offers, On, Current
<1>5. CASE \E s \in Slot : CreateAICheckerRequest(s)
  BY <1>1, <1>5, FindingsCalls
<1>6. CASE \E f \in Finding : CheckerAnswers(f)
  <2>1. PICK f \in Finding : CheckerAnswers(f)
    BY <1>6
  <2>2. UNCHANGED <<location, loaded, load, fetcher, action>>
        /\ requests[f] = "running"
        /\ \A g \in Finding : g # f => requests'[g] = requests[g]
    BY <1>0, <2>1 DEF CheckerAnswers, tab, shell
  <2>3. \A g : Making(g)' = Making(g)
    BY <2>2 DEF Making, Done, Current
  <2>4. \A g \in Finding : requests[g] \in Open4 => requests'[g] \in Open4
    BY <2>2 DEF Open4
  <2>5. Current.pc # "none" /\ Current.page = "findings" => Current.form \in Finding
    BY PageData DEF TypeOK, CallsTypeOK, Current, Slot
  <2> QED
    BY <1>1, <2>2, <2>3, <2>4, <2>5 DEF FindingsInv, Offers, On, Current
<1>7. CASE \E f \in Finding : OtherRequests(f)
  BY <1>1, <1>7 DEF OtherRequests, Told
<1> QED
  BY <1>2, <1>3, <1>4, <1>5, <1>6, <1>7
  DEF FindingsStep, FindingsServer, FindingsOthers

LEMMA FindingsReceive ==
  ASSUME TypeOK, CallsInv, FindingsInv, ReceiveAnswer, requests' = requests
  PROVE  FindingsInv'
<1>1. /\ UNCHANGED <<location, loaded, alone>>
      /\ Current.pc = "answered" /\ On(Current.page) /\ Current' = NoCall
      /\ fetcher'.state = IF Current.ok THEN "loading" ELSE "idle"
      /\ fetcher'.ok = Current.ok /\ fetcher'.data = Current.data
      /\ Current.ok => load'.pc = "sent"
      /\ ~Current.ok => load' = load /\ untold' = untold
  BY ReceiveTab DEF ReceiveAnswer
<1>2. CASE Current.ok /\ On("findings")
  BY <1>1, <1>2 DEF FindingsInv, On, NoCall
<1>3. CASE Current.ok /\ ~On("findings")
  BY <1>1, <1>3 DEF FindingsInv, On, NoCall
<1>4. CASE ~Current.ok
  <2>1. \A f : ~Making(f)
    BY <1>1, <1>4 DEF Making, Done
  <2>2. load' = load /\ Told("findings")' = Told("findings")
    BY <1>1, <1>4 DEF Told, On
  <2>3. Told("findings") /\ On("findings") => Current.data # "duplicate"
    BY <1>1, <1>4 DEF FindingsInv, On
  <2>4. fetcher.state # "loading"
    BY <1>1 DEF CallsInv
  <2> QED
    BY <1>1, <2>1, <2>2, <2>3, <2>4 DEF FindingsInv, Offers, On, NoCall
<1> QED
  BY <1>2, <1>3, <1>4

\* The effect on an answer changes nothing the page shows.
LEMMA FindingsEffect ==
  ASSUME TypeOK, CallsInv, FindingsInv, RunEffect, requests' = requests
  PROVE  FindingsInv'
<1>1. /\ UNCHANGED <<location, loaded, alone, untold, action>>
      /\ load'.pc = "sent"
      /\ fetcher'.state = fetcher.state
      /\ fetcher'.ok = fetcher.ok /\ fetcher'.data = fetcher.data
  BY EffectTab DEF RunEffect
<1>2. \A f : Making(f)' = Making(f)
  BY <1>1 DEF Making, Done, Current
<1> QED
  BY <1>1, <1>2 DEF FindingsInv, Offers, On, Current, Told

LEMMA FindingsShow ==
  ASSUME TypeOK, CallsInv, FindingsInv, ShowPage, requests' = requests
  PROVE  FindingsInv'
<1>1. /\ location' = load.to /\ loaded' = load.data /\ load'.pc = "none"
      /\ load.pc = "loaded"
  BY NoLoadType DEF ShowPage
<1>2. CASE On(load.to.page)
  <2>1. /\ fetcher' = [fetcher EXCEPT
             !.state = IF @ = "loading" THEN "idle" ELSE @]
        /\ UNCHANGED <<action, alone, untold>>
    BY <1>2 DEF ShowPage
  <2>2. fetcher'.ok = fetcher.ok /\ fetcher'.data = fetcher.data
    BY <2>1 DEF TypeOK, CallsTypeOK
  <2>3. \A f : Making(f)' = Making(f)
    BY <2>1 DEF Making, Done, Current
  <2> QED
    BY <1>1, <1>2, <2>1, <2>2, <2>3 DEF FindingsInv, Offers, On, Current, Told
<1>3. CASE ~On(load.to.page)
  <2>1. /\ Current' = NoCall /\ fetcher' = IdleFetcher
        /\ alone' => alone
    BY <1>3, ShowPageTab
  <2>2. load.to.page = "findings" => \A f : ~Making(f)
    BY <1>3 DEF Making, Done, CallsInv, On
  <2>3. ASSUME alone', load.to.page = "findings"
        PROVE  \A f \in Finding : Offers(loaded, f)'
    <3>1. Told("findings")
      BY <1>3, <2>1, <2>3 DEF Told, On
    <3>2. \A f \in Finding : Offers(load.data, f)
      BY <1>1, <2>2, <2>3, <3>1 DEF FindingsInv
    <3> QED
      BY <1>1, <3>2 DEF Offers
  <2>4. /\ Current'.page = "none" /\ fetcher'.data # "duplicate"
    BY <2>1, ErrorAssumption DEF NoCall, IdleFetcher
  <2> QED
    BY <1>1, <2>3, <2>4 DEF FindingsInv, On, Told
<1> QED
  BY <1>2, <1>3
-------------------------------------------------------------------------------
(* The roles of the graph.                                                 *)

LEMMA RolesElsewhere ==
  ASSUME RolesInv, NEW pages, Graph \notin pages, Elsewhere(pages),
         mappings' = mappings
  PROVE  RolesInv'
<1>1. /\ UNCHANGED <<location, loaded, saved>>
      /\ (alone' => alone) /\ (untold => untold')
      /\ \/ load' = load
         \/ load'.pc = "sent"
         \/ load'.to.page # Graph
      /\ load'.revalidating = load.revalidating
  BY DEF Elsewhere
<1>2. CASE location.page \in pages
  BY <1>1, <1>2 DEF RolesInv, On
<1>3. CASE location.page \notin pages
  <2>1. SameCall /\ fetcher' = fetcher
    BY <1>3 DEF Elsewhere
  <2>2. Done' = Done /\ Current'.form = Current.form
    BY <2>1 DEF SameCall, Done
  <2> QED
    BY <1>1, <2>1, <2>2 DEF RolesInv, On, Shows
<1> QED
  BY <1>2, <1>3

\* A change is as it says, whatever the roles were.
LEMMA ChangedShows ==
  ASSUME NEW form \in FormOf(Graph)
  PROVE  Shows(Changed(form), form)
BY PageData DEF Shows, Changed

LEMMA RolesOwn ==
  ASSUME TypeOK, CallsInv, RolesInv, GraphStep
  PROVE  RolesInv'
<1>1. SUFFICES ASSUME alone, alone', On(Graph)
               PROVE  RolesInv'
  <2>1. (alone' => alone) /\ location' = location
    BY GraphTab DEF Elsewhere
  <2> QED
    BY <1>1, <2>1 DEF RolesInv, On
<1>2. CASE \E role \in Role : AddRole(role) \/ RemoveRole(role)
  <2>1. PICK role \in Role, intent \in {"add-role", "remove-role"} :
          /\ selected \in Endpoint
          /\ fetcher.state # "submitting"
          /\ Submit(Graph, [intent |-> intent, mapping |-> <<selected, role>>])
          /\ mappings' = mappings
    BY <1>2 DEF AddRole, RemoveRole, Change, isSavingRoles
  <2> DEFINE form == [intent |-> intent, mapping |-> <<selected, role>>]
  <2>2. form \in FormOf(Graph)
    BY <2>1, PageData
  <2> HIDE DEF form
  <2>3. Submit(Graph, form) /\ UNCHANGED <<shell, saved, untold>>
        /\ fetcher'.pending = fetcher.pending
    BY <2>1 DEF form, Submit, TypeOK, CallsTypeOK
  <2>4. Current.pc = "none" /\ Current' = NewCall(Graph, form)
    BY <2>1, <2>2, <2>3, SubmitTab, Pages
  <2>5. Current'.pc = "sent"
    BY <2>2, <2>4, NewCallType, Pages
  <2> QED
    BY <1>1, <2>1, <2>3, <2>4, <2>5 DEF RolesInv, Done, Shows, On, shell
<1>3. CASE GraphUser \/ AskForLogs \/ LogsArrive
  <2>1. UNCHANGED <<shell, fetcher, action, saved, untold, mappings>>
    BY <1>3 DEF GraphUser, SelectNode, AskForLogs, LogsArrive, ReaderGoesOn
  <2> QED
    BY <1>1, <2>1 DEF RolesInv, Done, Current, Shows, On, shell
<1>4. CASE GraphLoader
  <2>1. /\ UNCHANGED <<location, loaded, fetcher, action, saved, untold, mappings>>
        /\ load'.data.links = mappings
        /\ load'.revalidating = load.revalidating
    BY <1>4
    DEF GraphLoader, LoaderAnswers, LoadGoesOn, TypeOK, PageTypeOK, Load
  <2> QED
    BY <1>1, <2>1 DEF RolesInv, Done, Current, Shows, On
<1>5. CASE \E s \in Slot : ChangeRoles(s) \/ ChangeFails(s)
  <2>1. PICK s \in Slot : ChangeRoles(s) \/ ChangeFails(s)
    BY <1>5
  <2>2. /\ UNCHANGED <<shell, fetcher, saved>>
        /\ action[s].page = Graph /\ action[s].pc = "sent"
    BY <2>1 DEF ChangeRoles, ChangeFails, Handling, ActionAnswers, AnswersUntold,
                CallGoesOn
  <2>3. s = "current"
    BY <1>1, <2>2 DEF CallsInv, Slot
  <2>4. action \in [Slot -> Call] /\ Current.form \in FormOf(Graph)
    BY <2>2, <2>3 DEF TypeOK, CallsTypeOK, Current
  <2>5. CASE ChangeRoles(s)
    <3>1. /\ Current'.pc = "answered" /\ Current'.ok
          /\ Current'.form = Current.form
          /\ mappings' = Changed(Current.form)
      BY <2>3, <2>4, <2>5
      DEF ChangeRoles, ActionAnswers, Answered, CallGoesOn, Current, Call
    <3>2. Shows(mappings', Current'.form)
      BY <2>4, <3>1, ChangedShows
    <3> QED
      BY <1>1, <3>1, <3>2 DEF RolesInv, Done
  <2>6. CASE ChangeFails(s)
    <3>1. ~Current'.ok /\ (untold' \/ (mappings' = mappings /\ untold' = untold))
      BY <2>3, <2>4, <2>6
      DEF ChangeFails, ActionAnswers, AnswersUntold, Answered, CallGoesOn, Current,
          Call
    <3>2. ~Done /\ ~Done'
      BY <2>2, <2>3, <3>1 DEF Done, Current
    <3> QED
      BY <1>1, <2>2, <3>1, <3>2 DEF RolesInv, Shows, On, shell
  <2> QED
    BY <2>1, <2>5, <2>6
<1>6. CASE OtherChangesRoles
  BY <1>1, <1>6 DEF OtherChangesRoles
<1> QED
  BY <1>2, <1>3, <1>4, <1>5, <1>6 DEF GraphStep, GraphServer

LEMMA RolesReceive ==
  ASSUME TypeOK, CallsInv, RolesInv, ReceiveAnswer, mappings' = mappings
  PROVE  RolesInv'
<1>1. /\ UNCHANGED <<location, loaded, alone>>
      /\ Current.pc = "answered" /\ Current' = NoCall
      /\ saved' = IF Current.ok THEN Current.form ELSE saved
      /\ fetcher'.pending = (fetcher.pending \/ (On(Graph) /\ Current.ok))
      /\ Current.ok => load'.pc = "sent"
      /\ ~Current.ok => load' = load /\ untold' = untold
  BY ReceiveTab DEF ReceiveAnswer
<1>2. ~Done'
  BY <1>1 DEF Done, NoCall
<1>3. CASE Current.ok
  BY <1>1, <1>2, <1>3 DEF RolesInv, Done, Shows, On
<1>4. CASE ~Current.ok
  <2>1. fetcher.pending => fetcher'.pending
    BY <1>1
  <2> QED
    BY <1>1, <1>2, <1>4, <2>1 DEF RolesInv, Done, Shows, On
<1> QED
  BY <1>3, <1>4

\* From the effect on, the revalidator says that the graph is old.
LEMMA RolesEffect ==
  ASSUME TypeOK, CallsInv, RolesInv, RunEffect, mappings' = mappings
  PROVE  RolesInv'
<1>1. /\ UNCHANGED <<location, loaded, alone, untold, action, saved>>
      /\ load'.pc = "sent" /\ load'.revalidating
  BY EffectTab DEF RunEffect
<1> QED
  BY <1>1 DEF RolesInv, Done, Current, Shows, On

LEMMA RolesShow ==
  ASSUME TypeOK, CallsInv, RolesInv, ShowPage, mappings' = mappings
  PROVE  RolesInv'
<1>1. /\ location' = load.to /\ loaded' = load.data /\ load'.pc = "none"
      /\ load.pc = "loaded"
  BY NoLoadType DEF ShowPage
<1>2. CASE On(load.to.page)
  <2>1. UNCHANGED <<action, alone, untold, saved>>
    BY <1>2 DEF ShowPage
  <2> QED
    BY <1>1, <1>2, <2>1 DEF RolesInv, Done, Current, Shows, On
<1>3. CASE ~On(load.to.page)
  <2>1. Current' = NoCall /\ saved' = None
    BY <1>3, ShowPageTab
  <2> QED
    BY <2>1 DEF RolesInv, Done, NoCall
<1> QED
  BY <1>2, <1>3
-------------------------------------------------------------------------------
(* The settings.                                                           *)

LEMMA SettingsElsewhere ==
  ASSUME SettingsInv, NEW pages, "settings" \notin pages, Elsewhere(pages),
         stored' = stored
  PROVE  SettingsInv'
<1>1. /\ UNCHANGED <<location, loaded>>
      /\ (alone' => alone) /\ (untold => untold')
      /\ Told("settings")' => Told("settings")
      /\ \/ load' = load
         \/ load'.pc = "sent"
         \/ load'.to.page # "settings"
  BY DEF Elsewhere, Told, On
<1>2. getLearningScanSettings' = getLearningScanSettings
  BY DEF getLearningScanSettings
<1>3. CASE location.page \in pages
  BY <1>1, <1>2, <1>3 DEF SettingsInv, On
<1>4. CASE location.page \notin pages
  <2>1. SameCall /\ fetcher' = fetcher
    BY <1>4 DEF Elsewhere
  <2>2. Done' = Done /\ Current'.data = Current.data
    BY <2>1 DEF SameCall, Done
  <2> QED
    BY <1>1, <1>2, <2>1, <2>2 DEF SettingsInv, On
<1> QED
  BY <1>3, <1>4

LEMMA SettingsOwn ==
  ASSUME TypeOK, CallsInv, SettingsInv, SettingsStep
  PROVE  SettingsInv'
<1>1. SUFFICES ASSUME alone, alone', untold => untold', location' = location
               PROVE  SettingsInv'
  <2>1. (alone' => alone) /\ (untold => untold') /\ location' = location
    BY SettingsTab DEF Elsewhere
  <2> QED
    BY <1>1, <2>1 DEF SettingsInv
<1>2. stored' = stored => getLearningScanSettings' = getLearningScanSettings
  BY DEF getLearningScanSettings
<1>3. CASE \E form \in Form : SaveSettings(form)
  <2>1. PICK form \in FormOf("settings") :
          /\ fetcher.state = "idle" /\ Submit("settings", form)
          /\ stored' = stored
    BY <1>3, PageData DEF SaveSettings
  <2>2. /\ Current.pc = "none" /\ Current' = NewCall("settings", form)
        /\ fetcher' = [fetcher EXCEPT !.state = "submitting"]
    BY <2>1, SubmitTab DEF Page
  <2>3. Current'.pc = "sent"
    BY <2>2, NewCallType DEF Page
  <2>4. /\ UNCHANGED shell /\ fetcher'.ok = fetcher.ok
        /\ fetcher'.data = fetcher.data
    BY <2>1, <2>2 DEF Submit, TypeOK, CallsTypeOK
  <2> QED
    BY <1>1, <1>2, <2>1, <2>2, <2>3, <2>4 DEF SettingsInv, Done, On, shell, Told
<1>4. CASE SettingsLoader
  <2>1. /\ UNCHANGED <<location, loaded, fetcher, action, stored>>
        /\ load'.data = getLearningScanSettings
    BY <1>4
    DEF SettingsLoader, LoaderAnswers, LoadGoesOn, TypeOK, PageTypeOK, Load
  <2> QED
    BY <1>1, <1>2, <2>1 DEF SettingsInv, Done, Current, On, Told
<1>5. CASE \E s \in Slot : UpsertSettings(s) \/ SaveFails(s)
  <2>1. PICK s \in Slot : UpsertSettings(s) \/ SaveFails(s)
    BY <1>5
  <2>2. /\ UNCHANGED <<shell, fetcher>>
        /\ action[s].page = "settings" /\ action[s].pc = "sent"
    BY <2>1 DEF UpsertSettings, SaveFails, Handling, ActionAnswers, AnswersUntold,
                CallGoesOn
  <2>3. s = "current" /\ On("settings") /\ ~Done
    BY <1>1, <2>2 DEF CallsInv, Slot, Current, On, Done
  <2>4. action \in [Slot -> Call] /\ Current.form \in Documents
    BY <2>2, <2>3, PageData, FormsAssumption DEF TypeOK, CallsTypeOK, Current
  <2>5. CASE UpsertSettings(s)
    <3>1. /\ Current'.pc = "answered" /\ Current'.ok
          /\ Current'.data = parseLearningScanSettingsValue(Current.form)
          /\ stored' = parseLearningScanSettingsValue(Current.form)
      BY <2>3, <2>4, <2>5
      DEF UpsertSettings, SavedAnswer, ActionAnswers, Answered, CallGoesOn, Current,
          Call
    <3>2. /\ stored' \in [Key -> Int]
          /\ parseLearningScanSettingsValue(stored') = stored'
      BY <2>4, <3>1, Parsed
    <3>3. stored' # None
      BY <3>2, RowAssumption DEF Documents
    <3>4. getLearningScanSettings' = stored'
      BY <3>2, <3>3 DEF getLearningScanSettings
    <3> QED
      BY <2>2, <2>3, <3>1, <3>4 DEF SettingsInv, Done, On, shell
  <2>6. CASE SaveFails(s)
    <3>1. ~Current'.ok /\ (untold' \/ (stored' = stored /\ untold' = untold))
      BY <2>3, <2>4, <2>6
      DEF SaveFails, ActionAnswers, AnswersUntold, Answered, CallGoesOn, Current, Call
    <3>2. ~Done'
      BY <3>1 DEF Done
    <3> QED
      BY <1>1, <1>2, <2>2, <2>3, <3>1, <3>2 DEF SettingsInv, On, shell, Told
  <2> QED
    BY <2>1, <2>5, <2>6
<1>6. CASE OtherSaves
  BY <1>1, <1>6 DEF OtherSaves
<1> QED
  BY <1>3, <1>4, <1>5, <1>6 DEF SettingsStep, SettingsServer

LEMMA SettingsReceive ==
  ASSUME TypeOK, CallsInv, SettingsInv, ReceiveAnswer, stored' = stored
  PROVE  SettingsInv'
<1>1. /\ UNCHANGED <<location, loaded, alone>>
      /\ Current.pc = "answered" /\ On(Current.page) /\ Current' = NoCall
      /\ fetcher'.state = IF Current.ok THEN "loading" ELSE "idle"
      /\ fetcher'.ok = Current.ok /\ fetcher'.data = Current.data
      /\ Current.ok => load'.pc = "sent"
      /\ ~Current.ok => load' = load /\ untold' = untold
  BY ReceiveTab DEF ReceiveAnswer
<1>2. getLearningScanSettings' = getLearningScanSettings
  BY DEF getLearningScanSettings
<1>3. ~Done' /\ fetcher.state = "submitting"
  BY <1>1 DEF Done, NoCall, CallsInv
<1>4. CASE Current.ok
  <2>1. fetcher'.state = "loading" /\ fetcher'.data = Current.data
    BY <1>1, <1>4
  <2> QED
    BY <1>1, <1>2, <1>3, <1>4, <2>1 DEF SettingsInv, Done, On
<1>5. CASE ~Current.ok
  <2>1. ~fetcher'.ok /\ load' = load /\ untold' = untold /\ ~Done
    BY <1>1, <1>5 DEF Done
  <2> QED
    BY <1>1, <1>2, <1>3, <2>1 DEF SettingsInv, On, Told
<1> QED
  BY <1>4, <1>5

LEMMA SettingsEffect ==
  ASSUME TypeOK, CallsInv, SettingsInv, RunEffect, stored' = stored
  PROVE  SettingsInv'
<1>1. /\ UNCHANGED <<location, loaded, alone, untold, action>>
      /\ load'.pc = "sent"
      /\ fetcher'.state = fetcher.state
      /\ fetcher'.ok = fetcher.ok /\ fetcher'.data = fetcher.data
  BY EffectTab DEF RunEffect
<1>2. getLearningScanSettings' = getLearningScanSettings
  BY DEF getLearningScanSettings
<1> QED
  BY <1>1, <1>2 DEF SettingsInv, Done, Current, On

LEMMA SettingsShow ==
  ASSUME TypeOK, CallsInv, SettingsInv, ShowPage, stored' = stored
  PROVE  SettingsInv'
<1>1. /\ location' = load.to /\ loaded' = load.data /\ load'.pc = "none"
      /\ load.pc = "loaded"
  BY NoLoadType DEF ShowPage
<1>2. getLearningScanSettings' = getLearningScanSettings
  BY DEF getLearningScanSettings
<1>3. CASE On(load.to.page)
  <2>1. /\ fetcher' = [fetcher EXCEPT
             !.state = IF @ = "loading" THEN "idle" ELSE @]
        /\ UNCHANGED <<action, alone, untold>>
    BY <1>3 DEF ShowPage
  <2>2. fetcher'.ok = fetcher.ok /\ fetcher'.data = fetcher.data
    BY <2>1 DEF TypeOK, CallsTypeOK
  <2>3. Done' = Done /\ Current' = Current
    BY <2>1 DEF Done, Current
  <2> QED
    BY <1>1, <1>2, <1>3, <2>1, <2>2, <2>3 DEF SettingsInv, On, Told
<1>4. CASE ~On(load.to.page)
  <2>1. /\ Current' = NoCall /\ fetcher' = IdleFetcher
        /\ alone' => alone
    BY <1>4, ShowPageTab
  <2>2. ~Done' /\ ~fetcher'.ok
    BY <2>1 DEF Done, NoCall, IdleFetcher
  <2> QED
    BY <1>1, <1>2, <1>4, <2>1, <2>2 DEF SettingsInv, On, Told
<1> QED
  BY <1>3, <1>4
-------------------------------------------------------------------------------
(* The request logs.                                                       *)

LogsInv == WalkInv /\ AheadInv

\* Neither the logs nor what is read of them.
LEMMA LogsUntouched ==
  ASSUME LogsInv, UNCHANGED <<location, loaded, logs, walk>>,
         load' = load \/ load'.pc # "loaded" \/ load'.to.page # "request-logs"
  PROVE  LogsInv'
<1>1. WalkInv'
  BY DEF LogsInv, WalkInv, Covered, AllSeen, Ahead, Tied, LastPage, On
<1>2. CASE load' = load
  <2>1. Walked(load.data)' = Walked(load.data)
    BY <1>2 DEF Walked, Continues, On
  <2>2. AheadInv'
    BY <1>2, <2>1 DEF LogsInv, AheadInv, Covered, AllSeen, Ahead, Tied, LastPage
  <2> QED
    BY <1>1, <2>2 DEF LogsInv
<1>3. CASE load'.pc # "loaded" \/ load'.to.page # "request-logs"
  <2>1. AheadInv'
    BY <1>3 DEF AheadInv
  <2> QED
    BY <1>1, <2>1 DEF LogsInv
<1> QED
  BY <1>2, <1>3

LEMMA LogsElsewhere ==
  ASSUME LogsInv, NEW pages, "request-logs" \notin pages, Elsewhere(pages),
         UNCHANGED <<logs, walk>>
  PROVE  LogsInv'
<1>1. /\ UNCHANGED <<location, loaded>>
      /\ load' = load \/ load'.pc # "loaded" \/ load'.to.page # "request-logs"
  BY DEF Elsewhere
<1> QED
  BY <1>1, LogsUntouched

\* What is known of the logs and their times.
LEMMA LogTimes ==
  ASSUME TypeOK
  PROVE  /\ Len(logs) \in Nat /\ DOMAIN logs = 1 .. Len(logs)
         /\ \A x \in DOMAIN logs : logs[x] \in Nat
         /\ IsFiniteSet(DOMAIN logs) /\ Cardinality(DOMAIN logs) = Len(logs)
         /\ \A some \in SUBSET (DOMAIN logs) :
              IsFiniteSet(some) /\ Cardinality(some) \in Nat
<1>1. logs \in Seq(Time)
  BY DEF TypeOK, ServerTypeOK
<1>2. /\ Len(logs) \in Nat /\ DOMAIN logs = 1 .. Len(logs)
      /\ \A x \in DOMAIN logs : logs[x] \in Time
  BY <1>1
<1>3. IsFiniteSet(1 .. Len(logs)) /\ Cardinality(1 .. Len(logs)) = Len(logs)
  BY <1>2, FS_Interval
<1>4. ASSUME NEW some \in SUBSET (DOMAIN logs)
      PROVE  IsFiniteSet(some) /\ Cardinality(some) \in Nat
  BY <1>2, <1>3, FS_Subset, FS_CardinalityType
<1> QED
  BY <1>2, <1>3, <1>4, TimeAssumption

\* A log is not newer than itself.
LEMMA FewerAhead ==
  ASSUME TypeOK, NEW x \in DOMAIN logs
  PROVE  Cardinality(Ahead(x)) \in Nat /\ Cardinality(Ahead(x)) < Len(logs)
<1>1. Ahead(x) \subseteq DOMAIN logs
  BY DEF Ahead
<1>2. x \notin Ahead(x)
  BY LogTimes DEF Ahead
<1>3. IsFiniteSet(Ahead(x)) /\ Cardinality(Ahead(x)) \in Nat
  BY <1>1, LogTimes
<1>4. Cardinality(Ahead(x) \cup {x}) = Cardinality(Ahead(x)) + 1
  BY <1>2, <1>3, FS_AddElement
<1>5. Cardinality(Ahead(x) \cup {x}) <= Len(logs)
  <2>1. Ahead(x) \cup {x} \subseteq DOMAIN logs
    BY <1>1
  <2> QED
    BY <2>1, LogTimes, FS_Subset
<1> QED
  BY <1>3, <1>4, <1>5, LogTimes

\* Whatever the order of logs of one time, a log that shares its time with no
\* other is among the n newest when fewer than n are newer, and only then.
LEMMA AmongNewest ==
  ASSUME TypeOK, NEW n \in Nat, NEW some \in Newest(n), NEW x \in DOMAIN logs,
         ~Tied(x)
  PROVE  x \in some <=> Cardinality(Ahead(x)) < n
<1>1. /\ some \subseteq DOMAIN logs
      /\ Cardinality(some) = IF n < Len(logs) THEN n ELSE Len(logs)
      /\ \A y \in some, z \in DOMAIN logs \ some : logs[y] >= logs[z]
  BY DEF Newest
<1>2. IsFiniteSet(some) /\ Cardinality(some) \in Nat
  BY <1>1, LogTimes
<1>3. Cardinality(Ahead(x)) \in Nat /\ Cardinality(Ahead(x)) < Len(logs)
      /\ Len(logs) \in Nat
  BY FewerAhead, LogTimes
<1>4. /\ Ahead(x) \subseteq DOMAIN logs /\ IsFiniteSet(Ahead(x))
      /\ x \notin Ahead(x)
  BY LogTimes DEF Ahead
<1>5. CASE x \in some
  <2>1. ASSUME NEW y \in Ahead(x), y \notin some
        PROVE  FALSE
    BY <1>1, <1>5, <2>1, LogTimes DEF Ahead
  <2>2. Ahead(x) \cup {x} \subseteq some
    BY <1>5, <2>1
  <2>3. Cardinality(Ahead(x) \cup {x}) = Cardinality(Ahead(x)) + 1
    BY <1>4, FS_AddElement
  <2>4. Cardinality(Ahead(x) \cup {x}) <= Cardinality(some)
    BY <1>2, <2>2, FS_Subset
  <2> QED
    BY <1>1, <1>3, <1>5, <2>3, <2>4
<1>6. CASE x \notin some
  <2>1. ASSUME NEW y \in some
        PROVE  y \in Ahead(x)
    <3>1. logs[y] >= logs[x] /\ y \in DOMAIN logs
      BY <1>1, <1>6
    <3>2. logs[y] # logs[x]
      BY <1>6, <3>1 DEF Tied
    <3> QED
      BY <3>1, <3>2, LogTimes DEF Ahead
  <2>2. Cardinality(some) <= Cardinality(Ahead(x))
    BY <1>4, <2>1, FS_Subset
  <2> QED
    BY <1>1, <1>2, <1>3, <1>6, <2>2
<1> QED
  BY <1>5, <1>6

\* Who has covered all places has seen every log that was known.
LEMMA AllCovered ==
  ASSUME TypeOK, NEW known \in Nat, known <= Len(logs), NEW seen,
         NEW places \in Nat, Len(logs) <= places, Covered(known, seen, places)
  PROVE  AllSeen(known, seen)
<1>1. SUFFICES ASSUME NEW x \in 1 .. known
               PROVE  Tied(x) \/ x \in seen
  BY DEF AllSeen
<1>2. x \in DOMAIN logs /\ Len(logs) \in Nat
  BY <1>1, LogTimes
<1>3. Cardinality(Ahead(x)) < places
  BY <1>2, FewerAhead
<1> QED
  BY <1>1, <1>3 DEF Covered

\* A page of logs that follows those that were covered.
LEMMA RowsCover ==
  ASSUME TypeOK, load.pc # "none", NEW known \in Nat, known <= Len(logs),
         NEW seen, NEW places \in Nat, Covered(known, seen, places),
         (ClampedPage - 1) * SafeSize <= places, NEW rows \in Rows
  PROVE  Covered(known, seen \cup rows, ClampedPage * SafeSize)
<1> DEFINE skip == (ClampedPage - 1) * SafeSize
<1>1. SafeSize \in Nat \ {0} /\ ClampedPage \in Nat \ {0}
  BY AskedSizes, SizesAssumption
<1>2. skip \in Nat /\ ClampedPage * SafeSize = skip + SafeSize
  BY <1>1
<1>3. PICK before \in Newest(skip) : /\ rows \cap before = {}
                                     /\ rows \cup before \in Newest(skip + SafeSize)
  BY DEF Rows, Skip
<1>4. SUFFICES ASSUME NEW x \in 1 .. known, ~Tied(x),
                      Cardinality(Ahead(x)) < ClampedPage * SafeSize
               PROVE  x \in seen \cup rows
  BY DEF Covered
<1> HIDE DEF skip
<1>5. x \in DOMAIN logs
  BY <1>4, LogTimes
<1>6. Cardinality(Ahead(x)) \in Nat
  BY <1>5, FewerAhead
<1>7. CASE Cardinality(Ahead(x)) < skip
  <2>1. Cardinality(Ahead(x)) < places
    BY <1>2, <1>6, <1>7 DEF skip
  <2> QED
    BY <1>4, <2>1 DEF Covered
<1>8. CASE ~(Cardinality(Ahead(x)) < skip)
  <2>1. x \notin before
    BY <1>2, <1>3, <1>4, <1>5, <1>8, AmongNewest
  <2>2. skip + SafeSize \in Nat /\ Cardinality(Ahead(x)) < skip + SafeSize
    BY <1>1, <1>2, <1>4
  <2>3. x \in rows \cup before
    BY <1>3, <1>4, <1>5, <2>2, AmongNewest
  <2> QED
    BY <2>1, <2>3
<1> QED
  BY <1>7, <1>8

\* Two queries that agree on the number of logs tell the last page rightly.
LEMMA FindLogsAhead ==
  ASSUME TypeOK, CallsInv, LogsInv, FindLogs
  PROVE  LogsInv'
<1>0. /\ load'.to = load.to
      /\ \/ load'.pc = "redirect"
         \/ load'.pc = "loaded" /\ \E rows \in Rows :
              load'.data = [rows |-> rows, total |-> load.total,
                            no |-> ClampedPage, size |-> SafeSize,
                            known |-> Len(logs)]
      /\ UNCHANGED <<location, loaded, logs, walk>>
  BY FindLogsTab DEF FindLogs, Elsewhere
<1>1. CASE load'.pc = "redirect"
  <2>1. load'.pc # "loaded"
    BY <1>1
  <2> QED
    BY <1>0, <2>1, LogsUntouched
<1>2. SUFFICES ASSUME NEW rows \in Rows, load'.pc = "loaded",
                      load'.data = [rows |-> rows, total |-> load.total,
                                    no |-> ClampedPage, size |-> SafeSize,
                                    known |-> Len(logs)]
               PROVE  LogsInv'
  BY <1>0, <1>1
<1> DEFINE data == [rows |-> rows, total |-> load.total, no |-> ClampedPage,
                    size |-> SafeSize, known |-> Len(logs)]
           places == ClampedPage * SafeSize
           next == Walked(load.data)'
<1>3. load'.data = data
  BY <1>2
<1>4. LogsInv'
  <2>1. load.pc # "none" /\ load.total \in Nat
    BY SizesAssumption
    DEF FindLogs, LoaderStep, TypeOK, PageTypeOK, Load
  <2>2. SafeSize \in Nat \ {0} /\ ClampedPage \in Nat \ {0} /\ places \in Nat
    BY <2>1, AskedSizes, SizesAssumption
  <2>3. Len(logs) \in Nat
    BY DEF TypeOK, ServerTypeOK
  <2>4. WalkInv'
    BY <1>0 DEF LogsInv, WalkInv, Covered, AllSeen, Ahead, Tied, LastPage, On
  <2>5. ASSUME next # NoWalk
        PROVE  /\ next.known \in Nat /\ next.known <= Len(logs)
               /\ Covered(next.known, next.seen, places)
               /\ ~next.torn => Len(logs) = load.total
    <3>1. CASE ClampedPage = 1
      <4>1. /\ next.known = Len(logs) /\ next.seen = rows
            /\ ~next.torn => Len(logs) = load.total
        <5>1. PICK torn \in BOOLEAN : torn = (Len(logs) # load.total)
          OBVIOUS
        <5>2. next = [known |-> Len(logs), seen |-> rows, torn |-> torn]
          BY <1>3, <3>1, <5>1 DEF Walked
        <5> HIDE DEF next
        <5> QED
          BY <5>1, <5>2
      <4>2. Covered(Len(logs), {}, 0)
        BY <2>3, FewerAhead, LogTimes DEF Covered
      <4>3. (ClampedPage - 1) * SafeSize <= 0
        BY <2>2, <3>1
      <4>4. Covered(Len(logs), {} \cup rows, places)
        BY <2>1, <4>2, <4>3, RowsCover
      <4>5. {} \cup rows = rows
        OBVIOUS
      <4> HIDE DEF next, places
      <4> QED
        BY <2>3, <4>1, <4>4, <4>5
    <3>2. CASE ClampedPage # 1
      <4>1. /\ On("request-logs") /\ walk # NoWalk
            /\ SafeSize = loaded.size
            /\ ClampedPage \in {loaded.no, loaded.no + 1}
            /\ next = [walk EXCEPT !.seen = @ \cup rows,
                                   !.torn = @ \/ Len(logs) # load.total]
        BY <1>0, <1>3, <2>5, <3>2 DEF Walked, Continues, On
      <4>2. walk \in [known : 0 .. MaxLogs, seen : SUBSET (1 .. MaxLogs),
                      torn : BOOLEAN]
        BY DEF TypeOK, ServerTypeOK
      <4>3. next.known = walk.known /\ next.seen = walk.seen \cup rows
            /\ (~next.torn => Len(logs) = load.total)
        BY <4>1, <4>2
      <4>4. /\ walk.known <= Len(logs) /\ walk.known \in Nat
            /\ Covered(walk.known, walk.seen, loaded.no * loaded.size)
        BY <4>1, <4>2, SizesAssumption DEF LogsInv, WalkInv
      <4>5. loaded.no \in Nat \ {0}
        <5>1. loaded \in LogsData
          BY <4>1, PageData DEF TypeOK, PageTypeOK, On
        <5> QED
          BY <5>1 DEF LogsData
      <4>6. /\ loaded.no * loaded.size \in Nat
            /\ (ClampedPage - 1) * SafeSize <= loaded.no * loaded.size
        <5>1. CASE ClampedPage = loaded.no
          <6>1. loaded.no * SafeSize = (loaded.no - 1) * SafeSize + SafeSize
            BY <2>2, <4>5
          <6> QED
            BY <2>2, <4>1, <4>5, <5>1, <6>1
        <5>2. CASE ClampedPage = loaded.no + 1
          BY <2>2, <4>1, <4>5, <5>2
        <5> QED
          BY <4>1, <5>1, <5>2
      <4>7. Covered(walk.known, walk.seen \cup rows, places)
        BY <2>1, <4>4, <4>6, RowsCover
      <4> QED
        BY <4>3, <4>4, <4>7
    <3> QED
      BY <3>1, <3>2
  <2>6. ASSUME next # NoWalk, ~next.torn, LastPage(data)
        PROVE  AllSeen(next.known, next.seen)
    <3>1. places >= load.total
      BY <2>1, <2>2, <2>6, PagesHold DEF LastPage
    <3> HIDE DEF next
    <3> QED
      BY <2>2, <2>3, <2>5, <2>6, <3>1, AllCovered DEF LogsInv
  <2>7. AheadInv'
    <3> HIDE DEF next
    <3>1. \A x : Ahead(x)' = Ahead(x) /\ Tied(x)' = Tied(x)
      BY <1>0 DEF Ahead, Tied
    <3>4. load'.data.no * load'.data.size = places
      BY <1>3
    <3>2. LastPage(load.data)' => LastPage(data)
      BY <1>3 DEF LastPage
    <3>3. next # NoWalk =>
            /\ next.known <= Len(logs')
            /\ Covered(next.known, next.seen, places)
            /\ ~next.torn /\ LastPage(load.data)' =>
                 AllSeen(next.known, next.seen)
      BY <1>0, <2>5, <2>6, <3>2
    <3> HIDE DEF places
    <3> QED
      BY <3>1, <3>3, <3>4 DEF AheadInv, Covered, AllSeen, next
  <2> QED
    BY <2>4, <2>7 DEF LogsInv
<1> QED
  BY <1>4

\* A new log has at most pushed others further.
LEMMA NewLogKeeps ==
  ASSUME TypeOK, LogsInv, NewLog
  PROVE  LogsInv'
<1>1. /\ logs' \in Seq(Time) /\ Len(logs') = Len(logs) + 1
      /\ \A x \in 1 .. Len(logs) : logs'[x] = logs[x]
      /\ UNCHANGED <<location, loaded, load, walk>>
  BY NewLogTable DEF NewLog, tab, shell
<1>2. /\ Len(logs) \in Nat /\ DOMAIN logs = 1 .. Len(logs)
      /\ DOMAIN logs' = 1 .. Len(logs) + 1
  BY <1>1, LogTimes
<1>3. ASSUME NEW x \in 1 .. Len(logs)
      PROVE  /\ Tied(x) => Tied(x)'
             /\ Cardinality(Ahead(x)) \in Nat /\ Cardinality(Ahead(x)') \in Nat
             /\ Cardinality(Ahead(x)) <= Cardinality(Ahead(x)')
  <2>1. DOMAIN logs \subseteq DOMAIN logs' /\ x \in DOMAIN logs
    BY <1>2
  <2>2. Tied(x) => Tied(x)'
    BY <1>1, <1>2, <2>1 DEF Tied
  <2>3. Ahead(x) \subseteq Ahead(x)'
    BY <1>1, <1>2, <2>1 DEF Ahead
  <2>4. IsFiniteSet(DOMAIN logs')
    BY <1>2, FS_Interval
  <2>5. Ahead(x)' \subseteq DOMAIN logs'
    BY DEF Ahead
  <2>6. IsFiniteSet(Ahead(x)')
    BY <2>4, <2>5, FS_Subset
  <2> QED
    BY <2>2, <2>3, <2>6, FS_Subset, FS_CardinalityType
<1>4. ASSUME NEW known \in Nat, known <= Len(logs), NEW seen, AllSeen(known, seen)
      PROVE  AllSeen(known, seen)'
  <2>1. \A x \in 1 .. known : Tied(x)' \/ x \in seen
    BY <1>2, <1>3, <1>4 DEF AllSeen
  <2> QED
    BY <2>1 DEF AllSeen
<1>5. ASSUME NEW known \in Nat, known <= Len(logs), NEW seen, NEW places \in Nat,
             Covered(known, seen, places)
      PROVE  \A x \in 1 .. known :
               Cardinality(Ahead(x)') < places => Tied(x)' \/ x \in seen
  <2>1. SUFFICES ASSUME NEW x \in 1 .. known, Cardinality(Ahead(x)') < places
                 PROVE  Tied(x)' \/ x \in seen
    OBVIOUS
  <2>2. x \in 1 .. Len(logs)
    BY <1>2, <1>5
  <2>3. Cardinality(Ahead(x)) < places
    BY <1>3, <1>5, <2>1, <2>2
  <2> QED
    BY <1>3, <1>5, <2>2, <2>3 DEF Covered
<1>6. walk.known \in Nat
  BY SizesAssumption DEF TypeOK, ServerTypeOK
<1>7. WalkInv'
  <2>1. SUFFICES ASSUME On("request-logs"), walk # NoWalk
                 PROVE  /\ walk.known <= Len(logs')
                        /\ Covered(walk.known, walk.seen,
                                   loaded.no * loaded.size)'
                        /\ ~walk.torn /\ LastPage(loaded) =>
                             AllSeen(walk.known, walk.seen)'
    BY <1>1 DEF WalkInv, LastPage, On
  <2>2. loaded.no * loaded.size \in Nat
    <3>1. loaded \in LogsData
      BY <2>1, PageData DEF TypeOK, PageTypeOK, On
    <3> QED
      BY <3>1, SizesAssumption DEF LogsData
  <2>3. /\ walk.known <= Len(logs)
        /\ Covered(walk.known, walk.seen, loaded.no * loaded.size)
        /\ ~walk.torn /\ LastPage(loaded) => AllSeen(walk.known, walk.seen)
    BY <2>1 DEF LogsInv, WalkInv
  <2>4. Covered(walk.known, walk.seen, loaded.no * loaded.size)'
    BY <1>1, <1>5, <1>6, <2>2, <2>3 DEF Covered
  <2>5. AllSeen(walk.known, walk.seen) => AllSeen(walk.known, walk.seen)'
    BY <1>1, <1>4, <1>6, <2>3 DEF AllSeen
  <2> QED
    BY <1>1, <1>2, <1>6, <2>3, <2>4, <2>5
<1>8. AheadInv'
  <2> DEFINE next == Walked(load.data)
  <2>1. SUFFICES ASSUME load.pc = "loaded", load.to.page = "request-logs",
                        next # NoWalk
                 PROVE  /\ next.known <= Len(logs')
                        /\ Covered(next.known, next.seen,
                                   load.data.no * load.data.size)'
                        /\ ~next.torn /\ LastPage(load.data) =>
                             AllSeen(next.known, next.seen)'
    <3>1. next' = next
      BY <1>1 DEF Walked, Continues, On
    <3> HIDE DEF next
    <3> QED
      BY <1>1, <3>1 DEF AheadInv, LastPage, next
  <2>2. load.data.no * load.data.size \in Nat /\ next.known \in Nat
    <3>1. load.data \in LogsData
      BY <2>1, PageData DEF TypeOK, PageTypeOK
    <3>2. next.known \in 0 .. MaxLogs
      BY <3>1, WalkedType
    <3> QED
      BY <3>1, <3>2, SizesAssumption DEF LogsData
  <2>3. next' = next
    BY <1>1 DEF Walked, Continues, On
  <2>4. /\ next.known <= Len(logs)
        /\ Covered(next.known, next.seen, load.data.no * load.data.size)
        /\ ~next.torn /\ LastPage(load.data) => AllSeen(next.known, next.seen)
    BY <2>1 DEF LogsInv, AheadInv
  <2> HIDE DEF next
  <2>5. Covered(next.known, next.seen, load.data.no * load.data.size)'
    BY <1>1, <1>5, <2>2, <2>3, <2>4 DEF Covered
  <2>6. AllSeen(next.known, next.seen) => AllSeen(next.known, next.seen)'
    BY <1>1, <1>4, <2>2, <2>3, <2>4 DEF AllSeen
  <2> QED
    BY <1>1, <1>2, <2>2, <2>4, <2>5, <2>6
<1> QED
  BY <1>7, <1>8 DEF LogsInv

LEMMA LogsOwn ==
  ASSUME TypeOK, CallsInv, LogsInv, LogsStep
  PROVE  LogsInv'
<1>1. CASE CountLogs
  <2>1. UNCHANGED <<location, loaded, logs, walk>> /\ load'.pc = "counted"
    BY <1>1 DEF CountLogs, LoadGoesOn, TypeOK, PageTypeOK, Load
  <2> QED
    BY <2>1, LogsUntouched
<1> QED
  BY <1>1, FindLogsAhead, NewLogKeeps DEF LogsStep

\* What the data of a load promised is what the page shows.
LEMMA LogsShown ==
  ASSUME LogsInv, ShowLogs
  PROVE  LogsInv'
<1>1. /\ location' = load.to /\ loaded' = load.data /\ load'.pc = "none"
      /\ load.pc = "loaded" /\ logs' = logs
      /\ load.to.page = "request-logs" => walk' = Walked(load.data)
  BY NoLoadType DEF ShowLogs, ShowPage
<1>2. AheadInv'
  BY <1>1 DEF LogsInv, AheadInv
<1>3. WalkInv'
  BY <1>1 DEF LogsInv, WalkInv, AheadInv, Covered, AllSeen, Ahead, Tied, LastPage, On
<1> QED
  BY <1>2, <1>3 DEF LogsInv
-------------------------------------------------------------------------------
(* The invariant.                                                          *)

LEMMA LogsStart ==
  ASSUME LogsInit
  PROVE  logs \in Seq(Time) /\ Len(logs) <= MaxLogs /\ walk = NoWalk
<1>1. PICK n \in 0 .. MaxLogs : logs \in [1 .. n -> Time]
  BY DEF LogsInit
<1>2. n \in Nat /\ n <= MaxLogs /\ MaxLogs \in Nat
  BY SizesAssumption
<1>3. logs \in Seq(Time) /\ Len(logs) = n
  BY <1>1, <1>2
<1> QED
  BY <1>2, <1>3 DEF LogsInit

LEMMA InvInit ==
  ASSUME Init
  PROVE  Inv
<1>1. /\ location = Blank /\ loaded = None /\ load = NoLoad
      /\ fetcher = IdleFetcher /\ action = [s \in Slot |-> NoCall]
      /\ selected = None /\ reader = NoReader /\ saved = None /\ alone = TRUE
      /\ untold = FALSE
  BY DEF Init, TabInit
<1>2. PageTypeOK
  BY <1>1, NoLoadType, Pages DEF PageTypeOK, On, NoReader, Node
<1>3. CallsTypeOK
  BY <1>1, NoCallType DEF CallsTypeOK, IdleFetcher, Answer
<1>4. ServerTypeOK
  <2>1. requests \in [Finding -> Status]
    BY DEF Init, FindingsInit, Status
  <2>2. mappings \subseteq Endpoint \X Role
    BY NodesAssumption DEF Init, GraphInit
  <2>3. /\ logs \in Seq(Time) /\ Len(logs) <= MaxLogs
        /\ walk \in [known : 0 .. MaxLogs, seen : SUBSET (1 .. MaxLogs),
                     torn : BOOLEAN]
    <3>1. /\ logs \in Seq(Time) /\ Len(logs) <= MaxLogs
          /\ walk = NoWalk
      BY LogsStart DEF Init
    <3>2. NoWalk \in [known : 0 .. MaxLogs, seen : SUBSET (1 .. MaxLogs),
                      torn : BOOLEAN]
      BY SizesAssumption DEF NoWalk
    <3> QED
      BY <3>1, <3>2
  <2>4. stored \in {None} \cup Documents
    BY FormsAssumption DEF Init, SettingsInit
  <2> QED
    BY <2>1, <2>2, <2>3, <2>4 DEF ServerTypeOK
<1>5. TypeOK
  BY <1>2, <1>3, <1>4, BoundsAssumption DEF TypeOK, Init
<1>6. CallsInv
  BY <1>1 DEF CallsInv, Current, Slot, NoCall, IdleFetcher
<1>7. ~On("findings") /\ ~On(Graph) /\ ~On("settings") /\ ~On("request-logs")
      /\ load.pc = "none" /\ Current = NoCall
  BY <1>1, NoLoadType, Pages DEF On, Graph, Current, Slot
<1>8. FindingsInv /\ RolesInv /\ SettingsInv
  BY <1>7 DEF FindingsInv, RolesInv, SettingsInv, NoCall
<1>9. WalkInv /\ AheadInv
  BY <1>7, LogsStart DEF WalkInv, AheadInv, Init
<1> QED
  BY <1>5, <1>6, <1>8, <1>9 DEF Inv

\* Nothing is shown, nothing is loaded, nothing is waited for.
LEMMA LosePageKeeps ==
  ASSUME TypeOK, CallsInv, LogsInv, LosePage, UNCHANGED logs
  PROVE  FindingsInv' /\ RolesInv' /\ SettingsInv' /\ LogsInv'
<1>1. location' = Blank /\ load' = NoLoad /\ Current' = NoCall
  BY LosePageTab
<1>2. /\ location'.page = "none" /\ load'.pc = "none"
      /\ Current'.pc = "none" /\ Current'.page = "none"
  BY <1>1, Pages, NoLoadType DEF NoCall
<1>3. FindingsInv' /\ RolesInv' /\ SettingsInv'
  BY <1>2 DEF FindingsInv, RolesInv, SettingsInv, On, Graph
<1>4. WalkInv' /\ AheadInv'
  BY <1>2 DEF LogsInv, WalkInv, AheadInv, On
<1> QED
  BY <1>3, <1>4 DEF LogsInv

LEMMA InvNext ==
  ASSUME Inv, Next
  PROVE  Inv'
<1>1. /\ TypeOK /\ CallsInv /\ FindingsInv /\ RolesInv
      /\ SettingsInv /\ LogsInv
  BY DEF Inv, LogsInv
<1>2. TypeOK' /\ CallsInv'
  BY <1>1, TypesKept
<1>3. SUFFICES FindingsInv' /\ RolesInv' /\ SettingsInv' /\ LogsInv'
  BY <1>2 DEF Inv, LogsInv
<1>4. CASE Elsewhere({}) /\ OnlyTab
  <2>1. UNCHANGED <<requests, mappings, logs, walk, stored>>
    BY <1>4 DEF OnlyTab
  <2> QED
    BY <1>1, <1>2, <1>4, <2>1, FindingsElsewhere, RolesElsewhere,
       SettingsElsewhere, LogsElsewhere
<1>5. CASE LosePage /\ OnlyTab
  BY <1>1, <1>5, LosePageKeeps DEF OnlyTab
<1>6. CASE ShowLogs /\ OnlyLogs
  BY <1>1, <1>6, FindingsShow, RolesShow, SettingsShow, LogsShown
  DEF ShowLogs, OnlyLogs
<1>7. CASE ReceiveAnswer /\ OnlyTab
  <2>1. /\ UNCHANGED <<location, loaded>>
        /\ UNCHANGED <<requests, mappings, logs, walk, stored>>
        /\ load' = load \/ load'.pc = "sent"
    BY <1>1, <1>7, ReceiveTab DEF ReceiveAnswer, OnlyTab
  <2> QED
    BY <1>1, <1>7, <2>1, FindingsReceive, RolesReceive, SettingsReceive,
       LogsUntouched
<1>8. CASE FindingsStep /\ OnlyFindings
  <2>1. /\ UNCHANGED <<mappings, logs, walk, stored>>
        /\ Elsewhere(FindingsPages)
    BY <1>1, <1>8, FindingsTab DEF OnlyFindings
  <2>2. /\ Graph \notin FindingsPages /\ "request-logs" \notin FindingsPages
        /\ "settings" \notin FindingsPages
    BY DEF FindingsPages, Graph
  <2> QED
    BY <1>1, <1>2, <1>8, <2>1, <2>2, FindingsOwn, RolesElsewhere,
       SettingsElsewhere, LogsElsewhere
<1>9. CASE GraphStep /\ OnlyGraph
  <2>1. /\ UNCHANGED <<requests, logs, walk, stored>>
        /\ Elsewhere({Graph})
    BY <1>1, <1>9, GraphTab DEF OnlyGraph
  <2>2. /\ "findings" \notin {Graph} /\ "request-logs" \notin {Graph}
        /\ "settings" \notin {Graph}
    BY DEF Graph
  <2> QED
    BY <1>1, <1>2, <1>9, <2>1, <2>2, FindingsElsewhere, RolesOwn,
       SettingsElsewhere, LogsElsewhere
<1>10. CASE LogsStep /\ OnlyLogs
  <2>1. /\ UNCHANGED <<requests, mappings, stored>>
        /\ Elsewhere({"request-logs"})
    BY <1>1, <1>10, LogsTab DEF OnlyLogs
  <2>2. /\ "findings" \notin {"request-logs"} /\ Graph \notin {"request-logs"}
        /\ "settings" \notin {"request-logs"}
    BY DEF Graph
  <2> QED
    BY <1>1, <1>2, <1>10, <2>1, <2>2, FindingsElsewhere, RolesElsewhere,
       SettingsElsewhere, LogsOwn
<1>11. CASE SettingsStep /\ OnlySettings
  <2>1. /\ UNCHANGED <<requests, mappings, logs, walk>>
        /\ Elsewhere({"settings"})
    BY <1>1, <1>11, SettingsTab DEF OnlySettings
  <2>2. /\ "findings" \notin {"settings"} /\ Graph \notin {"settings"}
        /\ "request-logs" \notin {"settings"}
    BY DEF Graph
  <2> QED
    BY <1>1, <1>2, <1>11, <2>1, <2>2, FindingsElsewhere, RolesElsewhere,
       SettingsOwn, LogsElsewhere
<1>12. CASE RunEffect /\ OnlyTab
  <2>1. /\ UNCHANGED <<location, loaded>>
        /\ UNCHANGED <<requests, mappings, logs, walk, stored>>
        /\ load'.pc = "sent"
    BY <1>1, <1>12, EffectTab DEF RunEffect, OnlyTab
  <2> QED
    BY <1>1, <1>12, <2>1, FindingsEffect, RolesEffect, SettingsEffect,
       LogsUntouched
<1> QED
  BY <1>1, <1>4, <1>5, <1>6, <1>7, <1>8, <1>9, <1>10, <1>11, <1>12, Steps

\* A step that changes nothing.
LEMMA InvStutter ==
  ASSUME Inv, UNCHANGED vars
  PROVE  Inv'
<1>1. /\ UNCHANGED <<location, loaded, load, fetcher, action, selected, reader,
                     saved, alone, untold>>
      /\ UNCHANGED <<requests, mappings, logs, walk, stored, clicks, changes>>
  BY DEF vars, tab, shell
<1>2. TypeOK' /\ CallsInv'
  BY <1>1 DEF Inv, TypeOK, PageTypeOK, CallsTypeOK, ServerTypeOK, CallsInv,
              Current, On
<1>3. Elsewhere({})
  BY <1>1 DEF Elsewhere, SameCall, Current
<1>4. LogsInv
  BY DEF Inv, LogsInv
<1> QED
  BY <1>1, <1>2, <1>3, <1>4, FindingsElsewhere, RolesElsewhere,
     SettingsElsewhere, LogsElsewhere DEF Inv, LogsInv

\* The invariant holds in every reachable state.
THEOREM Invariance == Spec => []Inv
<1>1. Init => Inv
  BY InvInit
<1>2. Inv /\ [Next]_vars => Inv'
  BY InvNext, InvStutter
<1> QED
  BY <1>1, <1>2, PTL DEF Spec

\* Every page holds data of its own kind, and so does every load, call and
\* answer, whichever page they come back to.
THEOREM TypeCorrectness == Spec => []TypeOK
<1>1. Inv => TypeOK
  BY DEF Inv
<1> QED
  BY <1>1, Invariance, PTL

\* The page of a session that is alone is told that an analysis is in progress
\* only after an error that came although its own request is running: what the
\* button offers and what the transaction refuses agree.
THEOREM Refused == Spec => []RefusedForCause
<1>1. Inv => RefusedForCause
  BY ErrorAssumption DEF Inv, FindingsInv, Told, RefusedForCause, deepAnalysisError
<1> QED
  BY <1>1, Invariance, PTL

\* A sheet that does not say that it saves shows the roles as the last change
\* of this session has left them, but for the moment between the render of an
\* answer and its effect, and for changes that were answered with an error.
THEOREM SavedRoles == Spec => []SavedRolesAreShown
<1>1. ASSUME Inv
      PROVE  SavedRolesAreShown
  <2>1. fetcher.state # "submitting" => ~Done
    BY <1>1 DEF Inv, CallsInv, Done
  <2> QED
    BY <1>1, <2>1 DEF Inv, RolesInv, Shows, SavedRolesAreShown, isSavingRoles
<1> QED
  BY <1>1, Invariance, PTL

\* Who walks from the first page of the request logs to the last, with no log
\* arriving within a load, has seen every log there was at the first that
\* shares its timestamp with no other.
THEOREM NothingSkipped == Spec => []NothingIsSkipped
<1>1. Inv => NothingIsSkipped
  BY DEF Inv, WalkInv, AllSeen, LastPage, NothingIsSkipped, totalPages
<1> QED
  BY <1>1, Invariance, PTL

\* Between two saves the form of a session that is alone shows what the next
\* scan is sent with, unless a save was stored but answered with an error.
THEOREM SettingsShown == Spec => []ShownSettingsAreStored
<1>1. ASSUME Inv
      PROVE  ShownSettingsAreStored
  <2>1. fetcher.state # "submitting" => ~Done
    BY <1>1 DEF Inv, CallsInv, Done
  <2>2. fetcher.state = "loading" => fetcher.ok
    BY <1>1 DEF Inv, CallsInv
  <2> QED
    BY <1>1, <2>1, <2>2 DEF Inv, SettingsInv, ShownSettingsAreStored, shownSettings
<1> QED
  BY <1>1, Invariance, PTL
===============================================================================
