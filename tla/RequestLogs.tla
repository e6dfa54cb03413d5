------------------------------- MODULE RequestLogs -------------------------------
(***************************************************************************)
(* The page of the request logs, newest first, in pages.  The loader       *)
(* counts the logs and reads one page of them in two queries; an address   *)
(* that names no such page is redirected to one that exists.  Logs are     *)
(* never deleted.  They carry the time of the request, not of its arrival, *)
(* so that a late one lands between older ones.  Several may have the same *)
(* time: in which order a query returns those is the database's choice.    *)
(***************************************************************************)
EXTENDS BrowserTab, Sequences, FiniteSets

CONSTANTS DEFAULT_PAGE_SIZE, MAX_PAGE_SIZE,
          PAGE_SIZES,       \* choices of the page
          Time,             \* timestamps
          MaxLogs           \* bound: logs

ASSUME SizesAssumption ==
  /\ DEFAULT_PAGE_SIZE \in 1 .. MAX_PAGE_SIZE
  /\ PAGE_SIZES \subseteq 1 .. MAX_PAGE_SIZE
  /\ MAX_PAGE_SIZE \in Nat /\ MaxLogs \in Nat

ASSUME TimeAssumption == Time \subseteq Nat

VARIABLES logs,   \* timestamps of the logs, in the order they have arrived
          walk    \* history: what was read from the first page by Next only

NoWalk == [known |-> 0, seen |-> {}, torn |-> FALSE]

LogsInit == /\ \E n \in 0 .. MaxLogs : logs \in [1 .. n -> Time]
            /\ walk = NoWalk
-------------------------------------------------------------------------------
(* getRequestLogsPaginated and the loader.                                 *)

parsePositiveInt(value, fallback) == IF value > 0 THEN value ELSE fallback

AskedPage == parsePositiveInt(load.to.no, 1)

AskedSize == parsePositiveInt(load.to.size, DEFAULT_PAGE_SIZE)

SafeSize == IF AskedSize > MAX_PAGE_SIZE THEN MAX_PAGE_SIZE ELSE AskedSize

TotalPages(total, size) == IF total = 0 THEN 1 ELSE (total + size - 1) \div size

ClampedPage == LET pages == TotalPages(load.total, SafeSize) IN
               IF AskedPage > pages THEN pages ELSE AskedPage

CountLogs ==
  /\ LoaderStep("request-logs", "sent")
  /\ LoadGoesOn([load EXCEPT !.pc = "counted", !.total = Len(logs)])
  /\ UNCHANGED <<logs, walk>>

\* Faulty variant: pages are counted from 0.
SkipFromZero(no, size) == no * size

Skip(no, size) == (no - 1) * size

\* What a query may take for the n newest logs.
Newest(n) == {some \in SUBSET (DOMAIN logs) :
                /\ Cardinality(some) = IF n < Len(logs) THEN n ELSE Len(logs)
                /\ \A x \in some, y \in DOMAIN logs \ some :
                     logs[x] >= logs[y]}

\* orderBy timestamp, skip, take.
Rows == LET skip == Skip(ClampedPage, SafeSize) IN
        {rows \in SUBSET (DOMAIN logs) :
           \E before \in Newest(skip) : /\ rows \cap before = {}
                                       /\ rows \cup before \in Newest(skip + SafeSize)}

\* known: the logs there are, a history of the page.
FindLogs ==
  /\ LoaderStep("request-logs", "counted")
  /\ \E rows \in Rows :
       LoadGoesOn(
         IF AskedPage = ClampedPage /\ AskedSize = SafeSize
         THEN [load EXCEPT !.pc = "loaded",
                           !.data = [rows |-> rows, total |-> load.total,
                                     no |-> ClampedPage, size |-> SafeSize,
                                     known |-> Len(logs)]]
         ELSE [load EXCEPT !.pc = "redirect",
                           !.data = Url("request-logs", ClampedPage, SafeSize)])
  /\ UNCHANGED <<logs, walk>>

NewLog == /\ Len(logs) < MaxLogs
          /\ \E time \in Time : logs' = Append(logs, time)
          /\ UNCHANGED <<tab, walk>>
-------------------------------------------------------------------------------
(* The page.                                                               *)

totalPages == TotalPages(loaded.total, loaded.size)

SetPageSize(size) == /\ On("request-logs")
                     /\ Go(Url("request-logs", 1, size))
                     /\ UNCHANGED <<logs, walk>>

Previous == /\ On("request-logs")
            /\ loaded.no > 1
            /\ Go(Url("request-logs", loaded.no - 1, loaded.size))
            /\ UNCHANGED <<logs, walk>>

NextPage == /\ On("request-logs")
            /\ loaded.no < totalPages
            /\ Go(Url("request-logs", loaded.no + 1, loaded.size))
            /\ UNCHANGED <<logs, walk>>

Continues(data) ==
  /\ On("request-logs")
  /\ walk # NoWalk
  /\ data.size = loaded.size
  /\ data.no \in {loaded.no, loaded.no + 1}

Walked(data) ==
  LET torn == data.known # data.total IN
  IF data.no = 1 THEN [known |-> data.known, seen |-> data.rows, torn |-> torn]
  ELSE IF Continues(data)
  THEN [walk EXCEPT !.seen = @ \cup data.rows, !.torn = @ \/ torn]
  ELSE NoWalk

\* A page is shown, of the request logs or another.
ShowLogs == /\ ShowPage
            /\ walk' = IF load.to.page = "request-logs" THEN Walked(load.data)
                       ELSE NoWalk
            /\ UNCHANGED logs

LogsUser == Previous \/ NextPage \/ \E size \in PAGE_SIZES : SetPageSize(size)

LogsServer == CountLogs \/ FindLogs \/ ShowLogs
-------------------------------------------------------------------------------
\* The order of logs of the same time may be another one in every query.
Tied(x) == \E y \in DOMAIN logs \ {x} : logs[y] = logs[x]

\* Who walks from the first page to the last sees every log there was at the
\* first, however many arrive meanwhile and wherever they land: they only
\* push others to a later page.  There are two exceptions.  A log that arrives
\* between the two queries of one load has the last page told too early; and
\* of logs that share a timestamp one may be shown twice and another never.
NothingIsSkipped ==
  On("request-logs") /\ walk # NoWalk /\ ~walk.torn /\ loaded.no = totalPages
  => \A x \in 1 .. walk.known : Tied(x) \/ x \in walk.seen
===============================================================================
