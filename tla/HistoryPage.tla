----------------------------- MODULE HistoryPage -----------------------------
(***************************************************************************)
(* DispatchHistoryPage.tsx over the dispatch log: an administrator turns   *)
(* pages, searches and refreshes while dispatches add records.  A load is  *)
(* an HTTP request; the server answers loads in any order, and an answer   *)
(* or a failure reaches the page at any later time.                        *)
(***************************************************************************)
EXTENDS DispatchLog

CONSTANTS
    PageSize,     \* PAGE_SIZE
    MaxPage,      \* bound: pages the administrator turns to
    MaxLoads,     \* bound: loads of the record list
    Unanswered    \* a load the server has not seen yet

ASSUME PageAssumption ==
    PageSize \in 1 .. MaxLimit /\ MaxPage \in Nat \ {0} /\ MaxLoads \in Nat \ {0}

VARIABLES
    page,         \* currentPage
    search,       \* activeSearch
    loadId,       \* loadIdRef.current
    loads,        \* loadHistory calls under way
    loading,      \* the spinner of the table
    shown,        \* the load whose answer is on the screen
    failedLoad,   \* history: the latest load whose failure was reported
    statLoads,    \* loadStats calls under way
    stats,        \* totalDispatched on the screen
    refreshing,   \* parts of handleRefresh under way; the button is disabled
    walk          \* history: the pages read one after the other from page 1

listVars  == <<page, search, loadId, loads, loading, shown, failedLoad, walk>>
statVars  == <<statLoads, stats>>
vars == <<logVars, listVars, statVars, refreshing>>

Searches == Keywords \cup {NoSearch}

Load(id, p, s, refresh) ==
    [id |-> id, page |-> p, search |-> s, refresh |-> refresh, answer |-> Unanswered]

StatLoad(n, refresh) == [n |-> n, refresh |-> refresh, answer |-> Unanswered]

NoWalk == [depth |-> 0, opened |-> 0, search |-> NoSearch, seen |-> {}]

\* The mount effect has called loadHistory(1) and loadStats().
Init ==
    /\ LogInit
    /\ page = 1 /\ search = NoSearch
    /\ loadId = 1 /\ loads = {Load(1, 1, NoSearch, FALSE)} /\ loading = TRUE
    /\ shown = [id |-> 0, page |-> 1, search |-> NoSearch]
    /\ failedLoad = 0
    /\ statLoads = {StatLoad(1, FALSE)} /\ stats = 0
    /\ refreshing = {}
    /\ walk = NoWalk
-----------------------------------------------------------------------------
\* loadHistory up to its await.
StartLoad(p, s, refresh) ==
    /\ loadId < MaxLoads
    /\ loadId' = loadId + 1
    /\ loads' = loads \cup {Load(loadId + 1, p, s, refresh)}
    /\ loading' = (loading \/ ~refresh)

\* handlePageChange
TurnTo(p) ==
    /\ page' = p
    /\ StartLoad(p, search, FALSE)
    /\ UNCHANGED <<logVars, search, shown, failedLoad, walk, statVars,
                   refreshing>>

\* handleSearch and handleClearSearch
SearchFor(s) ==
    /\ search' = s /\ page' = 1
    /\ StartLoad(1, s, FALSE)
    /\ UNCHANGED <<logVars, shown, failedLoad, walk, statVars, refreshing>>

\* handleRefresh; its button is disabled until both parts are over.
Refresh ==
    /\ refreshing = {}
    /\ refreshing' = {"records", "stats"}
    /\ StartLoad(page, search, TRUE)
    /\ statLoads' = statLoads \cup {StatLoad(loadId + 1, TRUE)}
    /\ UNCHANGED <<logVars, page, search, shown, failedLoad, walk, stats>>
-----------------------------------------------------------------------------
\* Mutant of Query: pages are counted from 0.
QueryFromZero(c) == GetDispatchRecords(PageSize, c.page * PageSize, c.search)

\* GET /api/dispatch-history
Query(c) == GetDispatchRecords(PageSize, (c.page - 1) * PageSize, c.search)

Answered(c) == c.answer # Unanswered

ServeList(c) ==
    /\ ~Answered(c)
    /\ loads' = (loads \ {c}) \cup
           {[c EXCEPT !.answer = [result |-> Query(c), at |-> idSeq]]}
    /\ UNCHANGED <<logVars, page, search, loadId, loading, shown, failedLoad,
                   walk, statVars, refreshing>>

\* GET /api/dispatch-stats
ServeStats(c) ==
    /\ ~Answered(c)
    /\ statLoads' = (statLoads \ {c}) \cup
           {[c EXCEPT !.answer = totals.dispatched]}
    /\ UNCHANGED <<logVars, listVars, stats, refreshing>>

\* Pages of one search read in order; any other page ends the walk.
Walked(c) ==
    LET ids == {rec.id : rec \in {c.answer.result.records[i] :
                                  i \in DOMAIN c.answer.result.records}}
    IN  IF c.page = 1
        THEN [depth |-> 1, opened |-> c.answer.at, search |-> c.search, seen |-> ids]
        ELSE IF walk.depth > 0 /\ c.search = walk.search /\ c.page = walk.depth + 1
        THEN [walk EXCEPT !.depth = @ + 1, !.seen = @ \cup ids]
        ELSE NoWalk

PartOver(c, part) == refreshing' = IF c.refresh THEN refreshing \ {part} ELSE refreshing

\* Mutant of ArriveList: an old answer is shown as well.
ArriveListUnguarded(c) ==
    /\ Answered(c)
    /\ loads' = loads \ {c} /\ PartOver(c, "records")
    /\ shown' = [id |-> c.id, page |-> c.page, search |-> c.search]
    /\ loading' = FALSE /\ walk' = Walked(c)
    /\ UNCHANGED <<logVars, page, search, loadId, failedLoad, statVars>>

\* An answer arrives; that of a load that is not the latest is dropped.
ArriveList(c) ==
    /\ Answered(c)
    /\ loads' = loads \ {c} /\ PartOver(c, "records")
    /\ IF c.id = loadId
       THEN /\ shown' = [id |-> c.id, page |-> c.page, search |-> c.search]
            /\ loading' = FALSE /\ walk' = Walked(c)
       ELSE UNCHANGED <<shown, loading, walk>>
    /\ UNCHANGED <<logVars, page, search, loadId, failedLoad, statVars>>

\* Mutant of FailList: the spinner goes on after a failure.
FailListKeepsSpinner(c) ==
    /\ loads' = loads \ {c} /\ PartOver(c, "records")
    /\ failedLoad' = IF c.id = loadId THEN c.id ELSE failedLoad
    /\ UNCHANGED <<logVars, page, search, loadId, loading, shown, walk, statVars>>

\* The request fails; only the latest load reports it.
FailList(c) ==
    /\ loads' = loads \ {c} /\ PartOver(c, "records")
    /\ IF c.id = loadId THEN loading' = FALSE /\ failedLoad' = c.id
                        ELSE UNCHANGED <<loading, failedLoad>>
    /\ UNCHANGED <<logVars, page, search, loadId, shown, walk, statVars>>

\* loadStats takes every answer, in whatever order.
ArriveStats(c) ==
    /\ Answered(c)
    /\ statLoads' = statLoads \ {c} /\ PartOver(c, "stats")
    /\ stats' = c.answer
    /\ UNCHANGED <<logVars, listVars>>

\* Mutant of FailStats: the refresh button stays disabled.
FailStatsKeepsButton(c) ==
    /\ statLoads' = statLoads \ {c}
    /\ UNCHANGED <<logVars, listVars, stats, refreshing>>

FailStats(c) ==
    /\ statLoads' = statLoads \ {c} /\ PartOver(c, "stats")
    /\ UNCHANGED <<logVars, listVars, stats>>

\* dispatchMessage adds a record meanwhile; the page does not look at outcomes.
Record ==
    /\ idSeq < MaxRecords
    /\ \E text \in Texts : Add(text, [success |-> 0, failed |-> 0, error |-> FALSE])
    /\ UNCHANGED <<listVars, statVars, refreshing>>

Next ==
    \/ \E p \in 1 .. MaxPage : TurnTo(p)
    \/ \E s \in Searches : SearchFor(s)
    \/ Refresh
    \/ \E c \in loads : ServeList(c) \/ ArriveList(c) \/ FailList(c)
    \/ \E c \in statLoads : ServeStats(c) \/ ArriveStats(c) \/ FailStats(c)
    \/ Record

Spec == Init /\ [][Next]_vars

\* Every request ends: axios has a timeout, and the browser reports the rest.
Fairness ==
    /\ \A id \in 1 .. MaxLoads :
          WF_vars(\E c \in loads : c.id = id /\ (ServeList(c) \/ ArriveList(c) \/ FailList(c)))
    /\ \A n \in 1 .. MaxLoads :
          WF_vars(\E c \in statLoads : c.n = n /\ (ServeStats(c) \/ ArriveStats(c) \/ FailStats(c)))

FairSpec == Spec /\ Fairness
-----------------------------------------------------------------------------
(***************************************************************************)
(* Properties.                                                             *)
(***************************************************************************)

\* When the latest load is over and did not fail, the table shows the page and
\* the search the controls show, whatever the order the answers came in.
ControlsMatchTable ==
    ((\A c \in loads : c.id # loadId) /\ failedLoad # loadId)
        => shown.page = page /\ shown.search = search

\* The spinner turns only while the latest load is under way: no answer, failure
\* or overtaken load leaves it on.
SpinnerIsHonest == loading => \E c \in loads : c.id = loadId

\* Turning pages one by one from the first, an administrator misses no record
\* that was there at the start, although new records shift the pages meanwhile.
WalkSkipsNothing ==
    LET hits == Hits(walk.search)
    IN  \A p \in hits :
            Rank(p, hits) < walk.depth * PageSize /\ log[p].id <= walk.opened
                => log[p].id \in walk.seen

\* The refresh button comes back, whatever its requests end in.
ButtonComesBack == refreshing # {} ~> refreshing = {}
=============================================================================
