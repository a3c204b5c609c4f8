----------------------------- MODULE DispatchLog -----------------------------
(***************************************************************************)
(* dispatch-log.service.ts: the records of past dispatches in a ring       *)
(* buffer, the running totals, and the queries the console asks.  Every    *)
(* function is synchronous, so each is one step.                           *)
(***************************************************************************)
EXTENDS Integers, Sequences, FiniteSets

CONSTANTS
    Capacity,      \* MAX_DISPATCH_RECORDS
    MaxLimit,      \* the largest page getDispatchRecords returns
    MaxFailures,   \* MAX_FAILURES of getDispatchStats
    MaxScan,       \* MAX_SCAN of getDispatchStats
    MaxTargets,    \* bound: targets of one dispatch
    Texts,         \* what msgId and msgType of a record amount to in a search
    Keywords,      \* search strings
    Found,         \* [Keywords -> SUBSET Texts]: includes(keyword)
    NoSearch,      \* the empty search
    Vacant,        \* a slot of the array nothing was written to
    MaxRecords     \* bound: records added

ASSUME LogAssumption ==
    /\ Capacity \in Nat \ {0} /\ MaxLimit \in Nat \ {0}
    /\ MaxFailures \in Nat /\ MaxScan \in Nat
    /\ MaxTargets \in Nat /\ MaxRecords \in Nat
    /\ Found \in [Keywords -> SUBSET Texts]
    /\ NoSearch \notin Keywords

VARIABLES
    buffer,   \* RingBuffer.buffer, indexed from 0
    head,     \* RingBuffer.head: the next slot to write
    count,    \* RingBuffer.count
    totals,   \* statsTotalDispatched, statsTotalSuccess, statsTotalFailed
    idSeq,    \* the counter behind nextId
    log       \* history: every record since the last clear, oldest first

ring == <<buffer, head, count>>
logVars == <<ring, totals, idSeq, log>>

\* Results of a dispatch as dispatchMessage counts them: a config that cannot
\* be loaded is recorded with an error and no targets.
Outcomes ==
    {o \in [success : 0..MaxTargets, failed : 0..MaxTargets, error : BOOLEAN] :
        IF o.error THEN o.success + o.failed = 0
                   ELSE o.success + o.failed <= MaxTargets}

Records == [id : 1..MaxRecords, text : Texts, success : 0..MaxTargets,
            failed : 0..MaxTargets, error : BOOLEAN]

Slots    == 0 .. Capacity - 1
NoTotals == [dispatched |-> 0, success |-> 0, failed |-> 0]

LogInit ==
    /\ buffer = [s \in Slots |-> Vacant] /\ head = 0 /\ count = 0
    /\ totals = NoTotals
    /\ idSeq = 0
    /\ log = <<>>
-----------------------------------------------------------------------------
Push(rec) ==
    /\ buffer' = [buffer EXCEPT ![head] = rec]
    /\ head' = (head + 1) % Capacity
    /\ count' = IF count < Capacity THEN count + 1 ELSE count

\* addDispatchRecord
Add(text, o) ==
    LET rec == [id |-> idSeq + 1, text |-> text, success |-> o.success,
                failed |-> o.failed, error |-> o.error]
    IN  /\ idSeq' = idSeq + 1
        /\ Push(rec)
        /\ totals' = [dispatched |-> totals.dispatched + 1,
                      success |-> totals.success + o.success,
                      failed |-> totals.failed + o.failed]
        /\ log' = Append(log, rec)

\* Mutant of Clear: the count survives.
ClearKeepsCount ==
    /\ buffer' = [s \in Slots |-> Vacant] /\ head' = 0
    /\ totals' = NoTotals
    /\ log' = <<>>
    /\ UNCHANGED <<count, idSeq>>

\* clearDispatchRecords; the id counter goes on.
Clear ==
    /\ buffer' = [s \in Slots |-> Vacant] /\ head' = 0 /\ count' = 0
    /\ totals' = NoTotals
    /\ log' = <<>>
    /\ UNCHANGED idSeq

LogNext ==
    \/ idSeq < MaxRecords /\ \E text \in Texts, o \in Outcomes : Add(text, o)
    \/ Clear

LogSpec == LogInit /\ [][LogNext]_logVars
-----------------------------------------------------------------------------
(***************************************************************************)
(* Queries.                                                                *)
(***************************************************************************)

\* The remainder of JavaScript: it has the sign of the dividend.
JsRem(a, n) == IF a >= 0 THEN a % n ELSE -((-a) % n)

\* Mutant of Index: it counts from the slot to be written next.
IndexFromHead(h, i) == (JsRem(h - i, Capacity) + Capacity) % Capacity

\* Slot of the i-th newest record, counted from 0, when h is the head.
Index(h, i) == (JsRem(h - 1 - i, Capacity) + Capacity) % Capacity

Lesser(a, b)  == IF a < b THEN a ELSE b
Greater(a, b) == IF a > b THEN a ELSE b

\* Mutant of GetRecent: a page may reach past the last record.
GetRecentPastEnd(limit, offset) ==
    IF offset >= count THEN <<>>
    ELSE [i \in 1 .. Lesser(limit, Capacity) |-> buffer[Index(head, offset + i - 1)]]

GetRecent(limit, offset) ==
    IF offset >= count THEN <<>>
    ELSE [i \in 1 .. Lesser(limit, count - offset) |-> buffer[Index(head, offset + i - 1)]]

\* filteredGetRecent: one pass over the whole buffer, newest first.
FilteredGetRecent(keyword, limit, offset) ==
    LET Scan[i \in 0..count] ==
          IF i = 0 THEN [items |-> <<>>, matched |-> 0]
          ELSE LET sofar == Scan[i - 1]
                   item  == buffer[Index(head, i - 1)]
                   onPage == sofar.matched >= offset /\ Len(sofar.items) < limit
               IN  IF item.text \notin Found[keyword] THEN sofar
                   ELSE [items |-> IF onPage THEN Append(sofar.items, item)
                                   ELSE sofar.items,
                         matched |-> sofar.matched + 1]
    IN  Scan[count]

\* getDispatchRecords: limit and offset are clamped, a search filters.
GetDispatchRecords(limit, offset, search) ==
    LET safeLimit  == Lesser(Greater(limit, 1), MaxLimit)
        safeOffset == Greater(offset, 0)
        filtered   == FilteredGetRecent(search, safeLimit, safeOffset)
    IN  IF search = NoSearch
        THEN [records |-> GetRecent(safeLimit, safeOffset), total |-> count]
        ELSE [records |-> filtered.items, total |-> filtered.matched]

HasFailure(rec) == rec.failed > 0 \/ rec.error

\* Mutant of RecentFailures: the scan does not stop after MAX_SCAN records.
RecentFailuresLongScan ==
    LET Scan[i \in 0..count] ==
          IF i = 0 THEN <<>>
          ELSE LET sofar == Scan[i - 1]
                   item  == buffer[Index(head, i - 1)]
               IN  IF Len(sofar) < MaxFailures /\ HasFailure(item)
                   THEN Append(sofar, item) ELSE sofar
    IN  Scan[count]

\* getDispatchStats: the scan stops at MAX_FAILURES hits or MAX_SCAN records.
RecentFailures ==
    LET Scan[i \in 0..count] ==
          IF i = 0 THEN <<>>
          ELSE LET sofar == Scan[i - 1]
                   item  == buffer[Index(head, i - 1)]
               IN  IF Len(sofar) >= MaxFailures \/ i - 1 >= MaxScan THEN sofar
                   ELSE IF HasFailure(item) THEN Append(sofar, item) ELSE sofar
    IN  Scan[count]
-----------------------------------------------------------------------------
(***************************************************************************)
(* Properties.                                                             *)
(***************************************************************************)

\* Type invariant of the log.
LogTypeOK ==
    /\ buffer \in [Slots -> Records \cup {Vacant}]
    /\ head \in Slots /\ count \in 0..Capacity
    /\ totals \in [dispatched : Nat, success : Nat, failed : Nat]
    /\ idSeq \in 0..MaxRecords
    /\ log \in Seq(Records)

\* The i-th newest record, counted from 0, of everything that was recorded.
Newest(i) == log[Len(log) - i]

\* The buffer holds exactly the newest records, for every fill level and every
\* number of wrap-arounds: the slot arithmetic finds the i-th newest.
HoldsNewest ==
    /\ count = Lesser(Len(log), Capacity)
    /\ \A i \in 0 .. count - 1 : buffer[Index(head, i)] = Newest(i)

\* Positions in the log of the records a reader can still be shown.
Window == {p \in DOMAIN log : Len(log) - p < Capacity}

\* Those of them a search is after.
Hits(search) ==
    {p \in Window : search = NoSearch \/ log[p].text \in Found[search]}

\* How many of the positions S are newer than p.
Rank(p, S) == Cardinality({q \in S : q > p})

\* The records at the positions S, newest first: those from rank `from` on, and
\* at most `size` of them.
IsStretch(items, S, from, size) ==
    /\ items \in Seq(Records)
    /\ Len(items) = Greater(0, Lesser(size, Cardinality(S) - from))
    /\ \A k \in 1 .. Len(items) :
          \E p \in S : items[k] = log[p] /\ Rank(p, S) = from + k - 1

\* Every page of every search, limits and offsets out of range included, is the
\* matching stretch of the newest records, and the total counts the matches.
PagesAreExact ==
    \A search \in Keywords \cup {NoSearch},
       limit \in -1 .. MaxLimit + 1, offset \in -1 .. Capacity + 1 :
        LET answer == GetDispatchRecords(limit, offset, search)
        IN  /\ answer.total = Cardinality(Hits(search))
            /\ IsStretch(answer.records, Hits(search),
                         Greater(offset, 0), Lesser(Greater(limit, 1), MaxLimit))

\* The failures the statistics list are the newest ones among the records
\* scanned, in order, cut off at both limits.
FailuresAreNewest ==
    IsStretch(RecentFailures,
              {p \in Window : Len(log) - p < MaxScan /\ HasFailure(log[p])},
              0, MaxFailures)

Bounded == INSTANCE DispatchHistory WITH history <- GetRecent(count, 0)

\* The ring buffer implements a bounded history.
ImplementsHistory == Bounded!Spec
=============================================================================
