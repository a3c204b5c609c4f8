-------------------------- MODULE DispatchLog_proofs --------------------------
(***************************************************************************)
(* Proofs about DispatchLog and HistoryPage, for every capacity, page size *)
(* and set of texts, and any number of records and requests.               *)
(***************************************************************************)
EXTENDS HistoryPage, NatRecursion, SequenceTheorems

USE LogAssumption

(***************************************************************************)
(* Slot arithmetic: the double remainder of the code, with JavaScript's    *)
(* sign rule, is one conditional addition.                                 *)
(***************************************************************************)

LEMMA SmallRemainder ==
    ASSUME NEW x \in 0 .. Capacity - 1
    PROVE  x % Capacity = x
OBVIOUS

LEMMA OneWrap ==
    ASSUME NEW x \in Capacity .. 2 * Capacity - 1
    PROVE  x % Capacity = x - Capacity
OBVIOUS

LEMMA IndexValue ==
    ASSUME NEW h \in Slots, NEW i \in Slots
    PROVE  Index(h, i) = IF i < h THEN h - 1 - i ELSE h - 1 - i + Capacity
<1> DEFINE x == h - 1 - i
<1>1. CASE i < h
  <2>1. x \in 0 .. Capacity - 1
    BY <1>1 DEF Slots
  <2>2. JsRem(x, Capacity) = x
    BY <2>1, SmallRemainder DEF JsRem
  <2>3. (x + Capacity) % Capacity = x
    BY <2>1, OneWrap
  <2>. QED
    BY <1>1, <2>2, <2>3 DEF Index
<1>2. CASE ~(i < h)
  <2>1. x \in Int /\ x < 0 /\ -x \in 1 .. Capacity
    BY <1>2 DEF Slots
  <2>2. CASE -x = Capacity
    <3>1. Capacity % Capacity = 0
      BY OneWrap
    <3>2. JsRem(x, Capacity) = 0
      BY <2>1, <2>2, <3>1 DEF JsRem
    <3>3. (JsRem(x, Capacity) + Capacity) % Capacity = 0
      BY <3>1, <3>2
    <3>. QED
      BY <1>2, <2>1, <2>2, <3>3 DEF Index
  <2>3. CASE -x # Capacity
    <3>1. -x \in 0 .. Capacity - 1 /\ x + Capacity \in 0 .. Capacity - 1
      BY <2>1, <2>3
    <3>2. (-x) % Capacity = -x
      BY <3>1, SmallRemainder
    <3>3. JsRem(x, Capacity) = x
      BY <2>1, <3>2 DEF JsRem
    <3>4. (x + Capacity) % Capacity = x + Capacity
      BY <3>1, SmallRemainder
    <3>. QED
      BY <1>2, <3>3, <3>4 DEF Index
  <2>. QED
    BY <2>2, <2>3
<1>. QED
  BY <1>1, <1>2

\* After a push the new record is the newest, and every other one is a place
\* further; only the oldest of a full buffer shares the slot written to.
LEMMA IndexAfterPush ==
    ASSUME NEW h \in Slots, NEW g, g = (h + 1) % Capacity
    PROVE  /\ g \in Slots
           /\ Index(g, 0) = h
           /\ \A i \in Slots : i + 1 \in Slots =>
                 Index(g, i + 1) = Index(h, i) /\ Index(h, i) # h
<1>1. g = IF h = Capacity - 1 THEN 0 ELSE h + 1
  <2>1. CASE h = Capacity - 1
    <3>1. h + 1 = Capacity /\ Capacity % Capacity = 0
      BY <2>1, OneWrap
    <3>. QED
      BY <2>1, <3>1
  <2>2. CASE h # Capacity - 1
    <3>1. h + 1 \in 0 .. Capacity - 1
      BY <2>2 DEF Slots
    <3>. QED
      BY <2>2, <3>1, SmallRemainder
  <2>. QED
    BY <2>1, <2>2
<1>2. g \in Slots /\ 0 \in Slots
  BY <1>1 DEF Slots
<1>3. Index(g, 0) = h
  BY <1>1, <1>2, IndexValue DEF Slots
<1>4. ASSUME NEW i \in Slots, i + 1 \in Slots
      PROVE  Index(g, i + 1) = Index(h, i) /\ Index(h, i) # h
  BY <1>1, <1>2, <1>4, IndexValue DEF Slots
<1>. QED
  BY <1>2, <1>3, <1>4

LEMMA IndexInSlots ==
    ASSUME NEW h \in Slots, NEW i \in Slots
    PROVE  Index(h, i) \in Slots
BY IndexValue DEF Slots

(***************************************************************************)
(* The invariant.                                                          *)
(***************************************************************************)

LogInv == LogTypeOK /\ HoldsNewest

LEMMA LogInvInit == LogInit => LogInv
<1> SUFFICES ASSUME LogInit PROVE LogInv
  OBVIOUS
<1>1. LogTypeOK
  BY DEF LogInit, LogTypeOK, NoTotals, Slots
<1>2. HoldsNewest
  BY DEF LogInit, HoldsNewest, Lesser
<1>. QED
  BY <1>1, <1>2 DEF LogInv

\* What addDispatchRecord appends is a record.
LEMMA NewRecord ==
    ASSUME LogTypeOK, idSeq < MaxRecords, NEW text \in Texts, NEW o \in Outcomes
    PROVE  [id |-> idSeq + 1, text |-> text, success |-> o.success,
            failed |-> o.failed, error |-> o.error] \in Records
BY DEF LogTypeOK, Outcomes, Records

LEMMA AddStep ==
    ASSUME LogInv, idSeq < MaxRecords, NEW text \in Texts, NEW o \in Outcomes,
           Add(text, o)
    PROVE  LogInv'
<1> DEFINE rec == [id |-> idSeq + 1, text |-> text, success |-> o.success,
                   failed |-> o.failed, error |-> o.error]
<1>1. rec \in Records
  BY NewRecord DEF LogInv
<1>2. /\ buffer' = [buffer EXCEPT ![head] = rec]
      /\ head' = (head + 1) % Capacity
      /\ count' = IF count < Capacity THEN count + 1 ELSE count
      /\ log' = Append(log, rec) /\ idSeq' = idSeq + 1
  BY DEF Add, Push
<1>3. totals' \in [dispatched : Nat, success : Nat, failed : Nat]
  <2>1. o.success \in Nat /\ o.failed \in Nat
    BY DEF Outcomes
  <2>2. totals \in [dispatched : Nat, success : Nat, failed : Nat]
    BY DEF LogInv, LogTypeOK
  <2>3. totals' = [dispatched |-> totals.dispatched + 1,
                   success |-> totals.success + o.success,
                   failed |-> totals.failed + o.failed]
    BY DEF Add
  <2>. QED
    BY <2>1, <2>2, <2>3
<1> HIDE DEF rec
<1>4. /\ buffer \in [Slots -> Records \cup {Vacant}] /\ head \in Slots
      /\ count \in 0..Capacity /\ idSeq \in 0..MaxRecords /\ log \in Seq(Records)
  BY DEF LogInv, LogTypeOK
<1>5. /\ head' \in Slots
      /\ Index(head', 0) = head
      /\ \A i \in Slots : i + 1 \in Slots =>
            Index(head', i + 1) = Index(head, i) /\ Index(head, i) # head
  BY <1>2, <1>4, IndexAfterPush
<1>6. LogTypeOK'
  BY <1>1, <1>2, <1>3, <1>4, <1>5 DEF LogTypeOK
<1>7. count = Lesser(Len(log), Capacity)
      /\ \A i \in 0 .. count - 1 : buffer[Index(head, i)] = Newest(i)
  BY DEF LogInv, HoldsNewest
<1>8. /\ Len(log') = Len(log) + 1 /\ Len(log) \in Nat
      /\ log'[Len(log) + 1] = rec
      /\ \A j \in 1 .. Len(log) : log'[j] = log[j]
  BY <1>1, <1>2, <1>4
<1>9. count' = Lesser(Len(log'), Capacity)
  BY <1>2, <1>7, <1>8 DEF Lesser
<1>10. ASSUME NEW i \in 0 .. count' - 1
       PROVE  buffer'[Index(head', i)] = Newest(i)'
  <2>1. CASE i = 0
    BY <1>2, <1>4, <1>5, <1>8, <2>1 DEF Newest
  <2>2. CASE i # 0
    <3>1. i - 1 \in 0 .. count - 1 /\ i - 1 \in Slots /\ (i - 1) + 1 \in Slots
          /\ (i - 1) + 1 = i
      BY <1>2, <1>4, <1>10, <2>2 DEF Slots
    <3>2. Index(head', i) = Index(head, i - 1) /\ Index(head, i - 1) # head
      BY <1>5, <3>1
    <3>3. Index(head, i - 1) \in Slots
      BY <1>4, <3>1, IndexInSlots
    <3>4. buffer'[Index(head', i)] = buffer[Index(head, i - 1)]
      BY <1>2, <1>4, <3>2, <3>3
    <3>5. buffer[Index(head, i - 1)] = log[Len(log) - (i - 1)]
      BY <1>7, <3>1 DEF Newest
    <3>6. Len(log) - (i - 1) \in 1 .. Len(log) /\ Len(log') - i = Len(log) - (i - 1)
      BY <1>7, <1>8, <3>1 DEF Lesser
    <3>. QED
      BY <1>8, <3>4, <3>5, <3>6 DEF Newest
  <2>. QED
    BY <2>1, <2>2
<1>. QED
  BY <1>6, <1>9, <1>10 DEF LogInv, HoldsNewest

LEMMA LogInvStep == LogInv /\ [LogNext]_logVars => LogInv'
<1> SUFFICES ASSUME LogInv, [LogNext]_logVars PROVE LogInv'
  OBVIOUS
<1>1. ASSUME idSeq < MaxRecords, NEW text \in Texts, NEW o \in Outcomes, Add(text, o)
      PROVE  LogInv'
  BY <1>1, AddStep
<1>2. CASE Clear
  <2>1. LogTypeOK'
    BY <1>2 DEF Clear, LogInv, LogTypeOK, NoTotals, Slots
  <2>2. HoldsNewest'
    BY <1>2 DEF Clear, HoldsNewest, Lesser
  <2>. QED
    BY <2>1, <2>2 DEF LogInv
<1>3. CASE UNCHANGED logVars
  BY <1>3 DEF logVars, ring, LogInv, LogTypeOK, HoldsNewest, Newest
<1>. QED
  BY <1>1, <1>2, <1>3 DEF LogNext

(***************************************************************************)
(* For every capacity, the buffer is well-formed and holds the newest      *)
(* records in order, however often it wrapped around.                      *)
(***************************************************************************)
THEOREM LogTypeCorrect == LogSpec => []LogTypeOK
<1>1. LogInv => LogTypeOK
  BY DEF LogInv
<1>. QED
  BY <1>1, LogInvInit, LogInvStep, PTL DEF LogSpec

\* Index finds the i-th newest record in every reachable state.
THEOREM BufferHoldsNewest == LogSpec => []HoldsNewest
<1>1. LogInv => HoldsNewest
  BY DEF LogInv
<1>. QED
  BY <1>1, LogInvInit, LogInvStep, PTL DEF LogSpec

(***************************************************************************)
(* The refinement: reading the whole buffer is the bounded history.        *)
(***************************************************************************)

\* GetRecent(c, 0) as a function of the buffer.
ReadOf(b, h, c) ==
    IF 0 >= c THEN <<>>
    ELSE [i \in 1 .. Lesser(c, c - 0) |-> b[Index(h, 0 + i - 1)]]

\* HoldsNewest as a relation between a buffer and the records l.
Holding(b, h, c, l) ==
    /\ c \in Nat /\ l \in Seq(Records)
    /\ c = Lesser(Len(l), Capacity)
    /\ \A i \in 0 .. c - 1 : b[Index(h, i)] = l[Len(l) - i]

NewestFirst(c, l) == [i \in 1 .. c |-> l[Len(l) - i + 1]]

LEMMA ReadAll ==
    ASSUME NEW b, NEW h, NEW c, NEW l, Holding(b, h, c, l)
    PROVE  ReadOf(b, h, c) = NewestFirst(c, l)
<1>0. /\ c \in Nat /\ l \in Seq(Records)
      /\ \A i \in 0 .. c - 1 : b[Index(h, i)] = l[Len(l) - i]
  BY DEF Holding
<1>1. CASE c = 0
  BY <1>1 DEF ReadOf, NewestFirst
<1>2. CASE c # 0
  <2>1. Lesser(c, c - 0) = c
    BY <1>0 DEF Lesser
  <2>2. \A i \in 1 .. c : b[Index(h, 0 + i - 1)] = l[Len(l) - i + 1]
    <3> TAKE i \in 1 .. c
    <3>1. i - 1 \in 0 .. c - 1 /\ 0 + i - 1 = i - 1 /\ Len(l) - (i - 1) = Len(l) - i + 1
      BY <1>0
    <3>. QED
      BY <1>0, <3>1
  <2>3. ReadOf(b, h, c) = [i \in 1 .. c |-> b[Index(h, 0 + i - 1)]]
    <3>1. ~(0 >= c)
      BY <1>0, <1>2
    <3>. QED
      BY <2>1, <3>1, Zenon DEF ReadOf
  <2>. QED
    BY <2>2, <2>3 DEF NewestFirst
<1>. QED
  BY <1>1, <1>2

LEMMA AddRefines ==
    ASSUME LogInv, LogInv', NEW rec \in Records, log' = Append(log, rec)
    PROVE  GetRecent(count, 0)' =
             IF Len(GetRecent(count, 0)) < Capacity
             THEN <<rec>> \o GetRecent(count, 0)
             ELSE <<rec>> \o SubSeq(GetRecent(count, 0), 1, Capacity - 1)
<1> DEFINE st == GetRecent(count, 0)
<1>1. /\ count \in Nat /\ log \in Seq(Records)
      /\ count = Lesser(Len(log), Capacity)
      /\ \A i \in 0 .. count - 1 : buffer[Index(head, i)] = log[Len(log) - i]
  BY DEF LogInv, LogTypeOK, HoldsNewest, Newest
<1>2. /\ count' \in Nat /\ log' \in Seq(Records)
      /\ count' = Lesser(Len(log'), Capacity)
      /\ \A i \in 0 .. count' - 1 : buffer'[Index(head', i)] = log'[Len(log') - i]
  <2>1. count' \in Nat /\ log' \in Seq(Records)
    BY DEF LogInv, LogTypeOK
  <2>2. count' = Lesser(Len(log'), Capacity)
    BY DEF LogInv, HoldsNewest
  <2>3. \A i \in 0 .. count' - 1 : buffer'[Index(head', i)] = log'[Len(log') - i]
    BY DEF LogInv, HoldsNewest, Newest
  <2>. QED
    BY <2>1, <2>2, <2>3
<1>3. st = [i \in 1 .. count |-> log[Len(log) - i + 1]]
  <2>1. st = ReadOf(buffer, head, count)
    BY DEF GetRecent, ReadOf
  <2>. QED
    BY <1>1, <2>1, ReadAll DEF Holding, NewestFirst
<1>4. st' = [i \in 1 .. count' |-> log'[Len(log') - i + 1]]
  <2>1. st' = ReadOf(buffer', head', count')
    BY DEF GetRecent, ReadOf
  <2>2. ReadOf(buffer', head', count') = NewestFirst(count', log')
    <3>1. Holding(buffer', head', count', log')
      BY <1>2 DEF Holding
    <3>. QED
      BY <3>1, ReadAll
  <2>. QED
    BY <2>1, <2>2 DEF NewestFirst
<1>5. /\ Len(log') = Len(log) + 1 /\ Len(log) \in Nat
      /\ log'[Len(log) + 1] = rec
      /\ \A j \in 1 .. Len(log) : log'[j] = log[j] /\ log[j] \in Records
  BY <1>1
<1> HIDE DEF st
<1>6. st \in Seq(Records) /\ Len(st) = count
      /\ \A i \in 1 .. count : st[i] = log[Len(log) - i + 1]
  <2>1. \A i \in 1 .. count : log[Len(log) - i + 1] \in Records
    BY <1>1, <1>5 DEF Lesser
  <2>2. st \in [1 .. count -> Records]
    BY <1>3, <2>1
  <2>3. st \in Seq(Records) /\ Len(st) = count
    BY <1>1, <2>2
  <2>. QED
    BY <1>3, <2>3
<1>7. \A i \in 1 .. count' : st'[i] = IF i = 1 THEN rec ELSE st[i - 1]
  <2> SUFFICES ASSUME NEW i \in 1 .. count'
               PROVE  st'[i] = IF i = 1 THEN rec ELSE st[i - 1]
    OBVIOUS
  <2>1. st'[i] = log'[Len(log') - i + 1]
    BY <1>4
  <2>2. CASE i = 1
    BY <1>2, <1>5, <2>1, <2>2
  <2>3. CASE i # 1
    <3>1. i - 1 \in 1 .. count /\ Len(log') - i + 1 = Len(log) - (i - 1) + 1
      BY <1>1, <1>2, <1>5, <2>3 DEF Lesser
    <3>2. Len(log) - (i - 1) + 1 \in 1 .. Len(log)
      BY <1>1, <1>5, <3>1 DEF Lesser
    <3>. QED
      BY <1>5, <1>6, <2>1, <2>3, <3>1, <3>2
  <2>. QED
    BY <2>2, <2>3
<1>8. CASE count < Capacity
  <2>1. count' = count + 1
    BY <1>1, <1>2, <1>5, <1>8 DEF Lesser
  <2>2. <<rec>> \o st = [i \in 1 .. count + 1 |-> IF i = 1 THEN rec ELSE st[i - 1]]
    BY <1>6
  <2>. QED
    BY <1>4, <1>6, <1>7, <1>8, <2>1, <2>2 DEF st
<1>9. CASE ~(count < Capacity)
  <2>1. count' = count /\ count = Capacity
    BY <1>1, <1>2, <1>5, <1>9 DEF Lesser
  <2>2. /\ SubSeq(st, 1, Capacity - 1) \in Seq(Records)
        /\ Len(SubSeq(st, 1, Capacity - 1)) = Capacity - 1
        /\ \A i \in 1 .. Capacity - 1 : SubSeq(st, 1, Capacity - 1)[i] = st[i]
    BY <1>6, <2>1
  <2>3. <<rec>> \o SubSeq(st, 1, Capacity - 1)
          = [i \in 1 .. Capacity |-> IF i = 1 THEN rec ELSE st[i - 1]]
    BY <1>6, <2>1, <2>2
  <2>. QED
    BY <1>4, <1>6, <1>7, <1>9, <2>1, <2>3 DEF st
<1>. QED
  BY <1>8, <1>9

(***************************************************************************)
(* For every capacity the ring buffer implements DispatchHistory: adding a *)
(* record pushes it in front and drops the oldest of a full history.       *)
(***************************************************************************)
THEOREM RingRefinesHistory == LogSpec => ImplementsHistory
<1> DEFINE st == GetRecent(count, 0)
<1>1. LogInit => Bounded!Init
  BY DEF LogInit, Bounded!Init, GetRecent
<1>2. LogInv /\ LogInv' /\ [LogNext]_logVars => [Bounded!Next]_st
  <2> SUFFICES ASSUME LogInv, LogInv', [LogNext]_logVars PROVE [Bounded!Next]_st
    OBVIOUS
  <2>1. ASSUME idSeq < MaxRecords, NEW text \in Texts, NEW o \in Outcomes, Add(text, o)
        PROVE  [Bounded!Next]_st
    <3> DEFINE rec == [id |-> idSeq + 1, text |-> text, success |-> o.success,
                       failed |-> o.failed, error |-> o.error]
    <3>1. rec \in Records
      BY <2>1, NewRecord DEF LogInv
    <3>2. log' = Append(log, rec)
      BY <2>1 DEF Add
    <3> HIDE DEF rec
    <3>3. Bounded!Add(rec)
      BY <3>1, <3>2, AddRefines DEF Bounded!Add
    <3>. QED
      BY <3>1, <3>3 DEF Bounded!Next
  <2>2. CASE Clear
    <3>1. st' = <<>>
      BY <2>2 DEF Clear, GetRecent
    <3>. QED
      BY <3>1 DEF Bounded!Next, Bounded!Clear
  <2>3. CASE UNCHANGED logVars
    BY <2>3 DEF logVars, ring, GetRecent
  <2>. QED
    BY <2>1, <2>2, <2>3 DEF LogNext
<1>. QED
  BY <1>1, <1>2, LogInvInit, LogInvStep, PTL DEF LogSpec, ImplementsHistory, Bounded!Spec

(***************************************************************************)
(* The queries.                                                            *)
(***************************************************************************)

\* Positions of the n newest records.
Latest(n) == {p \in DOMAIN log : Len(log) - p < n}

\* What HoldsNewest and the types say of the buffer, by positions.
LEMMA SlotsOfPositions ==
    ASSUME LogInv
    PROVE  /\ log \in Seq(Records) /\ Len(log) \in Nat /\ DOMAIN log = 1 .. Len(log)
           /\ count \in Nat /\ count <= Len(log) /\ count <= Capacity
           /\ Window = Latest(count)
           /\ \A n \in Nat : n < count =>
                 /\ buffer[Index(head, n)] = log[Len(log) - n]
                 /\ Len(log) - n \in Window
                 /\ log[Len(log) - n] \in Records
<1>1. /\ log \in Seq(Records) /\ Len(log) \in Nat /\ DOMAIN log = 1 .. Len(log)
      /\ count \in 0 .. Capacity /\ count = Lesser(Len(log), Capacity)
      /\ \A n \in 0 .. count - 1 : buffer[Index(head, n)] = log[Len(log) - n]
  BY DEF LogInv, LogTypeOK, HoldsNewest, Newest
<1>2. count \in Nat /\ count <= Len(log) /\ count <= Capacity
      /\ (count = Len(log) \/ count = Capacity)
  <2>1. count \in Nat /\ Len(log) \in Nat /\ Capacity \in Nat
    BY <1>1 DEF LogAssumption
  <2>2. count = IF Len(log) < Capacity THEN Len(log) ELSE Capacity
    BY <1>1 DEF Lesser
  <2> QED  BY <2>1, <2>2
<1>3. Window = Latest(count)
  BY <1>1, <1>2 DEF Window, Latest
<1>4. ASSUME NEW n \in Nat, n < count
      PROVE  /\ buffer[Index(head, n)] = log[Len(log) - n]
             /\ Len(log) - n \in Window
             /\ log[Len(log) - n] \in Records
  <2>1. n \in 0 .. count - 1 /\ Len(log) - n \in 1 .. Len(log)
    BY <1>1, <1>2, <1>4
  <2>2. log[Len(log) - n] \in Records
    BY <1>1, <2>1
  <2>3. Len(log) - (Len(log) - n) < Capacity
    BY <1>1, <1>2, <1>4
  <2> QED  BY <1>1, <2>1, <2>2, <2>3 DEF Window
<1> QED  BY <1>1, <1>2, <1>3, <1>4

\* The positions are finitely many, and so are those of any part of them.
LEMMA PartsAreFinite ==
    ASSUME LogInv, NEW S \in SUBSET DOMAIN log
    PROVE  /\ IsFiniteSet(S) /\ Cardinality(S) \in Nat
           /\ \A p : Rank(p, S) \in Nat
<1>1. IsFiniteSet(DOMAIN log)
  BY SlotsOfPositions, FS_Interval
<1>2. IsFiniteSet(S)
  BY <1>1, FS_Subset
<1>3. ASSUME NEW p  PROVE Rank(p, S) \in Nat
  <2>1. {q \in S : q > p} \subseteq S
    OBVIOUS
  <2> QED  BY <1>2, <2>1, FS_Subset, FS_CardinalityType DEF Rank
<1> QED  BY <1>2, <1>3, FS_CardinalityType

\* A record older than all of S takes the next place of the stretch when the page
\* has begun and is not full, and none otherwise.
LEMMA StretchGrows ==
    ASSUME LogInv, NEW S \in SUBSET DOMAIN log, NEW p \in DOMAIN log,
           \A q \in S : q > p,
           NEW from \in Nat, NEW size \in Nat, NEW items \in Seq(Records),
           IsStretch(items, S, from, size)
    PROVE  /\ Cardinality(S \cup {p}) = Cardinality(S) + 1
           /\ IsStretch(IF Cardinality(S) >= from /\ Len(items) < size
                        THEN Append(items, log[p]) ELSE items,
                        S \cup {p}, from, size)
<1> DEFINE T == S \cup {p}  n == Cardinality(S)
           more == IF Cardinality(S) >= from /\ Len(items) < size
                   THEN Append(items, log[p]) ELSE items
<1>0. log \in Seq(Records) /\ Len(log) \in Nat /\ DOMAIN log = 1 .. Len(log)
  BY SlotsOfPositions
<1>1. IsFiniteSet(S) /\ n \in Nat /\ p \notin S /\ log[p] \in Records
  BY <1>0, PartsAreFinite
<1>2. Cardinality(T) = n + 1
  BY <1>1, FS_AddElement
<1>3. Rank(p, T) = n
  <2>1. {q \in T : q > p} = S
    BY <1>0
  <2> QED  BY <2>1 DEF Rank
<1>4. \A q \in S : Rank(q, T) = Rank(q, S)
  <2>1. ASSUME NEW q \in S  PROVE {r \in T : r > q} = {r \in S : r > q}
    BY <1>0
  <2> QED  BY <2>1 DEF Rank
<1>5. /\ Len(items) = Greater(0, Lesser(size, n - from)) /\ Len(items) \in Nat
      /\ \A k \in 1 .. Len(items) :
           \E q \in S : items[k] = log[q] /\ Rank(q, S) = from + k - 1
  BY DEF IsStretch
<1> HIDE DEF n
<1>6. CASE n >= from /\ Len(items) < size
  <2>1. more = Append(items, log[p])
    BY <1>6 DEF n
  <2>2. /\ Len(more) = Len(items) + 1 /\ more[Len(items) + 1] = log[p]
        /\ \A k \in 1 .. Len(items) : more[k] = items[k]
    BY <1>1, <2>1
  <2>3. Len(items) = n - from
    BY <1>1, <1>5, <1>6 DEF Greater, Lesser
  <2>4. Len(more) = Greater(0, Lesser(size, (n + 1) - from))
    BY <1>1, <1>6, <2>2, <2>3 DEF Greater, Lesser
  <2>5. ASSUME NEW k \in 1 .. Len(more)
        PROVE  \E q \in T : more[k] = log[q] /\ Rank(q, T) = from + k - 1
    <3>1. CASE k = Len(items) + 1
      <4>1. from + k - 1 = n
        BY <1>1, <2>3, <3>1
      <4> QED  BY <1>3, <2>2, <3>1, <4>1
    <3>2. CASE k # Len(items) + 1
      <4>1. k \in 1 .. Len(items)
        BY <1>5, <2>2, <3>2
      <4> QED  BY <1>4, <1>5, <2>2, <4>1
    <3> QED  BY <3>1, <3>2
  <2>6. more \in Seq(Records)
    BY <1>1, <2>1
  <2> HIDE DEF more
  <2> QED  BY <1>2, <2>4, <2>5, <2>6 DEF IsStretch, n, more
<1>7. CASE ~(n >= from /\ Len(items) < size)
  <2>1. more = items
    BY <1>7 DEF n
  <2>2. Len(more) = Greater(0, Lesser(size, (n + 1) - from))
    BY <1>1, <1>5, <1>7, <2>1 DEF Greater, Lesser
  <2>3. ASSUME NEW k \in 1 .. Len(more)
        PROVE  \E q \in T : more[k] = log[q] /\ Rank(q, T) = from + k - 1
    BY <1>4, <1>5, <2>1
  <2>4. more \in Seq(Records)
    BY <2>1
  <2> HIDE DEF more
  <2> QED  BY <1>2, <2>2, <2>3, <2>4 DEF IsStretch, n, more
<1> QED  BY <1>2, <1>6, <1>7 DEF n

\* Nothing is the stretch of no records.
LEMMA StretchOfNothing ==
    ASSUME NEW from \in Nat, NEW size \in Nat
    PROVE  Cardinality({}) = 0 /\ IsStretch(<<>>, {}, from, size)
<1>1. Cardinality({}) = 0
  BY FS_EmptySet
<1>2. Len(<<>>) = 0 /\ <<>> \in Seq(Records)
  OBVIOUS
<1> QED  BY <1>1, <1>2 DEF IsStretch, Greater, Lesser


\* The records one more place of the buffer adds to the newest ones.
LEMMA LatestGrows ==
    ASSUME LogInv, NEW n \in Nat, n < count
    PROVE  /\ Len(log) - n \in DOMAIN log
           /\ Latest(n + 1) = Latest(n) \cup {Len(log) - n}
           /\ \A q \in Latest(n) : q > Len(log) - n
<1>1. /\ Len(log) \in Nat /\ DOMAIN log = 1 .. Len(log)
      /\ count \in Nat /\ count <= Len(log)
  BY SlotsOfPositions
<1> QED  BY <1>1 DEF Latest

LEMMA LatestOfNone == ASSUME LogInv  PROVE Latest(0) = {}
<1>1. Len(log) \in Nat /\ DOMAIN log = 1 .. Len(log)
  BY SlotsOfPositions
<1> QED  BY <1>1 DEF Latest

\* A page of all records is read off the slots.
LEMMA RecentIsStretch ==
    ASSUME LogInv, NEW limit \in Nat, NEW offset \in Nat
    PROVE  /\ count = Cardinality(Window)
           /\ IsStretch(GetRecent(limit, offset), Window, offset, limit)
<1>1. /\ log \in Seq(Records) /\ Len(log) \in Nat /\ DOMAIN log = 1 .. Len(log)
      /\ count \in Nat /\ count <= Len(log) /\ Window = Latest(count)
      /\ \A n \in Nat : n < count =>
            /\ buffer[Index(head, n)] = log[Len(log) - n]
            /\ Len(log) - n \in Window
  BY SlotsOfPositions
<1>2. \A m \in Nat : m <= count => Cardinality(Latest(m)) = m
  <2> SUFFICES ASSUME NEW m \in Nat, m <= count  PROVE Cardinality(Latest(m)) = m
    OBVIOUS
  <2> DEFINE a == Len(log) - m + 1  b == Len(log)
  <2>1. Latest(m) = a .. b /\ a \in Int /\ b \in Int
    BY <1>1 DEF Latest
  <2>2. Cardinality(a .. b) = IF a > b THEN 0 ELSE b - a + 1
    <3> HIDE DEF a, b
    <3> QED  BY <2>1, FS_Interval
  <2> QED  BY <1>1, <2>1, <2>2
<1>3. count = Cardinality(Window)
  BY <1>1, <1>2
<1>4. \A n \in Nat : n < count => Rank(Len(log) - n, Window) = n
  <2> SUFFICES ASSUME NEW n \in Nat, n < count  PROVE Rank(Len(log) - n, Window) = n
    OBVIOUS
  <2>1. {q \in Window : q > Len(log) - n} = Latest(n)
    BY <1>1 DEF Latest
  <2>2. Cardinality(Latest(n)) = n
    BY <1>1, <1>2
  <2> QED  BY <2>1, <2>2 DEF Rank
<1> DEFINE items == GetRecent(limit, offset)
<1>5. CASE offset >= count
  <2>1. items = <<>> /\ Len(items) = 0 /\ items \in Seq(Records)
    BY <1>5 DEF GetRecent
  <2>2. Len(items) = Greater(0, Lesser(limit, count - offset))
    BY <1>1, <1>5, <2>1 DEF Greater, Lesser
  <2> HIDE DEF items
  <2> QED  BY <1>3, <2>1, <2>2 DEF IsStretch, items
<1>6. CASE ~(offset >= count)
  <2> DEFINE l == Lesser(limit, count - offset)
  <2>1. l \in Nat /\ l <= count - offset /\ l = Greater(0, l)
    BY <1>1, <1>6 DEF Greater, Lesser
  <2>2. items = [i \in 1 .. l |-> buffer[Index(head, offset + i - 1)]]
    BY <1>6, Zenon DEF GetRecent
  <2> HIDE DEF items, l
  <2>3. Len(items) = l
    BY <2>1, <2>2
  <2>4. ASSUME NEW k \in 1 .. Len(items)
        PROVE  \E p \in Window : items[k] = log[p] /\ Rank(p, Window) = offset + k - 1
    <3> DEFINE n == offset + k - 1
    <3>1. n \in Nat /\ n < count
      BY <1>1, <1>6, <2>1, <2>3
    <3>2. items[k] = buffer[Index(head, n)]
      BY <2>2, <2>3
    <3> HIDE DEF n
    <3>3. items[k] = log[Len(log) - n] /\ Len(log) - n \in Window
          /\ Rank(Len(log) - n, Window) = n
      BY <1>1, <1>4, <3>1, <3>2
    <3> QED  BY <3>3 DEF n
  <2>5. items \in Seq(Records)
    <3>1. ASSUME NEW i \in 1 .. l  PROVE buffer[Index(head, offset + i - 1)] \in Records
      <4>1. offset + i - 1 \in Nat /\ offset + i - 1 < count
        BY <1>1, <1>6, <2>1
      <4> QED  BY <4>1, SlotsOfPositions
    <3> QED  BY <2>1, <2>2, <3>1
  <2> QED  BY <1>3, <2>1, <2>3, <2>4, <2>5 DEF IsStretch, items, l
<1> QED  BY <1>3, <1>5, <1>6

\* One turn of the loop of filteredGetRecent, at the record item.
Filtered(sofar, item, keyword, limit, offset) ==
    LET onPage == sofar.matched >= offset /\ Len(sofar.items) < limit
    IN  IF item.text \notin Found[keyword] THEN sofar
        ELSE [items |-> IF onPage THEN Append(sofar.items, item) ELSE sofar.items,
              matched |-> sofar.matched + 1]

NothingFiltered == [items |-> <<>>, matched |-> 0]

\* The loop as a sequence of its turns.
LEMMA FilterTurns ==
    ASSUME LogInv, NEW keyword, NEW limit, NEW offset
    PROVE  \E h : /\ h[0] = NothingFiltered
                  /\ \A n \in Nat : n < count =>
                        h[n + 1] = Filtered(h[n], buffer[Index(head, n)],
                                            keyword, limit, offset)
                  /\ FilteredGetRecent(keyword, limit, offset) = h[count]
<1> DEFINE S == [items : Seq(Records), matched : Nat]
           a == NothingFiltered
           G == [u \in S \X Nat |->
                   IF u[2] < count
                   THEN Filtered(u[1], buffer[Index(head, u[2])], keyword, limit, offset)
                   ELSE u[1]]
<1>0. count \in Nat
  BY SlotsOfPositions
<1>1. a \in S
  BY DEF NothingFiltered
<1>2. G \in [S \X Nat -> S]
  <2> SUFFICES ASSUME NEW u \in S \X Nat  PROVE G[u] \in S
    OBVIOUS
  <2>1. u[1] \in S /\ u[2] \in Nat
    OBVIOUS
  <2>2. CASE u[2] < count
    <3> DEFINE item == buffer[Index(head, u[2])]  s == u[1]
    <3>1. item \in Records
      BY <2>1, <2>2, SlotsOfPositions
    <3>2. s.items \in Seq(Records) /\ s.matched \in Nat
      BY <2>1
    <3>3. Append(s.items, item) \in Seq(Records)
      BY <3>1, <3>2
    <3>4. G[u] = Filtered(s, item, keyword, limit, offset)
      BY <2>2
    <3> HIDE DEF G, item
    <3> QED  BY <2>1, <3>2, <3>3, <3>4 DEF Filtered
  <2>3. CASE ~(u[2] < count)
    BY <2>1, <2>3
  <2> QED  BY <2>2, <2>3
<1>3. PICK f \in [Nat -> S] : Follows(f, a, G)
  <2> HIDE DEF S, a, G
  <2> QED  BY <1>1, <1>2, PrimRec
<1>4. f[0] = NothingFiltered
  BY <1>3 DEF Follows
<1>5. ASSUME NEW n \in Nat, n < count
      PROVE  f[n + 1] = Filtered(f[n], buffer[Index(head, n)], keyword, limit, offset)
  <2>1. <<f[n], n>> \in S \X Nat
    OBVIOUS
  <2>2. f[n + 1] = G[<<f[n], n>>]
    BY <1>3 DEF Follows
  <2>3. G[<<f[n], n>>] = Filtered(f[n], buffer[Index(head, n)], keyword, limit, offset)
    <3> HIDE DEF S
    <3> QED  BY <1>5, <2>1
  <2> QED  BY <2>2, <2>3
<1> HIDE DEF G, S, a
<1> DEFINE IsScan(g) ==
      g = [i \in 0..count |->
            IF i = 0 THEN [items |-> <<>>, matched |-> 0]
            ELSE LET sofar == g[i - 1]
                     item  == buffer[Index(head, i - 1)]
                     onPage == sofar.matched >= offset /\ Len(sofar.items) < limit
                 IN  IF item.text \notin Found[keyword] THEN sofar
                     ELSE [items |-> IF onPage THEN Append(sofar.items, item)
                                     ELSE sofar.items,
                           matched |-> sofar.matched + 1]]
<1>6. \E g : IsScan(g)
  <2> DEFINE g == [i \in 0..count |-> f[i]]
  <2>1. ASSUME NEW i \in 0..count, i # 0
        PROVE  g[i] = Filtered(g[i - 1], buffer[Index(head, i - 1)], keyword, limit, offset)
    <3>1. i - 1 \in Nat /\ i - 1 < count /\ (i - 1) + 1 = i /\ i - 1 \in 0..count
      BY <1>0, <2>1
    <3>2. g[i] = f[i] /\ g[i - 1] = f[i - 1]
      BY <3>1
    <3>3. f[(i - 1) + 1] = Filtered(f[i - 1], buffer[Index(head, i - 1)], keyword, limit, offset)
      BY <1>5, <3>1
    <3> QED  BY <3>1, <3>2, <3>3
  <2>2. 0 \in 0..count /\ g[0] = NothingFiltered
    BY <1>0, <1>4
  <2>3. g = [i \in 0..count |-> g[i]]
    OBVIOUS
  <2> HIDE DEF g
  <2>4. IsScan(g)
    BY <2>1, <2>2, <2>3 DEF Filtered, NothingFiltered
  <2> QED  BY <2>4
<1>7. \E g : IsScan(g) /\ FilteredGetRecent(keyword, limit, offset) = g[count]
  BY <1>6 DEF FilteredGetRecent
<1>8. PICK h : IsScan(h) /\ FilteredGetRecent(keyword, limit, offset) = h[count]
  <2> HIDE DEF IsScan
  <2> QED  BY <1>7
<1>9. h[0] = NothingFiltered
  <2>1. 0 \in 0..count
    BY <1>0
  <2> QED  BY <1>8, <2>1 DEF NothingFiltered
<1>10. ASSUME NEW n \in Nat, n < count
       PROVE  h[n + 1] = Filtered(h[n], buffer[Index(head, n)], keyword, limit, offset)
  <2>1. n + 1 \in 0..count /\ n + 1 # 0 /\ (n + 1) - 1 = n
    BY <1>0, <1>10
  <2> QED  BY <1>8, <2>1 DEF Filtered
<1> HIDE DEF IsScan
<1> QED  BY <1>8, <1>9, <1>10


\* After n turns the loop has the page of the hits among the n newest records.
LEMMA FilteredIsStretch ==
    ASSUME LogInv, NEW keyword \in Keywords, NEW limit \in Nat, NEW offset \in Nat
    PROVE  LET answer == FilteredGetRecent(keyword, limit, offset)
           IN  /\ answer.matched = Cardinality(Hits(keyword))
               /\ IsStretch(answer.items, Hits(keyword), offset, limit)
<1>1. PICK h : /\ h[0] = NothingFiltered
               /\ \A n \in Nat : n < count =>
                     h[n + 1] = Filtered(h[n], buffer[Index(head, n)],
                                         keyword, limit, offset)
               /\ FilteredGetRecent(keyword, limit, offset) = h[count]
  BY FilterTurns
<1>2. /\ Len(log) \in Nat /\ DOMAIN log = 1 .. Len(log)
      /\ count \in Nat /\ count <= Len(log) /\ Window = Latest(count)
      /\ \A n \in Nat : n < count =>
            /\ buffer[Index(head, n)] = log[Len(log) - n]
            /\ log[Len(log) - n] \in Records
  BY SlotsOfPositions
<1> DEFINE Among(n) == {p \in Latest(n) : log[p].text \in Found[keyword]}
           Done(n) == /\ h[n].items \in Seq(Records)
                      /\ h[n].matched = Cardinality(Among(n))
                      /\ IsStretch(h[n].items, Among(n), offset, limit)
           T == {n \in Nat : n <= count => Done(n)}
<1>3. 0 \in T
  <2>1. Among(0) = {} /\ h[0].items = <<>> /\ h[0].matched = 0
    BY <1>1, LatestOfNone DEF NothingFiltered
  <2>2. <<>> \in Seq(Records)
    OBVIOUS
  <2> HIDE DEF Among
  <2> QED  BY <2>1, <2>2, StretchOfNothing
<1>4. ASSUME NEW n \in T  PROVE n + 1 \in T
  <2> SUFFICES ASSUME n + 1 <= count  PROVE Done(n + 1)
    OBVIOUS
  <2> DEFINE p == Len(log) - n  S == Among(n)  item == log[p]
  <2>1. n \in Nat /\ n < count /\ Done(n)
    BY <1>2
  <2>2. /\ p \in DOMAIN log /\ Latest(n + 1) = Latest(n) \cup {p}
        /\ \A q \in Latest(n) : q > p
    BY <2>1, LatestGrows
  <2>3. h[n + 1] = Filtered(h[n], item, keyword, limit, offset)
    BY <1>1, <1>2, <2>1
  <2>4. item \in Records
    BY <1>2, <2>1
  <2>5. S \in SUBSET DOMAIN log
    BY DEF Latest
  <2>6. CASE item.text \in Found[keyword]
    <3>1. Among(n + 1) = S \cup {p}
      BY <2>2, <2>6
    <3>2. \A q \in S : q > p
      BY <2>2
    <3>3. /\ h[n].items \in Seq(Records) /\ h[n].matched = Cardinality(S)
          /\ IsStretch(h[n].items, S, offset, limit)
      BY <2>1
    <3>4. /\ h[n + 1].matched = h[n].matched + 1
          /\ h[n + 1].items = IF h[n].matched >= offset /\ Len(h[n].items) < limit
                              THEN Append(h[n].items, item) ELSE h[n].items
      BY <2>3, <2>6 DEF Filtered
    <3> HIDE DEF S, Among, p
    <3>5. /\ Cardinality(S \cup {p}) = Cardinality(S) + 1
          /\ IsStretch(h[n + 1].items, S \cup {p}, offset, limit)
      <4> DEFINE items == h[n].items
      <4>1. items \in Seq(Records) /\ IsStretch(items, S, offset, limit)
        BY <3>3
      <4>2. h[n + 1].items = IF Cardinality(S) >= offset /\ Len(items) < limit
                             THEN Append(items, log[p]) ELSE items
        BY <3>3, <3>4 DEF p
      <4> HIDE DEF items
      <4> QED  BY <2>2, <2>5, <3>2, <4>1, <4>2, StretchGrows
    <3>6. h[n + 1].items \in Seq(Records)
      BY <2>4, <3>3, <3>4
    <3> QED  BY <3>1, <3>3, <3>4, <3>5, <3>6
  <2>7. CASE item.text \notin Found[keyword]
    <3>1. Among(n + 1) = Among(n)
      BY <2>2, <2>7
    <3>2. h[n + 1] = h[n]
      BY <2>3, <2>7 DEF Filtered
    <3> HIDE DEF Among
    <3> QED  BY <2>1, <3>1, <3>2
  <2> QED  BY <2>6, <2>7
<1>5. T = Nat
  <2> HIDE DEF T
  <2> QED  BY <1>3, <1>4, NatInd DEF T
<1>6. Done(count)
  <2> HIDE DEF Done
  <2> QED  BY <1>2, <1>5
<1>7. Among(count) = Hits(keyword)
  BY <1>2 DEF Hits, LogAssumption
<1>8. /\ h[count].matched = Cardinality(Hits(keyword))
      /\ IsStretch(h[count].items, Hits(keyword), offset, limit)
  <2> HIDE DEF Among
  <2> QED  BY <1>6, <1>7
<1>9. FilteredGetRecent(keyword, limit, offset) = h[count]
  BY <1>1
<1> DEFINE answer == FilteredGetRecent(keyword, limit, offset)
<1>10. /\ answer.matched = Cardinality(Hits(keyword))
       /\ IsStretch(answer.items, Hits(keyword), offset, limit)
  BY <1>8, <1>9
<1> QED  BY <1>10

\* Whatever page and search are asked for, the answer is exact.
LEMMA AnswersAreExact ==
    ASSUME LogInv, NEW sought \in Keywords \cup {NoSearch},
           NEW limit \in Int, NEW offset \in Int
    PROVE  LET answer == GetDispatchRecords(limit, offset, sought)
           IN  /\ answer.total = Cardinality(Hits(sought))
               /\ IsStretch(answer.records, Hits(sought),
                            Greater(offset, 0), Lesser(Greater(limit, 1), MaxLimit))
<1> DEFINE from == Greater(offset, 0)  size == Lesser(Greater(limit, 1), MaxLimit)
           answer == GetDispatchRecords(limit, offset, sought)
<1>1. from \in Nat /\ size \in Nat
  BY DEF Greater, Lesser, LogAssumption
<1>2. CASE sought = NoSearch
  <2>1. answer = [records |-> GetRecent(size, from), total |-> count]
    BY <1>2 DEF GetDispatchRecords
  <2>2. Hits(sought) = Window
    BY <1>2 DEF Hits
  <2> HIDE DEF from, size
  <2>3. answer.records = GetRecent(size, from) /\ answer.total = count
    BY <2>1
  <2> HIDE DEF answer
  <2> QED  BY <1>1, <2>2, <2>3, RecentIsStretch DEF answer, from, size
<1>3. CASE sought # NoSearch
  <2>1. sought \in Keywords
    BY <1>3
  <2>2. answer = [records |-> FilteredGetRecent(sought, size, from).items,
                  total |-> FilteredGetRecent(sought, size, from).matched]
    BY <1>3 DEF GetDispatchRecords
  <2> HIDE DEF from, size
  <2>3. /\ answer.records = FilteredGetRecent(sought, size, from).items
        /\ answer.total = FilteredGetRecent(sought, size, from).matched
    BY <2>2
  <2> HIDE DEF answer
  <2> QED  BY <1>1, <2>1, <2>3, FilteredIsStretch DEF answer, from, size
<1> QED  BY <1>2, <1>3

\* For every capacity, fill level and number of wrap-arounds, every page of every
\* search has exactly the records it should, and the total counts all hits.
THEOREM EveryPageIsExact == LogSpec => []PagesAreExact
<1>1. LogInv => PagesAreExact
  <2> SUFFICES ASSUME LogInv, NEW sought \in Keywords \cup {NoSearch},
                      NEW limit \in -1 .. MaxLimit + 1, NEW offset \in -1 .. Capacity + 1
               PROVE  LET answer == GetDispatchRecords(limit, offset, sought)
                      IN  /\ answer.total = Cardinality(Hits(sought))
                          /\ IsStretch(answer.records, Hits(sought), Greater(offset, 0),
                                       Lesser(Greater(limit, 1), MaxLimit))
    BY DEF PagesAreExact
  <2>1. limit \in Int /\ offset \in Int
    OBVIOUS
  <2> QED  BY <2>1, AnswersAreExact
<1> QED  BY <1>1, LogInvInit, LogInvStep, PTL DEF LogSpec


\* One turn of the loop of getDispatchStats, at the n-th newest record.
Scanned(sofar, item, n) ==
    IF Len(sofar) >= MaxFailures \/ n >= MaxScan THEN sofar
    ELSE IF HasFailure(item) THEN Append(sofar, item) ELSE sofar

\* That loop as a sequence of its turns.
LEMMA ScanTurns ==
    ASSUME LogInv
    PROVE  \E h : /\ h[0] = <<>>
                  /\ \A n \in Nat : n < count =>
                        h[n + 1] = Scanned(h[n], buffer[Index(head, n)], n)
                  /\ RecentFailures = h[count]
<1> DEFINE S == Seq(Records)
           a == <<>>
           G == [u \in S \X Nat |->
                   IF u[2] < count THEN Scanned(u[1], buffer[Index(head, u[2])], u[2])
                   ELSE u[1]]
<1>0. count \in Nat
  BY SlotsOfPositions
<1>1. a \in S
  OBVIOUS
<1>2. G \in [S \X Nat -> S]
  <2> SUFFICES ASSUME NEW u \in S \X Nat  PROVE G[u] \in S
    OBVIOUS
  <2>1. u[1] \in S /\ u[2] \in Nat
    OBVIOUS
  <2>2. CASE u[2] < count
    <3> DEFINE item == buffer[Index(head, u[2])]
    <3>1. item \in Records
      BY <2>1, <2>2, SlotsOfPositions
    <3>2. Append(u[1], item) \in S
      BY <2>1, <3>1
    <3>3. G[u] = Scanned(u[1], item, u[2])
      BY <2>2
    <3> HIDE DEF G, item, S
    <3> QED  BY <2>1, <3>2, <3>3 DEF Scanned
  <2>3. CASE ~(u[2] < count)
    BY <2>1, <2>3
  <2> QED  BY <2>2, <2>3
<1>3. PICK f \in [Nat -> S] : Follows(f, a, G)
  <2> HIDE DEF S, a, G
  <2> QED  BY <1>1, <1>2, PrimRec
<1>4. f[0] = <<>>
  BY <1>3 DEF Follows
<1>5. ASSUME NEW n \in Nat, n < count
      PROVE  f[n + 1] = Scanned(f[n], buffer[Index(head, n)], n)
  <2>1. <<f[n], n>> \in S \X Nat
    OBVIOUS
  <2>2. f[n + 1] = G[<<f[n], n>>]
    BY <1>3 DEF Follows
  <2>3. G[<<f[n], n>>] = Scanned(f[n], buffer[Index(head, n)], n)
    <3> HIDE DEF S
    <3> QED  BY <1>5, <2>1
  <2> QED  BY <2>2, <2>3
<1> HIDE DEF G, S, a
<1> DEFINE IsScan(g) ==
      g = [i \in 0..count |->
            IF i = 0 THEN <<>>
            ELSE LET sofar == g[i - 1]
                     item  == buffer[Index(head, i - 1)]
                 IN  IF Len(sofar) >= MaxFailures \/ i - 1 >= MaxScan THEN sofar
                     ELSE IF HasFailure(item) THEN Append(sofar, item) ELSE sofar]
<1>6. \E g : IsScan(g)
  <2> DEFINE g == [i \in 0..count |-> f[i]]
  <2>1. ASSUME NEW i \in 0..count, i # 0
        PROVE  g[i] = Scanned(g[i - 1], buffer[Index(head, i - 1)], i - 1)
    <3>1. i - 1 \in Nat /\ i - 1 < count /\ (i - 1) + 1 = i /\ i - 1 \in 0..count
      BY <1>0, <2>1
    <3>2. g[i] = f[i] /\ g[i - 1] = f[i - 1]
      BY <3>1
    <3>3. f[(i - 1) + 1] = Scanned(f[i - 1], buffer[Index(head, i - 1)], i - 1)
      BY <1>5, <3>1
    <3> QED  BY <3>1, <3>2, <3>3
  <2>2. 0 \in 0..count /\ g[0] = <<>>
    BY <1>0, <1>4
  <2>3. g = [i \in 0..count |-> g[i]]
    OBVIOUS
  <2> HIDE DEF g
  <2>4. IsScan(g)
    BY <2>1, <2>2, <2>3 DEF Scanned
  <2> QED  BY <2>4
<1>7. \E g : IsScan(g) /\ RecentFailures = g[count]
  BY <1>6 DEF RecentFailures
<1>8. PICK h : IsScan(h) /\ RecentFailures = h[count]
  <2> HIDE DEF IsScan
  <2> QED  BY <1>7
<1>9. h[0] = <<>>
  <2>1. 0 \in 0..count
    BY <1>0
  <2> QED  BY <1>8, <2>1
<1>10. ASSUME NEW n \in Nat, n < count
       PROVE  h[n + 1] = Scanned(h[n], buffer[Index(head, n)], n)
  <2>1. n + 1 \in 0..count /\ n + 1 # 0 /\ (n + 1) - 1 = n
    BY <1>0, <1>10
  <2> QED  BY <1>8, <2>1 DEF Scanned
<1> HIDE DEF IsScan
<1> QED  BY <1>8, <1>9, <1>10

\* The failures listed are the newest in the part that is scanned.
LEMMA FailuresAreStretch == LogInv => FailuresAreNewest
<1> SUFFICES ASSUME LogInv  PROVE FailuresAreNewest
  OBVIOUS
<1>1. PICK h : /\ h[0] = <<>>
               /\ \A n \in Nat : n < count =>
                     h[n + 1] = Scanned(h[n], buffer[Index(head, n)], n)
               /\ RecentFailures = h[count]
  BY ScanTurns
<1>2. /\ Len(log) \in Nat /\ DOMAIN log = 1 .. Len(log)
      /\ count \in Nat /\ count <= Len(log) /\ Window = Latest(count)
      /\ \A n \in Nat : n < count =>
            /\ buffer[Index(head, n)] = log[Len(log) - n]
            /\ log[Len(log) - n] \in Records
  BY SlotsOfPositions
<1> DEFINE Failing(n) == {p \in Latest(n) : Len(log) - p < MaxScan /\ HasFailure(log[p])}
           Done(n) == /\ h[n] \in Seq(Records)
                      /\ IsStretch(h[n], Failing(n), 0, MaxFailures)
           T == {n \in Nat : n <= count => Done(n)}
<1>0. MaxFailures \in Nat /\ MaxScan \in Nat
  BY DEF LogAssumption
<1>3. 0 \in T
  <2>1. Failing(0) = {} /\ h[0] = <<>> /\ <<>> \in Seq(Records)
    BY <1>1, LatestOfNone
  <2> HIDE DEF Failing
  <2> QED  BY <1>0, <2>1, StretchOfNothing
<1>4. ASSUME NEW n \in T  PROVE n + 1 \in T
  <2> SUFFICES ASSUME n + 1 <= count  PROVE Done(n + 1)
    OBVIOUS
  <2> DEFINE p == Len(log) - n  S == Failing(n)  item == log[p]  items == h[n]
  <2>1. n \in Nat /\ n < count /\ Done(n)
    BY <1>2
  <2>2. /\ p \in DOMAIN log /\ Latest(n + 1) = Latest(n) \cup {p}
        /\ \A q \in Latest(n) : q > p
    BY <2>1, LatestGrows
  <2>3. h[n + 1] = Scanned(h[n], item, n)
    BY <1>1, <1>2, <2>1
  <2>4. item \in Records
    BY <1>2, <2>1
  <2>5. S \in SUBSET DOMAIN log
    BY DEF Latest
  <2>6. items \in Seq(Records) /\ IsStretch(items, S, 0, MaxFailures) /\ Len(items) \in Nat
    BY <2>1
  <2>0. Len(log) - p = n
    BY <1>2
  <2>7. CASE n < MaxScan /\ HasFailure(item)
    <3>1. Failing(n + 1) = S \cup {p}
      BY <2>0, <2>2, <2>7
    <3>2. \A q \in S : q > p
      BY <2>2
    <3>3. h[n + 1] = IF Len(items) < MaxFailures THEN Append(items, item) ELSE items
      BY <1>0, <2>1, <2>3, <2>6, <2>7 DEF Scanned
    <3>4. Cardinality(S) >= 0
      BY <2>5, PartsAreFinite
    <3> HIDE DEF S, Failing, p, items
    <3>5. h[n + 1] = IF Cardinality(S) >= 0 /\ Len(items) < MaxFailures
                     THEN Append(items, log[p]) ELSE items
      BY <3>3, <3>4
    <3>6. IsStretch(h[n + 1], S \cup {p}, 0, MaxFailures)
      BY <1>0, <2>2, <2>5, <2>6, <3>2, <3>5, StretchGrows
    <3>7. h[n + 1] \in Seq(Records)
      BY <2>4, <2>6, <3>3
    <3> QED  BY <3>1, <3>6, <3>7
  <2>8. CASE ~(n < MaxScan /\ HasFailure(item))
    <3>1. Failing(n + 1) = Failing(n)
      BY <2>0, <2>2, <2>8
    <3>2. h[n + 1] = h[n]
      BY <1>0, <2>1, <2>3, <2>8 DEF Scanned
    <3> HIDE DEF Failing
    <3> QED  BY <2>1, <3>1, <3>2
  <2> QED  BY <2>7, <2>8
<1>5. T = Nat
  <2> HIDE DEF T
  <2> QED  BY <1>3, <1>4, NatInd DEF T
<1>6. Done(count)
  <2> HIDE DEF Done
  <2> QED  BY <1>2, <1>5
<1> QED  BY <1>1, <1>2, <1>6 DEF FailuresAreNewest

\* For every capacity and both limits of the scan, the failures the statistics
\* list are the newest among the records scanned.
THEOREM ListedFailuresAreNewest == LogSpec => []FailuresAreNewest
BY FailuresAreStretch, LogInvInit, LogInvStep, PTL DEF LogSpec


(***************************************************************************)
(* The page over the log.                                                  *)
(***************************************************************************)

USE PageAssumption

\* The records with these identifiers are in an answer.
Ids(c) == {rec.id : rec \in {c.answer.result.records[k] :
                             k \in DOMAIN c.answer.result.records}}

\* The first n hits of a search that were recorded up to `opened` are in seen.
Covers(s, n, opened, seen) ==
    \A p \in Hits(s) :
        Rank(p, Hits(s)) < n /\ log[p].id <= opened => log[p].id \in seen

\* The page of c is the next of the walk.
Continues(c) == walk.depth > 0 /\ c.search = walk.search /\ c.page = walk.depth + 1

\* Loads are told apart by their identifiers; the latest is for what the controls
\* show.
LoadsOK ==
    /\ loadId \in Nat /\ page \in Nat \ {0} /\ search \in Searches
    /\ \A c \in loads :
          /\ c = [id |-> c.id, page |-> c.page, search |-> c.search,
                  refresh |-> c.refresh, answer |-> c.answer]
          /\ c.id \in Nat /\ c.id <= loadId
          /\ c.page \in Nat \ {0} /\ c.search \in Searches
          /\ c.id = loadId => c.page = page /\ c.search = search
    /\ \A c, d \in loads : c.id = d.id => c = d

\* Nothing in the log or on its way is newer than the counter of identifiers.
AgesOK ==
    /\ idSeq \in Nat
    /\ \A p \in DOMAIN log : log[p].id <= idSeq
    /\ \A c \in loads : Answered(c) => c.answer.at \in Nat /\ c.answer.at <= idSeq
    /\ walk = [depth |-> walk.depth, opened |-> walk.opened,
               search |-> walk.search, seen |-> walk.seen]
    /\ walk.depth \in Nat /\ walk.search \in Searches
    /\ walk.opened \in Nat /\ walk.opened <= idSeq

\* An answer on its way to the table covers, with the pages before it, what its
\* page of the walk has to.
AnswerOK(c) ==
    /\ c.page = 1 => Covers(c.search, PageSize, c.answer.at, Ids(c))
    /\ c.page # 1 /\ Continues(c) =>
          Covers(c.search, c.page * PageSize, walk.opened, walk.seen \cup Ids(c))

WalkOK ==
    /\ AgesOK
    /\ Covers(walk.search, walk.depth * PageSize, walk.opened, walk.seen)
    /\ \A c \in loads : c.id = loadId /\ Answered(c) => AnswerOK(c)

\* The inductive invariant of the page.
PageInv == LogInv /\ LoadsOK /\ ControlsMatchTable /\ SpinnerIsHonest /\ WalkOK

\* The mount effect's load is the latest.
LEMMA PageStarts == Init => PageInv
<1> SUFFICES ASSUME Init  PROVE PageInv
  OBVIOUS
<1>1. LogInv
  BY LogInvInit DEF Init
<1>2. loads = {Load(1, 1, NoSearch, FALSE)} /\ loadId = 1 /\ page = 1 /\ search = NoSearch
  BY DEF Init
<1>3. LoadsOK
  BY <1>2 DEF LoadsOK, Load, Searches
<1>4. ControlsMatchTable /\ SpinnerIsHonest
  BY <1>2 DEF ControlsMatchTable, SpinnerIsHonest, Load
<1>5. walk = NoWalk /\ log = <<>> /\ idSeq = 0
  BY DEF Init, LogInit
<1>6. Hits(NoSearch) = {}
  BY <1>5 DEF Hits, Window
<1>7. \A c \in loads : ~Answered(c)
  BY <1>2 DEF Load, Answered
<1>8. WalkOK
  BY <1>5, <1>6, <1>7 DEF WalkOK, AgesOK, Covers, NoWalk, Searches
<1> QED  BY <1>1, <1>3, <1>4, <1>8 DEF PageInv

\* Every hit has a rank of its own, below their number.
LEMMA RanksTellApart ==
    ASSUME LogInv, NEW S \in SUBSET DOMAIN log, NEW p \in S
    PROVE  /\ Rank(p, S) < Cardinality(S)
           /\ \A q \in S : Rank(q, S) = Rank(p, S) => q = p
<1>0. DOMAIN log = 1 .. Len(log) /\ Len(log) \in Nat
  BY SlotsOfPositions
<1>1. ASSUME NEW q \in S, NEW r \in S, q < r  PROVE Rank(r, S) < Rank(q, S)
  <2> DEFINE A == {x \in S : x > r}  B == {x \in S : x > q}
  <2>1. A \subseteq B /\ r \in B /\ r \notin A
    BY <1>0, <1>1
  <2>2. IsFiniteSet(B)
    BY PartsAreFinite, FS_Subset
  <2>3. Cardinality(A) < Cardinality(B)
    <3>1. Cardinality(A) <= Cardinality(B) /\ (Cardinality(A) = Cardinality(B) => A = B)
      <4> HIDE DEF A, B
      <4> QED  BY <2>1, <2>2, FS_Subset
    <3>2. IsFiniteSet(A) /\ Cardinality(A) \in Nat /\ Cardinality(B) \in Nat
      <4> HIDE DEF A, B
      <4> QED  BY <2>1, <2>2, FS_Subset, FS_CardinalityType
    <3> HIDE DEF A, B
    <3> QED  BY <2>1, <3>1, <3>2
  <2> QED  BY <2>3 DEF Rank
<1>2. Rank(p, S) < Cardinality(S)
  <2> DEFINE A == {x \in S : x > p}
  <2>1. A \subseteq S /\ p \notin A /\ p \in S
    BY <1>0
  <2>2. IsFiniteSet(S)
    BY PartsAreFinite
  <2> HIDE DEF A
  <2>3. Cardinality(A) <= Cardinality(S) /\ (Cardinality(A) = Cardinality(S) => A = S)
    BY <2>1, <2>2, FS_Subset
  <2>4. IsFiniteSet(A) /\ Cardinality(A) \in Nat /\ Cardinality(S) \in Nat
    BY <2>1, <2>2, FS_Subset, FS_CardinalityType
  <2>5. Cardinality(A) < Cardinality(S)
    BY <2>1, <2>3, <2>4
  <2> QED  BY <2>5 DEF Rank, A
<1>3. ASSUME NEW q \in S, Rank(q, S) = Rank(p, S)  PROVE q = p
  <2>1. Rank(p, S) \in Nat /\ Rank(q, S) \in Nat
    BY PartsAreFinite
  <2>2. ~(q < p) /\ ~(p < q)
    BY <1>1, <1>3, <2>1
  <2> QED  BY <1>0, <2>2
<1> QED  BY <1>2, <1>3

\* What a page asked for has every hit whose rank is on it.
LEMMA PageHasItsRanks ==
    ASSUME LogInv, NEW S \in SUBSET DOMAIN log, NEW from \in Nat, NEW size \in Nat,
           NEW items, IsStretch(items, S, from, size),
           NEW p \in S, Rank(p, S) >= from, Rank(p, S) < from + size
    PROVE  \E k \in DOMAIN items : items[k] = log[p]
<1> DEFINE n == Cardinality(S)  r == Rank(p, S)  k == r - from + 1
<1>1. n \in Nat /\ r \in Nat /\ r < n
  BY PartsAreFinite, RanksTellApart
<1>2. /\ Len(items) = Greater(0, Lesser(size, n - from))
      /\ items \in Seq(Records)
      /\ \A j \in 1 .. Len(items) :
            \E q \in S : items[j] = log[q] /\ Rank(q, S) = from + j - 1
  BY DEF IsStretch
<1> HIDE DEF n, r
<1>3. k \in 1 .. Len(items)
  <2>1. r >= from /\ r < from + size
    BY DEF r
  <2> QED  BY <1>1, <1>2, <2>1 DEF Greater, Lesser
<1>4. PICK q \in S : items[k] = log[q] /\ Rank(q, S) = from + k - 1
  BY <1>2, <1>3
<1>5. Rank(q, S) = r
  BY <1>1, <1>4
<1>6. q = p
  BY <1>5, RanksTellApart DEF r
<1> QED  BY <1>2, <1>3, <1>4, <1>6

\* Records added later push the hits to higher ranks and are newer than `opened`.
LEMMA CoverSurvivesAdd ==
    ASSUME LogInv, LogInv', AgesOK, NEW rec, rec.id = idSeq + 1,
           log' = Append(log, rec),
           NEW s, NEW n \in Nat, NEW opened \in Nat, opened <= idSeq, NEW seen,
           Covers(s, n, opened, seen)
    PROVE  Covers(s, n, opened, seen)'
<1>1. /\ log \in Seq(Records) /\ Len(log) \in Nat /\ DOMAIN log = 1 .. Len(log)
      /\ log' \in Seq(Records) /\ idSeq \in Nat /\ Capacity \in Nat
  BY SlotsOfPositions DEF LogInv, LogTypeOK, AgesOK, LogAssumption
<1>2. /\ Len(log') = Len(log) + 1 /\ DOMAIN log' = 1 .. Len(log) + 1
      /\ log'[Len(log) + 1] = rec
      /\ \A j \in 1 .. Len(log) : log'[j] = log[j]
  BY <1>1
<1> SUFFICES ASSUME NEW p \in Hits(s)', Rank(p, Hits(s)') < n, log'[p].id <= opened
             PROVE  log'[p].id \in seen
  BY DEF Covers
<1>3. p # Len(log) + 1
  BY <1>1, <1>2
<1>4. p \in 1 .. Len(log) /\ p \in Hits(s) /\ log'[p] = log[p]
  BY <1>1, <1>2, <1>3 DEF Hits, Window
<1> DEFINE A == {q \in Hits(s) : q > p}  B == {q \in Hits(s)' : q > p}
<1>5. A \subseteq B
  <2> SUFFICES ASSUME NEW q \in Hits(s), q > p  PROVE q \in Hits(s)'
    OBVIOUS
  <2>1. q \in 1 .. Len(log) /\ log'[q] = log[q]
    BY <1>1, <1>2 DEF Hits, Window
  <2>2. Len(log') - q < Capacity
    BY <1>1, <1>2, <1>4, <2>1 DEF Hits, Window
  <2> QED  BY <1>2, <2>1, <2>2 DEF Hits, Window
<1>6. IsFiniteSet(B)
  <2>1. B \subseteq 1 .. Len(log) + 1 /\ IsFiniteSet(1 .. Len(log) + 1)
    BY <1>1, <1>2, FS_Interval DEF Hits, Window
  <2> HIDE DEF B
  <2> QED  BY <2>1, FS_Subset
<1>7. /\ Cardinality(A) <= Cardinality(B) /\ Cardinality(A) \in Nat
      /\ Cardinality(B) \in Nat
  <2> HIDE DEF A, B
  <2> QED  BY <1>5, <1>6, FS_Subset, FS_CardinalityType
<1>8. Rank(p, Hits(s)) = Cardinality(A) /\ Rank(p, Hits(s)') = Cardinality(B)
  BY DEF Rank
<1>9. Rank(p, Hits(s)) < n
  <2> HIDE DEF A, B
  <2> QED  BY <1>7, <1>8
<1> QED  BY <1>4, <1>9 DEF Covers


LEMMA PagesAreStretches ==
    ASSUME NEW n \in Nat \ {0}
    PROVE  /\ (n - 1) * PageSize \in Nat
           /\ n * PageSize = (n - 1) * PageSize + PageSize
           /\ (1 - 1) * PageSize = 0
           /\ PageSize \in Nat
OBVIOUS

\* An answer given now covers what its page of the walk has to.
LEMMA FreshAnswerOK ==
    ASSUME PageInv, NEW c \in loads, NEW d,
           d = [c EXCEPT !.answer = [result |-> Query(c), at |-> idSeq]]
    PROVE  AnswerOK(d)
<1> DEFINE from == (c.page - 1) * PageSize  S == Hits(c.search)
           items == Query(c).records
<1>0. /\ LogInv /\ LoadsOK /\ WalkOK
      /\ c = [id |-> c.id, page |-> c.page, search |-> c.search,
              refresh |-> c.refresh, answer |-> c.answer]
      /\ c.page \in Nat \ {0} /\ c.search \in Keywords \cup {NoSearch}
  BY DEF PageInv, LoadsOK, Searches
<1>1. /\ d.page = c.page /\ d.search = c.search
      /\ d.answer.at = idSeq /\ d.answer.result = Query(c)
  <2>1. d = [id |-> c.id, page |-> c.page, search |-> c.search, refresh |-> c.refresh,
             answer |-> [result |-> Query(c), at |-> idSeq]]
    BY <1>0
  <2> QED  BY <2>1
<1>2. /\ from \in Nat /\ PageSize \in Nat /\ c.page * PageSize = from + PageSize
      /\ (c.page = 1 => from = 0)
  BY <1>0, PagesAreStretches
<1>3. IsStretch(items, S, from, PageSize)
  <2>1. Greater(from, 0) = from /\ Lesser(Greater(PageSize, 1), MaxLimit) = PageSize
    BY <1>2 DEF Greater, Lesser, PageAssumption, LogAssumption
  <2>2. from \in Int /\ PageSize \in Int
    BY <1>2
  <2>3. Query(c) = GetDispatchRecords(PageSize, from, c.search)
    BY DEF Query
  <2> HIDE DEF from
  <2> QED  BY <1>0, <2>1, <2>2, <2>3, AnswersAreExact
<1>4. ASSUME NEW p \in S, Rank(p, S) >= from, Rank(p, S) < from + PageSize
      PROVE  log[p].id \in Ids(d)
  <2>1. S \in SUBSET DOMAIN log
    BY DEF Hits, Window
  <2>2. \E k \in DOMAIN items : items[k] = log[p]
    <3> HIDE DEF from, S, items
    <3> QED  BY <1>0, <1>2, <1>3, <1>4, <2>1, PageHasItsRanks
  <2> QED  BY <1>1, <2>2 DEF Ids
<1>5. \A p \in S : Rank(p, S) \in Nat
  <2>1. S \in SUBSET DOMAIN log
    BY DEF Hits, Window
  <2> QED  BY <1>0, <2>1, PartsAreFinite
<1>6. CASE c.page = 1
  <2>1. ASSUME NEW p \in S, Rank(p, S) < PageSize  PROVE log[p].id \in Ids(d)
    <3>1. Rank(p, S) >= from /\ Rank(p, S) < from + PageSize
      BY <1>2, <1>5, <1>6, <2>1
    <3> QED  BY <1>4, <3>1
  <2>2. Covers(d.search, PageSize, d.answer.at, Ids(d))
    BY <1>1, <2>1 DEF Covers
  <2> QED  BY <1>1, <1>6, <2>2 DEF AnswerOK
<1>7. CASE c.page # 1
  <2>1. ASSUME Continues(d), NEW p \in S, Rank(p, S) < c.page * PageSize,
               log[p].id <= walk.opened
        PROVE  log[p].id \in walk.seen \cup Ids(d)
    <3>1. c.search = walk.search /\ walk.depth * PageSize = from
      <4>1. c.page = walk.depth + 1 /\ c.search = walk.search /\ walk.depth \in Nat
        BY <1>0, <1>1, <2>1 DEF Continues, WalkOK, AgesOK
      <4>2. walk.depth = c.page - 1
        BY <4>1
      <4> QED  BY <4>1, <4>2
    <3>2. CASE Rank(p, S) < from
      <4>1. Covers(walk.search, walk.depth * PageSize, walk.opened, walk.seen)
        BY <1>0 DEF WalkOK
      <4> QED  BY <2>1, <3>1, <3>2, <4>1 DEF Covers
    <3>3. CASE ~(Rank(p, S) < from)
      <4>1. Rank(p, S) >= from /\ Rank(p, S) < from + PageSize
        <5> HIDE DEF from
        <5> QED  BY <1>2, <1>5, <2>1, <3>3
      <4> QED  BY <1>4, <4>1
    <3> QED  BY <3>2, <3>3
  <2>2. Continues(d) =>
          Covers(d.search, d.page * PageSize, walk.opened, walk.seen \cup Ids(d))
    BY <1>1, <2>1 DEF Covers
  <2> QED  BY <1>1, <1>7, <2>2 DEF AnswerOK
<1> QED  BY <1>6, <1>7

\* Nothing of the log or of the walk changes, and an answer on its way to the
\* table was on its way before.
LEMMA WalkStays ==
    ASSUME WalkOK, UNCHANGED <<log, idSeq, walk>>,
           \A c \in loads' : Answered(c) => c \in loads,
           \A c \in loads' : c.id = loadId' /\ Answered(c) => c.id = loadId
    PROVE  WalkOK'
<1>1. AgesOK'
  BY DEF WalkOK, AgesOK
<1>2. \A s : Hits(s)' = Hits(s)
  BY DEF Hits, Window
<1>3. \A s, n, opened, seen : Covers(s, n, opened, seen)' <=> Covers(s, n, opened, seen)
  BY <1>2 DEF Covers
<1>4. Covers(walk.search, walk.depth * PageSize, walk.opened, walk.seen)'
  BY <1>3 DEF WalkOK
<1>5. ASSUME NEW c \in loads', c.id = loadId', Answered(c)  PROVE AnswerOK(c)'
  <2>1. AnswerOK(c)
    BY <1>5 DEF WalkOK
  <2> QED  BY <1>3, <2>1 DEF AnswerOK, Continues
<1> QED  BY <1>1, <1>4, <1>5 DEF WalkOK, Answered

\* A new load is the latest, and has no answer yet.
LEMMA StartKeeps ==
    ASSUME PageInv, NEW p \in Nat \ {0}, NEW s \in Searches, NEW r,
           StartLoad(p, s, r), page' = p, search' = s,
           UNCHANGED <<logVars, shown, failedLoad, walk>>
    PROVE  PageInv'
<1> DEFINE n == Load(loadId + 1, p, s, r)
<1>0. LogInv /\ LoadsOK /\ WalkOK
  BY DEF PageInv
<1>1. /\ loadId' = loadId + 1 /\ loads' = loads \cup {n}
  BY DEF StartLoad
<1>2. /\ n.id = loadId + 1 /\ n.page = p /\ n.search = s /\ ~Answered(n)
      /\ n = [id |-> n.id, page |-> n.page, search |-> n.search,
              refresh |-> n.refresh, answer |-> n.answer]
  BY DEF Load, Answered
<1> HIDE DEF n
<1>3. LoadsOK'
  BY <1>0, <1>1, <1>2 DEF LoadsOK
<1>4. ControlsMatchTable' /\ SpinnerIsHonest'
  BY <1>1, <1>2 DEF ControlsMatchTable, SpinnerIsHonest
<1>5. WalkOK'
  <2>1. \A c \in loads' : Answered(c) => c \in loads
    BY <1>1, <1>2
  <2>2. \A c \in loads' : c.id = loadId' /\ Answered(c) => c.id = loadId
    <3>1. \A c \in loads : c.id <= loadId /\ c.id \in Nat /\ loadId \in Nat
      BY <1>0 DEF LoadsOK
    <3> QED  BY <1>1, <2>1, <3>1
  <2> QED  BY <1>0, <2>1, <2>2, WalkStays DEF logVars, ring
<1>6. LogInv'
  BY <1>0, LogInvStep DEF LogInv
<1> QED  BY <1>3, <1>4, <1>5, <1>6 DEF PageInv


\* The server answers a load.
LEMMA ServeKeeps ==
    ASSUME PageInv, NEW c \in loads, ServeList(c)
    PROVE  PageInv'
<1> DEFINE d == [c EXCEPT !.answer = [result |-> Query(c), at |-> idSeq]]
<1>0. LogInv /\ LoadsOK /\ WalkOK /\ SpinnerIsHonest /\ ControlsMatchTable
  BY DEF PageInv
<1>1. /\ loads' = (loads \ {c}) \cup {d}
      /\ UNCHANGED <<logVars, page, search, loadId, loading, shown, failedLoad, walk>>
  BY DEF ServeList
<1>2. /\ d.id = c.id /\ d.page = c.page /\ d.search = c.search /\ d.answer.at = idSeq
      /\ d = [id |-> d.id, page |-> d.page, search |-> d.search,
              refresh |-> d.refresh, answer |-> d.answer]
  <2>1. c = [id |-> c.id, page |-> c.page, search |-> c.search,
             refresh |-> c.refresh, answer |-> c.answer]
    BY <1>0 DEF LoadsOK
  <2>2. d = [id |-> c.id, page |-> c.page, search |-> c.search, refresh |-> c.refresh,
             answer |-> [result |-> Query(c), at |-> idSeq]]
    BY <2>1
  <2> QED  BY <2>2
<1>3. AnswerOK(d)
  BY FreshAnswerOK
<1> HIDE DEF d
<1>4. LoadsOK'
  BY <1>0, <1>1, <1>2 DEF LoadsOK
<1>5. SpinnerIsHonest'
  BY <1>0, <1>1, <1>2 DEF SpinnerIsHonest
<1>6. ControlsMatchTable'
  BY <1>0, <1>1, <1>2 DEF ControlsMatchTable
<1>7. LogInv'
  BY <1>0, <1>1, LogInvStep
<1>8. log' = log /\ idSeq' = idSeq /\ walk' = walk
  BY <1>1 DEF logVars, ring
<1>9. AgesOK'
  <2>1. AgesOK
    BY <1>0 DEF WalkOK
  <2>2. idSeq \in Nat /\ idSeq <= idSeq
    BY <2>1 DEF AgesOK
  <2>3. \A e \in loads' : Answered(e) => e.answer.at \in Nat /\ e.answer.at <= idSeq
    BY <1>1, <1>2, <2>1, <2>2 DEF AgesOK
  <2> QED  BY <1>8, <2>1, <2>3 DEF AgesOK, Answered
<1>10. \A s : Hits(s)' = Hits(s)
  BY <1>8 DEF Hits, Window
<1>11. \A s, n, opened, seen : Covers(s, n, opened, seen)' <=> Covers(s, n, opened, seen)
  BY <1>8, <1>10 DEF Covers
<1>12. \A e \in loads' : e.id = loadId' /\ Answered(e) => AnswerOK(e)'
  <2> SUFFICES ASSUME NEW e \in loads', e.id = loadId', Answered(e)
               PROVE  AnswerOK(e)'
    OBVIOUS
  <2>1. AnswerOK(e)
    BY <1>0, <1>1, <1>3 DEF WalkOK
  <2> QED  BY <1>8, <1>11, <2>1 DEF AnswerOK, Continues
<1>13. Covers(walk.search, walk.depth * PageSize, walk.opened, walk.seen)'
  BY <1>0, <1>8, <1>11 DEF WalkOK
<1>14. WalkOK'
  BY <1>9, <1>12, <1>13 DEF WalkOK, Answered
<1> QED  BY <1>4, <1>5, <1>6, <1>7, <1>14 DEF PageInv

\* The walk after the answer to the latest load.
LEMMA WalkGoesOn ==
    ASSUME PageInv, NEW c \in loads, c.id = loadId, Answered(c)
    PROVE  LET w == Walked(c)
           IN  /\ w = [depth |-> w.depth, opened |-> w.opened,
                       search |-> w.search, seen |-> w.seen]
               /\ w.depth \in Nat /\ w.search \in Searches
               /\ w.opened \in Nat /\ w.opened <= idSeq
               /\ Covers(w.search, w.depth * PageSize, w.opened, w.seen)
<1>0. /\ LogInv /\ AgesOK /\ AnswerOK(c) /\ c.search \in Searches
      /\ c.answer.at \in Nat /\ c.answer.at <= idSeq
      /\ walk = [depth |-> walk.depth, opened |-> walk.opened,
                 search |-> walk.search, seen |-> walk.seen]
      /\ walk.depth \in Nat /\ walk.search \in Searches
      /\ walk.opened \in Nat /\ walk.opened <= idSeq /\ idSeq \in Nat
  BY DEF PageInv, LoadsOK, WalkOK, AgesOK
<1>1. CASE c.page = 1
  <2> DEFINE w == [depth |-> 1, opened |-> c.answer.at, search |-> c.search,
                   seen |-> Ids(c)]
  <2>1. Walked(c) = w
    BY <1>1 DEF Walked, Ids
  <2>2. 1 * PageSize = PageSize
    BY PagesAreStretches
  <2>3. Covers(c.search, PageSize, c.answer.at, Ids(c))
    BY <1>0, <1>1 DEF AnswerOK
  <2> QED  BY <1>0, <2>1, <2>2, <2>3
<1>2. CASE c.page # 1 /\ Continues(c)
  <2> DEFINE w == [depth |-> walk.depth + 1, opened |-> walk.opened,
                   search |-> walk.search, seen |-> walk.seen \cup Ids(c)]
  <2>1. Walked(c) = w
    <3>1. Walked(c) = [walk EXCEPT !.depth = @ + 1, !.seen = @ \cup Ids(c)]
      BY <1>2 DEF Walked, Continues, Ids
    <3> QED  BY <1>0, <3>1
  <2>2. Covers(walk.search, (walk.depth + 1) * PageSize, walk.opened,
               walk.seen \cup Ids(c))
    BY <1>0, <1>2 DEF AnswerOK, Continues
  <2> QED  BY <1>0, <2>1, <2>2
<1>3. CASE c.page # 1 /\ ~Continues(c)
  <2>1. Walked(c) = NoWalk
    BY <1>3 DEF Walked, Continues
  <2>2. 0 * PageSize = 0
    BY PagesAreStretches
  <2>3. \A p \in Hits(NoSearch) : Rank(p, Hits(NoSearch)) \in Nat
    <3>1. Hits(NoSearch) \in SUBSET DOMAIN log
      BY DEF Hits, Window
    <3> QED  BY <1>0, <3>1, PartsAreFinite
  <2>4. Covers(NoSearch, 0 * PageSize, 0, {})
    BY <2>2, <2>3 DEF Covers
  <2> QED  BY <1>0, <2>1, <2>4 DEF NoWalk, Searches
<1> QED  BY <1>1, <1>2, <1>3

\* An answer arrives.
LEMMA ArriveKeeps ==
    ASSUME PageInv, NEW c \in loads, ArriveList(c)
    PROVE  PageInv'
<1>0. LogInv /\ LoadsOK /\ WalkOK /\ SpinnerIsHonest /\ ControlsMatchTable
  BY DEF PageInv
<1>1. /\ loads' = loads \ {c} /\ Answered(c)
      /\ UNCHANGED <<logVars, page, search, loadId, failedLoad>>
  BY DEF ArriveList
<1>2. LoadsOK'
  BY <1>0, <1>1 DEF LoadsOK
<1>3. LogInv'
  BY <1>0, <1>1, LogInvStep
<1>4. log' = log /\ idSeq' = idSeq
  BY <1>1 DEF logVars, ring
<1>5. CASE c.id = loadId
  <2>1. /\ shown' = [id |-> c.id, page |-> c.page, search |-> c.search]
        /\ loading' = FALSE /\ walk' = Walked(c)
    BY <1>5 DEF ArriveList
  <2>2. \A d \in loads' : d.id # loadId'
    BY <1>0, <1>1, <1>5 DEF LoadsOK
  <2>3. ControlsMatchTable'
    <3>1. c.page = page /\ c.search = search
      BY <1>0, <1>5 DEF LoadsOK
    <3> QED  BY <1>1, <2>1, <3>1 DEF ControlsMatchTable
  <2>4. SpinnerIsHonest'
    BY <2>1 DEF SpinnerIsHonest
  <2>5. AgesOK' /\ Covers(walk.search, walk.depth * PageSize, walk.opened, walk.seen)'
    <3> DEFINE w == Walked(c)
    <3>1. /\ w = [depth |-> w.depth, opened |-> w.opened,
                  search |-> w.search, seen |-> w.seen]
          /\ w.depth \in Nat /\ w.search \in Searches
          /\ w.opened \in Nat /\ w.opened <= idSeq
          /\ Covers(w.search, w.depth * PageSize, w.opened, w.seen)
      BY <1>1, <1>5, WalkGoesOn
    <3> HIDE DEF w
    <3>2. walk' = w
      BY <2>1 DEF w
    <3>3. \A s, n, opened, seen :
             Covers(s, n, opened, seen)' <=> Covers(s, n, opened, seen)
      BY <1>4 DEF Covers, Hits, Window
    <3>4. \A d \in loads' : Answered(d)' => d.answer.at \in Nat /\ d.answer.at <= idSeq'
      BY <1>0, <1>1, <1>4 DEF WalkOK, AgesOK, Answered
    <3> QED  BY <1>0, <1>4, <3>1, <3>2, <3>3, <3>4 DEF WalkOK, AgesOK
  <2>6. WalkOK'
    BY <2>2, <2>5 DEF WalkOK
  <2> QED  BY <1>2, <1>3, <2>3, <2>4, <2>6 DEF PageInv
<1>6. CASE c.id # loadId
  <2>1. UNCHANGED <<shown, loading, walk>>
    BY <1>6 DEF ArriveList
  <2>2. ControlsMatchTable'
    BY <1>0, <1>1, <1>6, <2>1 DEF ControlsMatchTable
  <2>3. SpinnerIsHonest'
    BY <1>0, <1>1, <1>6, <2>1 DEF SpinnerIsHonest
  <2>4. WalkOK'
    BY <1>0, <1>1, <1>4, <2>1, WalkStays
  <2> QED  BY <1>2, <1>3, <2>2, <2>3, <2>4 DEF PageInv
<1> QED  BY <1>5, <1>6

\* A load fails.
LEMMA FailKeeps ==
    ASSUME PageInv, NEW c \in loads, FailList(c)
    PROVE  PageInv'
<1>0. LogInv /\ LoadsOK /\ WalkOK /\ SpinnerIsHonest /\ ControlsMatchTable
  BY DEF PageInv
<1>1. /\ loads' = loads \ {c}
      /\ UNCHANGED <<logVars, page, search, loadId, shown, walk>>
      /\ IF c.id = loadId THEN loading' = FALSE /\ failedLoad' = c.id
         ELSE UNCHANGED <<loading, failedLoad>>
  BY DEF FailList
<1>2. LoadsOK'
  BY <1>0, <1>1 DEF LoadsOK
<1>3. LogInv'
  BY <1>0, <1>1, LogInvStep
<1>4. ControlsMatchTable'
  BY <1>0, <1>1 DEF ControlsMatchTable
<1>5. SpinnerIsHonest'
  BY <1>0, <1>1 DEF SpinnerIsHonest
<1>6. WalkOK'
  <2>1. log' = log /\ idSeq' = idSeq /\ walk' = walk
    BY <1>1 DEF logVars, ring
  <2> QED  BY <1>0, <1>1, <2>1, WalkStays
<1> QED  BY <1>2, <1>3, <1>4, <1>5, <1>6 DEF PageInv

\* A dispatch is recorded.
LEMMA RecordKeeps ==
    ASSUME PageInv, Record
    PROVE  PageInv'
<1>0. LogInv /\ LoadsOK /\ WalkOK /\ AgesOK /\ SpinnerIsHonest /\ ControlsMatchTable
  BY DEF PageInv, WalkOK
<1> DEFINE o == [success |-> 0, failed |-> 0, error |-> FALSE]
<1>1. PICK text \in Texts : Add(text, o)
  BY DEF Record
<1>2. /\ idSeq < MaxRecords
      /\ UNCHANGED listVars
  BY DEF Record
<1>3. o \in Outcomes
  BY DEF Outcomes, LogAssumption
<1> DEFINE rec == [id |-> idSeq + 1, text |-> text, success |-> o.success,
                   failed |-> o.failed, error |-> o.error]
<1>4. log' = Append(log, rec) /\ idSeq' = idSeq + 1 /\ rec.id = idSeq + 1
  BY <1>1 DEF Add
<1> HIDE DEF rec, o
<1>5. LogInv'
  BY <1>0, <1>1, <1>2, <1>3, AddStep
<1>6. LoadsOK' /\ ControlsMatchTable' /\ SpinnerIsHonest'
  BY <1>0, <1>2 DEF listVars, LoadsOK, ControlsMatchTable, SpinnerIsHonest
<1>7. AgesOK'
  <2>1. /\ log \in Seq(Records) /\ Len(log) \in Nat /\ idSeq \in Nat
        /\ log' \in Seq(Records)
    BY <1>0, <1>5, SlotsOfPositions DEF AgesOK, LogInv, LogTypeOK
  <2>2. /\ Len(log') = Len(log) + 1 /\ DOMAIN log' = 1 .. Len(log) + 1
        /\ log'[Len(log) + 1] = rec
        /\ \A j \in 1 .. Len(log) : log'[j] = log[j]
    BY <1>4, <2>1
  <2>3. ASSUME NEW p \in DOMAIN log'  PROVE log'[p].id <= idSeq'
    <3>1. CASE p = Len(log) + 1
      BY <1>4, <2>1, <2>2, <3>1
    <3>2. CASE p # Len(log) + 1
      <4>1. p \in DOMAIN log /\ log'[p] = log[p]
        BY <2>1, <2>2, <3>2
      <4>2. log[p].id <= idSeq /\ log[p].id \in Int
        <5>1. log[p] \in Records
          BY <2>1, <4>1
        <5>2. log[p].id \in 1 .. MaxRecords
          BY <5>1 DEF Records
        <5> QED  BY <1>0, <4>1, <5>2 DEF AgesOK
      <4> QED  BY <1>4, <2>1, <4>1, <4>2
    <3> QED  BY <3>1, <3>2
  <2>4. \A c \in loads' : Answered(c) => c.answer.at \in Nat /\ c.answer.at <= idSeq'
    BY <1>0, <1>2, <1>4, <2>1 DEF listVars, AgesOK
  <2>5. walk.opened <= idSeq'
    BY <1>0, <1>4, <2>1 DEF AgesOK
  <2> QED  BY <1>0, <1>2, <1>4, <2>1, <2>3, <2>4, <2>5 DEF listVars, AgesOK, Answered
<1>8. ASSUME NEW s, NEW n \in Nat, NEW opened \in Nat, opened <= idSeq, NEW seen,
             Covers(s, n, opened, seen)
      PROVE  Covers(s, n, opened, seen)'
  BY <1>0, <1>4, <1>5, <1>8, CoverSurvivesAdd
<1>9. /\ walk.depth * PageSize \in Nat /\ PageSize \in Nat
      /\ \A c \in loads : c.page * PageSize \in Nat
  <2>1. \A n \in Nat : n * PageSize \in Nat
    OBVIOUS
  <2> QED  BY <1>0, <2>1 DEF AgesOK, LoadsOK, PageAssumption
<1>10. Covers(walk.search, walk.depth * PageSize, walk.opened, walk.seen)'
  <2>1. walk' = walk
    BY <1>2 DEF listVars
  <2> QED  BY <1>0, <1>8, <1>9, <2>1 DEF WalkOK, AgesOK
<1>11. ASSUME NEW c \in loads', c.id = loadId', Answered(c)  PROVE AnswerOK(c)'
  <2>1. c \in loads /\ c.id = loadId /\ walk' = walk
    BY <1>2, <1>11 DEF listVars
  <2>2. AnswerOK(c) /\ c.answer.at \in Nat /\ c.answer.at <= idSeq
    BY <1>0, <1>11, <2>1 DEF WalkOK, AgesOK
  <2>3. c.page = 1 => Covers(c.search, PageSize, c.answer.at, Ids(c))'
    BY <1>8, <1>9, <2>2 DEF AnswerOK
  <2>4. c.page # 1 /\ Continues(c)' =>
           Covers(c.search, c.page * PageSize, walk.opened, walk.seen \cup Ids(c))'
    BY <1>0, <1>8, <1>9, <2>1, <2>2 DEF AnswerOK, AgesOK, Continues
  <2> QED  BY <2>3, <2>4 DEF AnswerOK
<1> QED  BY <1>5, <1>6, <1>7, <1>10, <1>11 DEF PageInv, WalkOK, Answered


\* Steps of the statistics do not touch what the invariant is about.
LEMMA QuietKeeps == PageInv /\ UNCHANGED <<logVars, listVars>> => PageInv'
<1> SUFFICES ASSUME PageInv, UNCHANGED <<logVars, listVars>>  PROVE PageInv'
  OBVIOUS
<1>1. LogInv'
  BY LogInvStep DEF PageInv
<1>2. LoadsOK' /\ ControlsMatchTable' /\ SpinnerIsHonest'
  BY DEF PageInv, listVars, LoadsOK, ControlsMatchTable, SpinnerIsHonest
<1>3. WalkOK'
  <2>1. log' = log /\ idSeq' = idSeq /\ walk' = walk /\ loads' = loads /\ loadId' = loadId
    BY DEF listVars, logVars, ring
  <2> QED  BY <2>1, WalkStays DEF PageInv
<1> QED  BY <1>1, <1>2, <1>3 DEF PageInv


\* Every step keeps the invariant.
LEMMA PageStep == PageInv /\ [Next]_vars => PageInv'
<1> SUFFICES ASSUME PageInv, [Next]_vars  PROVE PageInv'
  OBVIOUS
<1>0. page \in Nat \ {0} /\ search \in Searches
  BY DEF PageInv, LoadsOK
<1>1. ASSUME NEW p \in 1 .. MaxPage, TurnTo(p)  PROVE PageInv'
  <2>1. p \in Nat \ {0}
    BY DEF PageAssumption
  <2>2. StartLoad(p, search, FALSE) /\ page' = p /\ search' = search
        /\ UNCHANGED <<logVars, shown, failedLoad, walk>>
    BY <1>1, Zenon DEF TurnTo
  <2> QED  BY <1>0, <2>1, <2>2, StartKeeps
<1>2. ASSUME NEW s \in Searches, SearchFor(s)  PROVE PageInv'
  <2>1. StartLoad(1, s, FALSE) /\ page' = 1 /\ search' = s
        /\ UNCHANGED <<logVars, shown, failedLoad, walk>>
    BY <1>2, Zenon DEF SearchFor
  <2>2. 1 \in Nat \ {0}
    OBVIOUS
  <2> QED  BY <2>1, <2>2, StartKeeps
<1>3. ASSUME Refresh  PROVE PageInv'
  <2>1. StartLoad(page, search, TRUE) /\ page' = page /\ search' = search
        /\ UNCHANGED <<logVars, shown, failedLoad, walk>>
    BY <1>3 DEF Refresh
  <2> QED  BY <1>0, <2>1, StartKeeps
<1>4. ASSUME NEW c \in loads, ServeList(c) \/ ArriveList(c) \/ FailList(c)
      PROVE  PageInv'
  BY <1>4, ServeKeeps, ArriveKeeps, FailKeeps
<1>5. ASSUME NEW c \in statLoads, ServeStats(c) \/ ArriveStats(c) \/ FailStats(c)
      PROVE  PageInv'
  <2>1. UNCHANGED <<logVars, listVars>>
    BY <1>5 DEF ServeStats, ArriveStats, FailStats
  <2> QED  BY <2>1, QuietKeeps
<1>6. ASSUME Record  PROVE PageInv'
  BY <1>6, RecordKeeps
<1>7. CASE UNCHANGED vars
  <2>1. UNCHANGED <<logVars, listVars>>
    BY <1>7 DEF vars
  <2> QED  BY <2>1, QuietKeeps
<1> QED  BY <1>1, <1>2, <1>3, <1>4, <1>5, <1>6, <1>7 DEF Next

\* The table shows what the controls show once the latest load is over, in
\* whatever order the server answers and the network delivers.
THEOREM TableFollowsControls == Spec => []ControlsMatchTable
<1>1. PageInv => ControlsMatchTable
  BY DEF PageInv
<1> QED  BY <1>1, PageStarts, PageStep, PTL DEF Spec

\* The spinner never turns without a load to wait for.
THEOREM SpinnerNeverStuck == Spec => []SpinnerIsHonest
<1>1. PageInv => SpinnerIsHonest
  BY DEF PageInv
<1> QED  BY <1>1, PageStarts, PageStep, PTL DEF Spec

\* For every page size, capacity and rate of new records, whoever reads the pages
\* in order misses no record that was there at the start.
THEOREM WalkIsComplete == Spec => []WalkSkipsNothing
<1>1. PageInv => WalkSkipsNothing
  BY DEF PageInv, WalkOK, Covers, WalkSkipsNothing
<1> QED  BY <1>1, PageStarts, PageStep, PTL DEF Spec

=============================================================================
