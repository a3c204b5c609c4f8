------------------------- MODULE TargetForm_proofs -------------------------
(***************************************************************************)
(* Proofs about TargetForm: what the dialog saves means what it shows, the *)
(* tag dialog changes no verdict, and the matcher decides as documented.   *)
(***************************************************************************)
EXTENDS TargetForm, NatRecursion, SequenceTheorems

Row == [key : Keys, value : RowValues \cup {Empty}, mode : {"exact", "prefix"}]

Target == [appType : AppTypes, msgTypes : SUBSET Known, unknown : Policies,
           miss : Policies, rows : Seq(Row), rules : RuleLists \cup {<<>>}]

\* Only events of the app type can be selected.
Selectable(t) == t \in Target /\ t.msgTypes \subseteq EventsOf(t.appType)

\* A saved target has no row without a key, and no selection of all events.
Saved(t) ==
    /\ Selectable(t)
    /\ \A i \in DOMAIN t.rows : t.rows[i].key # Empty
    /\ t.msgTypes = {} \/ t.msgTypes # EventsOf(t.appType)

\* The built-in definitions stay in front, as they were; those behind them have
\* offered keys and no path.
DefsInv(d) ==
    /\ d \in Seq(TagDefs) /\ Len(BuiltInDefs) <= Len(d)
    /\ \A i \in DOMAIN BuiltInDefs : d[i] = BuiltInDefs[i]
    /\ \A i \in DOMAIN d :
         i > Len(BuiltInDefs) => \E key \in OfferedKeys : d[i] = Defined(key)

FormInv ==
    /\ form # Null => Selectable(form)
    /\ saved # Null => Saved(saved)
    /\ DefsInv(defs)
-----------------------------------------------------------------------------
(***************************************************************************)
(* The matcher.                                                            *)
(***************************************************************************)
\* Of the places that satisfy a condition there is a first.
LEMMA FirstOf ==
    ASSUME NEW P \in SUBSET Nat, P # {}
    PROVE  LET i == CHOOSE i \in P : \A j \in P : i <= j
           IN  i \in P /\ \A j \in P : i <= j
<1>1. \E n \in P : \A m \in P : n <= m
  BY LeastNat
<1> QED  BY <1>1

\* Every row whose key has a path is in a group, and a group holds the rows of
\* its key.
LEMMA GroupsCover ==
    ASSUME NEW D, NEW rows \in Seq(Row)
    PROVE  LET groups == GroupTagsByKey(rows, D)
           IN  /\ \A i \in DOMAIN groups :
                    /\ i \in DOMAIN rows /\ groups[i].key = rows[i].key
                    /\ groups[i].path = ResolveFieldPath(rows[i].key, D)
                    /\ groups[i].path # Null
                    /\ groups[i].rows = {row \in Range(rows) : row.key = rows[i].key}
               /\ \A row \in Range(rows) :
                    ResolveFieldPath(row.key, D) # Null =>
                      \E i \in DOMAIN groups : rows[i].key = row.key
<1> DEFINE groups == GroupTagsByKey(rows, D)
<1>1. ASSUME NEW i \in DOMAIN groups
      PROVE  /\ i \in DOMAIN rows /\ groups[i].key = rows[i].key
             /\ groups[i].path = ResolveFieldPath(rows[i].key, D)
             /\ groups[i].path # Null
             /\ groups[i].rows = {row \in Range(rows) : row.key = rows[i].key}
  BY <1>1 DEF GroupTagsByKey
<1>2. ASSUME NEW row \in Range(rows), ResolveFieldPath(row.key, D) # Null
      PROVE  \E i \in DOMAIN groups : rows[i].key = row.key
  <2> DEFINE same == {i \in DOMAIN rows : rows[i].key = row.key}
  <2>1. same \in SUBSET Nat /\ same # {}
    BY <1>2 DEF Range
  <2>2. PICK i \in same : \A j \in same : i <= j
    <3> HIDE DEF same
    <3> QED  BY <2>1, LeastNat
  <2>3. \A j \in 1 .. (i - 1) : rows[j].key # rows[i].key
    BY <2>2
  <2>4. i \in DOMAIN groups
    BY <1>2, <2>3 DEF GroupTagsByKey
  <2> QED  BY <2>4
<1> HIDE DEF groups
<1> QED  BY <1>1, <1>2 DEF groups

\* The grouped loop decides as the row by row conditions do.
LEMMA PassesIsRowByRow ==
    ASSUME NEW m, NEW D, NEW t, t.rows \in Seq(Row)
    PROVE  PassesBuiltInTags(m, t, D) <=>
             \A row \in Range(t.rows) :
               ResolveFieldPath(row.key, D) # Null => RowWants(m, row, t, D)
<1> DEFINE groups == GroupTagsByKey(t.rows, D)
<1>1. ASSUME NEW i \in DOMAIN groups
      PROVE  GroupPasses(m, groups[i], t.miss) <=> RowWants(m, t.rows[i], t, D)
  <2>1. /\ i \in DOMAIN t.rows /\ groups[i].path = ResolveFieldPath(t.rows[i].key, D)
        /\ groups[i].rows = {row \in Range(t.rows) : row.key = t.rows[i].key}
    BY <1>1, GroupsCover
  <2> QED  BY <2>1 DEF GroupPasses, RowWants
<1>2. PassesBuiltInTags(m, t, D) <=> \A i \in DOMAIN groups : RowWants(m, t.rows[i], t, D)
  BY <1>1 DEF PassesBuiltInTags
<1>3. \A i \in DOMAIN groups : /\ i \in DOMAIN t.rows /\ t.rows[i] \in Range(t.rows)
                               /\ ResolveFieldPath(t.rows[i].key, D) # Null
  BY GroupsCover DEF Range
<1>4. \A row \in Range(t.rows) : ResolveFieldPath(row.key, D) # Null =>
        \E i \in DOMAIN groups : t.rows[i].key = row.key
  BY GroupsCover
<1>5. \A row, other : row.key = other.key =>
        (RowWants(m, row, t, D) <=> RowWants(m, other, t, D))
  BY DEF RowWants
<1> HIDE DEF groups
<1> QED  BY <1>2, <1>3, <1>4, <1>5

\* A reason is never taken for the decision to dispatch.
LEMMA ReasonsAreNoDispatch ==
    /\ Rules # Dispatch /\ NoTag # Dispatch /\ \A x : Type(x) # Dispatch
    /\ Rules.kind # "mismatch" /\ NoTag.kind # "mismatch" /\ Dispatch.kind # "mismatch"
    /\ \A x : Type(x).kind # "mismatch"
    /\ \A m, t, D : GetBuiltInMismatchDetail(m, t, D).kind = "mismatch"
<1>1. /\ Rules.kind = "rules" /\ NoTag.kind = "tags" /\ Dispatch.kind = "dispatch"
      /\ \A x : Type(x).kind = "type" /\ Mismatch(x).kind = "mismatch"
      /\ Fallback.kind = "mismatch"
  BY DEF Rules, NoTag, Dispatch, Type, Mismatch, Fallback
<1>2. ASSUME NEW m, NEW t, NEW D
      PROVE  \/ GetBuiltInMismatchDetail(m, t, D) = Fallback
             \/ \E x : GetBuiltInMismatchDetail(m, t, D) = Mismatch(x)
  <2> DEFINE groups == GroupTagsByKey(t.rows, D)
             bad == {i \in DOMAIN groups :
                       IF Missing(FieldOf(m, groups[i].path)) THEN t.miss = "discard"
                       ELSE \A row \in groups[i].rows :
                              /\ row.value # Empty
                              /\ ~MatchTagValue(FieldOf(m, groups[i].path), row)}
             key == groups[CHOOSE i \in bad : \A j \in bad : i <= j].key
  <2>1. GetBuiltInMismatchDetail(m, t, D) = IF bad = {} THEN Fallback ELSE Mismatch(key)
    BY DEF GetBuiltInMismatchDetail
  <2> HIDE DEF bad, key
  <2> QED  BY <2>1
<1> HIDE DEF Rules, NoTag, Dispatch
<1> QED  BY <1>1, <1>2

\* The decision, its early returns taken apart.
LEMMA DispatchIsWanted ==
    ASSUME NEW m, NEW D, NEW t, t.rows \in Seq(Row)
    PROVE  (ShouldDispatch(m, t, D) = Dispatch) <=> Wants(m, t, D)
<1> DEFINE assigned == MatchTags(m, t.rules)
           custom   == {k \in {row.key : row \in Range(t.rows)} : ~BuiltInKey(k, D)}
           TypeOK   == PassesMsgTypeFilter(m, t)
           RowsOK   == \A row \in Range(t.rows) :
                         ResolveFieldPath(row.key, D) # Null => RowWants(m, row, t, D)
           TagsOK   == t.rules # <<>> =>
                         \/ t.rows = <<>> /\ assigned # {}
                         \/ t.rows # <<>> /\ (custom = {} \/ custom \cap assigned # {})
<1>1. TypeOK <=> (t.msgTypes # {} => IF m.type \in Known THEN m.type \in t.msgTypes
                                     ELSE t.unknown = "dispatch")
  BY DEF PassesMsgTypeFilter
<1>2. PassesBuiltInTags(m, t, D) <=> RowsOK
  BY PassesIsRowByRow
<1>3. t.rows = <<>> => RowsOK /\ custom = {}
  BY DEF Range
<1>4. TagsOK <=>
        (t.rules # <<>> =>
           \/ t.rows = <<>> /\ assigned # {}
           \/ t.rows # <<>> /\ \A row \in Range(t.rows) : BuiltInKey(row.key, D)
           \/ \E row \in Range(t.rows) : ~BuiltInKey(row.key, D) /\ row.key \in assigned)
  <2>1. custom = {} <=> \A row \in Range(t.rows) : BuiltInKey(row.key, D)
    OBVIOUS
  <2>2. custom \cap assigned # {} <=>
          \E row \in Range(t.rows) : ~BuiltInKey(row.key, D) /\ row.key \in assigned
    OBVIOUS
  <2> HIDE DEF custom, assigned
  <2> QED  BY <1>3, <2>1, <2>2
<1>5. Wants(m, t, D) <=> TypeOK /\ RowsOK /\ TagsOK
  <2> HIDE DEF TypeOK, TagsOK
  <2> QED  BY <1>1, <1>4 DEF Wants
<1>6. (ShouldDispatch(m, t, D) = Dispatch) <=> TypeOK /\ RowsOK /\ TagsOK
  <2>1. \A x : GetBuiltInMismatchDetail(m, t, D) # Dispatch
    BY ReasonsAreNoDispatch
  <2>2. Type(m.type) # Dispatch /\ Rules # Dispatch /\ NoTag # Dispatch
    BY ReasonsAreNoDispatch
  <2>3. ShouldDispatch(m, t, D) =
          IF ~TypeOK THEN Type(m.type)
          ELSE IF t.rows = <<>> /\ t.rules = <<>> THEN Dispatch
          ELSE IF t.rows # <<>> /\ ~PassesBuiltInTags(m, t, D)
               THEN GetBuiltInMismatchDetail(m, t, D)
          ELSE IF t.rules = <<>> THEN Dispatch
          ELSE IF t.rows = <<>> THEN IF assigned # {} THEN Dispatch ELSE Rules
          ELSE IF custom = {} \/ custom \cap assigned # {} THEN Dispatch ELSE NoTag
    BY DEF ShouldDispatch
  <2> HIDE DEF TypeOK, RowsOK, custom, assigned
  <2> QED  BY <1>2, <1>3, <2>1, <2>2, <2>3
<1> QED  BY <1>5, <1>6

\* Where the grouped loop fails, its second copy finds a group that fails.
LEMMA MismatchIsReal ==
    ASSUME FormAssumption, NEW m, NEW D, NEW t, t.rows \in Seq(Row), t.miss \in Policies,
           ~PassesBuiltInTags(m, t, D)
    PROVE  LET d == GetBuiltInMismatchDetail(m, t, D)
           IN  /\ d # Fallback
               /\ \E row \in Range(t.rows) : row.key = d.about /\ ~RowWants(m, row, t, D)
<1> DEFINE groups == GroupTagsByKey(t.rows, D)
           bad == {i \in DOMAIN groups :
                     IF Missing(FieldOf(m, groups[i].path)) THEN t.miss = "discard"
                     ELSE \A row \in groups[i].rows :
                            /\ row.value # Empty
                            /\ ~MatchTagValue(FieldOf(m, groups[i].path), row)}
           first == CHOOSE i \in bad : \A j \in bad : i <= j
<1>1. \A i \in DOMAIN groups :
        /\ i \in DOMAIN t.rows /\ groups[i].key = t.rows[i].key
        /\ groups[i].path = ResolveFieldPath(t.rows[i].key, D)
        /\ groups[i].rows = {row \in Range(t.rows) : row.key = t.rows[i].key}
  BY GroupsCover
<1> HIDE DEF groups
<1>2. \A i \in DOMAIN groups : i \in bad <=> ~GroupPasses(m, groups[i], t.miss)
  BY DEF GroupPasses, Policies
<1>3. bad \in SUBSET Nat /\ bad # {}
  <2>1. \E i \in DOMAIN groups : ~GroupPasses(m, groups[i], t.miss)
    BY DEF PassesBuiltInTags, groups
  <2>2. DOMAIN t.rows \subseteq Nat
    OBVIOUS
  <2> QED  BY <1>1, <1>2, <2>1, <2>2
<1>4. first \in bad
  <2> HIDE DEF bad
  <2> QED  BY <1>3, FirstOf
<1>5. GetBuiltInMismatchDetail(m, t, D) = Mismatch(groups[first].key)
  BY <1>3 DEF GetBuiltInMismatchDetail, groups
<1> HIDE DEF first
<1> DEFINE row == t.rows[first]
<1>6. row \in Range(t.rows) /\ row \in Row /\ groups[first].key = row.key
  BY <1>1, <1>4 DEF Range
<1>7. row.key # Null
  BY <1>6 DEF Row, FormAssumption
<1>8. ~RowWants(m, row, t, D)
  <2>1. ~GroupPasses(m, groups[first], t.miss)
    BY <1>2, <1>4
  <2> QED  BY <1>1, <1>4, <2>1 DEF RowWants, GroupPasses
<1>9. Mismatch(row.key) # Fallback /\ Mismatch(row.key).about = row.key
  BY <1>7 DEF Mismatch, Fallback
<1> QED  BY <1>5, <1>6, <1>8, <1>9
-----------------------------------------------------------------------------
(***************************************************************************)
(* Definitions.                                                            *)
(***************************************************************************)
\* The last definition of a key is the one that counts.
LEMMA LastCounts ==
    ASSUME NEW d, NEW key, NEW i \in DOMAIN d, d[i].key = key,
           \A j \in DOMAIN d : d[j].key = key => j <= i, DOMAIN d \subseteq Nat
    PROVE  DefOf(key, d) = d[i]
<1> DEFINE at == {j \in DOMAIN d : d[j].key = key}
           last == CHOOSE j \in at : \A k \in at : k <= j
<1>1. i \in at /\ \A j \in at : j <= i
  OBVIOUS
<1>2. last \in at /\ \A k \in at : k <= last
  BY <1>1
<1>3. last = i
  <2>1. last <= i /\ i <= last /\ last \in Nat /\ i \in Nat
    BY <1>1, <1>2
  <2> HIDE DEF last
  <2> QED  BY <2>1
<1>4. DefOf(key, d) = d[last]
  BY <1>1 DEF DefOf
<1> HIDE DEF last
<1> QED  BY <1>3, <1>4

\* A key that is defined has a last definition.
LEMMA HasLast ==
    ASSUME NEW d, NEW n \in Nat, DOMAIN d = 1 .. n, NEW key, NEW k \in DOMAIN d, d[k].key = key
    PROVE  \E i \in DOMAIN d : d[i].key = key /\ \A j \in DOMAIN d : d[j].key = key => j <= i
<1> DEFINE T == {x \in Nat : x <= n /\ \E i \in DOMAIN d : d[i].key = key /\ x = n - i}
<1>1. T \in SUBSET Nat
  OBVIOUS
<1>2. n - k \in T
  OBVIOUS
<1>3. PICK x \in T : \A y \in T : x <= y
  <2> HIDE DEF T
  <2> QED  BY <1>1, <1>2, LeastNat
<1>4. PICK i \in DOMAIN d : d[i].key = key /\ x = n - i
  OBVIOUS
<1>5. ASSUME NEW j \in DOMAIN d, d[j].key = key  PROVE j <= i
  <2>1. n - j \in T
    BY <1>5
  <2> QED  BY <1>3, <1>4, <2>1
<1> QED  BY <1>4, <1>5

\* A key that is not defined has no definition.
LEMMA NotDefined ==
    ASSUME NEW d, NEW key, \A i \in DOMAIN d : d[i].key # key
    PROVE  DefOf(key, d) = Null
BY DEF DefOf

\* The definitions of DefsInv say of every key what the built-in ones say.
LEMMA DefsSayTheSame ==
    ASSUME FormAssumption, NEW d, DefsInv(d), NEW key
    PROVE  /\ ResolveFieldPath(key, d) = ResolveFieldPath(key, BuiltInDefs)
           /\ BuiltInKey(key, d) <=> BuiltInKey(key, BuiltInDefs)
<1> DEFINE B == BuiltInDefs
<1>1. /\ Len(B) \in Nat /\ DOMAIN B = 1 .. Len(B)
      /\ Len(d) \in Nat /\ DOMAIN d = 1 .. Len(d) /\ Len(B) <= Len(d)
      /\ \A i \in DOMAIN B : d[i] = B[i] /\ B[i].key \notin OfferedKeys
      /\ \A i \in DOMAIN d : d[i] \in TagDefs /\ d[i] # Null
  BY DEF FormAssumption, DefsInv
<1>2. \A i \in DOMAIN d : i > Len(B) =>
         /\ d[i].key \in OfferedKeys /\ d[i].path = Null /\ d[i].builtIn = FALSE
  BY DEF DefsInv, Defined
<1>3. CASE \E i \in DOMAIN B : B[i].key = key
  <2>1. PICK i \in DOMAIN B : B[i].key = key /\ \A j \in DOMAIN B : B[j].key = key => j <= i
    <3>1. PICK k \in DOMAIN B : B[k].key = key
      BY <1>3
    <3> QED  BY <1>1, <3>1, HasLast
  <2>2. i \in DOMAIN d /\ d[i] = B[i] /\ key \notin OfferedKeys
    BY <1>1, <2>1
  <2>3. ASSUME NEW j \in DOMAIN d, d[j].key = key  PROVE j <= i
    <3>1. j \in DOMAIN B
      BY <1>1, <1>2, <2>2, <2>3
    <3> QED  BY <1>1, <2>1, <2>3, <3>1
  <2>4. DefOf(key, d) = d[i]
    <3>1. DOMAIN d \subseteq Nat
      BY <1>1
    <3> QED  BY <2>1, <2>2, <2>3, <3>1, LastCounts
  <2>5. DefOf(key, B) = B[i]
    <3>1. DOMAIN B \subseteq Nat
      BY <1>1
    <3> QED  BY <2>1, <3>1, LastCounts
  <2> QED  BY <2>2, <2>4, <2>5 DEF ResolveFieldPath, BuiltInKey
<1>4. CASE ~ \E i \in DOMAIN B : B[i].key = key
  <2>1. DefOf(key, B) = Null
    BY <1>4, NotDefined
  <2>2. CASE \E k \in DOMAIN d : d[k].key = key
    <3>1. PICK i \in DOMAIN d : d[i].key = key /\ \A j \in DOMAIN d : d[j].key = key => j <= i
      <4>1. PICK k \in DOMAIN d : d[k].key = key
        BY <2>2
      <4> QED  BY <1>1, <4>1, HasLast
    <3>2. DefOf(key, d) = d[i]
      <4>1. DOMAIN d \subseteq Nat
        BY <1>1
      <4> QED  BY <3>1, <4>1, LastCounts
    <3>3. i > Len(B)
      BY <1>1, <1>4, <3>1
    <3> QED  BY <1>2, <2>1, <3>2, <3>3 DEF ResolveFieldPath, BuiltInKey
  <2>3. CASE ~ \E k \in DOMAIN d : d[k].key = key
    <3>1. DefOf(key, d) = Null
      BY <2>3, NotDefined
    <3> QED  BY <2>1, <3>1 DEF ResolveFieldPath, BuiltInKey
  <2> QED  BY <2>2, <2>3
<1> QED  BY <1>3, <1>4

\* A target wants a message whatever was defined beside the built-in tags.
LEMMA WantsTheSame ==
    ASSUME FormAssumption, NEW d, DefsInv(d), NEW m, NEW t
    PROVE  Wants(m, t, d) <=> Wants(m, t, BuiltInDefs)
<1>1. \A key : /\ ResolveFieldPath(key, d) = ResolveFieldPath(key, BuiltInDefs)
               /\ BuiltInKey(key, d) <=> BuiltInKey(key, BuiltInDefs)
  BY DefsSayTheSame
<1>2. \A row : RowWants(m, row, t, d) <=> RowWants(m, row, t, BuiltInDefs)
  BY <1>1 DEF RowWants
<1> QED  BY <1>1, <1>2 DEF Wants
-----------------------------------------------------------------------------
(***************************************************************************)
(* The filter of handleSubmit.                                             *)
(***************************************************************************)
\* One turn, at row.
Kept(sofar, row) == IF row.key = Empty THEN sofar ELSE Append(sofar, row)

\* The filter as a sequence of its turns.
LEMMA KeyTurns ==
    ASSUME NEW rows \in Seq(Row)
    PROVE  \E h : /\ h[0] = <<>>
                  /\ \A n \in Nat : n < Len(rows) => h[n + 1] = Kept(h[n], rows[n + 1])
                  /\ WithKey(rows) = h[Len(rows)]
<1> DEFINE S == Seq(Row)
           a == <<>>
           G == [u \in S \X Nat |-> IF u[2] < Len(rows) THEN Kept(u[1], rows[u[2] + 1])
                                    ELSE u[1]]
<1>0. Len(rows) \in Nat
  OBVIOUS
<1>1. a \in S
  OBVIOUS
<1>2. G \in [S \X Nat -> S]
  <2> SUFFICES ASSUME NEW u \in S \X Nat  PROVE G[u] \in S
    OBVIOUS
  <2>1. u[1] \in S /\ u[2] \in Nat
    OBVIOUS
  <2>2. CASE u[2] < Len(rows)
    <3> DEFINE row == rows[u[2] + 1]  sofar == u[1]
    <3>1. row \in Row
      BY <2>1, <2>2
    <3>2. Append(sofar, row) \in S
      BY <2>1, <3>1
    <3>3. G[u] = Kept(sofar, row)
      BY <2>2
    <3> HIDE DEF G, row
    <3> QED  BY <2>1, <3>2, <3>3 DEF Kept
  <2>3. CASE ~(u[2] < Len(rows))
    BY <2>1, <2>3
  <2> QED  BY <2>2, <2>3
<1>3. PICK f \in [Nat -> S] : Follows(f, a, G)
  <2> HIDE DEF S, a, G
  <2> QED  BY <1>1, <1>2, PrimRec
<1>4. f[0] = <<>>
  BY <1>3 DEF Follows
<1>5. ASSUME NEW n \in Nat, n < Len(rows)  PROVE f[n + 1] = Kept(f[n], rows[n + 1])
  <2>1. <<f[n], n>> \in S \X Nat
    OBVIOUS
  <2>2. f[n + 1] = G[<<f[n], n>>]
    BY <1>3 DEF Follows
  <2>3. G[<<f[n], n>>] = Kept(f[n], rows[n + 1])
    <3> HIDE DEF S
    <3> QED  BY <1>5, <2>1
  <2> QED  BY <2>2, <2>3
<1> HIDE DEF G, S, a
<1> DEFINE IsScan(g) ==
      g = [i \in 0..Len(rows) |->
            IF i = 0 THEN <<>>
            ELSE IF rows[i].key = Empty THEN g[i - 1] ELSE Append(g[i - 1], rows[i])]
<1>6. \E g : IsScan(g)
  <2> DEFINE g == [i \in 0..Len(rows) |-> f[i]]
  <2>1. ASSUME NEW i \in 0..Len(rows), i # 0  PROVE g[i] = Kept(g[i - 1], rows[i])
    <3>1. i - 1 \in Nat /\ i - 1 < Len(rows) /\ (i - 1) + 1 = i /\ i - 1 \in 0..Len(rows)
      BY <1>0, <2>1
    <3>2. g[i] = f[i] /\ g[i - 1] = f[i - 1]
      BY <3>1
    <3>3. f[(i - 1) + 1] = Kept(f[i - 1], rows[(i - 1) + 1])
      BY <1>5, <3>1
    <3> QED  BY <3>1, <3>2, <3>3
  <2>2. 0 \in 0..Len(rows) /\ g[0] = <<>>
    BY <1>0, <1>4
  <2>3. g = [i \in 0..Len(rows) |-> g[i]]
    OBVIOUS
  <2> HIDE DEF g
  <2>4. IsScan(g)
    BY <2>1, <2>2, <2>3 DEF Kept
  <2> QED  BY <2>4
<1>7. \E g : IsScan(g) /\ WithKey(rows) = g[Len(rows)]
  BY <1>6 DEF WithKey
<1>8. PICK h : IsScan(h) /\ WithKey(rows) = h[Len(rows)]
  <2> HIDE DEF IsScan
  <2> QED  BY <1>7
<1>9. h[0] = <<>>
  <2>1. 0 \in 0..Len(rows)
    BY <1>0
  <2> QED  BY <1>8, <2>1
<1>10. ASSUME NEW n \in Nat, n < Len(rows)  PROVE h[n + 1] = Kept(h[n], rows[n + 1])
  <2>1. n + 1 \in 0..Len(rows) /\ n + 1 # 0 /\ (n + 1) - 1 = n
    BY <1>0, <1>10
  <2> QED  BY <1>8, <2>1 DEF Kept
<1> HIDE DEF IsScan
<1> QED  BY <1>8, <1>9, <1>10

\* Rows that all have a key.
HaveKeys(rows) == rows \in Seq(Row) /\ \A i \in DOMAIN rows : rows[i].key # Empty

\* What it keeps has a key.
LEMMA KeptHaveKeys ==
    ASSUME NEW rows \in Seq(Row)
    PROVE  HaveKeys(WithKey(rows))
<1>1. PICK h : /\ h[0] = <<>>
               /\ \A n \in Nat : n < Len(rows) => h[n + 1] = Kept(h[n], rows[n + 1])
               /\ WithKey(rows) = h[Len(rows)]
  BY KeyTurns
<1> DEFINE T == {n \in Nat : n <= Len(rows) => HaveKeys(h[n])}
<1>2. 0 \in T
  <2>1. HaveKeys(<<>>)
    BY DEF HaveKeys
  <2> QED  BY <1>1, <2>1
<1>3. ASSUME NEW n \in T  PROVE n + 1 \in T
  <2> SUFFICES ASSUME n + 1 <= Len(rows)  PROVE HaveKeys(h[n + 1])
    OBVIOUS
  <2> DEFINE row == rows[n + 1]  sofar == h[n]
  <2>1. HaveKeys(sofar) /\ row \in Row /\ h[n + 1] = Kept(sofar, row)
    BY <1>1
  <2> HIDE DEF row, sofar
  <2> QED  BY <2>1 DEF HaveKeys, Kept
<1>4. T = Nat
  <2> HIDE DEF T
  <2> QED  BY <1>2, <1>3, NatInd DEF T
<1> QED  BY <1>1, <1>4

\* It drops nothing when all have a key.
LEMMA AllKept ==
    ASSUME NEW rows, HaveKeys(rows)
    PROVE  WithKey(rows) = rows
<1>0. rows \in Seq(Row) /\ Len(rows) \in Nat
  BY DEF HaveKeys
<1>1. PICK h : /\ h[0] = <<>>
               /\ \A n \in Nat : n < Len(rows) => h[n + 1] = Kept(h[n], rows[n + 1])
               /\ WithKey(rows) = h[Len(rows)]
  BY <1>0, KeyTurns
<1> DEFINE Upto(n) == h[n] \in Seq(Row) /\ Len(h[n]) = n /\ \A i \in 1 .. n : h[n][i] = rows[i]
           T == {n \in Nat : n <= Len(rows) => Upto(n)}
<1>2. 0 \in T
  <2>1. <<>> \in Seq(Row) /\ Len(<<>>) = 0 /\ 1 .. 0 = {}
    OBVIOUS
  <2>2. Upto(0)
    BY <1>1, <2>1
  <2> QED  BY <2>2
<1>3. ASSUME NEW n \in T  PROVE n + 1 \in T
  <2> SUFFICES ASSUME n + 1 <= Len(rows)  PROVE Upto(n + 1)
    OBVIOUS
  <2> DEFINE row == rows[n + 1]
  <2>0. n \in Nat /\ n < Len(rows)
    BY <1>0
  <2>1. Upto(n) /\ row \in Row /\ row.key # Empty
    BY <1>0 DEF HaveKeys
  <2>2. h[n + 1] = Append(h[n], row)
    BY <1>1, <2>0, <2>1 DEF Kept
  <2> QED  BY <2>0, <2>1, <2>2
<1>4. T = Nat
  <2> HIDE DEF T
  <2> QED  BY <1>2, <1>3, NatInd DEF T
<1>5. Upto(Len(rows))
  BY <1>0, <1>4
<1> QED  BY <1>0, <1>1, <1>5
-----------------------------------------------------------------------------
(***************************************************************************)
(* The invariant.                                                          *)
(***************************************************************************)
LEMMA EventsAreKnown ==
    ASSUME FormAssumption, NEW app \in AppTypes
    PROVE  EventsOf(app) \subseteq Known /\ IsFiniteSet(EventsOf(app))
<1>1. EventsOf(app) \subseteq Known
  BY DEF FormAssumption, EventsOf
<1> QED  BY <1>1, FS_Subset DEF FormAssumption

\* Of the selections of an app type's events only the full one has all of them.
LEMMA FullByCount ==
    ASSUME FormAssumption, NEW t, Selectable(t)
    PROVE  Cardinality(t.msgTypes) = Cardinality(EventsOf(t.appType))
             <=> t.msgTypes = EventsOf(t.appType)
<1>1. IsFiniteSet(EventsOf(t.appType)) /\ t.msgTypes \subseteq EventsOf(t.appType)
  BY EventsAreKnown DEF Selectable, Target
<1> QED  BY <1>1, FS_Subset

LEMMA SubmittedIsSaved ==
    ASSUME FormAssumption, NEW t, Selectable(t)
    PROVE  /\ Saved(Submitted(t))
           /\ Submitted(t).appType = t.appType /\ Submitted(t).unknown = t.unknown
           /\ Submitted(t).msgTypes = IF t.msgTypes = EventsOf(t.appType) THEN {}
                                      ELSE t.msgTypes
<1> DEFINE u == Submitted(t)
<1>1. t \in Target /\ t.rows \in Seq(Row)
  BY DEF Selectable, Target
<1>2. HaveKeys(WithKey(t.rows))
  BY <1>1, KeptHaveKeys
<1>3. u = [t EXCEPT !.rows = WithKey(@),
                    !.msgTypes = IF t.msgTypes = EventsOf(t.appType) THEN {} ELSE @]
  BY <1>1, FullByCount DEF Submitted, Target
<1>4. /\ u \in Target /\ u.appType = t.appType /\ u.unknown = t.unknown
      /\ u.rows = WithKey(t.rows)
      /\ u.msgTypes = IF t.msgTypes = EventsOf(t.appType) THEN {} ELSE t.msgTypes
  BY <1>1, <1>2, <1>3 DEF Target, HaveKeys
<1>5. Saved(u)
  BY <1>2, <1>4 DEF Saved, Selectable, HaveKeys
<1> QED  BY <1>4, <1>5

\* Removing one entry keeps the others in order.
LEMMA RemovedOne ==
    ASSUME NEW S, NEW q \in Seq(S), NEW i \in DOMAIN q
    PROVE  /\ RemoveAt(q, i) \in Seq(S) /\ Len(RemoveAt(q, i)) = Len(q) - 1
           /\ \A j \in DOMAIN RemoveAt(q, i) :
                RemoveAt(q, i)[j] = IF j < i THEN q[j] ELSE q[j + 1]
<1>1. Len(q) \in Nat /\ i \in 1 .. Len(q)
  OBVIOUS
<1> DEFINE front == SubSeq(q, 1, i - 1)  back == SubSeq(q, i + 1, Len(q))
<1>2. /\ front \in Seq(S) /\ Len(front) = i - 1
      /\ \A j \in 1 .. (i - 1) : front[j] = q[j]
  BY <1>1
<1>3. /\ back \in Seq(S) /\ Len(back) = Len(q) - i
      /\ \A j \in 1 .. (Len(q) - i) : back[j] = q[j + i]
  BY <1>1
<1>4. RemoveAt(q, i) = front \o back
  BY DEF RemoveAt
<1> HIDE DEF front, back
<1>5. /\ front \o back \in Seq(S) /\ Len(front \o back) = Len(q) - 1
      /\ \A j \in 1 .. (Len(q) - 1) :
           (front \o back)[j] = IF j <= i - 1 THEN front[j] ELSE back[j - (i - 1)]
  BY <1>1, <1>2, <1>3
<1>6. ASSUME NEW j \in 1 .. (Len(q) - 1)
      PROVE  (front \o back)[j] = IF j < i THEN q[j] ELSE q[j + 1]
  <2>1. CASE j < i
    BY <1>1, <1>2, <1>5, <2>1
  <2>2. CASE ~(j < i)
    <3>1. j - (i - 1) \in 1 .. (Len(q) - i) /\ (j - (i - 1)) + i = j + 1 /\ ~(j <= i - 1)
      BY <1>1, <2>2
    <3> QED  BY <1>3, <1>5, <2>2, <3>1
  <2> QED  BY <2>1, <2>2
<1>7. DOMAIN (front \o back) = 1 .. (Len(q) - 1)
  BY <1>1, <1>5
<1> QED  BY <1>4, <1>5, <1>6, <1>7

\* Replacing one entry keeps the others.
LEMMA ReplacedOne ==
    ASSUME NEW S, NEW q \in Seq(S), NEW i, NEW x \in S
    PROVE  LET p == [q EXCEPT ![i] = x]
           IN  /\ p \in Seq(S) /\ Len(p) = Len(q) /\ DOMAIN p = DOMAIN q
               /\ \A j \in DOMAIN q : p[j] = IF j = i THEN x ELSE q[j]
<1> DEFINE p == [q EXCEPT ![i] = x]
<1>1. Len(q) \in Nat /\ DOMAIN q = 1 .. Len(q) /\ q \in [1 .. Len(q) -> S]
  OBVIOUS
<1>2. p \in [1 .. Len(q) -> S] /\ \A j \in DOMAIN q : p[j] = IF j = i THEN x ELSE q[j]
  BY <1>1
<1> HIDE DEF p
<1>3. p \in Seq(S)
  BY <1>1, <1>2
<1>4. Len(p) = Len(q)
  BY <1>1, <1>2, <1>3
<1> QED  BY <1>1, <1>2, <1>3, <1>4 DEF p

LEMMA InitForm == ASSUME FormAssumption, Init  PROVE FormInv
BY DEF FormAssumption, Init, FormInv, DefsInv

\* An edit of the dialog that leaves it selectable.
LEMMA EditKeeps ==
    ASSUME FormInv, NEW new, Edited(new), Selectable(new)
    PROVE  FormInv'
BY DEF Edited, FormInv

LEMMA EditFormKeeps ==
    ASSUME FormAssumption, FormInv, EditForm
    PROVE  FormInv'
<1> USE DEF Selectable
<1>0. form # Null
  BY DEF EditForm, HandleSelectAll, HandleAddTagRow, HandleAppTypeChange, HandleEventToggle,
         HandleCatToggle, SetPolicies, HandleRemoveTagRow, HandleTagRowChange, SetRules, Edited
<1>1. /\ form \in Target /\ form.msgTypes \subseteq EventsOf(form.appType)
      /\ form.appType \in AppTypes /\ form.rows \in Seq(Row)
  BY <1>0 DEF FormInv, Target
<1>2. \A app \in AppTypes : EventsOf(app) \subseteq Known
  BY EventsAreKnown
<1>3. ASSUME NEW events, events \subseteq EventsOf(form.appType),
             Edited([form EXCEPT !.msgTypes = Toggled(events)])
      PROVE  FormInv'
  <2>1. Toggled(events) \subseteq EventsOf(form.appType)
    BY <1>1, <1>3 DEF Toggled
  <2>2. Selectable([form EXCEPT !.msgTypes = Toggled(events)])
    BY <1>1, <1>2, <2>1 DEF Target
  <2> QED  BY <1>3, <2>2, EditKeeps
<1>4. ASSUME NEW rows \in Seq(Row), Edited([form EXCEPT !.rows = rows])
      PROVE  FormInv'
  <2>1. Selectable([form EXCEPT !.rows = rows])
    BY <1>1 DEF Target
  <2> QED  BY <1>4, <2>1, EditKeeps
<1>5. CASE HandleSelectAll
  BY <1>3, <1>5 DEF HandleSelectAll
<1>6. CASE HandleAddTagRow
  <2>1. BlankRow \in Row
    BY DEF BlankRow, Row, Keys
  <2>2. Append(form.rows, BlankRow) \in Seq(Row)
    BY <1>1, <2>1
  <2> QED  BY <1>4, <1>6, <2>2 DEF HandleAddTagRow
<1>7. ASSUME NEW app \in AppTypes, HandleAppTypeChange(app)  PROVE FormInv'
  <2>1. Selectable([form EXCEPT !.appType = app, !.msgTypes = EventsOf(app)])
    BY <1>1, <1>2 DEF Target
  <2> QED  BY <1>7, <2>1, EditKeeps DEF HandleAppTypeChange
<1>8. ASSUME NEW e \in Known, HandleEventToggle(e)  PROVE FormInv'
  BY <1>3, <1>8 DEF HandleEventToggle
<1>9. ASSUME NEW cat, HandleCatToggle(cat)  PROVE FormInv'
  <2>1. cat \subseteq EventsOf(form.appType)
    BY <1>9 DEF HandleCatToggle, EventsOf
  <2> QED  BY <1>3, <1>9, <2>1 DEF HandleCatToggle
<1>10. ASSUME NEW u \in Policies, NEW p \in Policies, SetPolicies(u, p)  PROVE FormInv'
  <2>1. Selectable([form EXCEPT !.unknown = u, !.miss = p])
    BY <1>1 DEF Target
  <2> QED  BY <1>10, <2>1, EditKeeps DEF SetPolicies
<1>11. ASSUME NEW i \in 1 .. MaxRows, HandleRemoveTagRow(i)  PROVE FormInv'
  <2>1. i \in DOMAIN form.rows
    BY <1>11 DEF HandleRemoveTagRow
  <2>2. RemoveAt(form.rows, i) \in Seq(Row)
    BY <1>1, <2>1, RemovedOne
  <2> QED  BY <1>4, <1>11, <2>2 DEF HandleRemoveTagRow
<1>12. ASSUME NEW i \in 1 .. MaxRows, NEW row \in RowsOf({defs[j].key : j \in DOMAIN defs}),
              HandleTagRowChange(i, row)
       PROVE  FormInv'
  <2>1. row \in Row
    <3>1. defs \in Seq(TagDefs)
      BY DEF FormInv, DefsInv
    <3>2. \A j \in DOMAIN defs : defs[j] \in TagDefs
      BY <3>1
    <3>3. \A j \in DOMAIN defs : defs[j].key \in Keys
      BY <3>2 DEF TagDefs
    <3> QED  BY <3>3 DEF RowsOf, Row
  <2>2. [form.rows EXCEPT ![i] = row] \in Seq(Row)
    BY <1>1, <2>1, ReplacedOne
  <2>3. [form EXCEPT !.rows[i] = row] = [form EXCEPT !.rows = [form.rows EXCEPT ![i] = row]]
    OBVIOUS
  <2> QED  BY <1>4, <1>12, <2>2, <2>3 DEF HandleTagRowChange
<1>13. ASSUME NEW rules \in RuleLists, SetRules(rules)  PROVE FormInv'
  <2>1. Selectable([form EXCEPT !.rules = rules])
    BY <1>1 DEF Target
  <2> QED  BY <1>13, <2>1, EditKeeps DEF SetRules
<1> QED
  BY <1>5, <1>6, <1>7, <1>8, <1>9, <1>10, <1>11, <1>12, <1>13 DEF EditForm

LEMMA TagsKeep ==
    ASSUME FormAssumption, FormInv,
           \/ \E key \in OfferedKeys : CreateTag(key) \/ \E i \in 1 .. MaxDefs : EditTag(i, key)
           \/ \E i \in 1 .. MaxDefs : RemoveTag(i)
    PROVE  FormInv'
<1> DEFINE N == Len(BuiltInDefs)
<1>0. N \in Nat /\ DOMAIN BuiltInDefs = 1 .. N
  BY DEF FormAssumption
<1>1. /\ defs \in Seq(TagDefs) /\ Len(defs) \in Nat /\ DOMAIN defs = 1 .. Len(defs)
      /\ N <= Len(defs) /\ \A i \in 1 .. N : defs[i] = BuiltInDefs[i]
      /\ \A i \in DOMAIN defs : i > N => \E key \in OfferedKeys : defs[i] = Defined(key)
  BY <1>0 DEF FormInv, DefsInv
<1>2. \A i \in DOMAIN defs : ~defs[i].builtIn => i > N
  <2>1. \A i \in 1 .. N : BuiltInDefs[i].builtIn
    BY <1>0 DEF FormAssumption
  <2> QED  BY <1>0, <1>1, <2>1
<1>3. \A key \in OfferedKeys : Defined(key) \in TagDefs
  BY DEF Defined, TagDefs, Keys
<1>4. ASSUME UNCHANGED <<saved, form>>, DefsInv(defs')  PROVE FormInv'
  BY <1>4 DEF FormInv
<1>5. ASSUME NEW key \in OfferedKeys, CreateTag(key)  PROVE FormInv'
  <2>1. defs' = Append(defs, Defined(key)) /\ UNCHANGED <<saved, form>>
    BY <1>5 DEF CreateTag
  <2>2. /\ defs' \in Seq(TagDefs) /\ Len(defs') = Len(defs) + 1
        /\ \A i \in 1 .. Len(defs) : defs'[i] = defs[i]
        /\ defs'[Len(defs) + 1] = Defined(key)
    BY <1>1, <1>3, <2>1
  <2>3. DefsInv(defs')
    BY <1>0, <1>1, <2>2 DEF DefsInv
  <2> QED  BY <1>4, <2>1, <2>3
<1>6. ASSUME NEW key \in OfferedKeys, NEW i \in 1 .. MaxDefs, EditTag(i, key)  PROVE FormInv'
  <2>1. /\ defs' = [defs EXCEPT ![i].key = key] /\ UNCHANGED <<saved, form>>
        /\ i \in DOMAIN defs /\ i > N
    BY <1>2, <1>6 DEF EditTag
  <2>2. [defs[i] EXCEPT !.key = key] = Defined(key)
    <3>1. PICK k \in OfferedKeys : defs[i] = Defined(k)
      BY <1>1, <2>1
    <3> DEFINE d == [Defined(k) EXCEPT !.key = key]
    <3>2. Defined(k) \in TagDefs /\ key \in Keys
      BY <1>3 DEF Keys
    <3>3. d \in TagDefs /\ d.key = key /\ d.builtIn = FALSE /\ d.path = Null
      BY <3>2 DEF Defined, TagDefs
    <3>4. d = [key |-> d.key, builtIn |-> d.builtIn, path |-> d.path]
      <4> HIDE DEF d
      <4> QED  BY <3>3 DEF TagDefs
    <3> QED  BY <3>1, <3>3, <3>4 DEF Defined
  <2>3. defs' = [defs EXCEPT ![i] = Defined(key)]
    BY <2>1, <2>2
  <2>4. /\ defs' \in Seq(TagDefs) /\ Len(defs') = Len(defs) /\ DOMAIN defs' = DOMAIN defs
        /\ \A j \in DOMAIN defs : defs'[j] = IF j = i THEN Defined(key) ELSE defs[j]
    BY <1>1, <1>3, <2>1, <2>3, ReplacedOne
  <2>5. DefsInv(defs')
    <3>1. \A j \in DOMAIN BuiltInDefs : defs'[j] = BuiltInDefs[j]
      BY <1>0, <1>1, <2>1, <2>4
    <3>2. \A j \in DOMAIN defs' : j > N => \E k \in OfferedKeys : defs'[j] = Defined(k)
      BY <1>1, <2>4
    <3> QED  BY <1>1, <2>4, <3>1, <3>2 DEF DefsInv
  <2> QED  BY <1>4, <2>1, <2>5
<1>7. ASSUME NEW i \in 1 .. MaxDefs, RemoveTag(i)  PROVE FormInv'
  <2>1. /\ defs' = RemoveAt(defs, i) /\ UNCHANGED <<saved, form>>
        /\ i \in DOMAIN defs /\ i > N
    BY <1>2, <1>7 DEF RemoveTag
  <2>2. /\ defs' \in Seq(TagDefs) /\ Len(defs') = Len(defs) - 1
        /\ \A j \in DOMAIN defs' : defs'[j] = IF j < i THEN defs[j] ELSE defs[j + 1]
    BY <1>1, <2>1, RemovedOne
  <2>3. DOMAIN defs' = 1 .. (Len(defs) - 1)
    BY <1>1, <2>2
  <2>4. DefsInv(defs')
    <3>1. N <= Len(defs')
      BY <1>0, <1>1, <2>1, <2>2
    <3>2. \A j \in DOMAIN BuiltInDefs : defs'[j] = BuiltInDefs[j]
      BY <1>0, <1>1, <2>1, <2>2, <2>3, <3>1
    <3>3. ASSUME NEW j \in DOMAIN defs', j > N
          PROVE  \E key \in OfferedKeys : defs'[j] = Defined(key)
      <4>1. j \in DOMAIN defs /\ j + 1 \in DOMAIN defs /\ j + 1 > N
        BY <1>0, <1>1, <2>3, <3>3
      <4> QED  BY <1>1, <2>2, <3>3, <4>1
    <3> QED  BY <2>2, <3>1, <3>2, <3>3 DEF DefsInv
  <2> QED  BY <1>4, <2>1, <2>4
<1> QED  BY <1>5, <1>6, <1>7

\* A saved target with an empty selection is shown with all events.
LEMMA ShownIsSelectable ==
    ASSUME FormAssumption, NEW t, Saved(t)
    PROVE  Selectable(Shown(t))
<1>1. t \in Target /\ t.appType \in AppTypes
  BY DEF Saved, Selectable, Target
<1>2. EventsOf(t.appType) \subseteq Known
  BY <1>1, EventsAreKnown
<1> QED  BY <1>1, <1>2 DEF Saved, Selectable, Shown, Target

LEMMA NextForm == ASSUME FormAssumption, FormInv, [Next]_vars  PROVE FormInv'
<1>1. CASE UNCHANGED vars
  BY <1>1 DEF FormInv, vars
<1>2. CASE HandleAdd
  <2> DEFINE new == [appType |-> "company", msgTypes |-> EventsOf("company"),
                     unknown |-> "dispatch", miss |-> "dispatch", rows |-> <<>>, rules |-> <<>>]
  <2>1. "company" \in AppTypes /\ EventsOf("company") \subseteq Known
    BY EventsAreKnown DEF FormAssumption
  <2>2. Selectable(new)
    BY <2>1 DEF Selectable, Target, Policies
  <2>3. form' = new /\ UNCHANGED <<defs, saved>>
    BY <1>2 DEF HandleAdd
  <2> HIDE DEF new
  <2> QED  BY <2>2, <2>3 DEF FormInv
<1>3. CASE HandleEdit
  <2>1. Selectable(Shown(saved)) /\ form' = Shown(saved) /\ UNCHANGED <<defs, saved>>
    BY <1>3, ShownIsSelectable DEF HandleEdit, FormInv
  <2> QED  BY <2>1 DEF FormInv
<1>4. CASE EditForm
  BY <1>4, EditFormKeeps
<1>5. CASE Cancel
  BY <1>5 DEF Cancel, FormInv
<1>6. CASE HandleSubmit
  <2>1. /\ Saved(Submitted(form)) /\ saved' = Submitted(form) /\ form' = Null
        /\ UNCHANGED defs
    BY <1>6, SubmittedIsSaved DEF HandleSubmit, FormInv
  <2> QED  BY <2>1 DEF FormInv
<1>7. CASE \/ \E key \in OfferedKeys : CreateTag(key) \/ \E i \in 1 .. MaxDefs : EditTag(i, key)
           \/ \E i \in 1 .. MaxDefs : RemoveTag(i)
  BY <1>7, TagsKeep
<1> QED  BY <1>1, <1>2, <1>3, <1>4, <1>5, <1>6, <1>7 DEF Next

LEMMA FormInvariant == Spec => []FormInv
<1>1. Init => FormInv
  BY FormAssumption, InitForm
<1>2. FormInv /\ [Next]_vars => FormInv'
  BY FormAssumption, NextForm
<1> QED  BY <1>1, <1>2, PTL DEF Spec
-----------------------------------------------------------------------------
(***************************************************************************)
(* The theorems.                                                           *)
(***************************************************************************)
\* Whatever target the dialog saves, the matcher's early returns and grouped loop
\* (tag-matcher.service.ts) decide as the documents' row by row conditions do.
THEOREM VerdictsAreDeclared == Spec => []VerdictIsDeclared
<1>1. FormInv => VerdictIsDeclared
  <2> SUFFICES ASSUME FormInv, saved # Null, NEW m \in Messages
               PROVE  (ShouldDispatch(m, saved, defs) = Dispatch) <=> Wants(m, saved, defs)
    BY DEF VerdictIsDeclared
  <2>1. saved.rows \in Seq(Row)
    BY DEF FormInv, Saved, Selectable, Target
  <2> QED  BY <2>1, DispatchIsWanted
<1> QED  BY <1>1, FormInvariant, PTL

\* The tag a skipped target is reported with is one that fails: the two copies of
\* the loop over the groups never disagree.
THEOREM ReasonsAreTrue == Spec => []ReasonIsTrue
<1>1. FormInv => ReasonIsTrue
  <2> SUFFICES ASSUME FormInv, saved # Null, NEW m \in Messages,
                      ShouldDispatch(m, saved, defs).kind = "mismatch"
               PROVE  LET d == ShouldDispatch(m, saved, defs)
                      IN  /\ d # Fallback
                          /\ \E row \in Range(saved.rows) :
                               row.key = d.about /\ ~RowWants(m, row, saved, defs)
    BY DEF ReasonIsTrue
  <2>1. saved.rows \in Seq(Row) /\ saved.miss \in Policies
    BY DEF FormInv, Saved, Selectable, Target
  <2>2. /\ ~PassesBuiltInTags(m, saved, defs)
        /\ ShouldDispatch(m, saved, defs) = GetBuiltInMismatchDetail(m, saved, defs)
    BY ReasonsAreNoDispatch DEF ShouldDispatch
  <2> QED  BY <2>1, <2>2, FormAssumption, MismatchIsReal
<1> QED  BY <1>1, FormInvariant, PTL

\* An offered event passes the saved filter exactly if the picker showed it as
\* checked, or showed none as checked: handleSubmit compares only the lengths of
\* two lists, and that is enough.
THEOREM FormsMeanWhatTheyShow == Spec => FormMeansWhatItShows
<1> DEFINE A == HandleSubmit =>
                  \A e \in EventsOf(form.appType) :
                    PassesMsgTypeFilter(Message(e), saved')
                      <=> (e \in form.msgTypes \/ form.msgTypes = {})
<1>1. FormInv => A
  <2> SUFFICES ASSUME FormInv, HandleSubmit, NEW e \in EventsOf(form.appType)
               PROVE  PassesMsgTypeFilter(Message(e), saved')
                        <=> (e \in form.msgTypes \/ form.msgTypes = {})
    OBVIOUS
  <2>1. Selectable(form) /\ form.appType \in AppTypes
    BY DEF FormInv, HandleSubmit, Selectable, Target
  <2>2. saved'.msgTypes = IF form.msgTypes = EventsOf(form.appType) THEN {}
                          ELSE form.msgTypes
    BY <2>1, FormAssumption, SubmittedIsSaved DEF HandleSubmit
  <2>3. e \in Known
    BY <2>1, FormAssumption, EventsAreKnown
  <2> QED  BY <2>2, <2>3 DEF PassesMsgTypeFilter, Message
<1>2. FormInv /\ [Next]_vars => [A]_vars
  BY <1>1
<1>3. Spec => [][A]_vars
  <2> HIDE DEF A
  <2> QED  BY <1>2, FormInvariant, PTL DEF Spec
<1> QED  BY <1>3 DEF FormMeansWhatItShows

\* What handleEdit shows, handleSubmit saves back as it was.
THEOREM UntouchedFormsChangeNothing == Spec => UntouchedFormChangesNothing
<1> DEFINE A == (HandleSubmit /\ saved # Null /\ form = Shown(saved)) => saved' = saved
<1>1. FormInv => A
  <2> SUFFICES ASSUME FormInv, HandleSubmit, saved # Null, form = Shown(saved)
               PROVE  saved' = saved
    OBVIOUS
  <2>1. Saved(saved) /\ Selectable(saved) /\ saved \in Target
    BY DEF FormInv, Saved, Selectable
  <2>2. WithKey(saved.rows) = saved.rows
    <3>1. HaveKeys(saved.rows)
      BY <2>1 DEF Saved, Target, HaveKeys
    <3> QED  BY <3>1, AllKept
  <2> DEFINE full == [saved EXCEPT !.msgTypes = EventsOf(saved.appType)]
             s == Submitted(form)
  <2>3. form = IF saved.msgTypes = {} THEN full ELSE saved
    BY DEF Shown
  <2>4. /\ form \in Target /\ form.appType = saved.appType /\ form.rows = saved.rows
        /\ form.unknown = saved.unknown /\ form.miss = saved.miss /\ form.rules = saved.rules
        /\ form.msgTypes = IF saved.msgTypes = {} THEN EventsOf(saved.appType)
                           ELSE saved.msgTypes
    <3>1. Selectable(form)
      BY <2>1, FormAssumption, ShownIsSelectable
    <3> QED  BY <2>1, <2>3, <3>1 DEF Target, Selectable
  <2>5. /\ s.appType = saved.appType /\ s.rows = saved.rows /\ s.unknown = saved.unknown
        /\ s.miss = saved.miss /\ s.rules = saved.rules
    BY <2>2, <2>4 DEF Submitted, Target
  <2>6. s \in Target /\ s.msgTypes = saved.msgTypes
    <3>1. Selectable(form)
      BY <2>1, FormAssumption, ShownIsSelectable
    <3>2. /\ Saved(s)
          /\ s.msgTypes = IF form.msgTypes = EventsOf(form.appType) THEN {} ELSE form.msgTypes
      BY <3>1, FormAssumption, SubmittedIsSaved
    <3> QED  BY <2>1, <2>4, <3>2 DEF Saved, Selectable
  <2>7. \A t \in Target :
          t = [appType |-> t.appType, msgTypes |-> t.msgTypes, unknown |-> t.unknown,
               miss |-> t.miss, rows |-> t.rows, rules |-> t.rules]
    BY DEF Target
  <2>8. s = saved
    <3> HIDE DEF s
    <3> QED  BY <2>1, <2>5, <2>6, <2>7
  <2> QED  BY <2>8 DEF HandleSubmit
<1>2. FormInv /\ [Next]_vars => [A]_vars
  BY <1>1
<1>3. Spec => [][A]_vars
  <2> HIDE DEF A
  <2> QED  BY <1>2, FormInvariant, PTL DEF Spec
<1> QED  BY <1>3 DEF UntouchedFormChangesNothing

\* No definition made, renamed or deleted in the console changes who gets a message.
THEOREM DefinitionsChangeNoVerdicts == Spec => DefinitionsChangeNoVerdict
<1> DEFINE A == (defs' # defs /\ saved # Null) =>
                  \A m \in Messages :
                    (ShouldDispatch(m, saved, defs) = Dispatch)
                      <=> (ShouldDispatch(m, saved, defs') = Dispatch)
<1>1. FormInv /\ FormInv' => A
  <2> SUFFICES ASSUME FormInv, FormInv', saved # Null, NEW m \in Messages
               PROVE  (ShouldDispatch(m, saved, defs) = Dispatch)
                        <=> (ShouldDispatch(m, saved, defs') = Dispatch)
    OBVIOUS
  <2>1. saved.rows \in Seq(Row) /\ DefsInv(defs) /\ DefsInv(defs')
    BY DEF FormInv, Saved, Selectable, Target
  <2>2. (ShouldDispatch(m, saved, defs) = Dispatch) <=> Wants(m, saved, BuiltInDefs)
    BY <2>1, FormAssumption, DispatchIsWanted, WantsTheSame
  <2>3. (ShouldDispatch(m, saved, defs') = Dispatch) <=> Wants(m, saved, BuiltInDefs)
    BY <2>1, FormAssumption, DispatchIsWanted, WantsTheSame
  <2> QED  BY <2>2, <2>3
<1>2. FormInv /\ FormInv' /\ [Next]_vars => [A]_vars
  BY <1>1
<1>3. Spec => [][A]_vars
  <2> HIDE DEF A
  <2> QED  BY <1>2, FormInvariant, PTL DEF Spec
<1> QED  BY <1>3 DEF DefinitionsChangeNoVerdict
=============================================================================
