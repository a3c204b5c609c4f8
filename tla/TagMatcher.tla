----------------------------- MODULE TagMatcher -----------------------------
(***************************************************************************)
(* Does a target get a message?  tag-matcher.service.ts, as operators.     *)
(*                                                                         *)
(* A message is [type, fields]; fields maps a path to a value, or to Null  *)
(* where the message has none.  A target is [appType, msgTypes, unknown,   *)
(* miss, rows, rules]; a row is [key, value, mode], a rule [field, op,     *)
(* value, tags, enabled].  Definitions are a sequence of [key, builtIn,    *)
(* path].  Strings are members of Values; what the matcher asks of them is *)
(* whether they are equal, or in one of the relations below.               *)
(***************************************************************************)
EXTENDS Naturals, Sequences, SequencesExt

CONSTANTS
    Values,      \* of fields, rows and rules
    Empty,       \* the empty string
    Blank,       \* what trim() leaves empty
    StartsWith,  \* <<v, w>>: v starts with w
    Includes,    \* <<v, w>>: v includes w
    Patterns,    \* the values that are patterns getCachedRegex accepts
    Matches,     \* <<v, p>>: pattern p matches v
    Known,       \* ALL_KNOWN_MSG_TYPES
    Dotted,      \* keys with a dot: paths themselves
    Null

ASSUME MatcherAssumption ==
    /\ Empty \in Blank /\ Blank \subseteq Values /\ Patterns \subseteq Values
    /\ StartsWith \subseteq Values \X Values /\ Includes \subseteq Values \X Values
    /\ Matches \subseteq Values \X Values
    /\ Null \notin Values \cup Known \cup Dotted

Type(t)        == [kind |-> "type", about |-> t]
Mismatch(k)    == [kind |-> "mismatch", about |-> k]
Fallback       == [kind |-> "mismatch", about |-> Null]
Rules          == [kind |-> "rules", about |-> Null]
NoTag          == [kind |-> "tags", about |-> Null]
Dispatch       == [kind |-> "dispatch", about |-> Null]
-----------------------------------------------------------------------------
\* passesMsgTypeFilter: an empty list is no filter, not even for unknown types.
PassesMsgTypeFilter(m, t) ==
    \/ t.msgTypes = {}
    \/ m.type \in Known /\ m.type \in t.msgTypes
    \/ m.type \notin Known /\ t.unknown = "dispatch"

\* tagDefMap: of two definitions with one key the later one counts.
DefOf(key, defs) ==
    LET at == {i \in DOMAIN defs : defs[i].key = key}
    IN  IF at = {} THEN Null ELSE defs[CHOOSE i \in at : \A j \in at : j <= i]

BuiltInKey(key, defs) == DefOf(key, defs) # Null /\ DefOf(key, defs).builtIn

\* Mutant of ResolveFieldPath: a key is taken as a path while it is defined.
ResolveDefinedPath(key, defs) ==
    LET d == DefOf(key, defs)
    IN  IF d = Null THEN Null ELSE IF d.path # Null THEN d.path
        ELSE IF key \in Dotted THEN key ELSE Null

\* resolveFieldPath: the definition's path, else a key that looks like one.
ResolveFieldPath(key, defs) ==
    LET d == DefOf(key, defs)
    IN  IF d # Null /\ d.path # Null THEN d.path
        ELSE IF key \in Dotted THEN key ELSE Null

\* getNestedValue; a path the message does not have gives undefined.
FieldOf(m, path) == IF path \in DOMAIN m.fields THEN m.fields[path] ELSE Null

MatchTagValue(v, row) ==
    IF row.mode = "prefix" THEN <<v, row.value>> \in StartsWith ELSE v = row.value

\* Mutant of GroupTagsByKey: rows of one key are groups of their own.
GroupPerRow(rows, defs) ==
    [i \in DOMAIN rows |->
       [key |-> rows[i].key, path |-> ResolveFieldPath(rows[i].key, defs),
        rows |-> {rows[i]}]]

\* groupTagsByKey: one group for each key with a path, under the place of the row
\* that opens it; the places are in order of appearance.
GroupTagsByKey(rows, defs) ==
    LET opens == {i \in DOMAIN rows : /\ ResolveFieldPath(rows[i].key, defs) # Null
                                      /\ \A j \in 1..(i - 1) : rows[j].key # rows[i].key}
    IN  [i \in opens |->
           [key  |-> rows[i].key,
            path |-> ResolveFieldPath(rows[i].key, defs),
            rows |-> {row \in Range(rows) : row.key = rows[i].key}]]

Missing(v) == v = Null \/ v \in Blank

\* One turn of passesBuiltInTags.
GroupPasses(m, g, miss) ==
    LET v == FieldOf(m, g.path)
    IN  \/ Missing(v) /\ miss = "dispatch"
        \/ /\ ~Missing(v)
           /\ \E row \in g.rows : row.value = Empty \/ MatchTagValue(v, row)

PassesBuiltInTags(m, t, defs) ==
    LET groups == GroupTagsByKey(t.rows, defs)
    IN  \A i \in DOMAIN groups : GroupPasses(m, groups[i], t.miss)

\* Mutant of GetBuiltInMismatchDetail: a missing field is passed over, whatever
\* the policy.
MismatchPresentOnly(m, t, defs) ==
    LET groups == GroupTagsByKey(t.rows, defs)
        bad    == {i \in DOMAIN groups : /\ ~Missing(FieldOf(m, groups[i].path))
                                         /\ ~GroupPasses(m, groups[i], t.miss)}
    IN  IF bad = {} THEN Fallback
        ELSE Mismatch(groups[CHOOSE i \in bad : \A j \in bad : i <= j].key)

\* getBuiltInMismatchDetail repeats the turns to name the first that fails.
GetBuiltInMismatchDetail(m, t, defs) ==
    LET groups == GroupTagsByKey(t.rows, defs)
        bad    == {i \in DOMAIN groups :
                     IF Missing(FieldOf(m, groups[i].path)) THEN t.miss = "discard"
                     ELSE \A row \in groups[i].rows :
                            /\ row.value # Empty
                            /\ ~MatchTagValue(FieldOf(m, groups[i].path), row)}
    IN  IF bad = {} THEN Fallback
        ELSE Mismatch(groups[CHOOSE i \in bad : \A j \in bad : i <= j].key)

\* matchRule: an absent field never matches.
MatchRule(v, rule) ==
    /\ v # Null
    /\ \/ rule.op = "exact" /\ v = rule.value
       \/ rule.op = "contains" /\ <<v, rule.value>> \in Includes
       \/ rule.op = "regex" /\ rule.value \in Patterns /\ <<v, rule.value>> \in Matches
       \/ rule.op = "in" /\ v \in rule.value
       \/ rule.op = "exists"

\* matchTags: the tags the enabled rules assign to the message.
MatchTags(m, rules) ==
    UNION {rule.tags : rule \in
             {x \in Range(rules) : x.enabled /\ MatchRule(FieldOf(m, x.field), x)}}

\* shouldDispatch: Dispatch, or the reason that is shown for the skipped target.
ShouldDispatch(m, t, defs) ==
    LET assigned == MatchTags(m, t.rules)
        custom   == {k \in {row.key : row \in Range(t.rows)} : ~BuiltInKey(k, defs)}
    IN  IF ~PassesMsgTypeFilter(m, t) THEN Type(m.type)
        ELSE IF t.rows = <<>> /\ t.rules = <<>> THEN Dispatch
        ELSE IF t.rows # <<>> /\ ~PassesBuiltInTags(m, t, defs)
             THEN GetBuiltInMismatchDetail(m, t, defs)
        ELSE IF t.rules = <<>> THEN Dispatch
        ELSE IF t.rows = <<>> THEN IF assigned # {} THEN Dispatch ELSE Rules
        ELSE IF custom = {} \/ custom \cap assigned # {} THEN Dispatch ELSE NoTag
-----------------------------------------------------------------------------
\* What the documents promise of a target, row by row (USER_GUIDE.md, section 3.2,
\* INTRODUCTION.md, "all conditions must hold").
RowWants(m, row, t, defs) ==
    LET v == FieldOf(m, ResolveFieldPath(row.key, defs))
    IN  IF Missing(v) THEN t.miss = "dispatch"
        ELSE \E other \in Range(t.rows) :
               other.key = row.key /\ (other.value = Empty \/ MatchTagValue(v, other))

Wants(m, t, defs) ==
    /\ t.msgTypes # {} =>
         IF m.type \in Known THEN m.type \in t.msgTypes ELSE t.unknown = "dispatch"
    /\ \A row \in Range(t.rows) :
         ResolveFieldPath(row.key, defs) # Null => RowWants(m, row, t, defs)
    /\ t.rules # <<>> =>
         \/ t.rows = <<>> /\ MatchTags(m, t.rules) # {}
         \/ t.rows # <<>> /\ \A row \in Range(t.rows) : BuiltInKey(row.key, defs)
         \/ \E row \in Range(t.rows) :
              ~BuiltInKey(row.key, defs) /\ row.key \in MatchTags(m, t.rules)
=============================================================================
