----------------------------- MODULE TargetForm -----------------------------
(***************************************************************************)
(* From the console's dialog to the verdict: CallbackManagementPage.tsx    *)
(* edits a target, TagManagementPage.tsx the tag definitions, and          *)
(* TagMatcher decides by what they saved.  One target and one user; what   *)
(* several users do to each other is Console's concern.                    *)
(***************************************************************************)
EXTENDS TagMatcher

CONSTANTS
    AppTypes,         \* "company" and "partner"
    CategoriesOf,     \* getEventCategories: app type -> set of sets of events
    BuiltInDefs,      \* BUILT_IN_TAGS
    OfferedKeys,      \* COMMON_FIELDS: keys the tag dialog offers
    RuleLists,        \* bound: lists of rules tried
    RowValues,        \* bound: values tried in rows
    MaxRows,          \* bound: rows of a target
    MaxEdits,         \* bound: edits made in the target's dialog
    MaxDefs,          \* bound: definitions
    Messages          \* the messages verdicts are compared on

\* The keys a row can have.
Keys == OfferedKeys \cup {Empty} \cup {BuiltInDefs[i].key : i \in DOMAIN BuiltInDefs}

TagDefs == [key     : Keys,
            builtIn : BOOLEAN,
            path    : {BuiltInDefs[i].path : i \in DOMAIN BuiltInDefs} \cup {Null}]

ASSUME FormAssumption ==
    /\ "company" \in AppTypes
    /\ IsFiniteSet(Known) /\ CategoriesOf \in [AppTypes -> SUBSET SUBSET Known]
    /\ BuiltInDefs \in Seq(TagDefs)
    /\ \A i \in DOMAIN BuiltInDefs :
         /\ BuiltInDefs[i].builtIn /\ BuiltInDefs[i].path # Null
         /\ BuiltInDefs[i].key \notin OfferedKeys
    /\ Null \notin Keys \cup TagDefs /\ MaxRows \in Nat /\ MaxDefs \in Nat

VARIABLES
    defs,     \* the stored tag definitions
    saved,    \* the stored target, or Null
    form,     \* formData and tagRows of the open dialog, or Null
    edits     \* edits made so far

vars == <<defs, saved, form, edits>>

EventsOf(app) == UNION CategoriesOf[app]     \* getAllEventValues
BlankRow == [key |-> Empty, value |-> Empty, mode |-> "exact"]
Policies == {"dispatch", "discard"}
-----------------------------------------------------------------------------
\* handleAdd: every event of the default type is selected.
HandleAdd ==
    /\ form = Null /\ saved = Null
    /\ form' = [appType |-> "company", msgTypes |-> EventsOf("company"),
                unknown |-> "dispatch", miss |-> "dispatch", rows |-> <<>>, rules |-> <<>>]
    /\ UNCHANGED <<defs, saved, edits>>

\* A stored empty list stands for all events, and is shown as all of them.
Shown(t) == IF t.msgTypes = {} THEN [t EXCEPT !.msgTypes = EventsOf(t.appType)] ELSE t

HandleEdit ==
    /\ form = Null /\ saved # Null
    /\ form' = Shown(saved)
    /\ UNCHANGED <<defs, saved, edits>>

\* Any one edit of the open dialog.
Edited(new) ==
    /\ form # Null /\ edits < MaxEdits
    /\ form' = new
    /\ edits' = edits + 1
    /\ UNCHANGED <<defs, saved>>

\* A checkbox toggles what it shows: checked if all of its events are selected.
Toggled(events) ==
    IF events \subseteq form.msgTypes THEN form.msgTypes \ events
    ELSE form.msgTypes \cup events

\* handleSelectAll, handleCatToggle, handleEventToggle
HandleSelectAll == Edited([form EXCEPT !.msgTypes = Toggled(EventsOf(form.appType))])
HandleCatToggle(cat) ==
    /\ form # Null /\ cat \in CategoriesOf[form.appType]
    /\ Edited([form EXCEPT !.msgTypes = Toggled(cat)])
HandleEventToggle(e) ==
    /\ form # Null /\ e \in EventsOf(form.appType)
    /\ Edited([form EXCEPT !.msgTypes = Toggled({e})])

\* handleAppTypeChange: all events of the new type are selected.
HandleAppTypeChange(app) ==
    Edited([form EXCEPT !.appType = app, !.msgTypes = EventsOf(app)])

SetPolicies(unknown, miss) ==
    Edited([form EXCEPT !.unknown = unknown, !.miss = miss])

HandleAddTagRow ==
    /\ form # Null /\ Len(form.rows) < MaxRows
    /\ Edited([form EXCEPT !.rows = Append(@, BlankRow)])

\* handleTagRowChange: the key is picked from the definitions.
HandleTagRowChange(i, row) ==
    /\ form # Null /\ i \in DOMAIN form.rows
    /\ row.key \in {defs[j].key : j \in DOMAIN defs} \cup {form.rows[i].key}
    /\ Edited([form EXCEPT !.rows[i] = row])

HandleRemoveTagRow(i) ==
    /\ form # Null /\ i \in DOMAIN form.rows
    /\ Edited([form EXCEPT !.rows = RemoveAt(@, i)])

\* TagRuleEditor hands over a new list of rules.
SetRules(rules) == Edited([form EXCEPT !.rules = rules])

Cancel == form # Null /\ form' = Null /\ UNCHANGED <<defs, saved, edits>>

\* The rows that have a key, in order.
WithKey(rows) ==
    LET Kept[i \in 0..Len(rows)] ==
          IF i = 0 THEN <<>>
          ELSE IF rows[i].key = Empty THEN Kept[i - 1] ELSE Append(Kept[i - 1], rows[i])
    IN  Kept[Len(rows)]

\* Mutant of Submitted: the selection is saved as it is shown.
SubmittedAsShown(f) == [f EXCEPT !.rows = WithKey(@)]

\* Mutant of Submitted: the selection is counted against the default type's list.
SubmittedCompany(f) ==
    [f EXCEPT !.rows = WithKey(@),
              !.msgTypes = IF Cardinality(@) = Cardinality(EventsOf("company")) THEN {} ELSE @]

\* What handleSubmit sends: rows without a key are dropped, and a selection as
\* long as the list of all events is saved as no filter.
Submitted(f) ==
    [f EXCEPT !.rows = WithKey(@),
              !.msgTypes = IF Cardinality(@) = Cardinality(EventsOf(f.appType))
                           THEN {} ELSE @]

HandleSubmit ==
    /\ form # Null
    /\ saved' = Submitted(form)
    /\ form' = Null
    /\ UNCHANGED <<defs, edits>>
-----------------------------------------------------------------------------
(***************************************************************************)
(* Tag definitions, by the tag dialog: it offers OfferedKeys, gives a      *)
(* definition no path, and neither deletes a built-in one nor renames its  *)
(* key.                                                                    *)
(***************************************************************************)
Defined(key) == [key |-> key, builtIn |-> FALSE, path |-> Null]

CreateTag(key) ==
    /\ form = Null /\ key \in OfferedKeys /\ Len(defs) < MaxDefs
    /\ defs' = Append(defs, Defined(key))
    /\ UNCHANGED <<saved, form, edits>>

EditTag(i, key) ==
    /\ form = Null /\ key \in OfferedKeys
    /\ i \in DOMAIN defs /\ ~defs[i].builtIn
    /\ defs' = [defs EXCEPT ![i].key = key]
    /\ UNCHANGED <<saved, form, edits>>

RemoveTag(i) ==
    /\ form = Null /\ i \in DOMAIN defs /\ ~defs[i].builtIn
    /\ defs' = RemoveAt(defs, i)
    /\ UNCHANGED <<saved, form, edits>>

Init == defs = BuiltInDefs /\ saved = Null /\ form = Null /\ edits = 0

RowsOf(keys) == [key : keys, value : RowValues, mode : {"exact", "prefix"}]

EditForm ==
    \/ HandleSelectAll \/ HandleAddTagRow
    \/ \E app \in AppTypes : HandleAppTypeChange(app)
    \/ \E e \in Known : HandleEventToggle(e)
    \/ \E cat \in UNION {CategoriesOf[app] : app \in AppTypes} : HandleCatToggle(cat)
    \/ \E u, p \in Policies : SetPolicies(u, p)
    \/ \E i \in 1..MaxRows :
         \/ HandleRemoveTagRow(i)
         \/ \E row \in RowsOf({defs[j].key : j \in DOMAIN defs}) : HandleTagRowChange(i, row)
    \/ \E rules \in RuleLists : SetRules(rules)

Next ==
    \/ HandleAdd \/ HandleEdit \/ EditForm \/ Cancel \/ HandleSubmit
    \/ \E key \in OfferedKeys : CreateTag(key) \/ \E i \in 1..MaxDefs : EditTag(i, key)
    \/ \E i \in 1..MaxDefs : RemoveTag(i)

Spec == Init /\ [][Next]_vars
-----------------------------------------------------------------------------
(***************************************************************************)
(* Properties.                                                             *)
(***************************************************************************)
\* The matcher's early returns and grouped loop decide as the documents' row by
\* row conditions do, for every message and every target the dialog can save,
\* however rows of one key are spread and policies are combined.
VerdictIsDeclared ==
    (saved # Null /\ form = Null) =>
        \A m \in Messages :
            (ShouldDispatch(m, saved, defs) = Dispatch) <=> Wants(m, saved, defs)

\* A target skipped for a tag is reported with a tag that really fails, and never
\* with the text that stands for "no tag was found to fail": the second copy of
\* the loop agrees with the first.
ReasonIsTrue ==
    (saved # Null /\ form = Null) =>
        \A m \in Messages :
            LET d == ShouldDispatch(m, saved, defs)
            IN  d.kind = "mismatch" =>
                  /\ d # Fallback
                  /\ \E row \in Range(saved.rows) :
                       row.key = d.about /\ ~RowWants(m, row, saved, defs)

Message(e) == [type |-> e, fields |-> <<>>]

\* What the picker showed when the dialog was confirmed is what is filtered: an
\* offered event passes if and only if it was checked, or nothing was checked
\* (USER_GUIDE.md, section 3.2: no selection receives all types).
FormMeansWhatItShows ==
    [][HandleSubmit =>
         \A e \in EventsOf(form.appType) :
             PassesMsgTypeFilter(Message(e), saved')
               <=> (e \in form.msgTypes \/ form.msgTypes = {})]_vars

\* Opening a target and confirming it untouched changes nothing but a selection
\* that was empty, which is shown as full and means the same.
UntouchedFormChangesNothing ==
    [][(HandleSubmit /\ saved # Null /\ form = Shown(saved)) => saved' = saved]_vars

\* Creating, renaming and deleting definitions in the console never changes who
\* gets a message: only a built-in definition gives a key a path it does not have
\* itself, and no offered key can hide one.
DefinitionsChangeNoVerdict ==
    [][(defs' # defs /\ saved # Null) =>
         \A m \in Messages :
             (ShouldDispatch(m, saved, defs) = Dispatch)
               <=> (ShouldDispatch(m, saved, defs') = Dispatch)]_vars

\* With the policy "discard" a type the system does not know is ignored
\* (CallbackManagementPage.tsx: "收到系统未收录的新回调类型时，将被忽略不分发").
UnknownIsDiscarded ==
    (saved # Null /\ form = Null /\ saved.unknown = "discard") =>
        \A m \in Messages :
            m.type \notin Known => ShouldDispatch(m, saved, defs) # Dispatch
=============================================================================
