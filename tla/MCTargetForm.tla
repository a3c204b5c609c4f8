---------------------------- MODULE MCTargetForm ----------------------------
\* Instances of TargetForm for TLC: two strings with a common prefix, the empty
\* and a blank one, a built-in key, a dotted one and one that is neither.
EXTENDS TargetForm

CONSTANTS e1, e2, e3, e4, u

MCValues     == {"", " ", "ab", "abc"}
MCStartsWith == {<<v, v>> : v \in MCValues} \cup {<<v, "">> : v \in MCValues}
                  \cup {<<"abc", "ab">>}
MCIncludes   == MCStartsWith
MCMatches    == {<<"ab", "ab">>, <<"abc", "ab">>}
MCKnown      == {e1, e2, e3, e4}
MCCategories == [company |-> {{e1}, {e2}}, partner |-> {{e1}, {e3, e4}}]
MCBuiltIn    == <<[key |-> "FlowType", builtIn |-> TRUE, path |-> "M.FlowType"]>>

MCRule(op, v, on) ==
    [field |-> "M.Name", op |-> op, value |-> v, tags |-> {"MsgType"}, enabled |-> on]
MCRuleLists ==
    {<<MCRule("regex", "ab", TRUE)>>,
     <<MCRule("exact", "ab", FALSE), MCRule("in", {"abc"}, TRUE)>>,
     <<MCRule("exists", "", TRUE), MCRule("contains", "b", FALSE)>>}

MCMessages ==
    {[type |-> t, fields |-> [p \in {"M.FlowType", "M.Name"} |->
                                IF p = "M.Name" THEN n ELSE f]] :
       t \in {e1, e4, u}, n \in {Null, "ab", "abc"}, f \in MCValues}
=============================================================================
