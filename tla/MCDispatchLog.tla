---------------------------- MODULE MCDispatchLog ----------------------------
\* Instances of DispatchLog for TLC.
EXTENDS DispatchLog

CONSTANTS x, y

MCTexts    == {x, y}
MCKeywords == {"a", "b"}
\* "a" occurs in both texts, "b" in one.
MCFound    == [k \in MCKeywords |-> IF k = "a" THEN {x, y} ELSE {y}]
=============================================================================
