---------------------------- MODULE MCHistoryPage ----------------------------
\* Instances of HistoryPage for TLC.
EXTENDS HistoryPage

CONSTANT x

MCTexts    == {x}
MCKeywords == {"a"}
\* The table shows whatever the server found: one text that a search finds.
MCFound    == [k \in MCKeywords |-> {x}]
=============================================================================
