------------------------ MODULE MCCallbackDelivery ------------------------
\* Instances of CallbackDelivery for TLC.
EXTENDS CallbackDelivery

CONSTANTS r1, r2, m1, m2, t1, t2, id1, id2

MCRequests == {r1, r2}
MCMsgs     == {m1, m2}
MCTargets  == {t1, t2}
MCIds      == {id1, id2}
MCTagged   == {t2}
\* m1 is for both targets, m2 for one.
MCMatches  == [m \in MCMsgs |-> IF m = m1 THEN {t1, t2} ELSE {t2}]
MCSafeId   == [m \in MCMsgs |-> IF m = m1 THEN id1 ELSE id2]
\* Two messages that carry no MsgId share the name 'unknown'.
MCSameId   == [m \in MCMsgs |-> id1]

\* Two different callbacks.
MCMsgOf    == [r \in MCRequests |-> IF r = r1 THEN m1 ELSE m2]
=============================================================================
