-------------------------- MODULE MCConfigService --------------------------
\* Instances of ConfigService for TLC.
EXTENDS ConfigService

CONSTANTS a, b, q1, q2, c1, c2, t0

MCOne      == {a}
MCRequests == {q1, q2}
MCItems    == {c1, c2, t0}
MCTags     == {t0}
=============================================================================
