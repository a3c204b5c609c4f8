----------------------------- MODULE MCHttpRetry -----------------------------
\* Instances of HttpRetry for TLC.
EXTENDS HttpRetry

\* A status on each side of every comparison in the code.
MCStatuses == {200, 304, 404, 408, 503}
=============================================================================
