----------------------------- MODULE MCJobQueue -----------------------------
\* Two workers, three rows for one target (a row may repeat a target), lists of
\* at most two rows, one crash.
EXTENDS JobQueue
=============================================================================
