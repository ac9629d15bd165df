-------------------------- MODULE MCSchedulerLease --------------------------
\* One task whose interval is shorter than the lease and one whose interval is longer.
EXTENDS SchedulerLease

MCInterval == [t \in 1..Registry |-> IF t = 1 THEN 1 ELSE 3]
=============================================================================
