---------------------------- MODULE MCDeployment ----------------------------
\* One release, on one host, on two in batches of one or on three in batches of two.
EXTENDS Deployment, TLC

CONSTANT r1

MCTargets == {"deploy", "rollback"} \X {r1}
MCWorkers == Permutations(Workers)
MCDeliveries == Permutations(Deliveries)
=============================================================================
