--------------------------- MODULE MCCommandWork ---------------------------
(***************************************************************************)
(* One direct command, one runbook whose rollback is another runbook, one   *)
(* approval of a denied command.                                            *)
(***************************************************************************)
EXTENDS CommandWork, TLC

CONSTANTS a1, a2, cmd, rb, undo, adhoc

MCSymmetry == Permutations(Workers) \cup Permutations(Admins)

MCRequester == [p \in Runbook \cup Adhoc |-> "operator"]
MCRollbackOf == [r \in Runbook |-> IF r = rb /\ undo \in Runbook THEN undo ELSE NoTarget]
=============================================================================
