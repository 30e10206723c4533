------------------------------ MODULE MCModes ------------------------------
(***************************************************************************)
(* Operation modes of all families, two callers, three calls.              *)
(***************************************************************************)
EXTENDS OperationModes, TLC

MCAsked == {OFF_GRID, BACKUP, ECO, ECO_CHARGE, ECO_DISCHARGE}
MCFound == {OFF_GRID, ECO}
MCDays == {62, 65}
MCGroupWrites == {WriteFirst("charge"), WriteGroup(3, 65)}
Symmetry == Permutations(Callers)
=============================================================================
