--------------------------- MODULE MCCapabilities ---------------------------
(***************************************************************************)
(* Two readings beside each other and a later one, of inverters that have  *)
(* everything, nothing, all but one block, or only the basic meter.        *)
(***************************************************************************)
EXTENDS Capabilities, TLC

MCFeatures == <<"peak_shaving">>
Optional == Blocks \ {"running"}
MCOffered == {Optional \ {b} : b \in Optional} \union {Optional, {}, {"meter", "battery"}}
Symmetry == Permutations(Callers)
=============================================================================
