------------------------------ MODULE MCAttest ------------------------------
(***************************************************************************)
(* Attest for TLC.  Three nonces let a cycle start while the messages of    *)
(* the two before it are still being delivered.                             *)
(***************************************************************************)
EXTENDS Attest, TLC

Symmetry == Permutations(Nonces)
=============================================================================
