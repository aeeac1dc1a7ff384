------------------------------ MODULE MCKVMMU ------------------------------
(***************************************************************************)
(* Small instances of the KV-MMU for TLC.                                  *)
(***************************************************************************)
EXTENDS KVMMU, TLC

\* Payloads are compared only for equality.
PayloadSymmetry == Permutations(Payloads)
=============================================================================
