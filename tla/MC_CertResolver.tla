-------------------------- MODULE MC_CertResolver --------------------------
(* Every descriptor CertResolver distinguishes: 432 of them.               *)
EXTENDS CertResolver
=============================================================================
