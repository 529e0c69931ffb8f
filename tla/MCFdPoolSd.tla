----------------------------- MODULE MCFdPoolSd -----------------------------
(***************************************************************************)
(* Small instances of FdPoolSd.                                            *)
(***************************************************************************)
EXTENDS FdPoolSd, TLC

CONSTANT h1, a

OneStatic == h1 :> [cfg |-> a, up |-> NULL]
=============================================================================
