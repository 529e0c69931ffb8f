--------------------------- MODULE MCEtcdWatcher ----------------------------
(***************************************************************************)
(* Small instances of EtcdWatcher.                                         *)
(***************************************************************************)
EXTENDS EtcdWatcher, TLC

CONSTANTS k1, k2, l1, l2

\* Two services with a host each.
OneEach == (l1 :> {k1}) @@ (l2 :> {k2})
\* One service with two hosts.
Both == l1 :> {k1, k2}
=============================================================================
