------------------------------ MODULE PortWalk ------------------------------
(***************************************************************************)
(* The order in which a connection tries the ports of one node             *)
(* (fd_pool_move_port, core/lib/fd_pool.c).                                *)
(*                                                                         *)
(* keys is the comma separated port_key list of the connection, ports the  *)
(* ports of the node.  A position is <<k, p>>: pk_ptr is at key k and      *)
(* conn->port is port p of the node, with p = 0 for NULL.                  *)
(***************************************************************************)
EXTENDS Integers, Sequences

Start == <<1, 0>>

\* The while loop stops with pk_ptr at the end of the list and a NULL port.
End(keys) == <<Len(keys) + 1, 0>>

Before(a, b) == a[1] < b[1] \/ (a[1] = b[1] /\ a[2] < b[2])

\* The positions the two loops still have ahead of them that match.
Ahead(keys, ports, pos) ==
  {q \in (DOMAIN keys) \X (DOMAIN ports) :
     /\ ports[q[2]].key = keys[q[1]]
     /\ Before(pos, q)}

\* fd_pool_move_port, as the set of the one position it moves to: the first
\* match ahead, or the end (it returned false).
MovePort(keys, ports, pos) ==
  LET ahead == Ahead(keys, ports, pos)
  IN  IF ahead = {}
      THEN {End(keys)}
      ELSE {q \in ahead : \A r \in ahead : r = q \/ Before(q, r)}
=============================================================================
