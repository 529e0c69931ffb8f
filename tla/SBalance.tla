------------------------------ MODULE SBalance ------------------------------
(***************************************************************************)
(* The cursor of a weighted load balancer (util/lib/sbalance.c).           *)
(*                                                                         *)
(* A connection walks over the n services of one sbalance with a cursor    *)
(* (struct sbalance_connection).  The operators below give, for a cursor,  *)
(* the SET of cursors an operation may produce: the weighted pick of the   *)
(* hash and random strategies and the permutation drawn from rcycle are    *)
(* choices over all their outcomes, because every weight is positive and   *)
(* so every service can be picked.  Service indices are 0-based, as in C.  *)
(***************************************************************************)
EXTENDS Integers

CONSTANTS
  Strat,     \* "seq", or "random" (ST_RANDOM and ST_HASH differ in the seed)
  Retries    \* sb_retries

ASSUME StratAssumption == Strat \in {"seq", "random"}
ASSUME RetriesAssumption == Retries \in Nat

(***************************************************************************)
(* retries, first, offs and last are sc_retries, sc_first, sc_offs and     *)
(* sc_last; cycle holds the indices rcycle has not drawn yet.              *)
(***************************************************************************)
Cursor == [retries: Int, first: Nat, offs: Int, last: Nat, cycle: SUBSET Nat]

\* The zeroed cursor of a fresh fd_pool_conn (zmalloc).
ZeroCursor == [retries |-> 0, first |-> 0, offs |-> 0, last |-> 0, cycle |-> {}]

\* sbalance_seq_reinit and sbalance_rand_reinit.
StratReinit(sc, n) ==
  IF Strat = "seq"
  THEN [sc EXCEPT !.offs = 0, !.first = n]
  ELSE [sc EXCEPT !.offs = -1, !.first = n, !.cycle = 0..(n - 1)]

\* sbalance_seq_init, sbalance_hash_init: what sbalance_conn_new does to the
\* cursor.  sc_last keeps its old value.
StratInit(sc, n) ==
  IF Strat = "seq"
  THEN {[StratReinit(sc, n) EXCEPT !.retries = Retries]}
  ELSE {[sc EXCEPT !.offs = pick, !.first = 1, !.retries = Retries, !.cycle = {}]
          : pick \in 0..(IF n = 0 THEN 0 ELSE n - 1)}

\* sbalance_seq_next and sbalance_rcycle_next, with the decrement of sc_first
\* and the assignment of sc_last that surround the call.
StratNext(sc) ==
  LET Step(idx, nsc) == [nsc EXCEPT !.first = @ - 1, !.last = idx]
  IN  IF Strat = "seq"
      THEN {Step(sc.offs, [sc EXCEPT !.offs = @ + 1])}
      ELSE IF sc.offs # -1
           THEN {Step(sc.offs, sc)}
           ELSE {Step(idx, [sc EXCEPT !.cycle = @ \ {idx}]) : idx \in sc.cycle}

\* sbalance_conn_next gives up: no services, or the last round is over.
GivesUp(sc, n) == n = 0 \/ (sc.first = 0 /\ sc.retries = 0)

\* The cursor after a NULL from sbalance_conn_next.
NextNull(sc, n) == IF n = 0 THEN sc ELSE [sc EXCEPT !.retries = @ - 1]

\* Mutant of NextService: the rounds are not counted.
NextServiceForever(sc, n) ==
  IF sc.first = 0 THEN StratNext(StratReinit(sc, n)) ELSE StratNext(sc)

\* The cursors after a service from sbalance_conn_next; it is service .last.
NextService(sc, n) ==
  IF sc.first = 0
  THEN StratNext(StratReinit([sc EXCEPT !.retries = @ - 1], n))
  ELSE StratNext(sc)

\* The service a sbalance_conn_next with a failure status charges.  The index
\* is the one of the cursor, whether or not it belongs to the current services.
ChargedBy(sc) == sc.last

\* sbalance_conn_done clears the penalty of the last service, unless retries
\* are exhausted.
ClearedBy(sc, n) == IF n > 0 /\ sc.retries >= 0 THEN {sc.last} ELSE {}
=============================================================================
