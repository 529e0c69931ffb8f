--------------------------- MODULE FdPoolHandles ----------------------------
(***************************************************************************)
(* The steps of a handle preserve the inductive invariant of FdPool.       *)
(*                                                                         *)
(* Before them come the facts that the proofs about FdPool share: counting *)
(* holders, cursors and walks over ports, what a step leaves alone, how    *)
(* the invariant starts, and what it says about freed structures.          *)
(***************************************************************************)
EXTENDS FdPool, FiniteSetTheorems, TLAPS

\* Zenon finds most of the leaves by itself.
USE ZenonT(20), SMTT(10)

(***************************************************************************)
(* Counting.                                                               *)
(***************************************************************************)

\* A set of holders is finite, so the count of an sbalance is a number.
LEMMA HoldersFinite ==
  ASSUME NEW s
  PROVE  IsFiniteSet(Holders(s)) /\ Cardinality(Holders(s)) \in Nat
<1> DEFINE A == {v \in Services : srv_sb[v] = s}
           B == {c \in Conns : sc_sb[c] = s}
           C == {u \in Updaters : upd_sb[u] = s}
<1>1. IsFiniteSet(A) /\ IsFiniteSet(B) /\ IsFiniteSet(C)
  BY FiniteAssumption, FS_Subset
<1>2. IsFiniteSet(A \cup B)
  BY <1>1, FS_Union
<1>3. IsFiniteSet((A \cup B) \cup C)
  BY <1>1, <1>2, FS_Union
<1>4. Holders(s) = (A \cup B) \cup C
  BY DEF Holders
<1> QED
  BY <1>3, <1>4, FS_CardinalityType

\* One more holder is one more reference.
LEMMA OneMore ==
  ASSUME NEW S, NEW T, NEW x, IsFiniteSet(S), x \notin S, T = S \cup {x}
  PROVE  /\ IsFiniteSet(T) /\ Cardinality(S) \in Nat
         /\ Cardinality(T) = Cardinality(S) + 1
BY FS_AddElement, FS_CardinalityType

\* One holder less is one reference less.
LEMMA OneLess ==
  ASSUME NEW S, NEW T, NEW x, IsFiniteSet(S), x \in S, T = S \ {x}
  PROVE  /\ IsFiniteSet(T) /\ Cardinality(T) \in Nat
         /\ Cardinality(T) = Cardinality(S) - 1
BY FS_RemoveElement, FS_CardinalityType

\* sbalance_retain keeps the count exact.
LEMMA SbGain ==
  ASSUME TypeOK, SbRefsExact, NEW s \in Sbs, NEW x, x \notin Holders(s),
         Holders(s)' = Holders(s) \cup {x},
         \A r \in Sbs \ {s} : Holders(r)' = Holders(r),
         sb_refs' = [sb_refs EXCEPT ![s] = @ + 1]
  PROVE  SbRefsExact'
<1>1. Cardinality(Holders(s)') = Cardinality(Holders(s)) + 1
  BY HoldersFinite, OneMore
<1>2. sb_refs \in [Sbs -> Nat]
  BY DEF TypeOK, SbType
<1> QED
  BY <1>1, <1>2 DEF SbRefsExact

\* So does giving a reference up.
LEMMA SbLose ==
  ASSUME TypeOK, SbRefsExact, NEW s \in Sbs, NEW x, x \in Holders(s),
         Holders(s)' = Holders(s) \ {x},
         \A r \in Sbs \ {s} : Holders(r)' = Holders(r),
         sb_refs' = [sb_refs EXCEPT ![s] = @ - 1]
  PROVE  SbRefsExact' /\ sb_refs[s] > 0
<1>1. /\ Cardinality(Holders(s)') = Cardinality(Holders(s)) - 1
      /\ Cardinality(Holders(s)') \in Nat
      /\ Cardinality(Holders(s)) \in Nat
  BY HoldersFinite, OneLess
<1>2. sb_refs \in [Sbs -> Nat]
  BY DEF TypeOK, SbType
<1> QED
  BY SMTT(10), <1>1, <1>2 DEF SbRefsExact

\* An sbalance with a holder has a positive count, and is not being freed.
LEMMA HeldAlive ==
  ASSUME TypeOK, SbRefsExact, FreeInv, NEW s \in Sbs, Holders(s) # {}
  PROVE  sb_refs[s] > 0 /\ sb_freed[s] = 0 /\ \A t \in Threads : rel[t] # s
<1>1. Cardinality(Holders(s)) # 0
  BY HoldersFinite, FS_EmptySet
<1>2. sb_refs[s] > 0
  BY <1>1, HoldersFinite DEF SbRefsExact
<1>3. \A t \in Threads : rel[t] # s
  BY SMTT(10), <1>2, NullAssumption DEF FreeInv
<1> QED
  BY <1>2, <1>3 DEF FreeInv

\* The service nodes of the pool that hold node n, written for the provers.
LEMMA NodeHoldersDef ==
  ASSUME TypeOK, NEW n
  PROVE  NodeHolders(n) =
           {h \in Sbs \X Nat : /\ h[2] \in 1..NServ(h[1])
                               /\ h[2] > sb_freed[h[1]]
                               /\ sb_service[h[1]][h[2]].node = n}
<1>1. \A s \in Sbs : DOMAIN sb_service[s] = 1..NServ(s) /\ NServ(s) \in Nat
  BY SMTT(10) DEF TypeOK, SbType, NServ
<1>2. \A h : h \in UNION {{s} \X (DOMAIN sb_service[s]) : s \in Sbs}
              <=> h \in Sbs \X Nat /\ h[2] \in 1..NServ(h[1])
  <2> TAKE h
  <2>1. ASSUME h \in UNION {{s} \X (DOMAIN sb_service[s]) : s \in Sbs}
        PROVE  h \in Sbs \X Nat /\ h[2] \in 1..NServ(h[1])
    <3>1. PICK s \in Sbs : h \in {s} \X (1..NServ(s))
      BY <2>1, <1>1
    <3> QED
      BY SMTT(10), <3>1, <1>1
  <2>2. ASSUME h \in Sbs \X Nat, h[2] \in 1..NServ(h[1])
        PROVE  h \in UNION {{s} \X (DOMAIN sb_service[s]) : s \in Sbs}
    <3>1. h[1] \in Sbs /\ h \in {h[1]} \X (DOMAIN sb_service[h[1]])
      BY <2>2, <1>1
    <3> QED
      BY <3>1
  <2> QED
    BY <2>1, <2>2
<1> QED
  BY <1>2 DEF NodeHolders

\* The service nodes of unfreed sbalances that point to a node.
NodeHoldersEq ==
  \A n : NodeHolders(n) = {h \in Sbs \X Nat : /\ h[2] \in 1..NServ(h[1])
                                              /\ h[2] > sb_freed[h[1]]
                                              /\ sb_service[h[1]][h[2]].node = n}

\* They are what NodeHolders counts.
LEMMA NodeHoldersNow == TypeOK => NodeHoldersEq
BY NodeHoldersDef DEF NodeHoldersEq

\* The same in the next state.
LEMMA NodeHoldersNext == TypeOK' => NodeHoldersEq'
BY NodeHoldersNow, PTL

(***************************************************************************)
(* The cursor of a connection and the walk over the ports of a node.       *)
(***************************************************************************)

\* sbalance_conn_new leaves a cursor that fits the services.
LEMMA CursorInit ==
  ASSUME NEW sc \in Cursor, NEW n \in Nat, NEW r \in StratInit(sc, n)
  PROVE  r \in Cursor /\ CursorOK(r, n)
<1>1. CASE Strat = "seq"
  <2>1. r = [retries |-> Retries, first |-> n, offs |-> 0, last |-> sc.last,
             cycle |-> sc.cycle]
    BY <1>1 DEF StratInit, StratReinit, Cursor
  <2> QED
    BY SMTT(10), <1>1, <2>1, RetriesAssumption DEF Cursor, CursorOK
<1>2. CASE Strat # "seq"
  <2>1. PICK pick \in 0..(IF n = 0 THEN 0 ELSE n - 1) :
          r = [sc EXCEPT !.offs = pick, !.first = 1, !.retries = Retries, !.cycle = {}]
    BY <1>2 DEF StratInit
  <2>2. r = [retries |-> Retries, first |-> 1, offs |-> pick, last |-> sc.last,
             cycle |-> {}]
    BY <2>1 DEF Cursor
  <2> QED
    BY SMTT(10), <1>2, <2>2, RetriesAssumption DEF Cursor, CursorOK
<1> QED
  BY <1>1, <1>2

\* A turn of the strategy on a cursor with services left.
LEMMA CursorTurn ==
  ASSUME NEW sc \in Cursor, NEW n \in Nat, n > 0, CursorOK(sc, n), sc.first > 0,
         NEW r \in StratNext(sc)
  PROVE  r \in Cursor /\ CursorOK(r, n) /\ r.last < n
<1>1. CASE Strat = "seq"
  <2>1. r = [retries |-> sc.retries, first |-> sc.first - 1, offs |-> sc.offs + 1,
             last |-> sc.offs, cycle |-> sc.cycle]
    BY <1>1 DEF StratNext, Cursor
  <2> QED
    BY SMTT(10), <1>1, <2>1 DEF Cursor, CursorOK
<1>2. CASE Strat # "seq" /\ sc.offs # -1
  <2>1. r = [retries |-> sc.retries, first |-> sc.first - 1, offs |-> sc.offs,
             last |-> sc.offs, cycle |-> sc.cycle]
    BY <1>2 DEF StratNext, Cursor
  <2> QED
    BY SMTT(10), <1>2, <2>1 DEF Cursor, CursorOK
<1>3. CASE Strat # "seq" /\ sc.offs = -1
  <2>1. PICK idx \in sc.cycle :
          r = [[sc EXCEPT !.cycle = @ \ {idx}] EXCEPT !.first = @ - 1, !.last = idx]
    BY <1>3 DEF StratNext
  <2>2. r = [retries |-> sc.retries, first |-> sc.first - 1, offs |-> -1,
             last |-> idx, cycle |-> sc.cycle \ {idx}]
    BY <1>3, <2>1 DEF Cursor
  <2>3. idx \in 0..(n - 1)
    BY <1>3 DEF CursorOK
  <2> QED
    BY SMTT(10), <1>3, <2>2, <2>3 DEF Cursor, CursorOK
<1> QED
  BY <1>1, <1>2, <1>3

\* sbalance_conn_next yields a service of the sbalance.
LEMMA CursorNext ==
  ASSUME NEW sc \in Cursor, NEW n \in Nat, CursorOK(sc, n), ~GivesUp(sc, n),
         NEW r \in NextService(sc, n)
  PROVE  r \in Cursor /\ CursorOK(r, n) /\ r.last < n
<1>1. n > 0
  BY DEF GivesUp
<1>2. CASE sc.first # 0
  BY SMTT(10), <1>1, <1>2, CursorTurn DEF NextService, Cursor
<1>3. CASE sc.first = 0
  <2> DEFINE p == [sc EXCEPT !.retries = @ - 1]
             q == StratReinit(p, n)
  <2>3. p = [retries |-> sc.retries - 1, first |-> sc.first, offs |-> sc.offs,
             last |-> sc.last, cycle |-> sc.cycle]
    BY DEF Cursor
  <2>4. p \in Cursor
    BY SMTT(10), <2>3 DEF Cursor
  <2> HIDE DEF p
  <2>5. ASSUME Strat = "seq" PROVE q \in Cursor /\ CursorOK(q, n) /\ q.first > 0
    <3>1. q = [retries |-> p.retries, first |-> n, offs |-> 0, last |-> p.last,
               cycle |-> p.cycle]
      BY <2>4, <2>5 DEF StratReinit, Cursor
    <3> QED
      BY SMTT(10), <1>1, <2>4, <2>5, <3>1 DEF Cursor, CursorOK
  <2>6. ASSUME Strat # "seq" PROVE q \in Cursor /\ CursorOK(q, n) /\ q.first > 0
    <3>1. q = [retries |-> p.retries, first |-> n, offs |-> -1, last |-> p.last,
               cycle |-> 0..(n - 1)]
      BY <2>4, <2>6 DEF StratReinit, Cursor
    <3> QED
      BY SMTT(10), <1>1, <2>4, <2>6, <3>1 DEF Cursor, CursorOK
  <2>1. q \in Cursor /\ CursorOK(q, n) /\ q.first > 0
    BY <2>5, <2>6
  <2>2. r \in StratNext(q)
    BY <1>3 DEF NextService, p
  <2> HIDE DEF q
  <2> QED
    BY <1>1, <2>1, <2>2, CursorTurn
<1> QED
  BY <1>2, <1>3

\* A cursor that gave up still fits.
LEMMA CursorNull ==
  ASSUME NEW sc \in Cursor, NEW n \in Nat, CursorOK(sc, n)
  PROVE  NextNull(sc, n) \in Cursor /\ CursorOK(NextNull(sc, n), n)
BY SMTT(10) DEF NextNull, Cursor, CursorOK

\* Services are only added, and a cursor still fits when they are.
LEMMA CursorGrow ==
  ASSUME NEW sc \in Cursor, NEW n \in Nat, NEW m \in Nat, n <= m, CursorOK(sc, n)
  PROVE  CursorOK(sc, m)
BY SMTT(10) DEF Cursor, CursorOK

\* fd_pool_move_port stops at a port of the node, or with a NULL port.
LEMMA MovePortOK ==
  ASSUME NEW keys \in Seq(STRING), NEW P, NEW ports \in Seq(P), NEW pos,
         NEW q \in MovePort(keys, ports, pos)
  PROVE  /\ q[1] \in Nat /\ q[2] \in Nat
         /\ q[2] # 0 => q[2] \in DOMAIN ports
BY DEF MovePort, Ahead, End


(***************************************************************************)
(* What a step leaves alone.                                               *)
(***************************************************************************)

\* The counts of sbalances depend on the pointers to them only.
LEMMA SbFrame ==
  ASSUME SbRefsExact, UNCHANGED <<sb_refs, srv_sb, sc_sb, upd_sb>>
  PROVE  SbRefsExact'
BY DEF SbRefsExact, Holders

\* The counts of nodes depend on the service nodes only.
LEMMA NodeFrame ==
  ASSUME NodeCounts, UNCHANGED <<sb_service, sb_freed, node_refs, all_nodes>>
  PROVE  NodeCounts'
BY SMTT(10) DEF NodeCounts, NodeHolders

\* What is being freed depends on the counts and the free cursors only.
LEMMA FreeFrame ==
  ASSUME FreeInv, UNCHANGED <<rel, sb_refs, sb_freed, sb_service>>
  PROVE  FreeInv'
BY DEF FreeInv, FreeSbs, NServ

\* The kept descriptors depend on the nodes and their ports only.
LEMMA IdleFrame ==
  ASSUME IdleInv, UNCHANGED <<all_nodes, node_ports, idle>>
  PROVE  IdleInv'
BY DEF IdleInv

\* A handle is not disturbed by steps that leave it, the services and the
\* ports alone.
LEMMA ConnFrame ==
  ASSUME NEW c \in Conns, ConnOK(c), UNCHANGED <<sb_service, node_ports>>,
         sc_sb'[c] = sc_sb[c], sn'[c] = sn[c], port'[c] = port[c],
         loc'[c] = loc[c], fd'[c] = fd[c], pc'[c] = pc[c]
  PROVE  ConnOK(c)'
BY DEF ConnOK, PortValid, SnNode, NServ

\* The updates of a handle, field by field.
LEMMA LocalStatus ==
  ASSUME NEW l \in Local, NEW st \in Status, NEW r, r = [l EXCEPT !.status = st]
  PROVE  /\ r \in Local
         /\ r = [gen |-> l.gen, sc |-> l.sc, pk |-> l.pk, entry |-> l.entry, status |-> st]
<1>1. r = [gen |-> l.gen, sc |-> l.sc, pk |-> l.pk, entry |-> l.entry, status |-> st]
  BY DEF Local
<1> QED
  BY <1>1 DEF Local

\* The port cursor of a handle.
LEMMA LocalPk ==
  ASSUME NEW l \in Local, NEW k \in Nat, NEW r, r = [l EXCEPT !.pk = k]
  PROVE  /\ r \in Local
         /\ r = [gen |-> l.gen, sc |-> l.sc, pk |-> k, entry |-> l.entry, status |-> l.status]
<1>1. r = [gen |-> l.gen, sc |-> l.sc, pk |-> k, entry |-> l.entry, status |-> l.status]
  BY DEF Local
<1> QED
  BY <1>1 DEF Local

\* The node conn->sn points to is a node of the pool.
LEMMA NodeAlive ==
  ASSUME TypeOK, SbRefsExact, NodeCounts, FreeInv,
         NEW s \in Sbs, Holders(s) # {}, NEW i \in 1..NServ(s)
  PROVE  /\ sb_service[s][i].node \in all_nodes
         /\ sb_service[s][i].node \in Nodes
         /\ <<s, i>> \in NodeHolders(sb_service[s][i].node)
<1> DEFINE n == sb_service[s][i].node
<1>1. sb_freed[s] = 0
  BY HeldAlive
<1>0. sb_service[s] \in Seq(ServiceNode)
  BY DEF TypeOK, SbType
<1>2. i \in Nat /\ i > 0 /\ n \in Nodes
  <2>1. sb_service[s][i] \in ServiceNode
    BY <1>0 DEF NServ
  <2> QED
    BY SMTT(10), <1>0, <2>1 DEF NServ, ServiceNode
<1>3. <<s, i>> \in NodeHolders(n)
  BY <1>1, <1>2, NodeHoldersDef
<1>4. NodeHolders(n) # {} /\ IsFiniteSet(NodeHolders(n))
  BY <1>2, <1>3 DEF NodeCounts
<1>5. Cardinality(NodeHolders(n)) \in Nat /\ Cardinality(NodeHolders(n)) # 0
  BY <1>4, FS_EmptySet, FS_CardinalityType
<1>6. node_refs[n] > 0
  BY SMTT(10), <1>2, <1>5 DEF NodeCounts
<1> QED
  BY <1>2, <1>3, <1>6 DEF NodeCounts

\* The port a handle uses is one of a node of the pool.
LEMMA PortAlive ==
  ASSUME IndInv, NEW c \in Conns, pc[c] = "reuse" \/ fd[c] # NULL
  PROVE  /\ port[c][1] \in all_nodes /\ port[c][1] \in Nodes
         /\ port[c][2] \in DOMAIN idle[port[c][1]]
         /\ idle[port[c][1]][port[c][2]] \in Seq(Fds)
<1> USE DEF IndInv
<1>1. /\ sc_sb[c] \in Sbs /\ sn[c] \in 1..NServ(sc_sb[c]) /\ PortValid(c)
  BY SMTT(10), NullAssumption DEF ConnInv, ConnOK, TypeOK, ConnType
<1>2. c \in Holders(sc_sb[c])
  BY DEF Holders
<1>3. port[c][1] \in all_nodes /\ port[c][1] \in Nodes
  BY <1>1, <1>2, NodeAlive DEF PortValid, SnNode
<1>4. port[c][2] \in DOMAIN idle[port[c][1]]
  BY SMTT(10), <1>1, <1>3 DEF PortValid, IdleInv, TypeOK, NodeType
<1> QED
  BY SMTT(10), <1>3, <1>4 DEF TypeOK, NodeType

\* Replacing one list of kept descriptors.
LEMMA IdleSet ==
  ASSUME TypeOK, IdleInv, NEW n \in Nodes, NEW p \in DOMAIN idle[n],
         NEW q \in Seq(Fds), idle' = [idle EXCEPT ![n][p] = q],
         UNCHANGED <<all_nodes, node_ports>>, n \in all_nodes
  PROVE  idle' \in [Nodes -> Seq(Seq(Fds))] /\ IdleInv'
<1>1. idle \in [Nodes -> Seq(Seq(Fds))]
  BY DEF TypeOK, NodeType
<1>2. idle' = [idle EXCEPT ![n] = [idle[n] EXCEPT ![p] = q]]
  OBVIOUS
<1>3. /\ [idle[n] EXCEPT ![p] = q] \in Seq(Seq(Fds))
      /\ Len([idle[n] EXCEPT ![p] = q]) = Len(idle[n])
  BY SMTT(10), <1>1
<1> QED
  BY <1>1, <1>2, <1>3 DEF IdleInv

\* The last reference puts the sbalance in the hands of the one who dropped it.
LEMMA ReleaseFree ==
  ASSUME TypeOK, SbRefsExact, FreeInv, NEW t \in Threads, rel[t] = NULL,
         NEW s \in Sbs, Holders(s) # {}, NEW a, NEW b, Release(t, s, a, b),
         UNCHANGED <<sb_freed, sb_service>>
  PROVE  /\ FreeInv'
         /\ sb_refs' \in [Sbs -> Nat]
         /\ rel' \in [Threads -> Sbs \cup {NULL}]
         /\ \/ pc' = [pc EXCEPT ![t] = a] /\ rel' = [rel EXCEPT ![t] = s]
            \/ pc' = [pc EXCEPT ![t] = b] /\ rel' = rel
<1>1. sb_refs[s] > 0 /\ sb_freed[s] = 0 /\ \A r \in Threads : rel[r] # s
  BY HeldAlive
<1>2. /\ sb_refs \in [Sbs -> Nat] /\ rel \in [Threads -> Sbs \cup {NULL}]
      /\ sb_freed \in [Sbs -> Nat]
      /\ \A r \in Sbs : NServ(r) \in Nat
  BY SMTT(10) DEF TypeOK, SbType, PcType, NServ
<1>3. sb_refs' \in [Sbs -> Nat] /\ rel' \in [Threads -> Sbs \cup {NULL}]
  BY SMTT(10), <1>1, <1>2 DEF Release
<1>5. CASE sb_refs[s] > 1
  <2>1. sb_refs'[s] > 0 /\ rel' = rel /\ \A r \in Sbs \ {s} : sb_refs'[r] = sb_refs[r]
    BY SMTT(10), <1>2, <1>5 DEF Release
  <2>2. FreeInv'
    BY SMTT(10), <1>1, <1>2, <2>1 DEF FreeInv, FreeSbs, NServ
  <2> QED
    BY <1>3, <1>5, <2>2 DEF Release
<1>6. CASE ~(sb_refs[s] > 1)
  <2>1. /\ sb_refs'[s] = 0 /\ rel' = [rel EXCEPT ![t] = s]
        /\ \A r \in Sbs \ {s} : sb_refs'[r] = sb_refs[r]
    BY SMTT(10), <1>1, <1>2, <1>6 DEF Release
  <2>2. FreeInv'
    <3>1. \A r \in Threads : rel'[r] # NULL =>
             sb_refs'[rel'[r]] = 0 /\ sb_freed'[rel'[r]] <= Len(sb_service'[rel'[r]])
      BY SMTT(10), <1>1, <1>2, <2>1 DEF FreeInv, NServ
    <3>2. \A q, r \in Threads : rel'[q] # NULL /\ rel'[q] = rel'[r] => q = r
      BY <1>1, <1>2, <2>1 DEF FreeInv
    <3>3. \A r \in Sbs : sb_freed'[r] # 0 => \E q \in Threads : rel'[q] = r
      BY SMTT(10), <1>1, <1>2, <2>1, NullAssumption DEF FreeInv
    <3>4. \A r \in FreeSbs' : sb_service'[r] = <<>>
      BY SMTT(10), <1>1, <1>2, <2>1, NullAssumption DEF FreeInv, FreeSbs
    <3> QED
      BY <3>1, <3>2, <3>3, <3>4 DEF FreeInv, NServ
  <2> QED
    BY <1>3, <1>6, <2>2 DEF Release
<1> QED
  BY <1>5, <1>6

\* A handle lets go of its sbalance.
LEMMA DropHandle ==
  ASSUME TypeOK, NEW c \in Conns, NEW s \in Sbs, sc_sb[c] = s,
         sc_sb' = [sc_sb EXCEPT ![c] = NULL], UNCHANGED <<srv_sb, upd_sb>>
  PROVE  /\ Holders(s)' = Holders(s) \ {c}
         /\ \A r \in Sbs \ {s} : Holders(r)' = Holders(r)
<1>1. sc_sb \in [Conns -> Sbs \cup {NULL}] /\ NULL \notin Sbs
  BY NullAssumption DEF TypeOK, ConnType
<1>2. c \notin Services /\ c \notin Updaters
  BY DisjointAssumption
<1> QED
  BY <1>1, <1>2 DEF Holders

\* sbalance_conn_done keeps the penalties sets of indices.
LEMMA ConnDoneType ==
  ASSUME TypeOK, NEW c \in Conns
  PROVE  ConnDone(c) \in [Sbs -> SUBSET Nat]
BY DEF ConnDone, TypeOK, SbType, ConnType

(***************************************************************************)
(* Sequences of service nodes.                                             *)
(***************************************************************************)

\* A fresh fd_pool_conn is of its type.
LEMMA ZeroConnType == ZeroConn \in Local
BY DEF ZeroConn, Local, ZeroCursor, Cursor, Status

\* One more element at the end of one sequence.
LEMMA Appended ==
  ASSUME NEW S, NEW T, NEW f \in [S -> Seq(T)], NEW g, NEW s \in S, NEW e \in T,
         g = [f EXCEPT ![s] = Append(@, e)]
  PROVE  /\ g \in [S -> Seq(T)] /\ Len(f[s]) \in Nat /\ Len(g[s]) = Len(f[s]) + 1
         /\ g[s][Len(f[s]) + 1] = e
         /\ \A i \in 1..Len(f[s]) : g[s][i] = f[s][i]
         /\ \A r \in S \ {s} : g[r] = f[r]
<1>1. f[s] \in Seq(T) /\ g[s] = Append(f[s], e) /\ \A r \in S \ {s} : g[r] = f[r]
  OBVIOUS
<1>2. Append(f[s], e) \in Seq(T)
  BY SMTT(10), <1>1
<1>3. g \in [S -> Seq(T)]
  BY <1>2
<1> QED
  BY SMTT(10), <1>1, <1>3

\* The new element is the only new holder of a node.
LEMMA HolderAdded ==
  ASSUME NEW S, NEW f, NEW g, NEW fr, NEW s \in S, NEW k \in Nat, k > 0, NEW n,
         Len(f[s]) = k - 1, Len(g[s]) = k, g[s][k].node = n, fr[s] = 0,
         \A i \in 1..(k - 1) : g[s][i] = f[s][i], \A r \in S \ {s} : g[r] = f[r],
         NEW m, NEW a \in S, NEW i \in Nat
  PROVE  (i \in 1..Len(g[a]) /\ i > fr[a] /\ g[a][i].node = m)
         <=> \/ i \in 1..Len(f[a]) /\ i > fr[a] /\ f[a][i].node = m
             \/ m = n /\ a = s /\ i = k
<1>1. CASE a # s
  BY <1>1
<1>2. CASE a = s /\ i = k
  BY SMTT(10), <1>2
<1>3. CASE a = s /\ i # k
  <2>1. i \in 1..k <=> i \in 1..(k - 1)
    BY SMTT(10), <1>3
  <2> QED
    BY <1>3, <2>1
<1> QED
  BY <1>1, <1>2, <1>3

\* The sbalance a handle uses is not the one a thread frees.
LEMMA NotFreed ==
  ASSUME IndInv, NEW c \in Conns, sc_sb[c] # NULL
  PROVE  /\ sc_sb[c] \in Sbs /\ sb_freed[sc_sb[c]] = 0
         /\ \A t \in Threads : rel[t] # sc_sb[c]
         /\ sn[c] # 0 => /\ SnNode(c) \in Nodes
                         /\ <<sc_sb[c], sn[c]>> \in NodeHolders(SnNode(c))
                         /\ SnNode(c) \in all_nodes /\ sn[c] \in 1..NServ(sc_sb[c])
<1> USE DEF IndInv
<1>1. sc_sb[c] \in Sbs /\ c \in Holders(sc_sb[c])
  BY DEF TypeOK, ConnType, Holders
<1>2. sb_freed[sc_sb[c]] = 0 /\ \A t \in Threads : rel[t] # sc_sb[c]
  BY <1>1, HeldAlive
<1>3. ASSUME sn[c] # 0 PROVE sn[c] \in 1..NServ(sc_sb[c])
  BY SMTT(10), <1>1, <1>3 DEF ConnInv, ConnOK, TypeOK, ConnType, SbType, NServ
<1> QED
  BY <1>1, <1>2, <1>3, NodeAlive DEF SnNode

\* A handle whose sbalance and node stay as they are is not disturbed.
LEMMA ConnKept ==
  ASSUME NEW c \in Conns, ConnOK(c), UNCHANGED <<connVars>>, pc'[c] = pc[c],
         sc_sb[c] # NULL => sb_service'[sc_sb[c]] = sb_service[sc_sb[c]],
         sc_sb[c] # NULL /\ sn[c] # 0 => node_ports'[SnNode(c)] = node_ports[SnNode(c)]
  PROVE  ConnOK(c)'
BY DEF ConnOK, PortValid, SnNode, NServ, connVars

\* The pool has its services and nothing else at first.
LEMMA InitInv == Init => IndInv
<1> SUFFICES ASSUME Init PROVE IndInv
  OBVIOUS
<1>1. PICK f \in [Services -> Sbs] :
        /\ \A v, w \in Services : f[v] = f[w] => v = w
        /\ srv_sb = f
        /\ sb_refs = [s \in Sbs |-> IF \E v \in Services : f[v] = s THEN 1 ELSE 0]
  BY DEF Init
<1>2. /\ sc_sb = [c \in Conns |-> NULL] /\ upd_sb = [u \in Updaters |-> NULL]
      /\ sb_service = [s \in Sbs |-> <<>>] /\ sb_freed = [s \in Sbs |-> 0]
      /\ node_refs = [n \in Nodes |-> 0] /\ all_nodes = {}
      /\ rel = [t \in Threads |-> NULL] /\ sn = [c \in Conns |-> 0]
      /\ fd = [c \in Conns |-> NULL] /\ closing = FALSE
      /\ pc = [t \in Threads |-> IF t \in Conns THEN "none" ELSE "idle"]
      /\ idle = [n \in Nodes |-> <<>>]
  BY DEF Init
<1>3. TypeOK
  <2>1. SrvType /\ UpdType
    <3>1. srv_sb \in [Services -> Sbs \cup {NULL}] /\ upd_sb \in [Updaters -> Sbs \cup {NULL}]
      BY <1>1, <1>2
    <3>2. srv_gen \in [Services -> Nat] /\ wlock \in [Services -> Updaters \cup {NULL}]
          /\ closing \in BOOLEAN
      BY DEF Init
    <3>3. /\ upd_srv \in [Updaters -> Services \cup {NULL}]
          /\ upd_src \in [Updaters -> Sbs \cup {NULL}]
          /\ todo \in [Updaters -> Seq(HostSpec)]
      BY SMTT(10) DEF Init
    <3> QED
      BY <3>1, <3>2, <3>3 DEF SrvType, UpdType
  <2>2. SbType /\ NodeType
    <3>1. sb_refs \in [Sbs -> Nat]
      BY <1>1
    <3>2. sb_service \in [Sbs -> Seq(ServiceNode)] /\ sb_freed \in [Sbs -> Nat]
      BY SMTT(10), <1>2
    <3>3. sb_bad \in [Sbs -> SUBSET Nat]
      BY DEF Init
    <3>4. NodeType
      BY SMTT(10) DEF Init, NodeType
    <3> QED
      BY <3>1, <3>2, <3>3, <3>4 DEF SbType
  <2>3. ConnType
    <3>1. ZeroConn \in Local
      BY SMTT(10) DEF ZeroConn, Local, ZeroCursor, Cursor, Status
    <3> QED
      BY <3>1 DEF Init, ConnType
  <2>4. PcType
    BY DisjointAssumption DEF Init, PcType, Threads, ConnPc, UpdPc
  <2> QED
    BY <2>1, <2>2, <2>3, <2>4 DEF TypeOK
<1>4. SbRefsExact
  <2>1. ASSUME NEW s \in Sbs PROVE sb_refs[s] = Cardinality(Holders(s))
    <3>1. Holders(s) = {v \in Services : f[v] = s}
      BY <1>1, <1>2, NullAssumption DEF Holders
    <3>2. CASE \E v \in Services : f[v] = s
      <4>1. PICK v \in Services : f[v] = s
        BY <3>2
      <4>2. Holders(s) = {v}
        BY <1>1, <3>1, <4>1
      <4> QED
        BY <1>1, <3>2, <4>2, FS_Singleton
    <3>3. CASE ~ \E v \in Services : f[v] = s
      <4>1. Holders(s) = {}
        BY <3>1, <3>3
      <4> QED
        BY <1>1, <3>3, <4>1, FS_EmptySet
    <3> QED
      BY <3>2, <3>3
  <2> QED
    BY <2>1 DEF SbRefsExact
<1>5. NodeCounts
  <2>1. ASSUME NEW n \in Nodes PROVE NodeHolders(n) = {}
    <3>1. NodeHolders(n) = {h \in Sbs \X Nat : /\ h[2] \in 1..NServ(h[1])
                                               /\ h[2] > sb_freed[h[1]]
                                               /\ sb_service[h[1]][h[2]].node = n}
      BY <1>3, NodeHoldersDef
    <3>2. \A s \in Sbs : NServ(s) = 0
      BY <1>2 DEF NServ
    <3>3. \A h \in Sbs \X Nat : h[2] \notin 1..NServ(h[1])
      BY SMTT(10), <3>2
    <3> QED
      BY <3>1, <3>3
  <2>2. IsFiniteSet({}) /\ Cardinality({}) = 0
    BY FS_EmptySet
  <2>3. \A n \in Nodes : node_refs[n] = 0 /\ n \notin all_nodes
    BY <1>2
  <2> QED
    BY SMTT(10), <2>1, <2>2, <2>3 DEF NodeCounts
<1>6. PcInv
  BY SMTT(10), <1>1, <1>2, NullAssumption, DisjointAssumption DEF PcInv, Threads
<1>7. FreeInv
  BY <1>2 DEF FreeInv, FreeSbs
<1>8. ConnInv
  BY <1>2, DisjointAssumption DEF ConnInv, ConnOK, Threads
<1>9. IdleInv
  BY <1>2 DEF IdleInv
<1> QED
  BY <1>3, <1>4, <1>5, <1>6, <1>7, <1>8, <1>9 DEF IndInv

\* What is reachable from a service or a handle has not been freed.
LEMMA UsedIsAlive == IndInv => NoUseAfterFree
<1> SUFFICES ASSUME IndInv PROVE NoUseAfterFree
  OBVIOUS
<1> USE DEF IndInv
<1>1. ASSUME NEW v \in Services, srv_sb[v] # NULL PROVE sb_refs[srv_sb[v]] > 0
  <2>1. srv_sb[v] \in Sbs /\ v \in Holders(srv_sb[v])
    BY <1>1 DEF TypeOK, SrvType, Holders
  <2> QED
    BY <2>1, HeldAlive
<1>2. ASSUME NEW c \in Conns, sc_sb[c] # NULL
      PROVE  /\ sb_refs[sc_sb[c]] > 0 /\ sb_freed[sc_sb[c]] = 0
             /\ sn[c] # 0 => sn[c] <= NServ(sc_sb[c]) /\ SnNode(c) \in all_nodes
  <2>1. sc_sb[c] \in Sbs /\ c \in Holders(sc_sb[c])
    BY <1>2 DEF TypeOK, ConnType, Holders
  <2> QED
    BY <1>2, <2>1, HeldAlive, NotFreed DEF ConnInv, ConnOK
<1> QED
  BY <1>1, <1>2 DEF NoUseAfterFree

\* A freed pool has nothing left.
LEMMA FreedIsEmpty == IndInv => AllFreed
<1> SUFFICES ASSUME IndInv, PoolFreed, \A t \in Threads : rel[t] = NULL
             PROVE  all_nodes = {} /\ OpenFds = {} /\ FreeSbs = Sbs
  BY DEF AllFreed
<1> USE DEF IndInv
<1>1. /\ \A v \in Services : srv_sb[v] = NULL
      /\ \A c \in Conns : sc_sb[c] = NULL /\ fd[c] = NULL
      /\ \A u \in Updaters : upd_sb[u] = NULL
  BY DEF PoolFreed, PcInv, ConnInv, ConnOK
<1>2. ASSUME NEW s \in Sbs PROVE sb_refs[s] = 0
  <2>1. Holders(s) = {}
    BY <1>1, NullAssumption DEF Holders
  <2> QED
    BY <2>1, FS_EmptySet DEF SbRefsExact
<1>3. FreeSbs = Sbs
  BY <1>2, NullAssumption DEF FreeSbs
<1>4. \A s \in Sbs : NServ(s) = 0
  BY SMTT(10), <1>3 DEF FreeInv, NServ
<1>5. ASSUME NEW n \in Nodes PROVE n \notin all_nodes
  <2>1. NodeHolders(n) = {h \in Sbs \X Nat : /\ h[2] \in 1..NServ(h[1])
                                             /\ h[2] > sb_freed[h[1]]
                                             /\ sb_service[h[1]][h[2]].node = n}
    BY NodeHoldersDef
  <2>2. \A h \in Sbs \X Nat : h[2] \notin 1..NServ(h[1])
    BY SMTT(10), <1>4
  <2>3. NodeHolders(n) = {}
    BY <2>1, <2>2
  <2>4. Cardinality(NodeHolders(n)) = 0
    BY <2>3, FS_EmptySet
  <2> QED
    BY <2>4 DEF NodeCounts
<1>6. all_nodes = {}
  BY <1>5 DEF TypeOK, NodeType
<1>7. ASSUME NEW n \in Nodes PROVE IdleFds(n) = {}
  BY SMTT(10), <1>6 DEF IdleInv, IdleFds
<1>8. OpenFds = {}
  BY <1>1, <1>7 DEF OpenFds, HeldFds
<1> QED
  BY <1>3, <1>6, <1>8
-----------------------------------------------------------------------------
(***************************************************************************)
(* A step of a handle that takes and drops no reference: it is enough to   *)
(* look at the handle.                                                     *)
(***************************************************************************)
LEMMA HandleStep ==
  ASSUME IndInv, NEW c \in Conns,
         UNCHANGED <<srvVars, sb_refs, sb_service, sb_freed, all_nodes, node_refs,
                     node_ports, updVars, rel, sc_sb>>,
         sb_bad' \in [Sbs -> SUBSET Nat],
         idle' \in [Nodes -> Seq(Seq(Fds))], IdleInv',
         NEW n \in Nat, sn' = [sn EXCEPT ![c] = n],
         NEW p \in (Nodes \X Nat) \cup {NULL}, port' = [port EXCEPT ![c] = p],
         NEW l \in Local, loc' = [loc EXCEPT ![c] = l],
         NEW f \in Fds \cup {NULL}, fd' = [fd EXCEPT ![c] = f],
         NEW q \in {"ready", "lock", "select", "move_node", "reuse", "crash"},
         pc' = [pc EXCEPT ![c] = q],
         ~closing, rel[c] = NULL, q \notin {"ready", "lock"} => sc_sb[c] # NULL,
         ConnOK(c)'
  PROVE  IndInv'
<1> USE DEF IndInv
<1>1. TypeOK'
  <2>1. ConnType'
    BY DEF TypeOK, ConnType
  <2>2. PcType'
    BY DisjointAssumption DEF TypeOK, PcType, Threads, ConnPc
  <2> QED
    BY <2>1, <2>2
       DEF TypeOK, SrvType, SbType, NodeType, UpdType, srvVars, updVars
<1>2. SbRefsExact' /\ NodeCounts' /\ FreeInv'
  BY SbFrame, NodeFrame, FreeFrame DEF srvVars, updVars
<1>3. PcInv'
  BY DisjointAssumption DEF PcInv, TypeOK, PcType, Threads, srvVars, updVars
<1>4. ConnInv'
  <2>1. ASSUME NEW d \in Conns \ {c} PROVE ConnOK(d)'
    BY ConnFrame DEF ConnInv, TypeOK, ConnType, PcType, Threads
  <2> QED
    BY <2>1 DEF ConnInv
<1> QED
  BY <1>1, <1>2, <1>3, <1>4

\* fd_pool_new_conn: the handle refers to nothing yet.
LEMMA NewConnInv ==
  ASSUME IndInv, NEW c \in Conns, NewConn(c)
  PROVE  IndInv'
<1> USE DEF IndInv
<1>1. /\ sn[c] \in Nat /\ port[c] \in (Nodes \X Nat) \cup {NULL} /\ loc[c] \in Local
      /\ fd[c] \in Fds \cup {NULL} /\ rel[c] = NULL
      /\ sn = [sn EXCEPT ![c] = sn[c]] /\ port = [port EXCEPT ![c] = port[c]]
      /\ loc = [loc EXCEPT ![c] = loc[c]] /\ fd = [fd EXCEPT ![c] = fd[c]]
  BY DEF NewConn, TypeOK, ConnType, PcInv, Threads
<1>2. ConnOK(c)'
  BY DEF NewConn, ConnInv, ConnOK, PcInv, sbVars, nodeVars, connVars, TypeOK, PcType, Threads
<1>3. IdleInv' /\ idle' \in [Nodes -> Seq(Seq(Fds))] /\ sb_bad' \in [Sbs -> SUBSET Nat]
  BY IdleFrame DEF NewConn, nodeVars, sbVars, TypeOK, NodeType, SbType
<1> QED
  BY <1>1, <1>2, <1>3, HandleStep DEF NewConn, srvVars, sbVars, nodeVars, connVars, updVars

\* The call of fd_pool_get: only the status it starts with changes.
LEMMA GetCallInv ==
  ASSUME IndInv, NEW c \in Conns, NEW st \in Status, GetCall(c, st)
  PROVE  IndInv'
<1> USE DEF IndInv
<1>1. PICK l \in Local : loc' = [loc EXCEPT ![c] = l] /\ l.sc = loc[c].sc
  <2>1. PICK l : l = [loc[c] EXCEPT !.status = st]
    OBVIOUS
  <2>2. l \in Local /\ l.sc = loc[c].sc
    BY SMTT(10), <2>1, LocalStatus DEF TypeOK, ConnType
  <2> QED
    BY <2>1, <2>2 DEF GetCall
<1>2. PICK q \in {"lock", "select"} :
        pc' = [pc EXCEPT ![c] = q] /\ (q = "select" => sc_sb[c] # NULL)
  BY DEF GetCall
<1>3. /\ sn[c] \in Nat /\ port[c] \in (Nodes \X Nat) \cup {NULL}
      /\ fd[c] \in Fds \cup {NULL} /\ rel[c] = NULL /\ ~closing
      /\ sn = [sn EXCEPT ![c] = sn[c]] /\ port = [port EXCEPT ![c] = port[c]]
      /\ fd = [fd EXCEPT ![c] = fd[c]]
  BY DEF GetCall, TypeOK, ConnType, PcInv, Threads
<1>4. ConnOK(c)'
  <2>1. pc'[c] = q /\ loc'[c].sc = loc[c].sc
    BY <1>1, <1>2 DEF TypeOK, PcType, ConnType, Threads
  <2> QED
    BY <2>1, <1>2 DEF GetCall, ConnInv, ConnOK, PortValid, SnNode, NServ, sbVars, nodeVars
<1>5. IdleInv' /\ idle' \in [Nodes -> Seq(Seq(Fds))] /\ sb_bad' \in [Sbs -> SUBSET Nat]
  BY IdleFrame DEF GetCall, nodeVars, sbVars, TypeOK, NodeType, SbType
<1> QED
  BY <1>1, <1>2, <1>3, <1>4, <1>5, HandleStep DEF GetCall, srvVars, sbVars, nodeVars, updVars

\* fd_pool_get under the read lock: on a new generation it drops its sbalance, and
\* is the one to free it when it held the last reference.
LEMMA GetLockInv ==
  ASSUME IndInv, NEW c \in Conns, GetLock(c)
  PROVE  IndInv'
<1> USE DEF IndInv
<1>a. /\ c \in Threads /\ c \notin Services /\ c \notin Updaters
      /\ pc[c] = "lock" /\ rel[c] = NULL /\ fd[c] = NULL
  BY DisjointAssumption DEF GetLock, Threads, PcInv, ConnInv, ConnOK
<1>b. sb_bad' \in [Sbs -> SUBSET Nat]
  BY ConnDoneType DEF GetLock, TypeOK, SbType
<1>c. sc_sb' \in [Conns -> Sbs \cup {NULL}] /\ sc_sb' = [sc_sb EXCEPT ![c] = NULL]
  BY DEF GetLock, TypeOK, ConnType
<1>1. /\ SbRefsExact' /\ FreeInv' /\ sb_refs' \in [Sbs -> Nat]
      /\ rel' \in [Threads -> Sbs \cup {NULL}]
      /\ \/ pc' = [pc EXCEPT ![c] = "free_get"] /\ \E s \in Sbs : rel' = [rel EXCEPT ![c] = s]
         \/ pc' = [pc EXCEPT ![c] = "conn_new"] /\ rel' = rel
  <2>1. CASE sc_sb[c] = NULL
    <3>1. sc_sb' = sc_sb
      BY <1>c, <2>1 DEF TypeOK, ConnType
    <3> QED
      BY <2>1, <3>1, SbFrame, FreeFrame
         DEF GetLock, TypeOK, SbType, PcType, srvVars, updVars
  <2>2. CASE sc_sb[c] # NULL
    <3>1. PICK s \in Sbs : sc_sb[c] = s /\ Release(c, s, "free_get", "conn_new")
      BY <2>2 DEF GetLock, TypeOK, ConnType
    <3>2. c \in Holders(s)
      BY <3>1 DEF Holders
    <3>3. /\ Holders(s)' = Holders(s) \ {c}
          /\ \A r \in Sbs \ {s} : Holders(r)' = Holders(r)
      BY <1>a, <3>1, DropHandle DEF GetLock, srvVars, updVars
    <3>4. SbRefsExact'
      <4>1. sb_refs' = [sb_refs EXCEPT ![s] = @ - 1]
        BY <3>1 DEF Release
      <4> QED
        BY <3>1, <3>2, <3>3, <4>1, SbLose
    <3> QED
      BY <1>a, <3>1, <3>2, <3>4, ReleaseFree DEF GetLock
  <2> QED
    BY <2>1, <2>2
<1>2. TypeOK'
  <2>1. SbType' /\ ConnType'
    BY <1>1, <1>b, <1>c DEF GetLock, TypeOK, SbType, ConnType
  <2>2. PcType'
    BY <1>1, <1>a DEF TypeOK, PcType, Threads, ConnPc
  <2> QED
    BY <2>1, <2>2 DEF GetLock, TypeOK, SrvType, NodeType, UpdType, srvVars, nodeVars, updVars
<1>3. NodeCounts'
  BY NodeFrame DEF GetLock, nodeVars
<1>4. PcInv'
  BY SMTT(10), <1>1, <1>a, <1>c, NullAssumption
     DEF GetLock, PcInv, TypeOK, PcType, ConnType, Threads, srvVars, updVars
<1>5. ConnInv'
  <2>1. ConnOK(c)'
    BY <1>1, <1>a, <1>c DEF ConnOK, GetLock, TypeOK, ConnType, PcType
  <2>2. ASSUME NEW d \in Conns \ {c} PROVE ConnOK(d)'
    BY <1>1, <1>a, <1>c, ConnFrame
       DEF ConnInv, GetLock, TypeOK, ConnType, PcType, nodeVars, Threads
  <2> QED
    BY <2>1, <2>2 DEF ConnInv
<1>6. IdleInv'
  BY IdleFrame DEF GetLock, nodeVars
<1> QED
  BY <1>1, <1>2, <1>3, <1>4, <1>5, <1>6

\* fd_pool_get takes a reference on the service's sbalance.
LEMMA ConnNewInv ==
  ASSUME IndInv, NEW c \in Conns, ConnNew(c)
  PROVE  IndInv'
<1> USE DEF IndInv
<1>1. PICK s \in Sbs : s = srv_sb[ConnSrv[c]]
  BY ConfigAssumption DEF ConnNew, PcInv, TypeOK, SrvType
<1>2. /\ c \in Threads /\ c \notin Services /\ c \notin Updaters
      /\ pc[c] = "conn_new" /\ rel[c] = NULL /\ fd[c] = NULL /\ sc_sb[c] = NULL
  BY DisjointAssumption DEF ConnNew, Threads, PcInv, ConnInv, ConnOK
<1>3. PICK sc \in StratInit(loc[c].sc, NServ(s)) :
        loc' = [loc EXCEPT ![c].sc = sc, ![c].gen = srv_gen[ConnSrv[c]]]
  BY <1>1 DEF ConnNew
<1>4. NServ(s) \in Nat /\ loc[c] \in Local /\ loc[c].sc \in Cursor
  BY SMTT(10) DEF TypeOK, SbType, NServ, ConnType, Local
<1>5. sc \in Cursor /\ CursorOK(sc, NServ(s))
  BY <1>4, CursorInit
<1>6. loc' \in [Conns -> Local] /\ loc'[c].sc = sc /\ \A d \in Conns \ {c} : loc'[d] = loc[d]
  <2>1. PICK g \in Nat : g = srv_gen[ConnSrv[c]]
    BY ConfigAssumption DEF TypeOK, SrvType
  <2>2. PICK l : l = [loc[c] EXCEPT !.sc = sc, !.gen = g]
    OBVIOUS
  <2>3. l \in Local /\ l.sc = sc
    <3>1. l = [gen |-> g, sc |-> sc, pk |-> loc[c].pk, entry |-> loc[c].entry,
               status |-> loc[c].status]
      BY <1>4, <2>2 DEF Local
    <3> QED
      BY <1>4, <1>5, <3>1 DEF Local
  <2>4. loc' = [loc EXCEPT ![c] = l]
    BY <1>3, <2>1, <2>2
  <2> QED
    BY <2>3, <2>4 DEF TypeOK, ConnType
<1>7. /\ sc_sb' = [sc_sb EXCEPT ![c] = s] /\ sb_refs' = [sb_refs EXCEPT ![s] = @ + 1]
      /\ sn' = [sn EXCEPT ![c] = 0] /\ pc' = [pc EXCEPT ![c] = "select"]
  BY <1>1 DEF ConnNew, Retain
<1>8. Holders(s) # {} /\ c \notin Holders(s)
  BY <1>1, <1>2, ConfigAssumption, NullAssumption DEF Holders
<1>9. SbRefsExact'
  <2>1. sc_sb \in [Conns -> Sbs \cup {NULL}] /\ NULL \notin Sbs /\ UNCHANGED <<srv_sb, upd_sb>>
    BY NullAssumption DEF TypeOK, ConnType, ConnNew, srvVars, updVars
  <2>2. /\ Holders(s)' = Holders(s) \cup {c}
        /\ \A r \in Sbs \ {s} : Holders(r)' = Holders(r)
    BY <1>2, <1>7, <2>1 DEF Holders
  <2> QED
    BY <1>7, <1>8, <2>2, SbGain
<1>10. TypeOK'
  <2>1. SbType' /\ ConnType'
    BY SMTT(10), <1>6, <1>7 DEF ConnNew, TypeOK, SbType, ConnType
  <2>2. PcType'
    BY <1>2, <1>7 DEF ConnNew, TypeOK, PcType, Threads, ConnPc
  <2> QED
    BY <2>1, <2>2 DEF ConnNew, TypeOK, SrvType, NodeType, UpdType, srvVars, nodeVars, updVars
<1>11. NodeCounts'
  BY NodeFrame DEF ConnNew, nodeVars
<1>12. PcInv'
  BY SMTT(10), <1>2, <1>7, NullAssumption
     DEF ConnNew, PcInv, TypeOK, PcType, ConnType, Threads, srvVars, updVars
<1>13. FreeInv'
  <2>1. sb_refs[s] > 0 /\ \A t \in Threads : rel[t] # s
    BY <1>8, HeldAlive
  <2>2. sb_refs \in [Sbs -> Nat] /\ UNCHANGED <<rel, sb_freed, sb_service>>
    BY DEF TypeOK, SbType, ConnNew
  <2>3. sb_refs'[s] > 0 /\ \A r \in Sbs \ {s} : sb_refs'[r] = sb_refs[r]
    BY <1>7, <2>1, <2>2
  <2>4. rel \in [Threads -> Sbs \cup {NULL}]
    BY DEF TypeOK, PcType
  <2> QED
    BY SMTT(10), <2>1, <2>2, <2>3, <2>4 DEF FreeInv, FreeSbs, NServ
<1>14. ConnInv'
  <2>1. ConnOK(c)'
    <3>1. /\ sc_sb'[c] = s /\ sn'[c] = 0 /\ fd'[c] = NULL /\ pc'[c] = "select"
          /\ sb_service' = sb_service
      BY <1>2, <1>7 DEF ConnNew, TypeOK, ConnType, PcType, Threads
    <3> QED
      BY <1>4, <1>5, <1>6, <3>1 DEF ConnOK, NServ
  <2>2. ASSUME NEW d \in Conns \ {c} PROVE ConnOK(d)'
    BY <1>6, <1>7, ConnFrame
       DEF ConnInv, ConnNew, TypeOK, ConnType, PcType, nodeVars, Threads
  <2> QED
    BY <2>1, <2>2 DEF ConnInv
<1>15. IdleInv'
  BY IdleFrame DEF ConnNew, nodeVars
<1> QED
  BY <1>9, <1>10, <1>11, <1>12, <1>13, <1>14, <1>15

\* What fd_pool_move_port leaves in conn->port.
LEMMA PortAtOK ==
  ASSUME TypeOK, NEW c \in Conns, NEW n \in Nodes, NEW start,
         NEW pos \in MovePort(ConnKeys[c], node_ports[n], start)
  PROVE  /\ pos[1] \in Nat
         /\ PortAt(n, pos) \in (Nodes \X Nat) \cup {NULL}
         /\ pos[2] = 0 => PortAt(n, pos) = NULL
         /\ pos[2] # 0 => /\ PortAt(n, pos) = <<n, pos[2]>>
                          /\ PortAt(n, pos) # NULL
                          /\ pos[2] \in DOMAIN node_ports[n]
<1>1. ConnKeys[c] \in Seq(STRING) /\ node_ports[n] \in Seq(Ports)
  BY ConfigAssumption DEF TypeOK, NodeType
<1>2. pos[1] \in Nat /\ pos[2] \in Nat /\ (pos[2] # 0 => pos[2] \in DOMAIN node_ports[n])
  BY <1>1, MovePortOK
<1> QED
  BY <1>2, NullAssumption DEF PortAt

\* fd_pool_move_port on the current node, or on to the next node.
LEMMA SelectInv ==
  ASSUME IndInv, NEW c \in Conns, Select(c)
  PROVE  IndInv'
<1> USE DEF IndInv
<1>1. /\ sn[c] \in Nat /\ port[c] \in (Nodes \X Nat) \cup {NULL} /\ loc[c] \in Local
      /\ fd[c] = NULL /\ rel[c] = NULL /\ ~closing /\ sc_sb[c] \in Sbs /\ sc_sb[c] # NULL
      /\ pc[c] = "select"
      /\ sn = [sn EXCEPT ![c] = sn[c]] /\ port = [port EXCEPT ![c] = port[c]]
      /\ fd = [fd EXCEPT ![c] = fd[c]] /\ loc = [loc EXCEPT ![c] = loc[c]]
  BY DEF Select, TypeOK, ConnType, PcInv, Threads, ConnInv, ConnOK
<1>2. IdleInv' /\ idle' \in [Nodes -> Seq(Seq(Fds))] /\ sb_bad' \in [Sbs -> SUBSET Nat]
  BY IdleFrame DEF Select, nodeVars, sbVars, TypeOK, NodeType, SbType
<1>3. PICK q \in {"ready", "move_node", "reuse"}, l \in Local,
           p \in (Nodes \X Nat) \cup {NULL} :
        /\ pc' = [pc EXCEPT ![c] = q] /\ loc' = [loc EXCEPT ![c] = l]
        /\ port' = [port EXCEPT ![c] = p] /\ l.sc = loc[c].sc
        /\ q = "reuse" => sn[c] # 0 /\ p # NULL
        /\ p # NULL /\ sn[c] # 0 /\ q # "move_node" =>
             p[1] = SnNode(c) /\ p[2] \in DOMAIN node_ports[SnNode(c)]
  <2>1. CASE sn[c] = 0
    BY <1>1, <2>1 DEF Select
  <2>2. CASE sn[c] # 0 /\ loc[c].entry
    <3>1. port[c] # NULL => PortValid(c)
      BY <1>1, <2>2 DEF ConnInv, ConnOK
    <3>2. port' = port /\ loc' = loc /\ pc' = [pc EXCEPT ![c] = AfterMove(sn[c], port[c])]
      BY <2>2 DEF Select
    <3>3. CASE port[c] = NULL
      BY <1>1, <2>2, <3>2, <3>3 DEF AfterMove
    <3>4. CASE port[c] # NULL
      BY <1>1, <2>2, <3>1, <3>2, <3>4 DEF AfterMove, PortValid
    <3> QED
      BY <3>3, <3>4
  <2>3. CASE sn[c] # 0 /\ ~loc[c].entry
    <3>1. SnNode(c) \in Nodes
      <4>1. sn[c] \in 1..NServ(sc_sb[c])
        BY SMTT(10), <1>1, <2>3 DEF ConnInv, ConnOK, TypeOK, SbType, NServ
      <4>2. c \in Holders(sc_sb[c])
        BY DEF Holders
      <4> QED
        BY <1>1, <4>1, <4>2, NodeAlive DEF SnNode
    <3>2. PICK pos \in MovePort(ConnKeys[c], node_ports[SnNode(c)], Pos(c)) :
            /\ loc' = [loc EXCEPT ![c].pk = pos[1]]
            /\ port' = [port EXCEPT ![c] = PortAt(SnNode(c), pos)]
            /\ pc' = [pc EXCEPT ![c] = IF pos[2] = 0 THEN "move_node" ELSE "reuse"]
      BY <2>3 DEF Select
    <3>3. /\ pos[1] \in Nat
          /\ PortAt(SnNode(c), pos) \in (Nodes \X Nat) \cup {NULL}
          /\ pos[2] = 0 => PortAt(SnNode(c), pos) = NULL
          /\ pos[2] # 0 => /\ PortAt(SnNode(c), pos) = <<SnNode(c), pos[2]>>
                           /\ PortAt(SnNode(c), pos) # NULL
                           /\ pos[2] \in DOMAIN node_ports[SnNode(c)]
      BY <3>1, PortAtOK
    <3>4. PICK l : l = [loc[c] EXCEPT !.pk = pos[1]]
      OBVIOUS
    <3>5. l \in Local /\ l.sc = loc[c].sc
      BY SMTT(10), <1>1, <3>3, <3>4, LocalPk
    <3>6. loc' = [loc EXCEPT ![c] = l]
      BY <3>2, <3>4
    <3>7. CASE pos[2] = 0
      <4>1. pc' = [pc EXCEPT ![c] = "move_node"] /\ port' = [port EXCEPT ![c] = NULL]
        BY <3>2, <3>3, <3>7
      <4> QED
        BY <3>5, <3>6, <4>1
    <3>8. CASE pos[2] # 0
      <4>1. PICK p : p = <<SnNode(c), pos[2]>>
        OBVIOUS
      <4>2. /\ p \in (Nodes \X Nat) \cup {NULL} /\ p # NULL
            /\ p[1] = SnNode(c) /\ p[2] \in DOMAIN node_ports[SnNode(c)]
        BY <3>3, <3>8, <4>1
      <4>3. pc' = [pc EXCEPT ![c] = "reuse"] /\ port' = [port EXCEPT ![c] = p]
        BY <3>2, <3>3, <3>8, <4>1
      <4> QED
        BY <2>3, <3>5, <3>6, <4>2, <4>3
    <3> QED
      BY <3>7, <3>8
  <2> QED
    BY <2>1, <2>2, <2>3
<1>4. ConnOK(c)'
  <2>1. pc'[c] = q /\ loc'[c].sc = loc[c].sc /\ port'[c] = p /\ fd'[c] = NULL
    BY <1>1, <1>3 DEF Select, TypeOK, PcType, ConnType, Threads
  <2> QED
    BY <1>1, <2>1, <1>3 DEF Select, ConnInv, ConnOK, PortValid, SnNode, NServ, sbVars, nodeVars
<1> QED
  BY <1>1, <1>2, <1>3, <1>4, HandleStep DEF Select, srvVars, sbVars, nodeVars, updVars

\* The penalties stay sets of indices.
LEMMA ChargeType ==
  ASSUME TypeOK, NEW c \in Conns, sb_bad' = sb_bad \/ Charge(c)
  PROVE  sb_bad' \in [Sbs -> SUBSET Nat]
<1>1. sb_bad \in [Sbs -> SUBSET Nat]
  BY DEF TypeOK, SbType
<1>2. {ChargedBy(loc[c].sc)} \cap 0..(NServ(sc_sb[c]) - 1) \in SUBSET Nat
  BY DEF TypeOK, ConnType, Local, Cursor, ChargedBy
<1> QED
  BY <1>1, <1>2 DEF Charge

\* sbalance_conn_next has no service left: the cursor and the penalties change.
LEMMA NodesExhaustedInv ==
  ASSUME IndInv, NEW c \in Conns, NodesExhausted(c)
  PROVE  IndInv'
<1> USE DEF IndInv
<1>1. /\ port[c] \in (Nodes \X Nat) \cup {NULL} /\ loc[c] \in Local /\ loc[c].sc \in Cursor
      /\ fd[c] = NULL /\ rel[c] = NULL /\ ~closing /\ sc_sb[c] \in Sbs /\ sc_sb[c] # NULL
      /\ pc[c] = "move_node" /\ port = [port EXCEPT ![c] = port[c]]
      /\ fd = [fd EXCEPT ![c] = fd[c]] /\ NServ(sc_sb[c]) \in Nat
      /\ CursorOK(loc[c].sc, NServ(sc_sb[c]))
  BY SMTT(10) DEF NodesExhausted, TypeOK, ConnType, PcInv, Threads, ConnInv, ConnOK, Local, SbType, NServ
<1>2. IdleInv' /\ idle' \in [Nodes -> Seq(Seq(Fds))]
  BY IdleFrame DEF NodesExhausted, nodeVars, TypeOK, NodeType
<1>3. sb_bad' \in [Sbs -> SUBSET Nat]
  BY ChargeType DEF NodesExhausted
<1>4. PICK sc \in Cursor : sc = NextNull(loc[c].sc, NServ(sc_sb[c])) /\ CursorOK(sc, NServ(sc_sb[c]))
  BY <1>1, CursorNull
<1>5. PICK l : l = [loc[c] EXCEPT !.sc = sc, !.status = "start"]
  OBVIOUS
<1>6. l \in Local /\ l.sc = sc
  <2>1. l = [gen |-> loc[c].gen, sc |-> sc, pk |-> loc[c].pk, entry |-> loc[c].entry,
             status |-> "start"]
    BY <1>1, <1>5 DEF Local
  <2> QED
    BY <1>1, <2>1 DEF Local, Status
<1>7. loc' = [loc EXCEPT ![c] = l]
  BY <1>4, <1>5 DEF NodesExhausted
<1>8. PICK q \in {"ready", "crash"} : pc' = [pc EXCEPT ![c] = q]
  BY DEF NodesExhausted, AfterMove
<1>9. ConnOK(c)'
  <2>1. /\ pc'[c] = q /\ loc'[c].sc = sc /\ sn'[c] = 0 /\ fd'[c] = NULL
        /\ sc_sb' = sc_sb /\ sb_service' = sb_service
    BY <1>1, <1>6, <1>7, <1>8 DEF NodesExhausted, TypeOK, PcType, ConnType, Threads
  <2> QED
    BY SMTT(10), <1>1, <1>4, <2>1 DEF ConnOK, NServ
<1> QED
  BY <1>1, <1>2, <1>3, <1>6, <1>7, <1>8, <1>9, HandleStep
     DEF NodesExhausted, srvVars, nodeVars, updVars

\* fd_pool_move_node: the handle goes to a node of its sbalance, and to a port
\* that node has.
LEMMA MoveNodeInv ==
  ASSUME IndInv, NEW c \in Conns, MoveNode(c)
  PROVE  IndInv'
<1> USE DEF IndInv
<1>0. /\ pc[c] = "move_node"
      /\ UNCHANGED <<srvVars, sb_refs, sb_service, sb_freed, nodeVars, updVars, sc_sb, fd, rel>>
  BY DEF MoveNode
<1>1. /\ port[c] \in (Nodes \X Nat) \cup {NULL} /\ loc[c] \in Local /\ loc[c].sc \in Cursor
      /\ fd[c] = NULL /\ rel[c] = NULL /\ ~closing /\ sc_sb[c] \in Sbs /\ sc_sb[c] # NULL
      /\ pc[c] = "move_node" /\ port = [port EXCEPT ![c] = port[c]]
      /\ fd = [fd EXCEPT ![c] = fd[c]] /\ NServ(sc_sb[c]) \in Nat
      /\ CursorOK(loc[c].sc, NServ(sc_sb[c]))
  <2>1. /\ port[c] \in (Nodes \X Nat) \cup {NULL} /\ loc[c] \in Local /\ loc[c].sc \in Cursor
        /\ sc_sb[c] \in Sbs \cup {NULL} /\ port = [port EXCEPT ![c] = port[c]]
        /\ fd = [fd EXCEPT ![c] = fd[c]]
    BY DEF TypeOK, ConnType, Local
  <2>2. rel[c] = NULL /\ ~closing /\ sc_sb[c] # NULL
    BY <1>0 DEF PcInv, Threads
  <2>3. fd[c] = NULL /\ CursorOK(loc[c].sc, NServ(sc_sb[c]))
    BY <1>0, <2>2 DEF ConnInv, ConnOK
  <2>4. NServ(sc_sb[c]) \in Nat
    BY SMTT(10), <2>1, <2>2 DEF TypeOK, SbType, NServ
  <2> QED
    BY <1>0, <2>1, <2>2, <2>3, <2>4
<1>2. IdleInv' /\ idle' \in [Nodes -> Seq(Seq(Fds))]
  BY <1>0, IdleFrame DEF nodeVars, TypeOK, NodeType
<1>3. sb_bad' \in [Sbs -> SUBSET Nat]
  BY ChargeType DEF MoveNode
<1>4. PICK sc \in NextService(loc[c].sc, NServ(sc_sb[c])) :
        LET serv == sb_service[sc_sb[c]][sc.last + 1] IN
        /\ sn' = [sn EXCEPT ![c] = sc.last + 1]
        /\ \/ /\ NodeFilter[c] # NULL /\ NodeFilter[c] # serv.key
              /\ loc' = [loc EXCEPT ![c].sc = sc, ![c].status = "start"]
              /\ pc' = [pc EXCEPT ![c] = IF serv.key = NULL THEN "crash" ELSE @]
              /\ UNCHANGED port
           \/ /\ NodeFilter[c] \in {NULL, serv.key}
              /\ \E pos \in MovePort(ConnKeys[c], node_ports[serv.node], Start) :
                   /\ loc' = [loc EXCEPT ![c].sc = sc, ![c].status = "start",
                                         ![c].pk = pos[1]]
                   /\ port' = [port EXCEPT ![c] = PortAt(serv.node, pos)]
                   /\ pc' = [pc EXCEPT ![c] = IF pos[2] = 0 THEN @ ELSE "reuse"]
  BY DEF MoveNode
<1>5. sc \in Cursor /\ CursorOK(sc, NServ(sc_sb[c])) /\ sc.last < NServ(sc_sb[c])
  BY <1>1, CursorNext DEF MoveNode
<1>6. PICK i \in 1..NServ(sc_sb[c]) : i = sc.last + 1
  BY SMTT(10), <1>1, <1>5 DEF Cursor
<1>7. sb_service[sc_sb[c]][i].node \in Nodes
  <2>1. c \in Holders(sc_sb[c])
    BY DEF Holders
  <2> QED
    BY <1>1, <2>1, NodeAlive
<1>8. PICK q \in {"move_node", "reuse", "crash"}, l \in Local,
           p \in (Nodes \X Nat) \cup {NULL} :
        /\ pc' = [pc EXCEPT ![c] = q] /\ loc' = [loc EXCEPT ![c] = l]
        /\ port' = [port EXCEPT ![c] = p] /\ l.sc = sc
        /\ q = "reuse" =>
             /\ p # NULL /\ p[1] = sb_service[sc_sb[c]][i].node
             /\ p[2] \in DOMAIN node_ports[p[1]]
  <2> DEFINE serv == sb_service[sc_sb[c]][i]
  <2>1. CASE /\ loc' = [loc EXCEPT ![c].sc = sc, ![c].status = "start"]
             /\ pc' = [pc EXCEPT ![c] = IF serv.key = NULL THEN "crash" ELSE @]
             /\ port' = port
    <3>1. PICK l : l = [loc[c] EXCEPT !.sc = sc, !.status = "start"]
      OBVIOUS
    <3>2. l = [gen |-> loc[c].gen, sc |-> sc, pk |-> loc[c].pk, entry |-> loc[c].entry,
               status |-> "start"]
      BY <1>1, <3>1 DEF Local
    <3>3. l \in Local /\ l.sc = sc
      BY <1>1, <1>5, <3>2 DEF Local, Status
    <3>4. loc' = [loc EXCEPT ![c] = l]
      BY <2>1, <3>1
    <3>5. PICK q \in {"move_node", "crash"} : pc' = [pc EXCEPT ![c] = q]
      BY <1>1, <2>1
    <3> QED
      BY <1>1, <2>1, <3>3, <3>4, <3>5
  <2>2. CASE \E pos \in MovePort(ConnKeys[c], node_ports[serv.node], Start) :
               /\ loc' = [loc EXCEPT ![c].sc = sc, ![c].status = "start", ![c].pk = pos[1]]
               /\ port' = [port EXCEPT ![c] = PortAt(serv.node, pos)]
               /\ pc' = [pc EXCEPT ![c] = IF pos[2] = 0 THEN @ ELSE "reuse"]
    <3>0. PICK pos \in MovePort(ConnKeys[c], node_ports[serv.node], Start) :
            /\ loc' = [loc EXCEPT ![c].sc = sc, ![c].status = "start", ![c].pk = pos[1]]
            /\ port' = [port EXCEPT ![c] = PortAt(serv.node, pos)]
            /\ pc' = [pc EXCEPT ![c] = IF pos[2] = 0 THEN @ ELSE "reuse"]
      BY <2>2
    <3>1. /\ pos[1] \in Nat
          /\ PortAt(serv.node, pos) \in (Nodes \X Nat) \cup {NULL}
          /\ pos[2] # 0 => /\ PortAt(serv.node, pos) = <<serv.node, pos[2]>>
                           /\ PortAt(serv.node, pos) # NULL
                           /\ pos[2] \in DOMAIN node_ports[serv.node]
      BY <1>7, PortAtOK, ZenonT(40)
    <3>2. PICK k \in Nat : k = pos[1]
      BY <3>1
    <3>3. PICK l : l = [loc[c] EXCEPT !.sc = sc, !.status = "start", !.pk = k]
      OBVIOUS
    <3>4. l = [gen |-> loc[c].gen, sc |-> sc, pk |-> k, entry |-> loc[c].entry,
               status |-> "start"]
      BY <1>1, <3>3 DEF Local
    <3>5. l \in Local /\ l.sc = sc
      BY <1>1, <1>5, <3>4 DEF Local, Status
    <3>6. loc' = [loc EXCEPT ![c] = l]
      BY <3>0, <3>2, <3>3
    <3>7. CASE pos[2] = 0
      <4>1. pc' = [pc EXCEPT ![c] = "move_node"]
        BY <1>1, <3>0, <3>7
      <4> QED
        BY <3>0, <3>1, <3>5, <3>6, <4>1
    <3>8. CASE pos[2] # 0
      <4>1. PICK p : p = <<serv.node, pos[2]>>
        OBVIOUS
      <4>2. /\ p \in (Nodes \X Nat) \cup {NULL} /\ p # NULL
            /\ p[1] = serv.node /\ p[2] \in DOMAIN node_ports[p[1]]
        BY <3>1, <3>8, <4>1
      <4>3. pc' = [pc EXCEPT ![c] = "reuse"] /\ port' = [port EXCEPT ![c] = p]
        BY <3>0, <3>1, <3>8, <4>1
      <4> QED
        BY <3>5, <3>6, <4>2, <4>3
    <3> QED
      BY <3>7, <3>8
  <2> QED
    BY <1>4, <1>6, <2>1, <2>2
<1>9. i \in Nat /\ sn' = [sn EXCEPT ![c] = i]
  <2>1. i \in Nat
    BY SMTT(10), <1>1, <1>6
  <2>2. sn' = [sn EXCEPT ![c] = sc.last + 1]
    BY <1>4
  <2> QED
    BY <1>6, <2>1, <2>2
<1>10. ConnOK(c)'
  <2>1. /\ pc'[c] = q /\ loc'[c].sc = sc /\ port'[c] = p /\ sn'[c] = i /\ fd'[c] = NULL
        /\ sc_sb' = sc_sb /\ sb_service' = sb_service /\ node_ports' = node_ports
    BY <1>0, <1>1, <1>8, <1>9 DEF TypeOK, PcType, ConnType, Threads, nodeVars
  <2> QED
    BY SMTT(10), <1>1, <1>5, <1>6, <1>8, <2>1 DEF ConnOK, PortValid, SnNode, NServ
<1> QED
  BY <1>1, <1>2, <1>3, <1>8, <1>10, <1>9, <1>0, HandleStep DEF srvVars, nodeVars, updVars

\* A kept descriptor is taken off the list of a node that is in the pool.
LEMMA PopKeptInv ==
  ASSUME IndInv, NEW c \in Conns, PopKept(c)
  PROVE  IndInv'
<1>a. pc[c] = "reuse" /\ idle[port[c][1]][port[c][2]] # <<>>
  BY DEF PopKept, Kept
<1>b. /\ port[c][1] \in all_nodes /\ port[c][1] \in Nodes
      /\ port[c][2] \in DOMAIN idle[port[c][1]]
      /\ idle[port[c][1]][port[c][2]] \in Seq(Fds)
  BY <1>a, PortAlive
<1>c. port[c][2] \in Nat
  <2>1. idle[port[c][1]] \in Seq(Seq(Fds))
    BY <1>b DEF IndInv, TypeOK, NodeType
  <2> QED
    BY <1>b, <2>1
<1>1. PICK n \in Nodes, p \in Nat, kept \in Seq(Fds) :
        /\ p \in DOMAIN idle[n]
        /\ port[c][1] = n /\ port[c][2] = p /\ n \in all_nodes
        /\ idle[n][p] = kept /\ kept # <<>>
  BY <1>a, <1>b, <1>c
<1> USE DEF IndInv
<1>2. idle' = [idle EXCEPT ![n][p] = Tail(kept)] /\ Tail(kept) \in Seq(Fds) /\ Head(kept) \in Fds
  BY <1>1 DEF PopKept
<1>3. /\ pc[c] = "reuse"
      /\ UNCHANGED <<srvVars, sbVars, all_nodes, node_refs, node_ports, updVars,
                     sc_sb, sn, port, rel>>
  BY DEF PopKept
<1>4. idle' \in [Nodes -> Seq(Seq(Fds))] /\ IdleInv' /\ sb_bad' \in [Sbs -> SUBSET Nat]
  BY <1>1, <1>2, <1>3, IdleSet DEF TypeOK, SbType, sbVars
<1>5. /\ sn[c] \in Nat /\ port[c] \in (Nodes \X Nat) \cup {NULL} /\ loc[c] \in Local
      /\ fd[c] = NULL /\ rel[c] = NULL /\ ~closing /\ sc_sb[c] # NULL
      /\ sn = [sn EXCEPT ![c] = sn[c]] /\ port = [port EXCEPT ![c] = port[c]]
      /\ fd = [fd EXCEPT ![c] = fd[c]] /\ loc = [loc EXCEPT ![c] = loc[c]]
      /\ pc = [pc EXCEPT ![c] = pc[c]]
  BY <1>3 DEF TypeOK, ConnType, PcType, PcInv, Threads, ConnInv, ConnOK
<1>6. PICK q \in {"ready", "reuse"}, l \in Local, f \in Fds \cup {NULL} :
        /\ pc' = [pc EXCEPT ![c] = q] /\ loc' = [loc EXCEPT ![c] = l]
        /\ fd' = [fd EXCEPT ![c] = f] /\ l.sc = loc[c].sc
        /\ f # NULL => q = "ready"
  <2>1. CASE /\ fd' = [fd EXCEPT ![c] = Head(Kept(c))]
             /\ loc' = [loc EXCEPT ![c].entry = TRUE, ![c].status = "start"]
             /\ pc' = [pc EXCEPT ![c] = "ready"]
    <3>1. PICK l : l = [loc[c] EXCEPT !.entry = TRUE, !.status = "start"]
      OBVIOUS
    <3>2. l = [gen |-> loc[c].gen, sc |-> loc[c].sc, pk |-> loc[c].pk, entry |-> TRUE,
               status |-> "start"]
      BY <1>5, <3>1 DEF Local
    <3>3. l \in Local /\ l.sc = loc[c].sc
      BY <1>5, <3>2 DEF Local, Status
    <3>4. loc' = [loc EXCEPT ![c] = l]
      BY <2>1, <3>1
    <3>5. Head(Kept(c)) \in Fds
      BY <1>1, <1>2 DEF Kept
    <3> QED
      BY <2>1, <3>3, <3>4, <3>5
  <2>2. CASE UNCHANGED <<fd, loc, pc>>
    BY <1>3, <1>5, <2>2
  <2> QED
    BY <2>1, <2>2 DEF PopKept
<1>7. ConnOK(c)'
  <2>1. pc'[c] = q /\ loc'[c].sc = loc[c].sc /\ fd'[c] = f
    BY <1>6 DEF TypeOK, PcType, ConnType, Threads
  <2> QED
    BY <1>3, <1>6, <2>1 DEF ConnInv, ConnOK, PortValid, SnNode, NServ, sbVars
<1> QED
  BY <1>3, <1>4, <1>5, <1>6, <1>7, HandleStep DEF srvVars, sbVars, updVars

\* A new connection is made, or fails.
LEMMA ConnectInv ==
  ASSUME IndInv, NEW c \in Conns, Connect(c)
  PROVE  IndInv'
<1> USE DEF IndInv
<1>1. /\ pc[c] = "reuse"
      /\ UNCHANGED <<srvVars, sbVars, nodeVars, updVars, sc_sb, sn, port, rel>>
  BY DEF Connect
<1>2. IdleInv' /\ idle' \in [Nodes -> Seq(Seq(Fds))] /\ sb_bad' \in [Sbs -> SUBSET Nat]
  BY <1>1, IdleFrame DEF nodeVars, sbVars, TypeOK, NodeType, SbType
<1>3. /\ sn[c] \in Nat /\ port[c] \in (Nodes \X Nat) \cup {NULL} /\ loc[c] \in Local
      /\ fd[c] = NULL /\ rel[c] = NULL /\ ~closing /\ sc_sb[c] # NULL
      /\ sn = [sn EXCEPT ![c] = sn[c]] /\ port = [port EXCEPT ![c] = port[c]]
      /\ fd = [fd EXCEPT ![c] = fd[c]]
  BY <1>1 DEF TypeOK, ConnType, PcInv, Threads, ConnInv, ConnOK
<1>4. PICK st \in Status, q \in {"ready", "select"}, f \in Fds \cup {NULL} :
        /\ loc' = [loc EXCEPT ![c].entry = FALSE, ![c].status = st]
        /\ pc' = [pc EXCEPT ![c] = q] /\ fd' = [fd EXCEPT ![c] = f]
        /\ f # NULL => q = "ready"
  <2>1. CASE /\ \E f \in Fds \ OpenFds : fd' = [fd EXCEPT ![c] = f]
             /\ loc' = [loc EXCEPT ![c].entry = FALSE, ![c].status = "start"]
             /\ pc' = [pc EXCEPT ![c] = "ready"]
    BY <2>1 DEF Status
  <2>2. CASE /\ loc' = [loc EXCEPT ![c].entry = FALSE, ![c].status = "fail"]
             /\ pc' = [pc EXCEPT ![c] = "select"] /\ fd' = fd
    BY <1>3, <2>2 DEF Status
  <2> QED
    BY <2>1, <2>2 DEF Connect
<1>5. PICK l \in Local : loc' = [loc EXCEPT ![c] = l] /\ l.sc = loc[c].sc
  <2>1. PICK l : l = [loc[c] EXCEPT !.entry = FALSE, !.status = st]
    OBVIOUS
  <2>2. l = [gen |-> loc[c].gen, sc |-> loc[c].sc, pk |-> loc[c].pk, entry |-> FALSE,
             status |-> st]
    BY <1>3, <2>1 DEF Local
  <2>3. l \in Local /\ l.sc = loc[c].sc
    BY <1>3, <2>2 DEF Local
  <2> QED
    BY <1>4, <2>1, <2>3
<1>6. ConnOK(c)'
  <2>1. pc'[c] = q /\ loc'[c].sc = loc[c].sc /\ fd'[c] = f
    BY <1>4, <1>5 DEF TypeOK, PcType, ConnType, Threads
  <2> QED
    BY <1>1, <1>4, <2>1 DEF ConnInv, ConnOK, PortValid, SnNode, NServ, sbVars, nodeVars
<1> QED
  BY <1>1, <1>2, <1>3, <1>4, <1>5, <1>6, HandleStep DEF srvVars, sbVars, nodeVars, updVars

\* fd_pool_put: the descriptor goes to a list of the handle's node.
LEMMA PutInv ==
  ASSUME IndInv, NEW c \in Conns, Put(c)
  PROVE  IndInv'
<1>a. fd[c] # NULL
  BY DEF Put
<1>b. /\ port[c][1] \in all_nodes /\ port[c][1] \in Nodes
      /\ port[c][2] \in DOMAIN idle[port[c][1]]
      /\ idle[port[c][1]][port[c][2]] \in Seq(Fds)
  BY <1>a, PortAlive
<1>c. port[c][2] \in Nat
  <2>1. idle[port[c][1]] \in Seq(Seq(Fds))
    BY <1>b DEF IndInv, TypeOK, NodeType
  <2> QED
    BY <1>b, <2>1
<1>1. PICK n \in Nodes, p \in Nat, kept \in Seq(Fds) :
        /\ p \in DOMAIN idle[n]
        /\ port[c][1] = n /\ port[c][2] = p /\ n \in all_nodes /\ idle[n][p] = kept
  BY <1>b, <1>c
<1> USE DEF IndInv
<1>2. /\ pc[c] = "ready" /\ fd[c] # NULL /\ fd[c] \in Fds
      /\ UNCHANGED <<srvVars, sbVars, all_nodes, node_refs, node_ports, updVars,
                     pc, sc_sb, sn, port, rel>>
      /\ fd' = [fd EXCEPT ![c] = NULL]
  BY DEF Put, TypeOK, ConnType
<1>3. idle' = [idle EXCEPT ![n][p] = <<fd[c]>> \o kept] /\ <<fd[c]>> \o kept \in Seq(Fds)
  BY SMTT(10), <1>1, <1>2 DEF Put
<1>4. idle' \in [Nodes -> Seq(Seq(Fds))] /\ IdleInv' /\ sb_bad' \in [Sbs -> SUBSET Nat]
  BY <1>1, <1>2, <1>3, IdleSet DEF TypeOK, SbType, sbVars
<1>5. /\ sn[c] \in Nat /\ port[c] \in (Nodes \X Nat) \cup {NULL} /\ loc[c] \in Local
      /\ rel[c] = NULL /\ ~closing /\ sc_sb[c] # NULL
      /\ sn = [sn EXCEPT ![c] = sn[c]] /\ port = [port EXCEPT ![c] = port[c]]
      /\ pc = [pc EXCEPT ![c] = pc[c]]
  BY <1>2 DEF TypeOK, ConnType, PcType, PcInv, Threads, ConnInv, ConnOK
<1>6. PICK l \in Local : loc' = [loc EXCEPT ![c] = l] /\ l.sc = loc[c].sc
  <2>1. PICK l : l = [loc[c] EXCEPT !.entry = FALSE]
    OBVIOUS
  <2>2. l = [gen |-> loc[c].gen, sc |-> loc[c].sc, pk |-> loc[c].pk, entry |-> FALSE,
             status |-> loc[c].status]
    BY <1>5, <2>1 DEF Local
  <2>3. l \in Local /\ l.sc = loc[c].sc
    BY <1>5, <2>2 DEF Local
  <2> QED
    BY <2>1, <2>3 DEF Put
<1>7. ConnOK(c)'
  <2>1. loc'[c].sc = loc[c].sc /\ fd'[c] = NULL
    BY <1>2, <1>6 DEF TypeOK, ConnType
  <2> QED
    BY <1>2, <2>1 DEF ConnInv, ConnOK, PortValid, SnNode, NServ, sbVars
<1> QED
  BY <1>2, <1>4, <1>5, <1>6, <1>7, HandleStep DEF srvVars, sbVars, updVars

\* The client closes the descriptor.
LEMMA CloseFdInv ==
  ASSUME IndInv, NEW c \in Conns, CloseFd(c)
  PROVE  IndInv'
<1> USE DEF IndInv
<1>1. /\ sn[c] \in Nat /\ port[c] \in (Nodes \X Nat) \cup {NULL} /\ loc[c] \in Local
      /\ rel[c] = NULL /\ ~closing /\ pc[c] = "ready"
      /\ sn = [sn EXCEPT ![c] = sn[c]] /\ port = [port EXCEPT ![c] = port[c]]
      /\ loc = [loc EXCEPT ![c] = loc[c]] /\ pc = [pc EXCEPT ![c] = pc[c]]
  BY DEF CloseFd, TypeOK, ConnType, PcType, PcInv, Threads
<1>2. IdleInv' /\ idle' \in [Nodes -> Seq(Seq(Fds))] /\ sb_bad' \in [Sbs -> SUBSET Nat]
  BY IdleFrame DEF CloseFd, nodeVars, sbVars, TypeOK, NodeType, SbType
<1>3. ConnOK(c)'
  BY DEF CloseFd, ConnInv, ConnOK, PortValid, SnNode, NServ, sbVars, nodeVars, TypeOK, ConnType
<1> QED
  BY <1>1, <1>2, <1>3, HandleStep DEF CloseFd, srvVars, sbVars, nodeVars, updVars

\* fd_pool_free_conn: the handle gives its reference back.
LEMMA FreeConnInv ==
  ASSUME IndInv, NEW c \in Conns, FreeConn(c)
  PROVE  IndInv'
<1> USE DEF IndInv
<1>0. /\ sc_sb' = [sc_sb EXCEPT ![c] = NULL] /\ sn' = [sn EXCEPT ![c] = 0]
      /\ port' = [port EXCEPT ![c] = NULL] /\ loc' = [loc EXCEPT ![c] = ZeroConn]
      /\ UNCHANGED <<srvVars, sb_service, sb_freed, nodeVars, updVars, fd>>
  BY DEF FreeConn
<1>a. /\ c \in Threads /\ c \notin Services /\ c \notin Updaters
      /\ pc[c] = "ready" /\ rel[c] = NULL /\ fd[c] = NULL
  BY DisjointAssumption DEF FreeConn, Threads, PcInv
<1>b. sb_bad' \in [Sbs -> SUBSET Nat]
  BY ConnDoneType DEF FreeConn
<1>1. /\ SbRefsExact' /\ FreeInv' /\ sb_refs' \in [Sbs -> Nat]
      /\ rel' \in [Threads -> Sbs \cup {NULL}]
      /\ \/ pc' = [pc EXCEPT ![c] = "free_conn"] /\ \E s \in Sbs : rel' = [rel EXCEPT ![c] = s]
         \/ pc' = [pc EXCEPT ![c] = "none"] /\ rel' = rel
  <2>1. CASE sc_sb[c] = NULL
    <3>1. sc_sb' = sc_sb
      BY <1>0, <2>1 DEF TypeOK, ConnType
    <3>2. pc' = [pc EXCEPT ![c] = "none"] /\ UNCHANGED <<sb_refs, rel>>
      BY <2>1 DEF FreeConn
    <3> QED
      BY <1>0, <3>1, <3>2, SbFrame, FreeFrame DEF TypeOK, SbType, PcType, srvVars, updVars
  <2>2. CASE sc_sb[c] # NULL
    <3>1. PICK s \in Sbs : sc_sb[c] = s /\ Release(c, s, "free_conn", "none")
      BY <2>2 DEF FreeConn, TypeOK, ConnType
    <3>2. c \in Holders(s)
      BY <3>1 DEF Holders
    <3>3. /\ Holders(s)' = Holders(s) \ {c}
          /\ \A r \in Sbs \ {s} : Holders(r)' = Holders(r)
      BY <1>0, <3>1, DropHandle DEF srvVars, updVars
    <3>4. SbRefsExact'
      <4>1. sb_refs' = [sb_refs EXCEPT ![s] = @ - 1]
        BY <3>1 DEF Release
      <4> QED
        BY <3>1, <3>2, <3>3, <4>1, SbLose
    <3> QED
      BY <1>0, <1>a, <3>1, <3>2, <3>4, ReleaseFree
  <2> QED
    BY <2>1, <2>2
<1>2. TypeOK'
  <2>1. ZeroConn \in Local
    BY ZeroConnType
  <2>2. SbType' /\ ConnType'
    BY <1>0, <1>1, <1>b, <2>1 DEF TypeOK, SbType, ConnType
  <2>3. PcType'
    BY <1>1, <1>a DEF TypeOK, PcType, Threads, ConnPc
  <2> QED
    BY <1>0, <2>2, <2>3 DEF TypeOK, SrvType, NodeType, UpdType, srvVars, nodeVars, updVars
<1>3. NodeCounts'
  BY <1>0, NodeFrame DEF nodeVars
<1>4. PcInv'
  <2>1. ~closing
    BY <1>a DEF PcInv
  <2>2. \A v \in Services : srv_sb'[v] = NULL => closing'
    BY <1>0 DEF PcInv, srvVars
  <2>3. \A t \in Threads : rel'[t] # NULL <=> pc'[t] \in {"free_get", "free_conn", "free_upd"}
    BY SMTT(10), <1>1, <1>a, NullAssumption DEF PcInv, TypeOK, PcType
  <2>4. \A d \in Conns : /\ pc'[d] \in {"none", "free_get", "conn_new", "free_conn"} => sc_sb'[d] = NULL
                         /\ pc'[d] \in {"select", "move_node", "reuse", "crash"} => sc_sb'[d] # NULL
    BY <1>0, <1>1, <1>a DEF PcInv, TypeOK, PcType, ConnType, Threads
  <2> QED
    BY <1>0, <1>1, <1>a, <2>1, <2>2, <2>3, <2>4, ZenonT(40)
       DEF PcInv, TypeOK, PcType, Threads, srvVars, updVars
<1>5. ConnInv'
  <2>1. ConnOK(c)'
    <3>1. sc_sb'[c] = NULL /\ fd'[c] = NULL /\ pc'[c] # "reuse"
      BY <1>0, <1>1, <1>a DEF TypeOK, ConnType, PcType
    <3> QED
      BY <3>1 DEF ConnOK
  <2>2. ASSUME NEW d \in Conns \ {c} PROVE ConnOK(d)'
    BY <1>0, <1>1, <1>a, ConnFrame DEF ConnInv, TypeOK, ConnType, PcType, nodeVars, Threads
  <2> QED
    BY <2>1, <2>2 DEF ConnInv
<1>6. IdleInv'
  BY <1>0, IdleFrame DEF nodeVars
<1> QED
  BY <1>1, <1>2, <1>3, <1>4, <1>5, <1>6

=============================================================================
