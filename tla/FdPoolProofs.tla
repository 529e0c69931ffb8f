--------------------------- MODULE FdPoolProofs -----------------------------
(***************************************************************************)
(* Proofs about FdPool: the counts are exact, nothing in use is freed, a   *)
(* freed pool has nothing left, no fd has two owners, and a handle without *)
(* a filter is never left without a node, for every number of services,    *)
(* handles, updaters, nodes and generations.                               *)
(***************************************************************************)
EXTENDS FdPoolUpdates

\* Zenon finds most of the leaves by itself.
USE ZenonT(20), SMTT(10)

-----------------------------------------------------------------------------
(***************************************************************************)
(* Two invariants that the steps keep as long as they keep IndInv: a       *)
(* descriptor is in one place only, and a handle that has a port has a     *)
(* node.                                                                   *)
(***************************************************************************)
\* What IndInv says by counting: an sbalance that is held is not being freed,
\* and the port a handle looks for descriptors at is one of a node.
Alive ==
  /\ \A s \in Sbs : Holders(s) # {} => \A t \in Threads : rel[t] # s
  /\ \A c \in Conns : pc[c] = "reuse" =>
       /\ port[c][1] \in Nodes /\ port[c][2] \in DOMAIN idle[port[c][1]]
       /\ idle[port[c][1]][port[c][2]] \in Seq(Fds)

\* Place i of the entries of port p of node n.
Place(n, p, i) == n \in Nodes /\ p \in DOMAIN idle[n] /\ i \in DOMAIN idle[n][p]

\* No descriptor is in two places, in a place and with a client, or with two
\* clients.
OwnInv ==
  /\ \A n, m, p, q, i, j :
       Place(n, p, i) /\ Place(m, q, j) /\ idle[n][p][i] = idle[m][q][j] =>
         n = m /\ p = q /\ i = j
  /\ \A c \in Conns : \A n, p, i : Place(n, p, i) => idle[n][p][i] # fd[c]
  /\ \A c, d \in Conns : c # d /\ fd[c] # NULL => fd[c] # fd[d]

\* Steps that touch no descriptor.
LEMMA OwnFrame == OwnInv /\ UNCHANGED <<idle, fd>> => OwnInv'
BY SMTT(10) DEF OwnInv, Place

\* At the start there is no descriptor.
LEMMA OwnInit == Init => OwnInv
BY SMTT(10) DEF Init, OwnInv, Place

\* What is kept is a descriptor.
LEMMA KeptIsFd ==
  ASSUME TypeOK, NEW n, NEW p, NEW i, Place(n, p, i)
  PROVE  idle[n] \in Seq(Seq(Fds)) /\ idle[n][p] \in Seq(Fds) /\ idle[n][p][i] \in Fds
         /\ idle[n][p][i] # NULL
<1>1. idle[n] \in Seq(Seq(Fds))
  BY DEF Place, TypeOK, NodeType
<1>2. idle[n][p] \in Seq(Fds)
  BY <1>1 DEF Place
<1>3. idle[n][p][i] \in Fds
  BY <1>2 DEF Place
<1> QED
  BY <1>1, <1>2, <1>3, NullAssumption

\* fd_pool_free_node closes what a node kept; fd_pool_node_new starts with
\* nothing.
LEMMA OwnNodes ==
  ASSUME TypeOK, OwnInv, NEW n \in Nodes, NEW s,
         idle' = [idle EXCEPT ![n] = s], \A p \in DOMAIN s : DOMAIN s[p] = {},
         fd' = fd
  PROVE  OwnInv'
<1>1. \A m, p, i : Place(m, p, i)' => Place(m, p, i) /\ idle'[m][p][i] = idle[m][p][i]
  BY DEF Place, TypeOK, NodeType
<1> QED
  BY SMTT(10), <1>1 DEF OwnInv

\* fd_pool_put: the descriptor goes from the client to the head of a list.
LEMMA OwnPut ==
  ASSUME TypeOK, OwnInv, NEW c \in Conns, Put(c)
  PROVE  OwnInv'
<1> DEFINE n0 == port[c][1]
           p0 == port[c][2]
           Here(n, p) == n = n0 /\ p = p0
           Old(n, p, i) == IF Here(n, p) THEN i - 1 ELSE i
<1>1. fd[c] # NULL /\ fd' = [fd EXCEPT ![c] = NULL]
      /\ idle' = [idle EXCEPT ![n0][p0] = <<fd[c]>> \o @]
  BY DEF Put
<1>2. idle \in [Nodes -> Seq(Seq(Fds))] /\ fd \in [Conns -> Fds \cup {NULL}]
  BY DEF TypeOK, NodeType, ConnType
<1>3. ASSUME NEW n, NEW p, NEW i, Place(n, p, i)'
      PROVE  \/ Here(n, p) /\ i = 1 /\ idle'[n][p][i] = fd[c]
             \/ Place(n, p, Old(n, p, i)) /\ idle'[n][p][i] = idle[n][p][Old(n, p, i)]
                /\ i \in Nat
  <2>1. n \in Nodes /\ p \in DOMAIN idle'[n] /\ i \in DOMAIN idle'[n][p]
    BY <1>3 DEF Place
  <2>2. p \in DOMAIN idle[n] /\ idle[n][p] \in Seq(Fds)
    BY SMTT(10), <1>1, <1>2, <2>1
  <2>3. CASE ~Here(n, p)
    <3>1. idle'[n][p] = idle[n][p]
      BY <1>1, <1>2, <2>1, <2>2, <2>3
    <3> QED
      BY <2>1, <2>2, <2>3, <3>1 DEF Place
  <2>4. CASE Here(n, p)
    <3>1. idle'[n][p] = <<fd[c]>> \o idle[n][p]
      BY <1>1, <1>2, <2>1, <2>2, <2>4
    <3>2. <<fd[c]>> \in Seq({fd[c]} \cup Fds) /\ idle[n][p] \in Seq({fd[c]} \cup Fds)
      BY <2>2
    <3>3. \A k \in DOMAIN (<<fd[c]>> \o idle[n][p]) :
            /\ k \in Nat
            /\ k = 1 => (<<fd[c]>> \o idle[n][p])[k] = fd[c]
            /\ k # 1 => k - 1 \in DOMAIN idle[n][p]
                        /\ (<<fd[c]>> \o idle[n][p])[k] = idle[n][p][k - 1]
      BY <3>2
    <3> QED
      BY <2>1, <2>2, <2>4, <3>1, <3>3, ZenonT(40) DEF Place
  <2> QED
    BY <2>3, <2>4
<1> HIDE DEF n0, p0
<1>4. \A n, p, i : Place(n, p, i) => idle[n][p][i] # fd[c] /\ idle[n][p][i] # NULL
  BY KeptIsFd DEF OwnInv
<1>5. ASSUME NEW n, NEW m, NEW p, NEW q, NEW i, NEW j, Place(n, p, i)', Place(m, q, j)',
             idle'[n][p][i] = idle'[m][q][j]
      PROVE  n = m /\ p = q /\ i = j
  BY SMTT(10), <1>3, <1>4, <1>5 DEF OwnInv
<1>6. ASSUME NEW d \in Conns, NEW n, NEW p, NEW i, Place(n, p, i)'
      PROVE  idle'[n][p][i] # fd'[d]
  <2>1. CASE d = c
    <3>1. fd'[d] = NULL
      BY <1>1, <1>2, <2>1
    <3>2. idle'[n][p][i] = fd[c] \/ \E k : Place(n, p, k) /\ idle'[n][p][i] = idle[n][p][k]
      BY SMTT(10), <1>3, <1>6
    <3>3. fd[c] # NULL
      BY <1>1
    <3> QED
      BY <1>4, <3>1, <3>2, <3>3
  <2>2. CASE d # c
    <3>1. fd'[d] = fd[d] /\ fd[c] # fd[d]
      BY <1>1, <1>2, <2>2 DEF OwnInv
    <3>2. \A k : Place(n, p, k) => idle[n][p][k] # fd[d]
      BY DEF OwnInv
    <3> QED
      BY SMTT(10), <1>3, <1>6, <3>1, <3>2
  <2> QED
    BY <2>1, <2>2
<1>7. \A d, e \in Conns : d # e /\ fd'[d] # NULL => fd'[d] # fd'[e]
  BY <1>1, <1>2 DEF OwnInv
<1> QED
  BY SMTT(10), <1>5, <1>6, <1>7 DEF OwnInv

\* fd_pool_get takes the first kept descriptor: the client gets it, or it is
\* closed because the peer has.
LEMMA OwnPop ==
  ASSUME IndInv, Alive, OwnInv, NEW c \in Conns, PopKept(c)
  PROVE  OwnInv'
<1> DEFINE n0 == port[c][1]
           p0 == port[c][2]
           Here(n, p) == n = n0 /\ p = p0
           Old(n, p, i) == IF Here(n, p) THEN i + 1 ELSE i
<1>1. /\ idle' = [idle EXCEPT ![n0][p0] = Tail(@)]
      /\ idle[n0][p0] # <<>>
      /\ fd' = fd \/ fd' = [fd EXCEPT ![c] = Head(idle[n0][p0])]
  BY DEF PopKept, Kept
<1>2. idle \in [Nodes -> Seq(Seq(Fds))] /\ fd \in [Conns -> Fds \cup {NULL}]
  BY DEF IndInv, TypeOK, NodeType, ConnType
<1>3. ASSUME NEW n, NEW p, NEW i, Place(n, p, i)'
      PROVE  /\ Place(n, p, Old(n, p, i)) /\ idle'[n][p][i] = idle[n][p][Old(n, p, i)]
             /\ Here(n, p) => Place(n, p, 1) /\ i \in Nat \ {0}
  <2>1. n \in Nodes /\ p \in DOMAIN idle'[n] /\ i \in DOMAIN idle'[n][p]
    BY <1>3 DEF Place
  <2>2. p \in DOMAIN idle[n] /\ idle[n][p] \in Seq(Fds)
    BY SMTT(10), <1>1, <1>2, <2>1
  <2>3. CASE ~Here(n, p)
    <3>1. idle'[n][p] = idle[n][p]
      BY <1>1, <1>2, <2>1, <2>2, <2>3
    <3> QED
      BY <2>1, <2>2, <2>3, <3>1 DEF Place
  <2>4. CASE Here(n, p)
    <3>1. idle'[n][p] = Tail(idle[n][p]) /\ idle[n][p] # <<>>
      BY <1>1, <1>2, <2>1, <2>2, <2>4
    <3>2. \A k \in DOMAIN Tail(idle[n][p]) :
            /\ k \in Nat \ {0} /\ k + 1 \in DOMAIN idle[n][p]
            /\ Tail(idle[n][p])[k] = idle[n][p][k + 1]
      BY <2>2, <3>1
    <3>3. 1 \in DOMAIN idle[n][p]
      BY <2>2, <3>1
    <3> QED
      BY <2>1, <2>2, <2>4, <3>1, <3>2, <3>3 DEF Place
  <2> QED
    BY <2>3, <2>4
<1>4. Place(n0, p0, 1) /\ Head(idle[n0][p0]) = idle[n0][p0][1]
  <2>1. n0 \in Nodes /\ p0 \in DOMAIN idle[n0] /\ idle[n0][p0] \in Seq(Fds)
    BY DEF Alive, PopKept
  <2>2. 1 \in DOMAIN idle[n0][p0] /\ Head(idle[n0][p0]) = idle[n0][p0][1]
    BY SMTT(10), <1>1, <2>1
  <2> QED
    BY <2>1, <2>2 DEF Place
<1> HIDE DEF n0, p0
<1>5. ASSUME NEW n, NEW m, NEW p, NEW q, NEW i, NEW j, Place(n, p, i)', Place(m, q, j)',
             idle'[n][p][i] = idle'[m][q][j]
      PROVE  n = m /\ p = q /\ i = j
  <2>1. n = m /\ p = q /\ Old(n, p, i) = Old(m, q, j)
    BY SMTT(10), <1>3, <1>5 DEF OwnInv
  <2> QED
    BY <1>3, <1>5, <2>1
<1>6. CASE fd' = fd
  BY SMTT(10), <1>3, <1>5, <1>6 DEF OwnInv
<1>7. CASE fd' = [fd EXCEPT ![c] = idle[n0][p0][1]]
  <2>1. fd'[c] = idle[n0][p0][1] /\ \A d \in Conns : d # c => fd'[d] = fd[d]
    BY <1>2, <1>7
  <2>2. ASSUME NEW d \in Conns, NEW n, NEW p, NEW i, Place(n, p, i)'
        PROVE  idle'[n][p][i] # fd'[d]
    <3>1. CASE d # c
      BY SMTT(10), <1>3, <2>1, <2>2, <3>1 DEF OwnInv
    <3>2. CASE d = c
      <4>1. ~(n = n0 /\ p = p0 /\ Old(n, p, i) = 1)
        BY <1>3, <2>2
      <4>2. idle[n][p][Old(n, p, i)] # idle[n0][p0][1]
        BY SMTT(10), <1>3, <1>4, <2>2, <4>1 DEF OwnInv
      <4> QED
        BY SMTT(10), <1>3, <2>1, <2>2, <3>2, <4>2
    <3> QED
      BY <3>1, <3>2
  <2>3. \A d, e \in Conns : d # e /\ fd'[d] # NULL => fd'[d] # fd'[e]
    BY SMTT(10), <1>4, <2>1 DEF OwnInv
  <2> QED
    BY SMTT(10), <1>5, <2>2, <2>3 DEF OwnInv
<1> QED
  BY <1>1, <1>4, <1>6, <1>7

\* A new connection has a number that nobody uses.
LEMMA OwnConnect ==
  ASSUME TypeOK, OwnInv, NEW c \in Conns, Connect(c)
  PROVE  OwnInv'
<1>1. CASE UNCHANGED <<idle, fd>>
  BY <1>1, OwnFrame
<1>2. ASSUME NEW f \in Fds \ OpenFds, fd' = [fd EXCEPT ![c] = f], idle' = idle
      PROVE  OwnInv'
  <2>1. \A d \in Conns : fd[d] # f
    BY NullAssumption DEF OpenFds, HeldFds
  <2>2. ASSUME NEW n, NEW p, NEW i, Place(n, p, i) PROVE idle[n][p][i] # f
    <3>1. idle[n][p][i] \in IdleFds(n) /\ n \in Nodes
      BY SMTT(10), <2>2 DEF IdleFds, Place
    <3> QED
      BY <3>1 DEF OpenFds
  <2>3. fd'[c] = f /\ \A d \in Conns : d # c => fd'[d] = fd[d]
    BY <1>2 DEF TypeOK, ConnType
  <2>4. \A n, p, i : Place(n, p, i)' <=> Place(n, p, i)
    BY <1>2 DEF Place
  <2>5. \A d \in Conns : \A n, p, i : Place(n, p, i) => idle[n][p][i] # fd'[d]
    BY SMTT(10), <2>2, <2>3 DEF OwnInv
  <2>6. \A d, e \in Conns : d # e /\ fd'[d] # NULL => fd'[d] # fd'[e]
    BY <2>1, <2>3 DEF OwnInv
  <2> QED
    BY SMTT(10), <1>2, <2>4, <2>5, <2>6 DEF OwnInv
<1> QED
  BY <1>1, <1>2 DEF Connect, nodeVars

\* A closed descriptor is nowhere.
LEMMA OwnClose ==
  ASSUME TypeOK, OwnInv, NEW c \in Conns, CloseFd(c)
  PROVE  OwnInv'
<1>1. idle' = idle /\ fd'[c] = NULL /\ \A d \in Conns : d # c => fd'[d] = fd[d]
  BY DEF CloseFd, nodeVars, TypeOK, ConnType
<1>2. \A n, p, i : Place(n, p, i)' <=> Place(n, p, i)
  BY <1>1 DEF Place
<1>3. \A d \in Conns : \A n, p, i : Place(n, p, i) => idle[n][p][i] # fd'[d]
  BY SMTT(10), <1>1, KeptIsFd DEF OwnInv
<1>4. \A d, e \in Conns : d # e /\ fd'[d] # NULL => fd'[d] # fd'[e]
  BY <1>1 DEF OwnInv
<1> QED
  BY SMTT(10), <1>1, <1>2, <1>3, <1>4 DEF OwnInv

\* No step puts a descriptor in a second place.
LEMMA OwnNext == IndInv /\ Alive /\ OwnInv /\ [Next]_vars => OwnInv'
<1> SUFFICES ASSUME IndInv, Alive, OwnInv, [Next]_vars PROVE OwnInv'
  OBVIOUS
<1>1. TypeOK
  BY DEF IndInv
<1>2. CASE UNCHANGED vars
  BY <1>2, OwnFrame DEF vars, nodeVars, connVars
<1>3. ASSUME NEW c \in Conns, ConnNext(c) PROVE OwnInv'
  <2>1. CASE \/ NewConn(c) \/ (\E st \in Status : GetCall(c, st)) \/ GetLock(c) \/ ConnNew(c)
             \/ Select(c) \/ NodesExhausted(c) \/ MoveNode(c) \/ FreeConn(c)
    <3>1. UNCHANGED <<idle, fd>>
      BY <2>1 DEF NewConn, GetCall, GetLock, ConnNew, Select, NodesExhausted, MoveNode,
                  FreeConn, nodeVars, connVars
    <3> QED
      BY <3>1, OwnFrame
  <2> QED
    BY <1>1, <1>3, <2>1, OwnPop, OwnConnect, OwnPut, OwnClose DEF ConnNext
<1>4. ASSUME NEW u \in Updaters, UpdNext(u) PROVE OwnInv'
  <2>1. CASE AddNewNode(u)
    <3>1. PICK s : s = [i \in DOMAIN Head(todo[u]).ports |-> <<>>]
      OBVIOUS
    <3>2. PICK n \in Nodes : idle' = [idle EXCEPT ![n] = s]
      BY <2>1, <3>1 DEF AddNewNode
    <3>3. \A p \in DOMAIN s : DOMAIN s[p] = {}
      BY <3>1
    <3>4. fd' = fd
      BY <2>1 DEF AddNewNode, connVars
    <3> QED
      BY <1>1, <3>2, <3>3, <3>4, OwnNodes
  <2>2. CASE ~AddNewNode(u)
    <3>1. UNCHANGED <<idle, fd>>
      BY <1>4, <2>2 DEF UpdNext, UpdateStart, AddConfig, AddSingle, AddStart, AddKnownNode,
                        AddDone, Swap, UpdRelease, FreeService, nodeVars, connVars
    <3> QED
      BY <3>1, OwnFrame
  <2> QED
    BY <2>1, <2>2
<1>5. ASSUME NEW t \in Threads, FreeNode(t) PROVE OwnInv'
  <2>1. CASE idle' = idle
    BY <1>5, <2>1, OwnFrame DEF FreeNode, connVars
  <2>2. CASE idle' # idle
    <3>1. PICK n : idle' = [idle EXCEPT ![n] = <<>>]
      BY <1>5, <2>2 DEF FreeNode, CloseIdle
    <3>2. n \in Nodes
      BY <1>1, <2>2, <3>1 DEF TypeOK, NodeType
    <3>3. PICK s : s = <<>>
      OBVIOUS
    <3>4. idle' = [idle EXCEPT ![n] = s] /\ \A p \in DOMAIN s : DOMAIN s[p] = {}
      BY <3>1, <3>3
    <3>5. fd' = fd
      BY <1>5 DEF FreeNode, connVars
    <3> QED
      BY <1>1, <3>2, <3>4, <3>5, OwnNodes
  <2> QED
    BY <2>1, <2>2
<1>6. ASSUME NEW t \in Threads, FreeSb(t) PROVE OwnInv'
  BY <1>6, OwnFrame DEF FreeSb, nodeVars, connVars
<1>7. CASE FreePool
  BY <1>7, OwnFrame DEF FreePool, nodeVars, connVars
<1>8. CASE Terminated
  BY <1>2, <1>8 DEF Terminated
<1> QED
  BY <1>2, <1>3, <1>4, <1>5, <1>6, <1>7, <1>8 DEF Next

\* OwnInv is what OneOwner says, place by place.
LEMMA OwnersDistinct == IndInv /\ OwnInv => OneOwner
<1> SUFFICES ASSUME IndInv, OwnInv PROVE OneOwner
  OBVIOUS
<1>1. \A n \in Nodes : \A f \in IdleFds(n) : \E p, i : Place(n, p, i) /\ f = idle[n][p][i]
  BY DEF IdleFds, Place
<1>2. \A n \in Nodes : n \notin all_nodes => IdleFds(n) = {}
  BY SMTT(10) DEF IndInv, IdleInv, IdleFds
<1>3. \A n \in Nodes : IdleFds(n) \cap HeldFds = {}
  BY SMTT(10), <1>1 DEF HeldFds, OwnInv
<1>4. \A n, m \in Nodes : n # m => IdleFds(n) \cap IdleFds(m) = {}
  BY SMTT(10), <1>1 DEF OwnInv
<1>5. \A n \in Nodes : \A p, q \in DOMAIN idle[n] :
        \A i \in DOMAIN idle[n][p], j \in DOMAIN idle[n][q] :
          idle[n][p][i] = idle[n][q][j] => p = q /\ i = j
  BY SMTT(10) DEF OwnInv, Place
<1> QED
  BY <1>2, <1>3, <1>4, <1>5 DEF OneOwner, OwnInv
-----------------------------------------------------------------------------
\* An sbalance that has services.
Filled(s) == s # NULL /\ NServ(s) > 0

(***************************************************************************)
(* Why fd_pool_get always has a node when it has a port.  The restart      *)
(* keeps conn->port, so what counts is that a service that had nodes once  *)
(* has some ever after, and that the cursor of a restart has not come to   *)
(* its end.                                                                *)
(***************************************************************************)
CrashOK(c) ==
  /\ pc[c] # "crash"
  /\ pc[c] \in {"none", "free_conn"} => port[c] = NULL
  /\ port[c] # NULL => Filled(srv_sb[ConnSrv[c]]) /\ (sc_sb[c] # NULL => Filled(sc_sb[c]))
  /\ sc_sb[c] # NULL => sc_sb[c] = srv_sb[ConnSrv[c]] \/ Filled(srv_sb[ConnSrv[c]])
  /\ pc[c] = "ready" /\ sc_sb[c] # NULL /\ port[c] # NULL => sn[c] # 0
  /\ pc[c] = "move_node" /\ port[c] # NULL => sn[c] = 0
  /\ pc[c] \in {"select", "move_node"} /\ sn[c] = 0 /\ port[c] # NULL => loc[c].sc.first # 0

\* CrashOK of every handle that has no node filter.
CrashInv == \A c \in Conns : NodeFilter[c] = NULL => CrashOK(c)

\* At the start no handle has a port.
LEMMA CrashInit == Init => CrashInv
<1> SUFFICES ASSUME Init, NEW c \in Conns PROVE CrashOK(c)
  BY DEF CrashInv
<1>1. pc[c] = "none" /\ sc_sb[c] = NULL /\ port[c] = NULL
  BY DisjointAssumption DEF Init, Threads
<1> QED
  BY <1>1 DEF CrashOK

\* What an sbalance in use has is never taken away from it.
LEMMA ServicesStay ==
  ASSUME IndInv, IndInv', Alive, [Next]_vars, NEW s \in Sbs, Holders(s) # {}
  PROVE  /\ NServ(s) \in Nat /\ NServ(s)' \in Nat
         /\ NServ(s) <= NServ(s)'
<1>0. /\ TypeOK /\ TypeOK' /\ SbRefsExact /\ FreeInv
      /\ sb_service[s] \in Seq(ServiceNode) /\ sb_service'[s] \in Seq(ServiceNode)
  BY DEF IndInv, TypeOK, SbType
<1>1. CASE sb_service' = sb_service
  BY <1>0, <1>1 DEF NServ
<1>2. ASSUME NEW u \in Updaters, AddKnownNode(u) \/ AddNewNode(u)
      PROVE  NServ(s) <= NServ(s)'
  <2>1. PICK r, x : sb_service' = [sb_service EXCEPT ![x] = Append(@, r)]
    BY <1>2 DEF AddKnownNode, AddNewNode, AppendServ
  <2>2. sb_service'[s] = IF s = x THEN Append(sb_service[s], r) ELSE sb_service[s]
    BY <1>0, <2>1 DEF TypeOK, SbType
  <2>3. sb_service[s] \in Seq(ServiceNode \cup {r})
    BY <1>0
  <2>4. Len(Append(sb_service[s], r)) = Len(sb_service[s]) + 1
    BY <2>3
  <2> QED
    BY <1>0, <2>2, <2>4 DEF NServ
<1>3. ASSUME NEW t \in Threads, FreeSb(t)
      PROVE  NServ(s) <= NServ(s)'
  <2>1. rel[t] # s
    BY DEF Alive
  <2>2. sb_service' = [sb_service EXCEPT ![rel[t]] = <<>>]
    BY <1>3 DEF FreeSb
  <2>3. sb_service'[s] = sb_service[s]
    BY <2>1, <2>2
  <2> QED
    BY <1>0, <2>3 DEF NServ
<1>4. CASE UNCHANGED vars
  BY <1>1, <1>4 DEF vars, sbVars
<1>5. ASSUME NEW c \in Conns, ConnNext(c) PROVE sb_service' = sb_service
  BY <1>5 DEF ConnNext, NewConn, GetCall, GetLock, ConnNew, Select, NodesExhausted, MoveNode,
              PopKept, Connect, Put, CloseFd, FreeConn, sbVars
<1>6. ASSUME NEW u \in Updaters, UpdNext(u), ~AddKnownNode(u), ~AddNewNode(u)
      PROVE  sb_service' = sb_service
  BY <1>6 DEF UpdNext, UpdateStart, AddConfig, AddSingle, AddStart, AddDone, Swap, UpdRelease,
              FreeService, sbVars
<1>7. ASSUME NEW t \in Threads, FreeNode(t) PROVE sb_service' = sb_service
  BY <1>7 DEF FreeNode
<1>8. CASE FreePool \/ Terminated
  BY <1>1, <1>8 DEF FreePool, Terminated, vars, sbVars
<1>9. NServ(s) \in Nat /\ NServ(s)' \in Nat
  BY <1>0 DEF NServ
<1> QED
  BY <1>1, <1>2, <1>3, <1>4, <1>5, <1>6, <1>7, <1>8, <1>9 DEF Next

\* fd_pool_update_hosts throws an empty sbalance away: until the pool is freed
\* a service is only given one that has services.
LEMMA SwapFills ==
  ASSUME IndInv, [Next]_vars, NEW v \in Services, ~closing
  PROVE  srv_sb'[v] = srv_sb[v] \/ Filled(srv_sb[v])'
<1>1. CASE srv_sb' = srv_sb
  BY <1>1
<1>2. ASSUME NEW u \in Updaters, Swap(u), srv_sb' # srv_sb
      PROVE  srv_sb'[v] = srv_sb[v] \/ Filled(srv_sb[v])'
  <2>1. /\ pc[u] = "populate" /\ NServ(upd_sb[u]) # 0 /\ sb_service' = sb_service
        /\ srv_sb' = [srv_sb EXCEPT ![upd_srv[u]] = upd_sb[u]]
    BY <1>2 DEF Swap, sbVars
  <2>2. upd_sb[u] # NULL /\ upd_sb[u] \in Sbs
    BY <2>1 DEF IndInv, PcInv, TypeOK, UpdType
  <2>3. NServ(upd_sb[u]) \in Nat
    BY SMTT(10), <2>2 DEF IndInv, TypeOK, SbType, NServ
  <2>4. CASE v = upd_srv[u]
    <3>1. srv_sb'[v] = upd_sb[u]
      BY <2>1, <2>4 DEF IndInv, TypeOK, SrvType
    <3> QED
      BY <2>1, <2>2, <2>3, <3>1 DEF Filled, NServ
  <2>5. CASE v # upd_srv[u]
    BY <2>1, <2>5 DEF IndInv, TypeOK, SrvType
  <2> QED
    BY <2>4, <2>5
<1>3. CASE UNCHANGED vars
  BY <1>1, <1>3 DEF vars, srvVars
<1>4. ASSUME NEW c \in Conns, ConnNext(c) PROVE srv_sb' = srv_sb
  BY <1>4 DEF ConnNext, NewConn, GetCall, GetLock, ConnNew, Select, NodesExhausted, MoveNode,
              PopKept, Connect, Put, CloseFd, FreeConn, srvVars
<1>5. ASSUME NEW u \in Updaters, UpdNext(u), ~Swap(u) PROVE srv_sb' = srv_sb
  BY <1>5 DEF UpdNext, UpdateStart, AddConfig, AddSingle, AddStart, AddKnownNode, AddNewNode,
              AddDone, UpdRelease, FreeService, srvVars
<1>6. ASSUME NEW t \in Threads, FreeNode(t) \/ FreeSb(t) PROVE srv_sb' = srv_sb
  BY <1>6 DEF FreeNode, FreeSb, srvVars
<1>7. CASE FreePool \/ Terminated
  BY <1>1, <1>7 DEF FreePool, Terminated, vars, srvVars
<1> QED
  BY <1>1, <1>2, <1>3, <1>4, <1>5, <1>6, <1>7 DEF Next

\* A handle is safe from what other threads do.
LEMMA CrashFrame ==
  ASSUME IndInv, IndInv', Alive, [Next]_vars, NEW c \in Conns, CrashOK(c),
         sc_sb'[c] = sc_sb[c], sn'[c] = sn[c], port'[c] = port[c], loc'[c] = loc[c],
         \/ pc'[c] = pc[c]
         \/ pc[c] = "free_get" /\ pc'[c] = "conn_new"
         \/ pc[c] = "free_conn" /\ pc'[c] = "none"
  PROVE  CrashOK(c)'
<1> DEFINE v == ConnSrv[c]
<1>1. v \in Services
  BY ConfigAssumption
<1> HIDE DEF v
<1>2. CASE closing
  <2>1. pc[c] = "none" /\ sc_sb[c] = NULL
    BY <1>2 DEF IndInv, PcInv
  <2>2. port[c] = NULL
    BY <2>1 DEF CrashOK
  <2> QED
    BY <2>1, <2>2 DEF CrashOK
<1>3. CASE ~closing
  <2>1. srv_sb[v] # NULL /\ srv_sb[v] \in Sbs /\ v \in Holders(srv_sb[v])
    BY <1>1, <1>3, ZenonT(40) DEF IndInv, PcInv, TypeOK, SrvType, Holders
  <2>2. Filled(srv_sb[v]) => Filled(srv_sb[v])'
    <3>1. srv_sb'[v] = srv_sb[v] \/ Filled(srv_sb[v])'
      BY <1>1, <1>3, SwapFills
    <3>2. NServ(srv_sb[v]) \in Nat /\ Len(sb_service'[srv_sb[v]]) \in Nat
          /\ NServ(srv_sb[v]) <= Len(sb_service'[srv_sb[v]])
      BY <2>1, ServicesStay DEF NServ
    <3> QED
      BY <2>1, <3>1, <3>2 DEF Filled, NServ
  <2>3. ASSUME sc_sb[c] # NULL PROVE Filled(sc_sb[c]) => Filled(sc_sb[c])'
    <3>1. sc_sb[c] \in Sbs /\ c \in Holders(sc_sb[c])
      BY <2>3 DEF IndInv, TypeOK, ConnType, Holders
    <3>2. NServ(sc_sb[c]) \in Nat /\ Len(sb_service'[sc_sb[c]]) \in Nat
          /\ NServ(sc_sb[c]) <= Len(sb_service'[sc_sb[c]])
      BY <3>1, ServicesStay DEF NServ
    <3> QED
      BY <2>3, <3>2 DEF Filled, NServ
  <2>4. srv_sb'[v] = srv_sb[v] \/ Filled(srv_sb[v])'
    BY <1>1, <1>3, SwapFills
  <2> QED
    BY <2>2, <2>3, <2>4 DEF CrashOK, v
<1> QED
  BY <1>2, <1>3
\* The steps of a handle without a node filter.
LEMMA CrashHandle ==
  ASSUME IndInv, [Next]_vars, NEW c \in Conns, CrashOK(c), NodeFilter[c] = NULL, ConnNext(c)
  PROVE  CrashOK(c)'
<1>1. /\ UNCHANGED <<srv_sb, sb_service>>
      /\ c \in Threads /\ ConnSrv[c] \in Services
      /\ pc \in [Threads -> ConnPc \cup UpdPc]
      /\ sc_sb \in [Conns -> Sbs \cup {NULL}] /\ sn \in [Conns -> Nat]
      /\ port \in [Conns -> (Nodes \X Nat) \cup {NULL}] /\ loc \in [Conns -> Local]
  <2>1. UNCHANGED <<srv_sb, sb_service>>
    BY DEF ConnNext, NewConn, GetCall, GetLock, ConnNew, Select, NodesExhausted, MoveNode,
           PopKept, Connect, Put, CloseFd, FreeConn, sbVars, srvVars
  <2> QED
    BY <2>1, ConfigAssumption DEF IndInv, TypeOK, PcType, ConnType, Threads
<1>2. \A s : Filled(s)' <=> Filled(s)
  BY <1>1 DEF Filled, NServ
<1>3. CASE NewConn(c)
  <2>1. /\ pc[c] = "none" /\ pc'[c] = "ready" /\ UNCHANGED <<sc_sb, sn, port, loc>>
    BY <1>1, <1>3 DEF NewConn, connVars
  <2>2. port[c] = NULL
    BY <2>1 DEF CrashOK
  <2> QED
    BY <1>1, <1>2, <2>1, <2>2 DEF CrashOK
<1>4. ASSUME NEW st \in Status, GetCall(c, st) PROVE CrashOK(c)'
  <2>1. /\ pc[c] = "ready" /\ pc'[c] \in {"lock", "select"} /\ UNCHANGED <<sc_sb, sn, port>>
        /\ pc'[c] = "select" => sc_sb[c] # NULL
    BY <1>1, <1>4 DEF GetCall
  <2>2. pc'[c] = "select" /\ port[c] # NULL => sn[c] # 0
    BY <2>1 DEF CrashOK
  <2> QED
    BY <1>1, <1>2, <2>1, <2>2 DEF CrashOK
<1>5. CASE GetLock(c)
  <2>1. /\ pc[c] = "lock" /\ pc'[c] \in {"free_get", "conn_new"} /\ sc_sb'[c] = NULL
        /\ UNCHANGED <<sn, port, loc>>
    BY <1>1, <1>5 DEF GetLock, Release
  <2> QED
    BY <1>1, <1>2, <2>1 DEF CrashOK
<1>6. CASE ConnNew(c)
  <2>1. /\ pc[c] = "conn_new" /\ pc'[c] = "select" /\ sc_sb'[c] = srv_sb[ConnSrv[c]]
        /\ sn'[c] = 0 /\ port' = port
    BY <1>1, <1>6 DEF ConnNew
  <2>2. PICK sc \in StratInit(loc[c].sc, NServ(srv_sb[ConnSrv[c]])) :
          loc' = [loc EXCEPT ![c].sc = sc, ![c].gen = srv_gen[ConnSrv[c]]]
    BY <1>6 DEF ConnNew
  <2>3. loc'[c].sc = sc
    BY <1>1, <2>2 DEF Local
  <2>4. Filled(srv_sb[ConnSrv[c]]) => sc.first # 0
    <3>1. loc[c].sc \in Cursor
      BY <1>1 DEF Local
    <3>2. SUFFICES ASSUME Filled(srv_sb[ConnSrv[c]]) PROVE sc.first # 0
      OBVIOUS
    <3>3. NServ(srv_sb[ConnSrv[c]]) # 0
      BY <3>2 DEF Filled
    <3>4. CASE Strat = "seq"
      <4>1. sc.first = NServ(srv_sb[ConnSrv[c]])
        BY <3>1, <3>4, <2>2 DEF StratInit, StratReinit, Cursor
      <4> QED
        BY <3>3, <4>1
    <3>5. CASE Strat # "seq"
      <4>1. PICK pick : sc = [loc[c].sc EXCEPT !.offs = pick, !.first = 1, !.retries = Retries, !.cycle = {}]
        BY <3>5, <2>2 DEF StratInit
      <4>2. sc.first = 1
        BY <3>1, <4>1 DEF Cursor
      <4> QED
        BY <4>2
    <3> QED
      BY <3>4, <3>5
  <2> QED
    BY <1>1, <1>2, <2>1, <2>3, <2>4 DEF CrashOK
<1>7. CASE Select(c)
  <2>1. /\ pc[c] = "select" /\ UNCHANGED <<sc_sb, sn>> /\ sc_sb[c] # NULL
    BY <1>7 DEF Select, IndInv, PcInv
  <2>2. CASE sn[c] = 0 /\ pc' = [pc EXCEPT ![c] = "move_node"] /\ UNCHANGED <<loc, port>>
    <3>1. pc'[c] = "move_node"
      BY <1>1, <2>2
    <3> QED
      BY <1>1, <1>2, <2>1, <2>2, <3>1 DEF CrashOK
  <2>3. CASE sn[c] # 0 /\ pc' = [pc EXCEPT ![c] = AfterMove(sn[c], port[c])] /\ UNCHANGED <<loc, port>>
    <3>1. pc'[c] \in {"ready", "reuse"}
      BY <1>1, <2>3 DEF AfterMove
    <3> QED
      BY <1>1, <1>2, <2>1, <2>3, <3>1 DEF CrashOK
  <2>4. CASE /\ sn[c] # 0
             /\ \E pos \in MovePort(ConnKeys[c], node_ports[SnNode(c)], Pos(c)) :
                  /\ port' = [port EXCEPT ![c] = PortAt(SnNode(c), pos)]
                  /\ pc' = [pc EXCEPT ![c] = IF pos[2] = 0 THEN "move_node" ELSE "reuse"]
    <3>1. pc'[c] = "reuse" \/ (pc'[c] = "move_node" /\ port'[c] = NULL)
      BY <1>1, <2>4 DEF PortAt
    <3>2. Filled(sc_sb[c]) /\ Filled(srv_sb[ConnSrv[c]])
      <4>1. NServ(sc_sb[c]) > 0
        <5>1. sc_sb[c] \in Sbs /\ sn[c] \in Nat /\ sn[c] <= NServ(sc_sb[c])
          BY <1>1, <2>1 DEF IndInv, ConnInv, ConnOK
        <5>2. NServ(sc_sb[c]) \in Nat
          BY SMTT(10), <5>1 DEF IndInv, TypeOK, SbType, NServ
        <5> QED
          BY SMTT(10), <2>4, <5>1, <5>2
      <4> QED
        BY <2>1, <4>1 DEF CrashOK, Filled
    <3> QED
      BY <1>1, <1>2, <2>1, <2>4, <3>1, <3>2 DEF CrashOK
  <2> QED
    BY <1>7, <2>2, <2>3, <2>4 DEF Select
<1>8. CASE NodesExhausted(c)
  <2>1. /\ pc[c] = "move_node" /\ pc'[c] = AfterMove(0, port[c]) /\ sn'[c] = 0
        /\ UNCHANGED <<sc_sb, port>> /\ GivesUp(loc[c].sc, NServ(sc_sb[c])) /\ sc_sb[c] # NULL
    BY <1>1, <1>8 DEF NodesExhausted, IndInv, PcInv
  <2>2. ASSUME port[c] # NULL PROVE FALSE
    <3>1. loc[c].sc.first # 0 /\ Filled(sc_sb[c])
      BY <2>1, <2>2 DEF CrashOK
    <3> QED
      BY <2>1, <3>1 DEF GivesUp, Filled
  <2>3. pc'[c] = "ready" /\ port[c] = NULL
    BY <2>1, <2>2 DEF AfterMove
  <2> QED
    BY <1>1, <1>2, <2>1, <2>3 DEF CrashOK
<1>9. CASE MoveNode(c)
  <2>1. /\ pc[c] = "move_node" /\ sc_sb' = sc_sb /\ ~GivesUp(loc[c].sc, NServ(sc_sb[c]))
        /\ sc_sb[c] # NULL
    BY <1>9 DEF MoveNode, IndInv, PcInv
  <2>2. PICK n, pos : /\ port' = [port EXCEPT ![c] = PortAt(n, pos)]
                      /\ pc' = [pc EXCEPT ![c] = IF pos[2] = 0 THEN @ ELSE "reuse"]
    BY <1>9, ZenonT(40) DEF MoveNode
  <2>3. pc'[c] = "reuse" \/ (pc'[c] = "move_node" /\ port'[c] = NULL)
    BY <1>1, <2>1, <2>2 DEF PortAt
  <2>4. Filled(sc_sb[c]) /\ Filled(srv_sb[ConnSrv[c]])
    <3>1. NServ(sc_sb[c]) \in Nat /\ NServ(sc_sb[c]) # 0
      BY SMTT(10), <1>1, <2>1 DEF IndInv, TypeOK, SbType, NServ, GivesUp
    <3> QED
      BY <2>1, <3>1 DEF CrashOK, Filled
  <2> QED
    BY <1>1, <1>2, <2>1, <2>3, <2>4 DEF CrashOK
<1>10. CASE PopKept(c) \/ Connect(c)
  <2>1. pc[c] = "reuse" /\ UNCHANGED <<sc_sb, sn, port>> /\ pc'[c] \in {"ready", "reuse", "select"}
    BY <1>1, <1>10 DEF PopKept, Connect
  <2>2. sn[c] # 0
    BY <2>1 DEF IndInv, ConnInv, ConnOK
  <2> QED
    BY <1>1, <1>2, <2>1, <2>2 DEF CrashOK
<1>11. CASE Put(c) \/ CloseFd(c)
  <2>1. pc[c] = "ready" /\ UNCHANGED <<pc, sc_sb, sn, port>>
    BY <1>11 DEF Put, CloseFd
  <2> QED
    BY <1>1, <1>2, <2>1 DEF CrashOK
<1>12. CASE FreeConn(c)
  <2>1. pc'[c] \in {"none", "free_conn"} /\ sc_sb'[c] = NULL /\ port'[c] = NULL
    BY <1>1, <1>12 DEF FreeConn, Release
  <2> QED
    BY <2>1 DEF CrashOK
<1> QED
  BY <1>3, <1>4, <1>5, <1>6, <1>7, <1>8, <1>9, <1>10, <1>11, <1>12 DEF ConnNext

\* Nor do the steps of others take the node of a handle away.
LEMMA CrashNext == IndInv /\ IndInv' /\ Alive /\ CrashInv /\ [Next]_vars => CrashInv'
<1> SUFFICES ASSUME IndInv, IndInv', Alive, CrashInv, [Next]_vars, NEW c \in Conns, NodeFilter[c] = NULL
             PROVE  CrashOK(c)'
  BY DEF CrashInv
<1>1. CrashOK(c)
  BY DEF CrashInv
<1> DEFINE Still == /\ sc_sb'[c] = sc_sb[c] /\ sn'[c] = sn[c] /\ port'[c] = port[c]
                    /\ loc'[c] = loc[c] /\ pc'[c] = pc[c]
<1>2. CASE ConnNext(c)
  BY <1>1, <1>2, CrashHandle
<1>3. CASE UNCHANGED vars
  BY <1>1, <1>3, CrashFrame DEF vars, connVars
<1>4. ASSUME NEW d \in Conns, d # c, ConnNext(d) PROVE Still
  <2>1. TypeOK
    BY DEF IndInv
  <2>2. CASE NewConn(d) \/ (\E st \in Status : GetCall(d, st)) \/ GetLock(d) \/ ConnNew(d)
    BY <1>4, <2>1, <2>2 DEF NewConn, GetCall, GetLock, ConnNew, Release, connVars, TypeOK, ConnType,
                            PcType, Threads
  <2>3. CASE Select(d) \/ NodesExhausted(d)
    BY <1>4, <2>1, <2>3, ZenonT(40) DEF Select, NodesExhausted, TypeOK, ConnType, PcType, Threads
  <2>4. CASE MoveNode(d)
    BY <1>4, <2>1, <2>4, ZenonT(40) DEF MoveNode, TypeOK, ConnType, PcType, Threads
  <2>5. CASE PopKept(d) \/ Connect(d) \/ Put(d) \/ CloseFd(d) \/ FreeConn(d)
    BY <1>4, <2>1, <2>5 DEF PopKept, Connect, Put, CloseFd, FreeConn, Release, TypeOK, ConnType,
                            PcType, Threads
  <2> QED
    BY <1>4, <2>2, <2>3, <2>4, <2>5 DEF ConnNext
<1>5. ASSUME NEW u \in Updaters, UpdNext(u) PROVE Still
  <2>1. u # c /\ pc \in [Threads -> ConnPc \cup UpdPc] /\ c \in Threads
    BY DisjointAssumption DEF IndInv, TypeOK, PcType, Threads
  <2> QED
    BY <1>5, <2>1 DEF UpdNext, UpdateStart, AddConfig, AddSingle, AddStart, AddKnownNode, AddNewNode,
                      AddDone, Swap, UpdRelease, FreeService, Release, connVars
<1>6. ASSUME NEW t \in Threads, FreeNode(t) PROVE Still
  BY <1>6 DEF FreeNode, connVars
<1>7. ASSUME NEW t \in Threads, FreeSb(t) PROVE CrashOK(c)'
  <2>1. /\ pc' = [pc EXCEPT ![t] = CASE @ = "free_get"  -> "conn_new"
                                     [] @ = "free_conn" -> "none"
                                     [] @ = "free_upd"  -> "idle"]
        /\ UNCHANGED <<sc_sb, sn, port, loc>> /\ rel[t] # NULL
    BY <1>7 DEF FreeSb, connVars
  <2>2. CASE t # c
    <3>1. pc'[c] = pc[c]
      BY <2>1, <2>2
    <3> QED
      BY <1>1, <2>1, <3>1, CrashFrame
  <2>3. CASE t = c
    <3>1. pc[c] \in {"free_get", "free_conn"}
      BY <2>1, <2>3 DEF IndInv, PcInv, TypeOK, PcType, ConnPc
    <3>2. c \in DOMAIN pc
      BY DEF IndInv, TypeOK, PcType, Threads
    <3>3. \/ pc[c] = "free_get" /\ pc'[c] = "conn_new"
          \/ pc[c] = "free_conn" /\ pc'[c] = "none"
      BY <2>1, <2>3, <3>1, <3>2
    <3> QED
      BY <1>1, <2>1, <3>3, CrashFrame
  <2> QED
    BY <2>2, <2>3
<1>8. CASE FreePool \/ Terminated
  BY <1>1, <1>3, <1>8, CrashFrame DEF FreePool, Terminated, connVars
<1>9. Still => CrashOK(c)'
  BY <1>1, CrashFrame
<1> HIDE DEF Still
<1> QED
  BY <1>2, <1>3, <1>4, <1>5, <1>6, <1>7, <1>8, <1>9 DEF Next

\* The port of a handle is one of its node, and there is a node.
LEMMA PortHasNode == IndInv /\ CrashInv => PortOfNode
BY DEF IndInv, ConnInv, ConnOK, CrashInv, CrashOK, PortOfNode
-----------------------------------------------------------------------------
\* IndInv is inductive: one lemma of FdPoolHandles or FdPoolUpdates for each step.
LEMMA NextInv == IndInv /\ [Next]_vars => IndInv'
<1> SUFFICES ASSUME IndInv, [Next]_vars PROVE IndInv'
  OBVIOUS
<1>1. CASE UNCHANGED vars
  <2>1. UNCHANGED <<srvVars, sbVars, nodeVars, connVars, updVars, pc, rel>>
    BY <1>1 DEF vars
  <2>2. TypeOK'
    BY <2>1 DEF IndInv, TypeOK, SrvType, SbType, NodeType, ConnType, UpdType, PcType,
                srvVars, sbVars, nodeVars, connVars, updVars
  <2>3. SbRefsExact' /\ NodeCounts' /\ FreeInv' /\ IdleInv'
    BY <2>1, SbFrame, NodeFrame, FreeFrame, IdleFrame
       DEF IndInv, srvVars, sbVars, nodeVars, connVars, updVars
  <2>4. PcInv'
    BY <2>1 DEF IndInv, PcInv, srvVars, connVars, updVars
  <2>5. ConnInv'
    BY <2>1, ConnFrame DEF IndInv, ConnInv, sbVars, nodeVars, connVars
  <2> QED
    BY <2>2, <2>3, <2>4, <2>5 DEF IndInv
<1>2. ASSUME NEW c \in Conns, ConnNext(c) PROVE IndInv'
  BY <1>2, NewConnInv, GetCallInv, GetLockInv, ConnNewInv, SelectInv, NodesExhaustedInv,
     MoveNodeInv, PopKeptInv, ConnectInv, PutInv, CloseFdInv, FreeConnInv DEF ConnNext
<1>3. ASSUME NEW u \in Updaters, UpdNext(u) PROVE IndInv'
  <2>1. ASSUME NEW v \in Services, NEW cfg \in Configs, AddConfig(u, v, cfg) PROVE IndInv'
    BY <2>1, AddStartInv, ConfigAssumption DEF AddConfig
  <2>2. ASSUME NEW v \in Services, NEW host \in Hosts, AddSingle(u, v, host) PROVE IndInv'
    <3>1. host \in HostSpec
      <4>1. PICK cfg \in Configs : \E i \in DOMAIN cfg : host = cfg[i]
        BY DEF Hosts
      <4> QED
        BY SMTT(10), <4>1, ConfigAssumption
    <3>2. PICK h : h = [host EXCEPT !.key = NULL]
      OBVIOUS
    <3>3. h \in HostSpec
      BY <3>1, <3>2 DEF HostSpec
    <3>4. <<h>> \in Seq(HostSpec) /\ AddStart(u, v, <<h>>)
      BY <2>2, <3>2, <3>3 DEF AddSingle
    <3> QED
      BY <3>4, AddStartInv
  <2> QED
    BY <1>3, <2>1, <2>2, UpdateStartInv, AddKnownNodeInv, AddNewNodeInv, AddDoneInv, SwapInv,
       UpdReleaseInv, FreeServiceInv DEF UpdNext
<1>4. CASE Terminated
  BY <1>1, <1>4 DEF Terminated
<1> QED
  BY <1>1, <1>2, <1>3, <1>4, FreeNodeInv, FreeSbInv, FreePoolInv DEF Next

\* Every reachable state satisfies the inductive invariant.
THEOREM Inductive == Spec => []IndInv
BY InitInv, NextInv, PTL DEF Spec

\* The structures of the pool keep their types: in particular no count of
\* sbalance_release or fd_pool_free_node ever drops below zero.
THEOREM TypeCorrect == Spec => []TypeOK
<1>1. IndInv => TypeOK
  BY DEF IndInv
<1> QED
  BY Inductive, <1>1, PTL

\* sb_refs is the number of services, handles and updaters that point to the
\* sbalance, and a node is counted once for each service node of an unfreed
\* sbalance, in every interleaving of fd_pool_get, fd_pool_free_conn,
\* fd_pool_update_hosts and fd_pool_free.
THEOREM CountsExact == Spec => []RefsExact
<1>1. IndInv => RefsExact
  BY DEF IndInv, NodeCounts, NodeRefsExact, RefsExact
<1> QED
  BY Inductive, <1>1, PTL

\* fd_pool_get, fd_pool_put and the services never reach freed sbalances or
\* nodes, whatever update_hosts has replaced meanwhile.
THEOREM NoDangling == Spec => []NoUseAfterFree
BY Inductive, UsedIsAlive, PTL

\* When fd_pool_free has released every service and the frees have ended, no
\* node, no sbalance and no kept descriptor is left (the assertion at
\* fd_pool.c:871).
THEOREM NothingLeft == Spec => []AllFreed
BY Inductive, FreedIsEmpty, PTL

\* IndInv says what these two invariants ask for.
LEMMA IndAlive == IndInv => Alive
BY HeldAlive, PortAlive DEF IndInv, Alive

\* Whatever handles get, put, close and fail while nodes are replaced and
\* freed, no descriptor is handed to two clients, kept twice or kept by a node
\* that is no longer in the pool.
THEOREM FdsOwned == Spec => []OneOwner
<1>1. Init => IndInv /\ OwnInv
  BY InitInv, OwnInit
<1>2. IndInv /\ OwnInv /\ [Next]_vars => (IndInv /\ OwnInv)'
  BY NextInv, IndAlive, OwnNext
<1> QED
  BY <1>1, <1>2, OwnersDistinct, PTL DEF Spec

\* fd_pool_get has a node whenever it goes on with a port, although a restart
\* keeps conn->port, and the port is one of that node, so that a descriptor is
\* handed out and kept through a port of the node it goes to.
THEOREM PortCorrect == Spec => []PortOfNode
<1>1. Init => IndInv /\ CrashInv
  BY InitInv, CrashInit
<1>2. IndInv /\ CrashInv /\ [Next]_vars => (IndInv /\ CrashInv)'
  BY NextInv, IndAlive, CrashNext
<1> QED
  BY <1>1, <1>2, PortHasNode, PTL DEF Spec
=============================================================================
