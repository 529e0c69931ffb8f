------------------------------- MODULE FdPool -------------------------------
(***************************************************************************)
(* The connection pool of core/lib/fd_pool.c: services whose set of nodes  *)
(* is replaced while connections are being made.                           *)
(*                                                                         *)
(* A service points to an sbalance (its current generation of nodes).      *)
(* fd_pool_update_hosts builds a new sbalance and swaps it in; connections *)
(* in progress keep the old one alive with a reference.  Nodes are shared  *)
(* by all the sbalances of the pool and counted too; the last reference    *)
(* to a node closes the idle file descriptors kept in it.                  *)
(*                                                                         *)
(* One action is one step between two acquisitions of a lock that others   *)
(* can observe: a connection is used by one thread at a time, an updater   *)
(* is a thread inside update_hosts, add_config, add_single or free.        *)
(* Sbs and Nodes are memory: an address is reused once it has been freed,  *)
(* so a pointer kept too long points to something else.                    *)
(***************************************************************************)
EXTENDS Integers, Sequences, FiniteSets, SBalance, PortWalk

CONSTANTS
  Services, Conns, Updaters,   \* services, connection handles, updating threads
  Sbs, Nodes, Fds,             \* addresses of sbalances and nodes; descriptors
  Keys, Ports,                 \* node keys; ports [key, addr]
  Configs,                     \* the configurations an updater may be given
  ConnSrv,                     \* the service a handle was created for
  ConnKeys,                    \* its port_key list
  NodeFilter,                  \* its node key filter, or NULL
  MaxGen,                      \* bound: generations of a service
  MaxServ,                     \* bound: nodes of a service
  NULL

\* A host of a configuration, on one IP address; add_single gives no key.
HostSpec == [key: Keys \cup {NULL}, ports: Seq(Ports)]

\* The hosts that occur in the configurations.
Hosts == UNION {{cfg[i] : i \in DOMAIN cfg} : cfg \in Configs}

ASSUME FiniteAssumption ==
  /\ IsFiniteSet(Services) /\ IsFiniteSet(Conns) /\ IsFiniteSet(Updaters)
ASSUME DisjointAssumption ==
  /\ Services \cap Conns = {} /\ Services \cap Updaters = {}
  /\ Conns \cap Updaters = {}
ASSUME NullAssumption ==
  /\ NULL \notin Keys \cup Services \cup Conns \cup Updaters \cup Sbs \cup Nodes \cup Fds
  /\ NULL \notin Nodes \X Nat
ASSUME ConfigAssumption ==
  /\ \A cfg \in Configs : cfg \in Seq(HostSpec)
  /\ ConnSrv \in [Conns -> Services]
  /\ ConnKeys \in [Conns -> Seq(STRING)]
ASSUME BoundAssumption == MaxGen \in Nat /\ MaxServ \in Nat

VARIABLES
  srv_sb,     \* srv->sb, NULL once the pool has been freed
  srv_gen,    \* srv->sb_gen
  wlock,      \* the thread that write-holds srv->sblock
  sb_refs,    \* sb->sb_refs
  sb_service, \* sb->sb_service: sequence of [key, node]
  sb_bad,     \* indices of the services with a tempfailcost
  sb_freed,   \* how far sbalance_release has come in freeing the services
  all_nodes,  \* pool->all_nodes
  node_refs, node_ports,
  idle,       \* idle[n][p]: the fds in node n's ports[p].entries
  pc,         \* what each thread is doing
  rel,        \* the sbalance a thread is freeing
  sc_sb,      \* conn->sc.sc_sb
  sn,         \* conn->sn, as its position in the sbalance, 0 for NULL
  port,       \* conn->port: <<node, index>> or NULL
  loc,        \* the rest of a handle: gen, cursor, key position, entry, status
  fd,         \* the descriptor the client got from fd_pool_get
  closing,    \* fd_pool_free has been called
  upd_srv, upd_src, upd_sb, todo   \* the locals of an updater

srvVars  == <<srv_sb, srv_gen, wlock, closing>>
sbVars   == <<sb_refs, sb_service, sb_bad, sb_freed>>
nodeVars == <<all_nodes, node_refs, node_ports, idle>>
connVars == <<sc_sb, sn, port, loc, fd>>
updVars  == <<upd_srv, upd_src, upd_sb, todo>>
vars == <<srvVars, sbVars, nodeVars, connVars, updVars, pc, rel>>

Threads == Conns \cup Updaters

\* SBCS_START, and SBCS_FAIL for both failures: their costs differ, not what
\* the pool does.  The status is a local of fd_pool_get.
Status == {"start", "fail"}
ConnPc == {"none", "ready", "lock", "free_get", "conn_new", "select",
           "move_node", "reuse", "free_conn", "crash"}
UpdPc == {"idle", "populate", "add", "release", "free_upd"}

\* The rest of a handle.
Local == [gen: Nat, sc: Cursor, pk: Nat, entry: BOOLEAN, status: Status]

ZeroConn == [gen |-> 0, sc |-> ZeroCursor, pk |-> 1, entry |-> FALSE,
             status |-> "start"]

NServ(s) == Len(sb_service[s])

\* The node conn->sn points to, through the sbalance of the connection.
SnNode(c) == sb_service[sc_sb[c]][sn[c]].node

\* Addresses malloc may return.
FreeSbs == {s \in Sbs : sb_refs[s] = 0 /\ \A t \in Threads : rel[t] # s}

\* Threads that read-hold the sblock of a service across steps.
Readers(v) == {c \in Conns : ConnSrv[c] = v /\ pc[c] \in {"free_get", "conn_new"}}

CanRead(v) == wlock[v] = NULL
CanWrite(v) == wlock[v] = NULL /\ Readers(v) = {}

IdleFds(n) == UNION {{idle[n][p][i] : i \in DOMAIN idle[n][p]} : p \in DOMAIN idle[n]}
HeldFds == {fd[c] : c \in Conns} \ {NULL}
OpenFds == HeldFds \cup UNION {IdleFds(n) : n \in Nodes}

Init ==
  /\ \E f \in [Services -> Sbs] :
       /\ \A v, w \in Services : f[v] = f[w] => v = w
       /\ srv_sb = f
       /\ sb_refs = [s \in Sbs |-> IF \E v \in Services : f[v] = s THEN 1 ELSE 0]
  /\ srv_gen = [v \in Services |-> 1]
  /\ wlock = [v \in Services |-> NULL]
  /\ closing = FALSE
  /\ sb_service = [s \in Sbs |-> <<>>]
  /\ sb_bad = [s \in Sbs |-> {}]
  /\ sb_freed = [s \in Sbs |-> 0]
  /\ all_nodes = {}
  /\ node_refs = [n \in Nodes |-> 0]
  /\ node_ports = [n \in Nodes |-> <<>>]
  /\ idle = [n \in Nodes |-> <<>>]
  /\ pc = [t \in Threads |-> IF t \in Conns THEN "none" ELSE "idle"]
  /\ rel = [t \in Threads |-> NULL]
  /\ sc_sb = [c \in Conns |-> NULL]
  /\ sn = [c \in Conns |-> 0]
  /\ port = [c \in Conns |-> NULL]
  /\ loc = [c \in Conns |-> ZeroConn]
  /\ fd = [c \in Conns |-> NULL]
  /\ upd_srv = [u \in Updaters |-> NULL]
  /\ upd_src = [u \in Updaters |-> NULL]
  /\ upd_sb = [u \in Updaters |-> NULL]
  /\ todo = [u \in Updaters |-> <<>>]

-----------------------------------------------------------------------------
\* Mutants of Release: the count is not tested; it is decremented twice.
ReleaseUntested(t, s, pcFree, pcDone) ==
  /\ sb_refs' = [sb_refs EXCEPT ![s] = @ - 1]
  /\ pc' = [pc EXCEPT ![t] = pcFree]
  /\ rel' = [rel EXCEPT ![t] = s]

(***************************************************************************)
(* sbalance_release: drop a reference; the last one frees every service,   *)
(* one fd_pool_free_node (and one critical section of the pool lock) at a  *)
(* time.  Thread t continues at pcFree while freeing, else at pcDone.      *)
(***************************************************************************)
Release(t, s, pcFree, pcDone) ==
  /\ sb_refs' = [sb_refs EXCEPT ![s] = @ - 1]
  /\ IF sb_refs[s] > 1
     THEN /\ pc' = [pc EXCEPT ![t] = pcDone]
          /\ rel' = rel
     ELSE /\ pc' = [pc EXCEPT ![t] = pcFree]
          /\ rel' = [rel EXCEPT ![t] = s]

\* The loops of fd_pool_free_node that close what the ports of a node keep.
CloseIdle(n) == idle' = [idle EXCEPT ![n] = <<>>]

\* fd_pool_free_node on the next service of the sbalance t is freeing.
FreeNode(t) ==
  /\ rel[t] # NULL
  /\ sb_freed[rel[t]] < NServ(rel[t])
  /\ LET s == rel[t]
         n == sb_service[s][sb_freed[s] + 1].node
     IN  /\ sb_freed' = [sb_freed EXCEPT ![s] = @ + 1]
         /\ node_refs' = [node_refs EXCEPT ![n] = @ - 1]
         /\ IF node_refs[n] > 1
            THEN UNCHANGED <<all_nodes, node_ports, idle>>
            ELSE /\ all_nodes' = all_nodes \ {n}
                 /\ node_ports' = [node_ports EXCEPT ![n] = <<>>]
                 /\ CloseIdle(n)
  /\ UNCHANGED <<sb_refs, sb_service, sb_bad, srvVars, connVars, updVars, pc, rel>>

\* The end of sbalance_release: free(sb->sb_service), free(sb).
FreeSb(t) ==
  /\ rel[t] # NULL
  /\ sb_freed[rel[t]] = NServ(rel[t])
  /\ sb_service' = [sb_service EXCEPT ![rel[t]] = <<>>]
  /\ sb_bad' = [sb_bad EXCEPT ![rel[t]] = {}]
  /\ sb_freed' = [sb_freed EXCEPT ![rel[t]] = 0]
  /\ rel' = [rel EXCEPT ![t] = NULL]
  /\ pc' = [pc EXCEPT ![t] = CASE @ = "free_get"  -> "conn_new"
                               [] @ = "free_conn" -> "none"
                               [] @ = "free_upd"  -> "idle"]
  /\ UNCHANGED <<sb_refs, srvVars, nodeVars, connVars, updVars>>

-----------------------------------------------------------------------------
\* fd_pool_new_conn for a configured service: a zeroed handle.
NewConn(c) ==
  /\ pc[c] = "none"
  /\ ~closing
  /\ pc' = [pc EXCEPT ![c] = "ready"]
  /\ UNCHANGED <<srvVars, sbVars, nodeVars, connVars, updVars, rel>>

(***************************************************************************)
(* fd_pool_get up to the unlocked test of the generation.  The client has  *)
(* put or closed the descriptor it had, starts with SBCS_START, and does   *)
(* not go on with a failure status after fd_pool_get gave up.              *)
(***************************************************************************)
GetCall(c, st) ==
  /\ pc[c] = "ready"
  /\ fd[c] = NULL
  /\ st = "start" \/ (sc_sb[c] # NULL /\ loc[c].sc.retries >= 0)
  /\ loc' = [loc EXCEPT ![c].status = st]
  /\ pc' = [pc EXCEPT ![c] =
              IF st = "start" \/ loc[c].gen < srv_gen[ConnSrv[c]]
              THEN "lock" ELSE "select"]
  /\ UNCHANGED <<srvVars, sbVars, nodeVars, updVars, sc_sb, sn, port, fd, rel>>

\* What sbalance_conn_done of c does to the penalties.
ConnDone(c) ==
  IF sc_sb[c] = NULL
  THEN sb_bad
  ELSE [sb_bad EXCEPT ![sc_sb[c]] = @ \ ClearedBy(loc[c].sc, NServ(sc_sb[c]))]

\* The restart of fd_pool_get: rdlock, and let go of the old sbalance.
GetLock(c) ==
  /\ pc[c] = "lock"
  /\ CanRead(ConnSrv[c])
  /\ sb_bad' = IF loc[c].status = "start" THEN ConnDone(c) ELSE sb_bad
  /\ IF sc_sb[c] = NULL
     THEN /\ pc' = [pc EXCEPT ![c] = "conn_new"]
          /\ UNCHANGED <<sb_refs, rel>>
     ELSE Release(c, sc_sb[c], "free_get", "conn_new")
  /\ sc_sb' = [sc_sb EXCEPT ![c] = NULL]
  /\ UNCHANGED <<srvVars, sb_service, sb_freed, nodeVars, updVars,
                 sn, port, loc, fd>>

\* sbalance_retain.
Retain(s) == sb_refs' = [sb_refs EXCEPT ![s] = @ + 1]

\* Mutant of ConnNew: conn->sn still points to a node of the old sbalance.
ConnNewKeepsSn(c) ==
  LET s == srv_sb[ConnSrv[c]] IN
  /\ pc[c] = "conn_new"
  /\ \E sc \in StratInit(loc[c].sc, NServ(s)) :
       loc' = [loc EXCEPT ![c].sc = sc, ![c].gen = srv_gen[ConnSrv[c]]]
  /\ sc_sb' = [sc_sb EXCEPT ![c] = s]
  /\ Retain(s)
  /\ pc' = [pc EXCEPT ![c] = "select"]
  /\ UNCHANGED <<srvVars, sb_service, sb_bad, sb_freed, nodeVars, updVars,
                 sn, port, fd, rel>>

\* The end of the restart: sbalance_conn_new on the current sbalance, unlock.
ConnNew(c) ==
  LET s == srv_sb[ConnSrv[c]] IN
  /\ pc[c] = "conn_new"
  /\ \E sc \in StratInit(loc[c].sc, NServ(s)) :
       loc' = [loc EXCEPT ![c].sc = sc, ![c].gen = srv_gen[ConnSrv[c]]]
  /\ sc_sb' = [sc_sb EXCEPT ![c] = s]
  /\ Retain(s)
  /\ sn' = [sn EXCEPT ![c] = 0]
  /\ pc' = [pc EXCEPT ![c] = "select"]
  /\ UNCHANGED <<srvVars, sb_service, sb_bad, sb_freed, nodeVars, updVars,
                 port, fd, rel>>

\* fd_pool_get after a node and port have been chosen: give up without a
\* port; a port without a node is a NULL dereference of conn->sn.
AfterMove(nsn, nport) ==
  IF nport = NULL THEN "ready" ELSE IF nsn = 0 THEN "crash" ELSE "reuse"

Pos(c) == <<loc[c].pk, IF port[c] = NULL THEN 0 ELSE port[c][2]>>

\* conn->port at a position on the ports of node n.
PortAt(n, pos) == IF pos[2] = 0 THEN NULL ELSE <<n, pos[2]>>

(***************************************************************************)
(* The head of the loop in fd_pool_get: no node yet, or the last new       *)
(* connection to this port failed, or a kept descriptor failed and the     *)
(* port is tried again.                                                    *)
(***************************************************************************)
Select(c) ==
  /\ pc[c] = "select"
  /\ \/ /\ sn[c] = 0
        /\ pc' = [pc EXCEPT ![c] = "move_node"]
        /\ UNCHANGED <<loc, port>>
     \/ /\ sn[c] # 0 /\ loc[c].entry
        /\ pc' = [pc EXCEPT ![c] = AfterMove(sn[c], port[c])]
        /\ UNCHANGED <<loc, port>>
     \/ /\ sn[c] # 0 /\ ~loc[c].entry
        /\ \E pos \in MovePort(ConnKeys[c], node_ports[SnNode(c)], Pos(c)) :
             /\ loc' = [loc EXCEPT ![c].pk = pos[1]]
             /\ port' = [port EXCEPT ![c] = PortAt(SnNode(c), pos)]
             /\ pc' = [pc EXCEPT ![c] = IF pos[2] = 0 THEN "move_node" ELSE "reuse"]
  /\ UNCHANGED <<srvVars, sbVars, nodeVars, updVars, sc_sb, sn, fd, rel>>

\* The penalty of sbalance_conn_next.  An index outside the services is a
\* write outside sb_service: nothing this model has.
Charge(c) ==
  sb_bad' = IF loc[c].status = "start"
            THEN sb_bad
            ELSE [sb_bad EXCEPT ![sc_sb[c]] =
                    @ \cup ({ChargedBy(loc[c].sc)} \cap 0..(NServ(sc_sb[c]) - 1))]

\* fd_pool_move_node when sbalance_conn_next has no more services.
NodesExhausted(c) ==
  /\ pc[c] = "move_node"
  /\ GivesUp(loc[c].sc, NServ(sc_sb[c]))
  /\ IF NServ(sc_sb[c]) = 0 THEN sb_bad' = sb_bad ELSE Charge(c)
  /\ loc' = [loc EXCEPT ![c].sc = NextNull(@, NServ(sc_sb[c])), ![c].status = "start"]
  /\ sn' = [sn EXCEPT ![c] = 0]
  /\ pc' = [pc EXCEPT ![c] = AfterMove(0, port[c])]
  /\ UNCHANGED <<srvVars, sb_refs, sb_service, sb_freed, nodeVars, updVars,
                 sc_sb, port, fd, rel>>

\* One turn of the loops of fd_pool_move_node: take the next service, test
\* the node filter (strcmp of a NULL key crashes), find the first port with a
\* wanted key.
MoveNode(c) ==
  /\ pc[c] = "move_node"
  /\ ~GivesUp(loc[c].sc, NServ(sc_sb[c]))
  /\ Charge(c)
  /\ \E sc \in NextService(loc[c].sc, NServ(sc_sb[c])) :
       LET serv == sb_service[sc_sb[c]][sc.last + 1] IN
       /\ sn' = [sn EXCEPT ![c] = sc.last + 1]
       /\ \/ /\ NodeFilter[c] # NULL /\ NodeFilter[c] # serv.key
             /\ loc' = [loc EXCEPT ![c].sc = sc, ![c].status = "start"]
             /\ pc' = [pc EXCEPT ![c] = IF serv.key = NULL THEN "crash" ELSE @]
             /\ UNCHANGED port
          \/ /\ NodeFilter[c] \in {NULL, serv.key}
             /\ \E pos \in MovePort(ConnKeys[c], node_ports[serv.node], Start) :
                  /\ loc' = [loc EXCEPT ![c].sc = sc, ![c].status = "start",
                                        ![c].pk = pos[1]]
                  /\ port' = [port EXCEPT ![c] = PortAt(serv.node, pos)]
                  /\ pc' = [pc EXCEPT ![c] = IF pos[2] = 0 THEN @ ELSE "reuse"]
  /\ UNCHANGED <<srvVars, sb_refs, sb_service, sb_freed, nodeVars, updVars,
                 sc_sb, fd, rel>>

\* The kept descriptors of the chosen port.
Kept(c) == idle[port[c][1]][port[c][2]]

\* Mutant of PopKept: the entry is not taken out of the list.
PopKeptTwice(c) ==
  /\ pc[c] = "reuse"
  /\ Kept(c) # <<>>
  /\ fd' = [fd EXCEPT ![c] = Head(Kept(c))]
  /\ loc' = [loc EXCEPT ![c].entry = TRUE, ![c].status = "start"]
  /\ pc' = [pc EXCEPT ![c] = "ready"]
  /\ UNCHANGED <<srvVars, sbVars, nodeVars, updVars, sc_sb, sn, port, rel>>

\* Pop the first kept descriptor; poll says whether the peer has closed it.
PopKept(c) ==
  /\ pc[c] = "reuse"
  /\ Kept(c) # <<>>
  /\ idle' = [idle EXCEPT ![port[c][1]][port[c][2]] = Tail(@)]
  /\ \/ /\ fd' = [fd EXCEPT ![c] = Head(Kept(c))]
        /\ loc' = [loc EXCEPT ![c].entry = TRUE, ![c].status = "start"]
        /\ pc' = [pc EXCEPT ![c] = "ready"]
     \/ UNCHANGED <<fd, loc, pc>>
  /\ UNCHANGED <<srvVars, sbVars, all_nodes, node_refs, node_ports, updVars,
                 sc_sb, sn, port, rel>>

\* No kept descriptor: a new connection, which succeeds or fails.
Connect(c) ==
  /\ pc[c] = "reuse"
  /\ Kept(c) = <<>>
  /\ \/ /\ \E f \in Fds \ OpenFds : fd' = [fd EXCEPT ![c] = f]
        /\ loc' = [loc EXCEPT ![c].entry = FALSE, ![c].status = "start"]
        /\ pc' = [pc EXCEPT ![c] = "ready"]
     \/ /\ loc' = [loc EXCEPT ![c].entry = FALSE, ![c].status = "fail"]
        /\ pc' = [pc EXCEPT ![c] = "select"]
        /\ UNCHANGED fd
  /\ UNCHANGED <<srvVars, sbVars, nodeVars, updVars, sc_sb, sn, port, rel>>

\* fd_pool_put: keep the descriptor in the port it was made for.
Put(c) ==
  /\ pc[c] = "ready"
  /\ fd[c] # NULL
  /\ CanRead(ConnSrv[c])
  /\ idle' = [idle EXCEPT ![port[c][1]][port[c][2]] = <<fd[c]>> \o @]
  /\ fd' = [fd EXCEPT ![c] = NULL]
  /\ loc' = [loc EXCEPT ![c].entry = FALSE]
  /\ UNCHANGED <<srvVars, sbVars, all_nodes, node_refs, node_ports, updVars,
                 pc, sc_sb, sn, port, rel>>

\* The client closes the descriptor, or fd_pool_put does because its number is
\* near the limit of open files.
CloseFd(c) ==
  /\ pc[c] = "ready"
  /\ fd[c] # NULL
  /\ fd' = [fd EXCEPT ![c] = NULL]
  /\ UNCHANGED <<srvVars, sbVars, nodeVars, updVars, pc, sc_sb, sn, port, loc, rel>>

\* Mutant of FreeConn: the sbalance is not released.
FreeConnLeaks(c) ==
  /\ pc[c] = "ready"
  /\ fd[c] = NULL
  /\ pc' = [pc EXCEPT ![c] = "none"]
  /\ sc_sb' = [sc_sb EXCEPT ![c] = NULL]
  /\ sn' = [sn EXCEPT ![c] = 0]
  /\ port' = [port EXCEPT ![c] = NULL]
  /\ loc' = [loc EXCEPT ![c] = ZeroConn]
  /\ UNCHANGED <<srvVars, sbVars, nodeVars, updVars, fd, rel>>

\* fd_pool_free_conn.  A handle that does not exist is modelled as a zeroed one.
FreeConn(c) ==
  /\ pc[c] = "ready"
  /\ fd[c] = NULL
  /\ sb_bad' = ConnDone(c)
  /\ IF sc_sb[c] = NULL
     THEN /\ pc' = [pc EXCEPT ![c] = "none"]
          /\ UNCHANGED <<sb_refs, rel>>
     ELSE Release(c, sc_sb[c], "free_conn", "none")
  /\ sc_sb' = [sc_sb EXCEPT ![c] = NULL]
  /\ sn' = [sn EXCEPT ![c] = 0]
  /\ port' = [port EXCEPT ![c] = NULL]
  /\ loc' = [loc EXCEPT ![c] = ZeroConn]
  /\ UNCHANGED <<srvVars, sb_service, sb_freed, nodeVars, updVars, fd>>

-----------------------------------------------------------------------------
\* fd_pool_update_hosts: read srv->sb without a lock, create the new sbalance.
UpdateStart(u, v, cfg) ==
  /\ pc[u] = "idle"
  /\ ~closing
  /\ srv_gen[v] < MaxGen
  /\ \E s \in FreeSbs :
       /\ upd_sb' = [upd_sb EXCEPT ![u] = s]
       /\ sb_refs' = [sb_refs EXCEPT ![s] = 1]
  /\ upd_srv' = [upd_srv EXCEPT ![u] = v]
  /\ upd_src' = [upd_src EXCEPT ![u] = srv_sb[v]]
  /\ todo' = [todo EXCEPT ![u] = cfg]
  /\ pc' = [pc EXCEPT ![u] = "populate"]
  /\ UNCHANGED <<srvVars, sb_service, sb_bad, sb_freed, nodeVars, connVars, rel>>

\* fd_pool_add_config (on a service without nodes) and fd_pool_add_single (on
\* any): hosts are added to the current sbalance, under the write lock.
AddStart(u, v, cfg) ==
  /\ pc[u] = "idle"
  /\ ~closing
  /\ CanWrite(v)
  /\ wlock' = [wlock EXCEPT ![v] = u]
  /\ upd_srv' = [upd_srv EXCEPT ![u] = v]
  /\ todo' = [todo EXCEPT ![u] = cfg]
  /\ pc' = [pc EXCEPT ![u] = "add"]
  /\ UNCHANGED <<srv_sb, srv_gen, closing, sbVars, nodeVars, connVars,
                 upd_src, upd_sb, rel>>

AddConfig(u, v, cfg) ==
  /\ AddStart(u, v, cfg)
  /\ NServ(srv_sb[v]) = 0

AddSingle(u, v, host) ==
  /\ AddStart(u, v, <<[host EXCEPT !.key = NULL]>>)
  /\ NServ(srv_sb[v]) < MaxServ

\* The sbalance an updater adds nodes to.
Target(u) == IF pc[u] = "populate" THEN upd_sb[u] ELSE srv_sb[upd_srv[u]]

\* fd_pool_fetch_node: nodes that have all the wanted ports.
Matching(spec) ==
  {n \in all_nodes : \A i \in DOMAIN spec.ports :
                       \E j \in DOMAIN node_ports[n] : node_ports[n][j] = spec.ports[i]}

AppendServ(s, spec, n) ==
  sb_service' = [sb_service EXCEPT ![s] = Append(@, [key |-> spec.key, node |-> n])]

\* The reference fd_pool_fetch_node takes.
RetainNode(n) == node_refs' = [node_refs EXCEPT ![n] = @ + 1]

\* fd_pool_add_node finds a node of the pool (the first match of the list;
\* any match here).
AddKnownNode(u) ==
  /\ pc[u] \in {"populate", "add"}
  /\ todo[u] # <<>>
  /\ \E n \in Matching(Head(todo[u])) :
       /\ RetainNode(n)
       /\ AppendServ(Target(u), Head(todo[u]), n)
  /\ todo' = [todo EXCEPT ![u] = Tail(@)]
  /\ UNCHANGED <<srvVars, sb_refs, sb_bad, sb_freed, all_nodes, node_ports, idle,
                 connVars, upd_srv, upd_src, upd_sb, pc, rel>>

\* fd_pool_add_node creates a node.
AddNewNode(u) ==
  /\ pc[u] \in {"populate", "add"}
  /\ todo[u] # <<>>
  /\ Matching(Head(todo[u])) = {}
  /\ \E n \in Nodes \ all_nodes :
       /\ all_nodes' = all_nodes \cup {n}
       /\ node_refs' = [node_refs EXCEPT ![n] = 1]
       /\ node_ports' = [node_ports EXCEPT ![n] = Head(todo[u]).ports]
       /\ idle' = [idle EXCEPT ![n] = [i \in DOMAIN Head(todo[u]).ports |-> <<>>]]
       /\ AppendServ(Target(u), Head(todo[u]), n)
  /\ todo' = [todo EXCEPT ![u] = Tail(@)]
  /\ UNCHANGED <<srvVars, sb_refs, sb_bad, sb_freed, connVars,
                 upd_srv, upd_src, upd_sb, pc, rel>>

\* The end of fd_pool_add_config and fd_pool_add_single: unlock.
AddDone(u) ==
  /\ pc[u] = "add"
  /\ todo[u] = <<>>
  /\ wlock' = [wlock EXCEPT ![upd_srv[u]] = NULL]
  /\ pc' = [pc EXCEPT ![u] = "idle"]
  /\ upd_srv' = [upd_srv EXCEPT ![u] = NULL]
  /\ UNCHANGED <<srv_sb, srv_gen, closing, sbVars, nodeVars, connVars,
                 upd_src, upd_sb, todo, rel>>

\* Mutant of Unraced: the swap is not made conditional.
Unconditional(u) == TRUE

\* No other update has replaced the sbalance that was read at the start.
Unraced(u) == srv_sb[upd_srv[u]] = upd_src[u]

\* The end of the population: an empty sbalance is thrown away; else, under
\* the write lock, the swap, unless another update got there first.
Swap(u) ==
  LET v == upd_srv[u] IN
  /\ pc[u] = "populate"
  /\ todo[u] = <<>>
  /\ \/ /\ NServ(upd_sb[u]) = 0
        /\ UNCHANGED <<srv_sb, srv_gen, upd_sb>>
     \/ /\ NServ(upd_sb[u]) # 0
        /\ CanWrite(v)
        /\ Unraced(u)
        /\ srv_sb' = [srv_sb EXCEPT ![v] = upd_sb[u]]
        /\ srv_gen' = [srv_gen EXCEPT ![v] = @ + 1]
        /\ upd_sb' = [upd_sb EXCEPT ![u] = upd_src[u]]
     \/ /\ NServ(upd_sb[u]) # 0
        /\ CanWrite(v)
        /\ ~Unraced(u)
        /\ UNCHANGED <<srv_sb, srv_gen, upd_sb>>
  /\ pc' = [pc EXCEPT ![u] = "release"]
  /\ UNCHANGED <<wlock, closing, sbVars, nodeVars, connVars, upd_srv, upd_src,
                 todo, rel>>

\* The sbalance_release of fd_pool_update_hosts and fd_pool_free.
UpdRelease(u) ==
  /\ pc[u] = "release"
  /\ Release(u, upd_sb[u], "free_upd", "idle")
  /\ upd_sb' = [upd_sb EXCEPT ![u] = NULL]
  /\ upd_src' = [upd_src EXCEPT ![u] = NULL]
  /\ upd_srv' = [upd_srv EXCEPT ![u] = NULL]
  /\ UNCHANGED <<srvVars, sb_service, sb_bad, sb_freed, nodeVars, connVars, todo>>

\* fd_pool_free is called when no handle and no update is left ...
FreePool ==
  /\ ~closing
  /\ \A c \in Conns : pc[c] = "none"
  /\ \A u \in Updaters : pc[u] = "idle"
  /\ closing' = TRUE
  /\ UNCHANGED <<srv_sb, srv_gen, wlock, sbVars, nodeVars, connVars, updVars, pc, rel>>

\* ... and releases the sbalance of one service after the other.
FreeService(u, v) ==
  /\ closing
  /\ \A w \in Updaters : pc[w] = "idle"
  /\ srv_sb[v] # NULL
  /\ srv_sb' = [srv_sb EXCEPT ![v] = NULL]
  /\ upd_sb' = [upd_sb EXCEPT ![u] = srv_sb[v]]
  /\ pc' = [pc EXCEPT ![u] = "release"]
  /\ UNCHANGED <<srv_gen, wlock, closing, sbVars, nodeVars, connVars,
                 upd_srv, upd_src, todo, rel>>

PoolFreed ==
  /\ closing
  /\ \A v \in Services : srv_sb[v] = NULL
  /\ \A u \in Updaters : pc[u] = "idle"

-----------------------------------------------------------------------------
ConnNext(c) ==
  \/ NewConn(c) \/ (\E st \in Status : GetCall(c, st)) \/ GetLock(c)
  \/ ConnNew(c) \/ Select(c) \/ NodesExhausted(c) \/ MoveNode(c)
  \/ PopKept(c) \/ Connect(c) \/ Put(c) \/ CloseFd(c) \/ FreeConn(c)

UpdNext(u) ==
  \/ \E v \in Services, cfg \in Configs : UpdateStart(u, v, cfg) \/ AddConfig(u, v, cfg)
  \/ \E v \in Services, host \in Hosts : AddSingle(u, v, host)
  \/ AddKnownNode(u) \/ AddNewNode(u) \/ AddDone(u) \/ Swap(u) \/ UpdRelease(u)
  \/ \E v \in Services : FreeService(u, v)

\* The freed pool has nothing left to do.
Terminated == PoolFreed /\ UNCHANGED vars

Next ==
  \/ \E c \in Conns : ConnNext(c)
  \/ \E u \in Updaters : UpdNext(u)
  \/ \E t \in Threads : FreeNode(t) \/ FreeSb(t)
  \/ FreePool
  \/ Terminated

Spec == Init /\ [][Next]_vars

\* What the thread inside fd_pool_get does by itself.
GetStep(c) ==
  \/ GetLock(c) \/ ConnNew(c) \/ Select(c) \/ NodesExhausted(c) \/ MoveNode(c)
  \/ PopKept(c) \/ Connect(c) \/ FreeNode(c) \/ FreeSb(c)

\* A thread that entered a function of the pool keeps running.  The read lock
\* is fair to it because a rwlock prefers readers; who holds the write lock
\* to add nodes goes on, too.
FairSpec ==
  /\ Spec
  /\ \A c \in Conns : WF_vars(GetStep(c)) /\ SF_vars(GetLock(c))
  /\ \A u \in Updaters : WF_vars(AddKnownNode(u) \/ AddNewNode(u) \/ AddDone(u))
-----------------------------------------------------------------------------
\* A service of an sbalance: struct fd_pool_service_node.
ServiceNode == [key: Keys \cup {NULL}, node: Nodes]

SrvType ==
  /\ srv_sb \in [Services -> Sbs \cup {NULL}]
  /\ srv_gen \in [Services -> Nat]
  /\ wlock \in [Services -> Updaters \cup {NULL}]
  /\ closing \in BOOLEAN

SbType ==
  /\ sb_refs \in [Sbs -> Nat]
  /\ sb_service \in [Sbs -> Seq(ServiceNode)]
  /\ sb_bad \in [Sbs -> SUBSET Nat]
  /\ sb_freed \in [Sbs -> Nat]

NodeType ==
  /\ all_nodes \in SUBSET Nodes
  /\ node_refs \in [Nodes -> Nat]
  /\ node_ports \in [Nodes -> Seq(Ports)]
  /\ idle \in [Nodes -> Seq(Seq(Fds))]

ConnType ==
  /\ sc_sb \in [Conns -> Sbs \cup {NULL}]
  /\ sn \in [Conns -> Nat]
  /\ port \in [Conns -> (Nodes \X Nat) \cup {NULL}]
  /\ loc \in [Conns -> Local]
  /\ fd \in [Conns -> Fds \cup {NULL}]

UpdType ==
  /\ upd_srv \in [Updaters -> Services \cup {NULL}]
  /\ upd_src \in [Updaters -> Sbs \cup {NULL}]
  /\ upd_sb \in [Updaters -> Sbs \cup {NULL}]
  /\ todo \in [Updaters -> Seq(HostSpec)]

PcType ==
  /\ pc \in [Threads -> ConnPc \cup UpdPc]
  /\ \A c \in Conns : pc[c] \in ConnPc
  /\ \A u \in Updaters : pc[u] \in UpdPc
  /\ rel \in [Threads -> Sbs \cup {NULL}]

\* The types of the structures of fd_pool.c; a count is never negative and a
\* handle is never at a step of an updater.
TypeOK == SrvType /\ SbType /\ NodeType /\ ConnType /\ UpdType /\ PcType

\* Who holds a reference to an sbalance: services, handles, updaters.
Holders(s) ==
  {v \in Services : srv_sb[v] = s} \cup {c \in Conns : sc_sb[c] = s}
    \cup {u \in Updaters : upd_sb[u] = s}

\* The service nodes that hold a reference to a node: those of every sbalance
\* that sbalance_release has not freed yet.
NodeHolders(n) ==
  {h \in UNION {{s} \X (DOMAIN sb_service[s]) : s \in Sbs} :
     /\ h[2] > sb_freed[h[1]]
     /\ sb_service[h[1]][h[2]].node = n}

\* sb_refs (sbalance_retain, sbalance_release) is exactly the number of
\* pointers to the sbalance that will be released, whatever updates, restarts
\* and frees interleave.
SbRefsExact == \A s \in Sbs : sb_refs[s] = Cardinality(Holders(s))

\* A node is counted once for every service node that points to it
\* (fd_pool_fetch_node, fd_pool_node_new, fd_pool_free_node), and is in
\* pool->all_nodes exactly while it is counted.
NodeRefsExact ==
  \A n \in Nodes :
    /\ node_refs[n] = Cardinality(NodeHolders(n))
    /\ n \in all_nodes <=> node_refs[n] > 0

\* Both counts, which threads change without a common lock, are exact in every
\* state, so that memory is neither freed under a user nor kept for ever.
RefsExact == SbRefsExact /\ NodeRefsExact

\* No pointer in use is to freed memory: the sbalance of a service and of a
\* handle is allocated and not being freed, conn->sn is one of its services,
\* and the node is in the pool, even after update_hosts has replaced it.
NoUseAfterFree ==
  /\ \A v \in Services : srv_sb[v] # NULL => sb_refs[srv_sb[v]] > 0
  /\ \A c \in Conns :
       sc_sb[c] # NULL =>
         /\ sb_refs[sc_sb[c]] > 0 /\ sb_freed[sc_sb[c]] = 0
         /\ sn[c] # 0 => sn[c] <= NServ(sc_sb[c]) /\ SnNode(c) \in all_nodes

\* conn->port is a port of the node conn->sn points to.
PortValid(c) ==
  /\ port[c][1] = SnNode(c)
  /\ port[c][2] \in DOMAIN node_ports[port[c][1]]

\* fd_pool_get never goes on with a port but no node (fd_pool.c:1053), for a
\* handle without a node filter; and where fd_pool_get and fd_pool_put use
\* conn->port it is a port of the node conn->sn points to, so descriptors are
\* kept with the node they go to.
PortOfNode ==
  \A c \in Conns :
    /\ NodeFilter[c] = NULL => pc[c] # "crash"
    /\ pc[c] = "reuse" \/ fd[c] # NULL =>
         sc_sb[c] # NULL /\ sn[c] # 0 /\ port[c] # NULL /\ PortValid(c)

\* A descriptor is kept in at most one place: in the hands of one client or
\* once in the entries of one port, and only nodes of the pool keep any; what
\* fd_pool_free_node drops with a node was not in use.
OneOwner ==
  /\ \A c, d \in Conns : c # d /\ fd[c] # NULL => fd[c] # fd[d]
  /\ \A n \in Nodes : n \notin all_nodes => IdleFds(n) = {}
  /\ \A n \in Nodes : IdleFds(n) \cap HeldFds = {}
  /\ \A n, m \in Nodes : n # m => IdleFds(n) \cap IdleFds(m) = {}
  /\ \A n \in Nodes : \A p, q \in DOMAIN idle[n] :
       \A i \in DOMAIN idle[n][p], j \in DOMAIN idle[n][q] :
         idle[n][p][i] = idle[n][q][j] => p = q /\ i = j

\* "Nodes should've been freed now." (fd_pool.c:871): the assertion of
\* fd_pool_free, with the sbalances and the kept descriptors as well.
AllFreed ==
  PoolFreed /\ (\A t \in Threads : rel[t] = NULL) =>
    all_nodes = {} /\ OpenFds = {} /\ FreeSbs = Sbs

\* fd_pool_get returns, however the nodes fail and are replaced: the rounds of
\* sbalance_conn_next are counted and a restart happens once per call.
GetReturns ==
  \A c \in Conns :
    pc[c] \in {"lock", "free_get", "conn_new", "select", "move_node", "reuse"}
      ~> pc[c] = "ready"

-----------------------------------------------------------------------------
(***************************************************************************)
(* The inductive invariant behind these properties: the counts, and what   *)
(* ties the counts to the program counters and to the freeing of an        *)
(* sbalance.                                                               *)
(***************************************************************************)

\* A cursor over n services only yields indices below n.
CursorOK(sc, n) ==
  IF Strat = "seq"
  THEN sc.offs >= 0 /\ sc.offs + sc.first <= n
  ELSE \/ sc.offs = -1 /\ sc.cycle \subseteq 0..(n - 1)
       \/ sc.offs = 0
       \/ sc.offs > 0 /\ sc.offs < n

\* Every count is that of a finite set of holders.
NodeCounts ==
  \A n \in Nodes :
    /\ IsFiniteSet(NodeHolders(n))
    /\ node_refs[n] = Cardinality(NodeHolders(n))
    /\ n \in all_nodes <=> node_refs[n] > 0

\* Who is at which step holds, or frees, what.
PcInv ==
  /\ \A t \in Threads : rel[t] # NULL <=> pc[t] \in {"free_get", "free_conn", "free_upd"}
  /\ \A c \in Conns :
       /\ pc[c] \in {"none", "free_get", "conn_new", "free_conn"} => sc_sb[c] = NULL
       /\ pc[c] \in {"select", "move_node", "reuse", "crash"} => sc_sb[c] # NULL
  /\ \A u \in Updaters :
       /\ pc[u] \in {"populate", "release"} <=> upd_sb[u] # NULL
       /\ pc[u] = "populate" => upd_srv[u] # NULL /\ upd_src[u] # NULL
       /\ pc[u] = "add" => upd_srv[u] # NULL
  /\ \A v \in Services : srv_sb[v] = NULL => closing
  /\ closing => /\ \A c \in Conns : pc[c] = "none"
                /\ \A u \in Updaters : pc[u] \in {"idle", "release", "free_upd"}

\* An sbalance is freed by one thread, after its last reference has gone.
FreeInv ==
  /\ \A t \in Threads : rel[t] # NULL =>
       sb_refs[rel[t]] = 0 /\ sb_freed[rel[t]] <= NServ(rel[t])
  /\ \A t, r \in Threads : rel[t] # NULL /\ rel[t] = rel[r] => t = r
  /\ \A s \in Sbs : sb_freed[s] # 0 => \E t \in Threads : rel[t] = s
  /\ \A s \in FreeSbs : sb_service[s] = <<>>

\* conn->sn, conn->port and the cursor fit the sbalance of the handle.
ConnOK(c) ==
  /\ sc_sb[c] # NULL => CursorOK(loc[c].sc, NServ(sc_sb[c])) /\ sn[c] <= NServ(sc_sb[c])
  /\ fd[c] # NULL => pc[c] = "ready"
  /\ fd[c] # NULL \/ pc[c] = "reuse" => sc_sb[c] # NULL /\ sn[c] # 0 /\ port[c] # NULL
  /\ /\ sc_sb[c] # NULL /\ sn[c] # 0 /\ port[c] # NULL
     /\ pc[c] \notin {"move_node", "crash"}
     => PortValid(c)

ConnInv == \A c \in Conns : ConnOK(c)

\* Every port of a node has its list of kept descriptors.
IdleInv ==
  \A n \in Nodes : IF n \in all_nodes THEN Len(idle[n]) = Len(node_ports[n])
                                      ELSE idle[n] = <<>>

IndInv == TypeOK /\ SbRefsExact /\ NodeCounts /\ PcInv /\ FreeInv /\ ConnInv /\ IdleInv

=============================================================================
