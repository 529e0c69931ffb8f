------------------------------- MODULE GoPool -------------------------------
(***************************************************************************)
(* The Go connection pool (core/pkg/fd_pool/gopool.go, sd.go) with its     *)
(* balancer (util/pkg/sbalance/sbalance.go): one service, goroutines that  *)
(* hold connections, one that adds the service and one that replaces its   *)
(* hosts, by itself or on what a discovery source sends.                   *)
(*                                                                         *)
(* A node of the service is a pair of a host and the number of the update  *)
(* that made it; a connection set belongs to a host and a port key and is  *)
(* shared by the nodes of all updates.                                     *)
(***************************************************************************)
EXTENDS Integers, Sequences, FiniteSets, SequencesExt, FiniteSetsExt, TLC

CONSTANTS
    GoClients,      \* goroutines that use connections
    GoHosts,        \* hosts
    Batches,        \* sequences of messages that the source may send
    PortKeys,       \* host -> the port keys it has
    Wanted,         \* client -> the port keys it asks for, in order
    MaxNets,        \* connections there are at a time
    MaxCalls,       \* calls of the clients
    Mixes           \* whether there is a registry, the strategy and the retries, the clients,
                    \* how many batches or updates there are, and which hosts may be in one

VARIABLES
    gpMix,          \* one of Mixes
    gp,             \* references to nodes, connection sets, open connections, panic
    gpSrv,          \* the service
    gpLock,         \* who has srv.sblock for writing
    gpConn,         \* client -> its connection
    gpAdder,        \* the goroutine in AddConfig or AddSingle
    gpReader,       \* the goroutine in readSd and UpdateHostsConfig
    gpLeft          \* what is left of the bounds

gpvars == <<gpMix, gp, gpSrv, gpLock, gpConn, gpAdder, gpReader, gpLeft>>

NoNode == <<"none", 0>>
NoSet == <<"none", "none">>
Single == "single"

PortsOf(h) == IF h = Single THEN {"port"} ELSE PortKeys[h]
Addrs == UNION {{<<h, k>> : k \in PortsOf(h)} : h \in GoHosts \cup {Single}}
SetsOf(n) == {<<n[1], k>> : k \in PortsOf(n[1])}
----------------------------------------------------------------------------
(* fdConnSet and fdServiceNode: references.                                *)
CsRetain(g, a) == [g EXCEPT !.sets[a].refs = @ + 1]

CsRelease(g, a) ==
    LET r == g.sets[a].refs - 1
    IN  IF a = NoSet THEN g
        ELSE IF r > 0 THEN [g EXCEPT !.sets[a].refs = r]
        ELSE [g EXCEPT !.sets[a] = [refs |-> r, conns |-> <<>>],
                       !.open = @ \ Range(g.sets[a].conns),
                       !.panic = @ \/ r < 0]

(* Retain gives nil for a node that nobody held, and nil has no ports.     *)
NodeRetain(g, n) ==
    IF n \in DOMAIN g.nodes THEN [g EXCEPT !.nodes[n] = @ + 1] ELSE [g EXCEPT !.panic = TRUE]

NodeReleaseKeep(g, n) ==
    IF n = NoNode THEN g
    ELSE IF n \notin DOMAIN g.nodes THEN [g EXCEPT !.panic = TRUE]
    ELSE IF g.nodes[n] > 1 THEN [g EXCEPT !.nodes[n] = @ - 1]
    ELSE [g EXCEPT !.nodes = [m \in DOMAIN @ \ {n} |-> @[m]]]

NodeRelease(g, n) ==
    IF n = NoNode THEN g
    ELSE IF n \notin DOMAIN g.nodes THEN [g EXCEPT !.panic = TRUE]
    ELSE IF g.nodes[n] > 1 THEN [g EXCEPT !.nodes[n] = @ - 1]
    ELSE FoldSet(LAMBDA a, acc : CsRelease(acc, a), [g EXCEPT !.nodes = [m \in DOMAIN @ \ {n} |-> @[m]]], SetsOf(n))

(* addPorts: a node with one reference, the service's.                     *)
AddPorts(g, n) ==
    FoldSet(LAMBDA a, acc : CsRetain(acc, a),
            [g EXCEPT !.nodes = (n :> 1) @@ @], SetsOf(n))

(* populateFromConf: hosts whose lookup fails are left out.                *)
Populate(g, hosts, ver) == FoldSet(LAMBDA h, acc : AddPorts(acc, <<h, ver>>), g, hosts)
NodesOf(hosts, ver) == LET s == SetToSeq(hosts) IN [i \in 1 .. Len(s) |-> <<s[i], ver>>]
----------------------------------------------------------------------------
(* sbalance: an iterator over the service's nodes.  Costs are left to the  *)
(* choice of the first node and of the order of the others.                *)
SbNewConn ==
    {[first |-> first, rc |-> <<>>, retries |-> gpMix.retries, last |-> 0, n |-> Len(gpSrv.nodes)] :
        first \in IF gpMix.strat = "seq" THEN {1} ELSE 1 .. Max({1, Len(gpSrv.nodes)})}

SeqNext(it) ==
    CASE it.retries >= 0 /\ it.last < it.n -> [it EXCEPT !.last = @ + 1]
      [] it.retries > 0 /\ it.last = it.n /\ it.n > 0 -> [it EXCEPT !.last = 1, !.retries = @ - 1]
      [] OTHER -> [it EXCEPT !.last = 0, !.retries = -1]

RcycleNextNoRetry(it, perm) ==
    IF it.first \in 1 .. Len(gpSrv.nodes) THEN [it EXCEPT !.last = it.first, !.first = 0] ELSE [it EXCEPT !.last = 0]

RcycleNext(it, perm) ==
    LET rest == [it EXCEPT !.first = 0]
    IN  CASE it.first \in 1 .. Len(gpSrv.nodes) -> [rest EXCEPT !.last = it.first]
          [] it.first = 0 /\ it.rc # <<>> -> [rest EXCEPT !.last = Head(it.rc), !.rc = Tail(@)]
          [] it.rc = <<>> /\ it.retries > 0 /\ perm # <<>> ->
               [rest EXCEPT !.last = Head(perm), !.rc = Tail(perm), !.retries = @ - 1]
          [] OTHER -> [rest EXCEPT !.last = 0, !.retries = 0]

SbNext(it) ==
    IF gpMix.strat = "seq" THEN {SeqNext(it)}
    ELSE {RcycleNext(it, perm) : perm \in SetToSeqs(1 .. Len(gpSrv.nodes))}
----------------------------------------------------------------------------
(* conn: the walk over ports and nodes.                                    *)
NextPort(t, n, i) ==
    LET found == {j \in i + 1 .. Len(Wanted[t]) : Wanted[t][j] \in PortsOf(n[1])}
    IN  IF found = {} THEN Len(Wanted[t]) + 1 ELSE Min(found)

MovePort(t, st) ==
    LET i == NextPort(t, st.c.node, st.c.port)
        a == <<st.c.node[1], Wanted[t][i]>>
        g == CsRelease(st.g, st.c.cs)
    IN  IF st.c.node = NoNode /\ st.c.port < Len(Wanted[t]) THEN [st EXCEPT !.g.panic = TRUE]
        ELSE IF st.c.node = NoNode \/ i > Len(Wanted[t]) THEN [g |-> g, c |-> [st.c EXCEPT !.port = Len(Wanted[t]) + 1, !.cs = NoSet]]
        ELSE [g |-> CsRetain(g, a), c |-> [st.c EXCEPT !.port = i, !.cs = a]]

(* moveNode, after the connection set is dropped: where it may end.        *)
RECURSIVE WalkNodes(_, _)
WalkNodes(t, st) == UNION {
    LET g == NodeRelease(st.g, st.c.node)
        n == gpSrv.nodes[it.last]
        at == MovePort(t, [g |-> NodeRetain(g, n),
                           c |-> [st.c EXCEPT !.it = it, !.node = n, !.port = 0, !.tried = @ \cup {it.last}]])
    IN  IF it.last = 0 THEN {[g |-> g, c |-> [st.c EXCEPT !.it = it, !.node = NoNode]]}
        ELSE UNION {IF s.c.cs # NoSet \/ s.g.panic THEN {s} ELSE WalkNodes(t, s) : s \in {at}}
    : it \in SbNext(st.c.it)}

MoveNode(t, st) == WalkNodes(t, [g |-> CsRelease(st.g, st.c.cs), c |-> [st.c EXCEPT !.cs = NoSet]])

(* findConnset: the balancer's service may have been replaced.             *)
FindConnset(t, st) ==
    LET new == {[g |-> CsRelease(st.g, st.c.cs),
                 c |-> [st.c EXCEPT !.sb = gpSrv.ver, !.it = it, !.fresh = FALSE, !.cs = NoSet, !.tried = {}, !.again = FALSE]] :
                   it \in SbNewConn}
    IN  CASE st.c.sb # gpSrv.ver -> UNION {MoveNode(t, s) : s \in new}
          [] st.c.sb = gpSrv.ver /\ st.c.cs = NoSet -> MoveNode(t, st)
          [] st.c.sb = gpSrv.ver /\ st.c.cs # NoSet /\ ~st.c.fresh -> {st}
          [] st.c.sb = gpSrv.ver /\ st.c.cs # NoSet /\ st.c.fresh ->
               UNION {IF s.c.cs # NoSet THEN {s} ELSE MoveNode(t, s) : s \in {MovePort(t, st)}}
----------------------------------------------------------------------------
NewHandle == [pc |-> "idle", sb |-> -1, it |-> [first |-> 0, rc |-> <<>>, retries |-> 0, last |-> 0, n |-> 0],
              node |-> NoNode, cs |-> NoSet, port |-> 0, fresh |-> FALSE, net |-> 0,
              tried |-> {}, again |-> FALSE]

Set(t, c) == gpConn' = [gpConn EXCEPT ![t] = c]
Goto(t, pc) == Set(t, [gpConn[t] EXCEPT !.pc = pc])

Call ==
    /\ gpLeft.calls > 0
    /\ gpLeft' = [gpLeft EXCEPT !.calls = @ - 1]

(* getService: a service without nodes.                                    *)
GetService == gpSrv' = IF gpSrv.ver = -1 THEN [gpSrv EXCEPT !.ver = 0] ELSE gpSrv

(* connectSd, which starts the reader; a service that no source takes is   *)
(* no error.                                                               *)
ConnectSd ==
    /\ gpSrv' = [gpSrv EXCEPT !.sd = TRUE]
    /\ gpReader' = [gpReader EXCEPT !.pc = "idle"]

NewConn(t) ==
    /\ gpConn[t].pc = "idle"
    /\ Call
    /\ IF gpSrv.ver # -1
       THEN Set(t, [NewHandle EXCEPT !.pc = "find"]) /\ UNCHANGED gpSrv
       ELSE gpMix.sd /\ Set(t, [NewHandle EXCEPT !.pc = "connect"]) /\ GetService
    /\ UNCHANGED <<gpMix, gp, gpLock, gpAdder, gpReader>>

NewConnSd(t) ==
    /\ gpConn[t].pc = "connect"
    /\ gpLock = "none"
    /\ IF gpSrv.sd THEN Goto(t, "wait") /\ UNCHANGED <<gpSrv, gpReader>>
       ELSE \/ ConnectSd /\ Goto(t, "wait")
            \/ (Goto(t, "wait") \/ Set(t, NewHandle)) /\ UNCHANGED <<gpSrv, gpReader>>
    /\ UNCHANGED <<gpMix, gp, gpLock, gpAdder, gpLeft>>

(* initialWait: the first hosts, or a second without them.                 *)
InitialWait(t) ==
    /\ gpConn[t].pc = "wait"
    /\ Goto(t, "find")
    /\ UNCHANGED <<gpMix, gp, gpSrv, gpLock, gpAdder, gpReader, gpLeft>>

Find(t) ==
    /\ gpConn[t].pc = "find"
    /\ gpLock = "none"
    /\ \E r \in FindConnset(t, [g |-> gp, c |-> gpConn[t]]) :
         /\ gp' = r.g
         /\ Set(t, [r.c EXCEPT !.pc = IF r.c.cs = NoSet THEN "failed" ELSE "look"])
    /\ UNCHANGED <<gpMix, gpSrv, gpLock, gpAdder, gpReader, gpLeft>>

(* The connections of the set that the other end has closed are dropped.   *)
LookKeep(t) ==
    LET a == gpConn[t].cs
        conns == gp.sets[a].conns
    IN  /\ gpConn[t].pc = "look"
        /\ \E dead \in 0 .. Len(conns) :
             /\ gp' = [gp EXCEPT !.sets[a].conns = SubSeq(conns, dead + 1, Len(conns)),
                                 !.open = @ \ {conns[i] : i \in 1 .. dead}]
             /\ IF dead < Len(conns)
                THEN Set(t, [gpConn[t] EXCEPT !.pc = "open", !.net = conns[dead + 1], !.fresh = FALSE])
                ELSE Set(t, [gpConn[t] EXCEPT !.pc = "dial", !.fresh = TRUE])
        /\ UNCHANGED <<gpMix, gpSrv, gpLock, gpAdder, gpReader, gpLeft>>

Look(t) ==
    LET a == gpConn[t].cs
        conns == gp.sets[a].conns
    IN  /\ gpConn[t].pc = "look"
        /\ \E dead \in 0 .. Len(conns) :
             /\ gp' = [gp EXCEPT !.sets[a].conns = SubSeq(conns, dead + 2, Len(conns)),
                                 !.open = @ \ {conns[i] : i \in 1 .. dead}]
             /\ IF dead < Len(conns)
                THEN Set(t, [gpConn[t] EXCEPT !.pc = "open", !.net = conns[dead + 1], !.fresh = FALSE])
                ELSE Set(t, [gpConn[t] EXCEPT !.pc = "dial", !.fresh = TRUE])
        /\ UNCHANGED <<gpMix, gpSrv, gpLock, gpAdder, gpReader, gpLeft>>

Free == 1 .. MaxNets \ (gp.open \cup UNION {Range(gp.sets[a].conns) : a \in Addrs} \cup {gpConn[t].net : t \in GoClients})

Dial(t) ==
    /\ gpConn[t].pc = "dial"
    /\ \/ /\ Free # {}
          /\ gp' = [gp EXCEPT !.open = @ \cup {Min(Free)}]
          /\ Set(t, [gpConn[t] EXCEPT !.pc = "open", !.net = Min(Free)])
       \/ Goto(t, "find") /\ UNCHANGED gp
    /\ UNCHANGED <<gpMix, gpSrv, gpLock, gpAdder, gpReader, gpLeft>>

(* Next, and Reset of a connection that is open.                           *)
Next(t) ==
    /\ gpConn[t].pc = "open"
    /\ Call
    /\ Set(t, [gpConn[t] EXCEPT !.pc = "find", !.net = 0])
    /\ gp' = [gp EXCEPT !.open = @ \ {gpConn[t].net}]
    /\ UNCHANGED <<gpMix, gpSrv, gpLock, gpAdder, gpReader>>

(* Reset after an error: the iterator is not a new one.                    *)
Reset(t) ==
    /\ gpConn[t].pc = "failed"
    /\ Call
    /\ Set(t, [gpConn[t] EXCEPT !.pc = "find", !.tried = {}, !.again = TRUE])
    /\ UNCHANGED <<gpMix, gp, gpSrv, gpLock, gpAdder, gpReader>>

(* Put gives the connection back and then drops its references.            *)
Put(t) ==
    /\ gpConn[t].pc = "open"
    /\ Set(t, [gpConn[t] EXCEPT !.pc = "put", !.net = 0])
    /\ gp' = [gp EXCEPT !.sets[gpConn[t].cs].conns = Append(@, gpConn[t].net)]
    /\ UNCHANGED <<gpMix, gpSrv, gpLock, gpAdder, gpReader, gpLeft>>

PutConnset(t) ==
    /\ gpConn[t].pc = "put"
    /\ gp' = CsRelease(gp, gpConn[t].cs)
    /\ Goto(t, "putnode")
    /\ UNCHANGED <<gpMix, gpSrv, gpLock, gpAdder, gpReader, gpLeft>>

PutNode(t) ==
    /\ gpConn[t].pc = "putnode"
    /\ gp' = NodeRelease(gp, gpConn[t].node)
    /\ Set(t, NewHandle)
    /\ UNCHANGED <<gpMix, gpSrv, gpLock, gpAdder, gpReader, gpLeft>>

Close(t) ==
    /\ gpConn[t].pc = "open"
    /\ gp' = CsRelease(gp, gpConn[t].cs)
    /\ Set(t, [gpConn[t] EXCEPT !.pc = "closing", !.cs = NoSet])
    /\ UNCHANGED <<gpMix, gpSrv, gpLock, gpAdder, gpReader, gpLeft>>

CloseNode(t) ==
    /\ gpConn[t].pc = "closing"
    /\ gp' = [NodeRelease(gp, gpConn[t].node) EXCEPT !.open = @ \ {gpConn[t].net}]
    /\ Set(t, NewHandle)
    /\ UNCHANGED <<gpMix, gpSrv, gpLock, gpAdder, gpReader, gpLeft>>

ClientStep(t) == InitialWait(t) \/ NewConnSd(t) \/ Find(t) \/ Look(t) \/ Dial(t) \/ PutConnset(t) \/ PutNode(t)
                 \/ CloseNode(t)
----------------------------------------------------------------------------
(* AddConfig and AddSingle.  A service that has nodes is not added again.  *)
AddConfig ==
    /\ gpAdder = "start"
    /\ GetService
    /\ gpAdder' \in IF Len(gpSrv.nodes) > 0 THEN {"done"} ELSE {"config"}
    /\ UNCHANGED <<gpMix, gp, gpLock, gpConn, gpReader, gpLeft>>

AddSingle ==
    /\ gpAdder = "start"
    /\ GetService
    /\ gpAdder' = "single"
    /\ UNCHANGED <<gpMix, gp, gpLock, gpConn, gpReader, gpLeft>>

(* With the lock: the nodes, and a source unless the service has one; the  *)
(* lock is kept while the first hosts are waited for.                      *)
AddLocked ==
    /\ gpAdder \in {"config", "single"}
    /\ gpLock = "none"
    /\ \E hosts \in IF gpAdder = "single" THEN {{Single}} ELSE gpMix.hosts :
         LET srv == [gpSrv EXCEPT !.nodes = @ \o NodesOf(hosts, 0)]
         IN  /\ gp' = Populate(gp, hosts, 0)
             /\ \/ /\ gpMix.sd /\ ~gpSrv.sd
                   /\ gpSrv' = [srv EXCEPT !.sd = TRUE]
                   /\ gpReader' = [gpReader EXCEPT !.pc = "idle"]
                   /\ gpLock' = "adder"
                   /\ gpAdder' = "wait"
                \/ /\ gpMix.sd /\ ~gpSrv.sd
                   /\ gpSrv' = srv
                   /\ gpLock' = "adder"
                   /\ gpAdder' = "wait"
                   /\ UNCHANGED gpReader
                \/ /\ gpSrv' = srv
                   /\ gpAdder' = "done"
                   /\ UNCHANGED <<gpReader, gpLock>>
    /\ UNCHANGED <<gpMix, gpConn, gpLeft>>

(* initialWait in AddConfig: the reader cannot have put the hosts in place *)
(* while the lock is held.                                                 *)
AddWait ==
    /\ gpAdder = "wait"
    /\ gpSrv.ver > 0
    /\ gpAdder' = "done"
    /\ gpLock' = "none"
    /\ UNCHANGED <<gpMix, gp, gpSrv, gpConn, gpReader, gpLeft>>

AddTimeout ==
    /\ gpAdder = "wait"
    /\ gpAdder' = "done"
    /\ gpLock' = "none"
    /\ UNCHANGED <<gpMix, gp, gpSrv, gpConn, gpReader, gpLeft>>
----------------------------------------------------------------------------
Message ==
    /\ gpReader.pc = "idle"
    /\ gpLeft.msgs > 0
    /\ gpLeft' = [gpLeft EXCEPT !.msgs = @ - 1]

(* readSd: the hosts with a configuration and those that are not disabled, *)
(* which a host is until its health is known.                              *)
SdMessage(r, m) ==
    CASE m[1] = "config" -> [r EXCEPT !.conf = @ \cup {m[2]}]
      [] m[1] = "up" -> [r EXCEPT !.up = @ \cup {m[2]}]
      [] m[1] = "down" -> [r EXCEPT !.up = @ \ {m[2]}]
      [] m[1] = "delete" -> [r EXCEPT !.conf = @ \ {m[2]}, !.up = @ \ {m[2]}]
      [] m[1] = "flush" -> [r EXCEPT !.conf = {}, !.up = {}]

(* A batch up to its end.                                                  *)
ReadSd ==
    /\ gpMix.sd
    /\ Message
    /\ \E batch \in Batches :
         LET r == FoldLeft(SdMessage, gpReader, batch)
         IN  gpReader' = [r EXCEPT !.pc = "update", !.hosts = r.conf \cap r.up]
    /\ UNCHANGED <<gpMix, gp, gpSrv, gpLock, gpConn, gpAdder>>

(* The application calls UpdateHostsConfig itself.                         *)
UpdateHosts ==
    /\ ~gpMix.sd
    /\ gpSrv.ver # -1
    /\ Message
    /\ \E hosts \in gpMix.hosts : gpReader' = [gpReader EXCEPT !.pc = "update", !.hosts = hosts]
    /\ UNCHANGED <<gpMix, gp, gpSrv, gpLock, gpConn, gpAdder>>

(* The new balancer.  When a lookup fails, what was added to it is kept by *)
(* nobody; when there is no host, nothing is done.  A lookup that fails is *)
(* in the last of the updates.                                             *)
UpdatePopulate ==
    /\ gpReader.pc = "update"
    /\ \/ /\ gp' = Populate(gp, gpReader.hosts, gpReader.ver + 1)
          /\ UNCHANGED gpLeft
          /\ gpReader' = [gpReader EXCEPT !.pc = IF gpReader.hosts = {} THEN "idle" ELSE "swap", !.ver = @ + 1]
       \/ /\ \E bad \in SUBSET gpReader.hosts \ {{}} : gp' = Populate(gp, gpReader.hosts \ bad, gpReader.ver + 1)
          /\ gpReader' = [gpReader EXCEPT !.pc = "idle", !.hosts = {}, !.ver = @ + 1, !.leaked = TRUE]
          /\ gpLeft' = [gpLeft EXCEPT !.msgs = 0]
    /\ UNCHANGED <<gpMix, gpSrv, gpLock, gpConn, gpAdder>>

Swap ==
    /\ gpReader.pc = "swap"
    /\ gpLock = "none"
    /\ gpSrv' = [gpSrv EXCEPT !.nodes = NodesOf(gpReader.hosts, gpReader.ver), !.ver = gpReader.ver]
    /\ gpReader' = [gpReader EXCEPT !.pc = "release", !.old = gpSrv.nodes]
    /\ UNCHANGED <<gpMix, gp, gpLock, gpConn, gpAdder, gpLeft>>

(* The nodes of the old balancer, and then the first hosts are announced.  *)
ReleaseOld ==
    /\ gpReader.pc = "release"
    /\ IF gpReader.old = <<>>
       THEN gpReader' = [gpReader EXCEPT !.pc = "idle", !.hosts = {}] /\ UNCHANGED gp
       ELSE gpReader' = [gpReader EXCEPT !.old = Tail(@)] /\ gp' = NodeRelease(gp, Head(gpReader.old))
    /\ UNCHANGED <<gpMix, gpSrv, gpLock, gpConn, gpAdder, gpLeft>>

UpdateStep == UpdatePopulate \/ Swap \/ ReleaseOld
----------------------------------------------------------------------------
GpInit ==
    /\ gpMix \in Mixes
    /\ gp = [nodes |-> <<>>, sets |-> [a \in Addrs |-> [refs |-> 0, conns |-> <<>>]], open |-> {},
             panic |-> FALSE]
    /\ gpSrv = [ver |-> -1, nodes |-> <<>>, sd |-> FALSE]
    /\ gpLock = "none"
    /\ gpConn = [t \in GoClients |-> NewHandle]
    /\ gpAdder = "start"
    /\ gpReader = [pc |-> IF gpMix.sd THEN "off" ELSE "idle", hosts |-> {}, conf |-> {}, up |-> {}, ver |-> 0,
                   old |-> <<>>, leaked |-> FALSE]
    /\ gpLeft = [calls |-> MaxCalls, msgs |-> gpMix.msgs]

GpNext ==
    /\ ~gp.panic
    /\ \/ \E t \in gpMix.users : ClientStep(t) \/ NewConn(t) \/ Next(t) \/ Reset(t) \/ Put(t) \/ Close(t)
       \/ AddConfig \/ AddSingle \/ AddLocked \/ AddTimeout
       \/ ReadSd \/ UpdateHosts \/ UpdateStep

(* The goroutines of updates run, timers fire, and a mutex is given to who *)
(* waits.                                                                  *)
GpFairness ==
    /\ WF_gpvars(AddLocked \/ AddTimeout)
    /\ WF_gpvars(UpdateStep)
----------------------------------------------------------------------------
Holders(a) == {n \in DOMAIN gp.nodes : a \in SetsOf(n)}
Users(a) == {t \in GoClients : gpConn[t].cs = a /\ gpConn[t].pc # "putnode"}
Listed == Range(gpSrv.nodes) \cup Range(gpReader.old)
          \cup (IF gpReader.pc = "swap" THEN Range(NodesOf(gpReader.hosts, gpReader.ver)) ELSE {})

(* A connection set has one reference for each node that it belongs to and *)
(* one for each connection that uses it, so that it is closed neither      *)
(* under a user nor never.  No reference is dropped twice (Release panics, *)
(* "Double close of fdConnSet") whatever an update does meanwhile; and a   *)
(* node is kept by the service, by an update on its way or by a            *)
(* connection, some after a lookup that failed excepted, which nobody      *)
(* keeps.                                                                  *)
RefsExact ==
    /\ \A a \in Addrs : gp.sets[a].refs = Cardinality(Holders(a)) + Cardinality(Users(a))
    /\ ~gp.panic
    /\ gpReader.leaked \/ \A n \in DOMAIN gp.nodes : n \in Listed \/ \E t \in GoClients : gpConn[t].node = n

(* An open connection is in one place: in the hands of one goroutine or in *)
(* one set that is still in use; nothing that is closed is handed out.     *)
OneHolder ==
    LET held(k) == {t \in GoClients : gpConn[t].net = k}
        kept(k) == {a \in Addrs : k \in Range(gp.sets[a].conns)}
    IN  \A k \in 1 .. MaxNets :
          /\ k \in gp.open => Cardinality(held(k)) + Cardinality(kept(k)) = 1
          /\ k \notin gp.open => held(k) = {} /\ kept(k) = {}
          /\ \A a \in kept(k) : gp.sets[a].refs > 0

(* A connection gives up only after it has been to each node that the      *)
(* service had when it began with it, with two exceptions that the code    *)
(* has.  The random strategy without retries, which AddSingle and a        *)
(* configuration may ask for, goes to the node picked by cost and to no    *)
(* other, although Retries counts repetitions of "the whole set of nodes"  *)
(* (sbalance.go:38).  And a Reset of a connection that has given up does   *)
(* not "start over from the start" (interface.go:54): it goes on with the  *)
(* exhausted iterator and finds nothing, unless the nodes were replaced.   *)
AllTried == \A t \in GoClients : gpConn[t].pc = "failed" /\ gpConn[t].sb = gpSrv.ver =>
    CASE gpConn[t].again -> gpConn[t].tried = {}
      [] ~gpConn[t].again /\ gpMix.strat = "random" /\ gpMix.retries = 0 ->
           gpConn[t].it.n > 0 => Cardinality(gpConn[t].tried) = 1
      [] OTHER -> 1 .. gpConn[t].it.n \subseteq gpConn[t].tried

(* The hosts of a batch are put in place: the wait for the first ones,     *)
(* which has the lock, ends by itself.                                     *)
SdApplied == gpReader.pc = "swap" ~> gpReader.pc = "idle"
=============================================================================
