----------------------------- MODULE SdRegistry -----------------------------
(***************************************************************************)
(* core/lib/sd_registry.c with its two kinds of sources, sd_etcd.c and     *)
(* sd_reload.c: sources are set up from the configuration, services of the *)
(* pool connect to one of them and disconnect when the pool is freed.  The *)
(* calls for one service hold its sblock, those for different services     *)
(* interleave.  A URL is its place in the order of the keys of             *)
(* source_data.                                                            *)
(***************************************************************************)
EXTENDS Integers, FiniteSets

CONSTANTS
    RgServices,  \* names of services
    RgUrls,      \* etcd URLs, as numbers from 1
    RgDotted,    \* the URLs that have dots in them
    RgSetups     \* bound on the watchers set up for one URL

ASSUME RgAssumption == RgUrls \subseteq Nat \ {0} /\ RgDotted \subseteq RgUrls /\ RgSetups \in Nat

VARIABLES
    rgUp,        \* "up", "freed" after sd_registry_free, or "crashed"
    rgData,      \* source_data: kind, value and instance of every source
    rgWatchers,  \* etcd watchers that run
    rgConns,     \* what sources have connected: listeners and reload threads
    rgSvc,       \* per service: the connect call, then its struct sdr_conn
    rgBoth       \* history: services for which both kinds were asked to grab

rgvars == <<rgUp, rgData, rgWatchers, rgConns, rgSvc, rgBoth>>

NoUrl == 0
NoWatcher == [url |-> NoUrl, n |-> 0]
Kinds == {"etcd", "reload"}

\* The sd part of a node: its etcd_url, whether it has a reload_s, and
\* whether it has merge and hosts as well.
RgNodes == {node \in [url : RgUrls \cup {NoUrl}, reload : BOOLEAN, hosts : BOOLEAN] : node.hosts => node.reload}
NullNode == [url |-> NoUrl, reload |-> FALSE, hosts |-> FALSE]

Wants(node, kind) == IF kind = "etcd" THEN node.url # NoUrl ELSE node.reload
ValueOf(node, kind) == IF kind = "etcd" THEN node.url ELSE 1

\* src and queue are empty for NULL.
RgFree == [pc |-> "idle", node |-> NullNode, todo |-> {}, type |-> "none", src |-> {}, queue |-> {}]

\* bconf_vget takes a value with dots apart, and finds nothing.
SourceFound(kind, value) ==
    {e \in rgData : e.kind = kind /\ e.value = value /\ ~(kind = "etcd" /\ value \in RgDotted)}

\* sd_etcd_setup: a watcher that runs, or none when it cannot be started.
EtcdSetup(url) == {{}, {[url |-> url, n |-> Cardinality({w \in rgWatchers : w.url = url}) + 1]}}

\* sd_reload_setup has nothing to set up.
ReloadSources(node) == IF node.reload THEN {[kind |-> "reload", value |-> 1, data |-> NoWatcher]} ELSE {}

\* sd_registry_add_sources, under the lock of the registry.
AddSources(node) ==
    LET added == node.url = NoUrl \/ SourceFound("etcd", node.url) # {} IN
    \E new \in IF added THEN {{}} ELSE EtcdSetup(node.url) :
        /\ \A w \in new : w.n <= RgSetups
        /\ rgWatchers' = rgWatchers \cup new
        /\ rgData' = {e \in rgData : ~(e.kind = "etcd" /\ e.value = node.url /\ new # {})}
                        \cup {[kind |-> "etcd", value |-> w.url, data |-> w] : w \in new}
                        \cup ReloadSources(node)

RgInit ==
    /\ rgUp = "up" /\ rgData = {} /\ rgWatchers = {} /\ rgConns = {} /\ rgBoth = {}
    /\ rgSvc = [s \in RgServices |-> RgFree]

RgIdle == rgUp = "freed" /\ rgData = {} /\ rgWatchers = {} /\ rgConns = {} /\ rgBoth = {} /\ rgSvc = <<>>

\* papp_init_sdr, before there is a pool.
InitSdr(node) ==
    /\ rgUp = "up" /\ rgData = {} /\ \A s \in RgServices : rgSvc[s] = RgFree
    /\ AddSources(node)
    /\ UNCHANGED <<rgUp, rgConns, rgSvc, rgBoth>>

\* fd_pool_add_config up to the call of sd_registry_connect_fd_pool.
ConnectConfig(s, node) ==
    /\ rgUp = "up" /\ rgSvc[s].pc = "idle"
    /\ AddSources(node)
    /\ rgSvc' = [rgSvc EXCEPT ![s] = [RgFree EXCEPT !.pc = "match", !.node = node,
                                                    !.todo = {kind \in Kinds : Wants(node, kind)}]]
    /\ UNCHANGED <<rgUp, rgConns, rgBoth>>

\* fd_pool_add_single, fd_pool_add_unix and fd_pool_new_conn have no node.
ConnectPlain(s) ==
    /\ rgUp = "up" /\ rgSvc[s].pc = "idle"
    /\ rgSvc' = [rgSvc EXCEPT ![s].pc = "grab"]
    /\ UNCHANGED <<rgUp, rgData, rgWatchers, rgConns, rgBoth>>

\* sd_etcd_connect always adds a listener.
EtcdConnect(s, watcher) == {{[svc |-> s, kind |-> "etcd", data |-> watcher]}}

\* sd_reload_connect wants all of its settings in the node, and may fail to
\* start its thread.
ReloadConnect(s) ==
    {{}} \cup IF rgSvc[s].node.reload /\ rgSvc[s].node.hosts
              THEN {{[svc |-> s, kind |-> "reload", data |-> NoWatcher]}} ELSE {}

\* What a source may answer to connect.
Granted(s, e) == IF e.kind = "etcd" THEN EtcdConnect(s, e.data) ELSE ReloadConnect(s)

\* The first pass: a source that the node names.  The order of the kinds is
\* that of the linker.
Match(s) == \E kind \in rgSvc[s].todo :
    LET found == SourceFound(kind, ValueOf(rgSvc[s].node, kind)) IN
    /\ rgUp = "up" /\ rgSvc[s].pc = "match"
    /\ \E granted \in IF found = {} THEN {{}} ELSE UNION {Granted(s, e) : e \in found} :
        /\ rgConns' = rgConns \cup granted
        /\ rgSvc' = [rgSvc EXCEPT ![s].todo = @ \ {kind},
                                  ![s].pc = IF granted = {} THEN @ ELSE "start",
                                  ![s].type = IF found = {} THEN @ ELSE kind,
                                  ![s].src = IF found = {} THEN @ ELSE granted,
                                  ![s].queue = granted]
    /\ UNCHANGED <<rgUp, rgData, rgWatchers, rgBoth>>

\* No source that the node names has granted a queue.
NoMatch(s) ==
    /\ rgUp = "up" /\ rgSvc[s].pc = "match" /\ rgSvc[s].todo = {}
    /\ rgSvc' = [rgSvc EXCEPT ![s].pc = "grab"]
    /\ UNCHANGED <<rgUp, rgData, rgWatchers, rgConns, rgBoth>>

\* The second pass, under the lock of the registry.  A queue ends the loop
\* over the sources of its kind only: the next kind is asked as well, and its
\* answer replaces type and src, its queue the one there was.
Grab(s) ==
    LET sources(kind) == {e \in rgData : e.kind = kind}
        asked == {kind \in Kinds : sources(kind) # {}}
        first(kind) == CHOOSE e \in sources(kind) : \A o \in sources(kind) : e.value <= o.value
        answers(kind) == IF kind \in asked THEN Granted(s, first(kind)) ELSE {{}} IN
    /\ rgUp = "up" /\ rgSvc[s].pc = "grab"
    /\ \E etcd \in answers("etcd"), reload \in answers("reload") :
        /\ rgConns' = rgConns \cup etcd \cup reload
        /\ rgSvc' = [rgSvc EXCEPT ![s] =
                        IF etcd \cup reload = {} THEN RgFree
                        ELSE [@ EXCEPT !.pc = "start",
                                       !.type = IF "reload" \in asked THEN "reload" ELSE "etcd",
                                       !.src = IF "reload" \in asked THEN reload ELSE etcd,
                                       !.queue = IF reload # {} THEN reload ELSE etcd]]
    /\ rgBoth' = IF asked = Kinds THEN rgBoth \cup {s} ELSE rgBoth
    /\ UNCHANGED <<rgUp, rgData, rgWatchers>>

\* fd_pool_sd_create and fd_pool_sd_start: the thread that reads the queue.
StartFps(s) ==
    /\ rgUp = "up" /\ rgSvc[s].pc = "start"
    /\ rgSvc' = [rgSvc EXCEPT ![s].pc = "connected", ![s].node = NullNode, ![s].todo = {}]
    /\ UNCHANGED <<rgUp, rgData, rgWatchers, rgConns, rgBoth>>

\* Mutant of StartFailed: the source stays connected.
StartFailedKept(s) ==
    /\ rgUp = "up" /\ rgSvc[s].pc = "start"
    /\ rgSvc' = [rgSvc EXCEPT ![s] = RgFree]
    /\ UNCHANGED <<rgUp, rgData, rgWatchers, rgConns, rgBoth>>

\* The thread could not be started.  running is still true, so that
\* fd_pool_sd_free joins a thread that there is not: that crashes or fails.
StartFailed(s) ==
    /\ rgUp = "up" /\ rgSvc[s].pc = "start"
    /\ rgUp' \in {"up", "crashed"}
    /\ rgConns' = rgConns \ rgSvc[s].src
    /\ rgSvc' = [rgSvc EXCEPT ![s] = RgFree]
    /\ UNCHANGED <<rgData, rgWatchers, rgBoth>>

\* sd_registry_disconnect, from fd_pool_free: the thread is joined.
FreeFps(s) ==
    /\ rgUp = "up" /\ rgSvc[s].pc = "connected"
    /\ rgSvc' = [rgSvc EXCEPT ![s].pc = "joined"]
    /\ UNCHANGED <<rgUp, rgData, rgWatchers, rgConns, rgBoth>>

\* sd_etcd_disconnect: a listener the watcher does not have is ignored.
EtcdDisconnect(s) == rgConns' = rgConns \ rgSvc[s].src /\ UNCHANGED rgUp

\* sd_reload_disconnect takes the thread to cancel out of src.
ReloadDisconnect(s) ==
    /\ rgConns' = rgConns \ rgSvc[s].src
    /\ rgUp' = IF rgSvc[s].src = {} THEN "crashed" ELSE rgUp

\* The end of sd_registry_disconnect.
SdDisconnect(s) ==
    /\ rgUp = "up" /\ rgSvc[s].pc = "joined"
    /\ IF rgSvc[s].type = "etcd" THEN EtcdDisconnect(s) ELSE ReloadDisconnect(s)
    /\ rgSvc' = [rgSvc EXCEPT ![s] = [RgFree EXCEPT !.pc = "gone"]]
    /\ UNCHANGED <<rgData, rgWatchers, rgBoth>>

\* sd_registry_free, after the pool: the watchers of source_data end, with the
\* listeners they have left.
FreeRegistry ==
    /\ rgUp = "up" /\ \A s \in RgServices : rgSvc[s].pc \in {"idle", "gone"}
    /\ rgUp' = "freed"
    /\ rgData' = {}
    /\ rgWatchers' = rgWatchers \ {e.data : e \in rgData}
    /\ rgConns' = {c \in rgConns : c.kind = "etcd" => c.data \notin {e.data : e \in rgData}}
    /\ UNCHANGED <<rgSvc, rgBoth>>

RgNext ==
    \/ \E node \in RgNodes : InitSdr(node)
    \/ \E s \in RgServices, node \in RgNodes : ConnectConfig(s, node)
    \/ \E s \in RgServices : ConnectPlain(s) \/ Match(s) \/ NoMatch(s) \/ Grab(s)
    \/ \E s \in RgServices : StartFps(s) \/ StartFailed(s) \/ FreeFps(s) \/ SdDisconnect(s)
    \/ FreeRegistry

RgSpec == RgInit /\ [][RgNext]_rgvars
-----------------------------------------------------------------------------
(* What sources have connected for a service that asked one kind is what   *)
(* the service holds and will disconnect.                                  *)
ConnsHeld == \A c \in rgConns : c.svc \notin rgBoth => rgSvc[c.svc].src = {c} /\ rgSvc[c.svc].type = c.kind

(* The thread of the pool reads a queue that exists, of a watcher that     *)
(* runs, from its start until it is joined.                                *)
ReadsLive == \A s \in RgServices : rgUp = "up" /\ rgSvc[s].pc \in {"start", "connected"} =>
    /\ rgSvc[s].queue # {} /\ rgSvc[s].queue \subseteq rgConns
    /\ \A c \in rgSvc[s].queue : c.kind = "etcd" => c.data \in rgWatchers

(* Every watcher is in source_data, where sd_registry_free finds it; only  *)
(* for a URL with dots the next set up replaces it there.                  *)
WatchersKnown == \A w \in rgWatchers :
    w.url \notin RgDotted => [kind |-> "etcd", value |-> w.url, data |-> w] \in rgData

(* Connecting, failing to connect and freeing leave nothing behind and     *)
(* nothing dangling, whichever sources are configured by whom and when     *)
(* (sd_registry_connect_fd_pool, sd_registry_disconnect, sd_registry_free).*)
SourcesReleased == rgUp # "crashed" /\ rgSvc # <<>> => ConnsHeld /\ ReadsLive /\ WatchersKnown
=============================================================================
