---------------------------- MODULE EtcdWatcher -----------------------------
(***************************************************************************)
(* The etcd client (core/lib/etcdclient.c): a thread fetches the keys      *)
(* below a prefix, then watches for changes, one answer at a time, and     *)
(* hands the values to the queues of its listeners.  New listeners and     *)
(* periodic flushes interrupt the watch with a fetch.                      *)
(*                                                                         *)
(* A queue is what SdFeed says of it: pub is the configuration it has      *)
(* published, and its lock is held from begin to commit.  A key stands     *)
(* for the directory of a host; a change sets or deletes it.               *)
(***************************************************************************)
EXTENDS Integers, Sequences, SequencesExt, FiniteSets

CONSTANTS
  Keys, Vals,
  Listeners,     \* who may listen
  Below,         \* [Listeners -> SUBSET Keys]: the keys below l->path
  Early,         \* listeners that are added before the thread is started
  History,       \* how many events the server remembers
  Flushes,       \* whether etcdwatcher_set_flush_period was called
  BodyFails,     \* whether a transfer may fail after its headers
  MaxIndex,      \* bound: changes of the server
  MaxTrouble,    \* bound: failed transfers and flushes
  MaxAdd,        \* bound: calls of etcdwatcher_add_listen
  NULL

ASSUME WatchBounds == {MaxIndex, MaxTrouble, MaxAdd, History} \subseteq Nat
ASSUME BelowType == Below \in [Listeners -> SUBSET Keys] /\ Early \subseteq Listeners

VARIABLES
  log,           \* the server: all changes, the index is the position
  req,           \* the transfer: [url, path, idx]
  resp,          \* the answer that is on its way, or NULL
  wait_idx,      \* ec->wait_idx
  processing_event, preproc_wait_idx, flush,   \* locals of etcd_thread
  listeners, new_listeners,
  evpipe,        \* events in ec->evfd
  adding,        \* listeners whose event has not been written yet
  sending, locked, pub,  \* per listener: l->sending, its queue's lock, what it published
  hung,          \* the thread waits for a lock it holds itself
  running, done, \* ec->running, and whether the thread has ended
  synced,        \* history: listeners whose first fetch has been handled
  ntrouble, nadd

server == <<log>>
xfer == <<req, resp, ntrouble>>
thread == <<wait_idx, processing_event, preproc_wait_idx, flush>>
lists == <<listeners, new_listeners, evpipe, adding, nadd>>
queues == <<sending, locked, pub, hung, synced>>
vars == <<server, xfer, thread, lists, queues, running, done>>

Empty == [k \in Keys |-> NULL]

\* What a value does to a configuration: set or delete a key, or flush.
Apply(v, f) == IF v.key = NULL THEN Empty ELSE [f EXCEPT ![v.key] = v.val]

\* The changes with an index of at least i applied to f.
Replay(f, i) ==
  FoldLeft(LAMBDA g, v : Apply(v, g), f, SubSeq(log, IF i < 1 THEN 1 ELSE i, Len(log)))

Store == Replay(Empty, 1)

Part(l, f) == [k \in Keys |-> IF k \in Below[l] THEN f[k] ELSE NULL]

\* modifiedIndex of a key that exists.
Modified(k) == CHOOSE i \in DOMAIN log : log[i].key = k /\ \A j \in i + 1 .. Len(log) : log[j].key # k

\* The nodes of an answer to a fetch, in any order.
Snapshots(path) ==
  {[i \in DOMAIN s |-> [key |-> s[i], val |-> Store[s[i]], mi |-> Modified(s[i])]] :
     s \in SetToSeqs({k \in path : Store[k] # NULL})}

Full == [url |-> "fetch", path |-> Keys, idx |-> 0]

\* Mutant of WaitReq: asks for what comes after the index.
WaitReqAfter(i) == [url |-> "wait", path |-> Keys, idx |-> i + 1]

WaitReq(i) == [url |-> "wait", path |-> Keys, idx |-> i]

\* etcd_thread starts with a full fetch, which counts as an event.
Init ==
  /\ log = <<>>
  /\ req = Full /\ resp = NULL /\ ntrouble = 0
  /\ wait_idx = 0 /\ processing_event = TRUE /\ preproc_wait_idx = 0
  /\ flush = FALSE
  /\ listeners = SetToSeq(Early) /\ new_listeners = <<>> /\ evpipe = 0 /\ adding = {} /\ nadd = 0
  /\ sending = [l \in Listeners |-> 0] /\ locked = [l \in Listeners |-> FALSE]
  /\ pub = [l \in Listeners |-> Empty] /\ hung = FALSE /\ synced = {}
  /\ running = TRUE /\ done = FALSE
-----------------------------------------------------------------------------
\* Somebody sets or deletes a key, as long as there is a thread to notice.
Change(k, v) ==
  /\ running /\ ~hung
  /\ Len(log) < MaxIndex
  /\ v = NULL => Store[k] # NULL
  /\ log' = Append(log, [key |-> k, val |-> v])
  /\ UNCHANGED <<xfer, thread, lists, queues, running, done>>

\* The server answers.  A watch is answered by the first change from its index
\* on, once there is one, or by an error when it has been forgotten.
Respond ==
  /\ resp = NULL /\ ~done
  /\ IF req.url = "fetch"
     THEN \E s \in Snapshots(req.path) :
            resp' = [nodes |-> s, header |-> Len(log)]
     ELSE /\ req.idx <= Len(log)
          /\ LET e == log[req.idx]
                 node == [key |-> e.key, val |-> e.val, mi |-> req.idx]
             IN  resp' = [nodes |-> IF Len(log) - req.idx < History THEN <<node>> ELSE <<>>,
                          header |-> Len(log)]
  /\ UNCHANGED <<server, req, ntrouble, thread, lists, queues, running, done>>

\* A transfer fails, or the answer is not JSON: after a pause the same request
\* again.  etcd_headers may have set wait_idx by then.
Fail ==
  /\ running /\ ~hung
  /\ ntrouble < MaxTrouble
  /\ ntrouble' = ntrouble + 1
  /\ wait_idx' = IF BodyFails /\ resp # NULL /\ wait_idx = 0 THEN resp.header + 1 ELSE wait_idx
  /\ resp' = NULL
  /\ UNCHANGED <<server, req, processing_event, preproc_wait_idx, flush, lists, queues,
                 running, done>>

\* Time for a flush: a full fetch instead of the watch.
StartFlush ==
  /\ running /\ ~hung
  /\ Flushes /\ ntrouble < MaxTrouble
  /\ ~processing_event /\ ~flush
  /\ flush' = TRUE
  /\ req' = Full /\ resp' = NULL
  /\ ntrouble' = ntrouble + 1
  /\ UNCHANGED <<server, wait_idx, processing_event, preproc_wait_idx, lists, queues,
                 running, done>>

\* Mutant of CheckForEvent: wait_idx is not saved.
CheckForEventUnsaved ==
  /\ running /\ ~hung
  /\ ~processing_event /\ ~flush
  /\ evpipe > 0
  /\ evpipe' = evpipe - 1
  /\ IF new_listeners = <<>>
     THEN UNCHANGED <<listeners, new_listeners, req, resp, processing_event>>
     ELSE /\ new_listeners' = Tail(new_listeners)
          /\ listeners' = Append(listeners, Head(new_listeners))
          /\ req' = [url |-> "fetch", path |-> Below[Head(new_listeners)], idx |-> 0]
          /\ resp' = NULL
          /\ processing_event' = TRUE
  /\ UNCHANGED <<server, ntrouble, wait_idx, preproc_wait_idx, flush, adding, nadd, queues,
                 running, done>>

\* check_for_event and new_listener_event: fetch what is below the new path.
CheckForEvent ==
  /\ running /\ ~hung
  /\ ~processing_event /\ ~flush
  /\ evpipe > 0
  /\ evpipe' = evpipe - 1
  /\ IF new_listeners = <<>>
     THEN UNCHANGED <<listeners, new_listeners, req, resp, processing_event, preproc_wait_idx>>
     ELSE /\ new_listeners' = Tail(new_listeners)
          /\ listeners' = Append(listeners, Head(new_listeners))
          /\ req' = [url |-> "fetch", path |-> Below[Head(new_listeners)], idx |-> 0]
          /\ resp' = NULL
          /\ processing_event' = TRUE
          /\ preproc_wait_idx' = wait_idx
  /\ UNCHANGED <<server, ntrouble, wait_idx, flush, adding, nadd, queues, running, done>>
-----------------------------------------------------------------------------
\* etcd_update_index.
UpdateIndex(mi, w) == IF mi >= w THEN mi + 1 ELSE w

\* etcd_enqueue_for_listener: sd_queue_begin when the index is new to this
\* listener, then sd_queue_insert.  s holds what a response changes.
Enqueue(s, l, v) ==
  IF s.hung THEN s
  ELSE IF s.sending[l] # s.widx /\ s.locked[l] THEN [s EXCEPT !.hung = TRUE]
  ELSE [s EXCEPT !.sending[l] = s.widx, !.locked[l] = TRUE, !.conf[l] = Apply(v, @)]

EnqueueAll(s, ls, v) == FoldLeft(LAMBDA r, l : Enqueue(r, l, v), s, ls)

\* etcd_parse_node and etcd_parse_delete: the index first, then the listeners.
ParseNode(s, n) ==
  EnqueueAll([s EXCEPT !.widx = UpdateIndex(n.mi, @)],
             SelectSeq(listeners, LAMBDA l : n.key \in Below[l]),
             [key |-> n.key, val |-> n.val])

\* etcd_parse_response up to the commits.
Parsed ==
  LET w == IF wait_idx = 0 THEN resp.header + 1 ELSE wait_idx
      start == [widx    |-> w,
                sending |-> [l \in Listeners |-> IF l \in Range(listeners) THEN 0 ELSE sending[l]],
                locked  |-> locked, conf |-> pub, hung |-> FALSE]
      flushed == IF flush THEN EnqueueAll(start, listeners, [key |-> NULL]) ELSE start
  IN  FoldLeft(ParseNode, flushed, resp.nodes)

\* The listeners whose queue is committed at the end of etcd_parse_response.
Committed(s) == {l \in Range(listeners) : s.sending[l] = s.widx}

\* An answer has arrived: etcd_parse_response and what follows it.
ParseResponse ==
  /\ running /\ ~hung
  /\ resp # NULL
  /\ LET s == Parsed
         w == IF processing_event /\ preproc_wait_idx # 0 THEN preproc_wait_idx ELSE s.widx
     IN  /\ hung' = s.hung
         /\ sending' = s.sending
         /\ IF s.hung
            THEN /\ locked' = s.locked
                 /\ wait_idx' = s.widx
                 /\ UNCHANGED <<req, resp, pub, processing_event, flush, synced>>
            ELSE /\ locked' = [l \in Listeners |-> s.locked[l] /\ l \notin Committed(s)]
                 /\ pub' = [l \in Listeners |-> IF l \in Committed(s) THEN s.conf[l] ELSE pub[l]]
                 /\ wait_idx' = w
                 /\ processing_event' = FALSE /\ flush' = FALSE
                 /\ synced' = Range(listeners)
                 /\ req' = WaitReq(w) /\ resp' = NULL
  /\ UNCHANGED <<server, ntrouble, preproc_wait_idx, lists, running, done>>

\* The thread leaves its loop when ec->running has been cleared.
ThreadExit ==
  /\ ~running /\ ~hung /\ ~done
  /\ done' = TRUE
  /\ UNCHANGED <<server, xfer, thread, lists, queues, running>>
-----------------------------------------------------------------------------
Known == Range(listeners) \cup Range(new_listeners)

\* etcdwatcher_add_listen: put into the list ...
AddListen(l) ==
  /\ running /\ ~hung
  /\ l \notin Known \cup adding
  /\ nadd < MaxAdd
  /\ nadd' = nadd + 1
  /\ new_listeners' = Append(new_listeners, l)
  /\ adding' = adding \cup {l}
  /\ sending' = [sending EXCEPT ![l] = 0]
  /\ locked' = [locked EXCEPT ![l] = FALSE]
  /\ pub' = [pub EXCEPT ![l] = Empty]
  /\ UNCHANGED <<server, xfer, thread, listeners, evpipe, hung, synced, running, done>>

\* ... and tell the thread.
AddWrite(l) ==
  /\ l \in adding
  /\ adding' = adding \ {l}
  /\ evpipe' = evpipe + 1
  /\ UNCHANGED <<server, xfer, thread, listeners, new_listeners, nadd, queues, running, done>>

\* etcdwatcher_remove_listen.
RemoveListen(l) ==
  /\ ~hung
  /\ l \in Known \ adding
  /\ listeners' = SelectSeq(listeners, LAMBDA m : m # l)
  /\ new_listeners' = SelectSeq(new_listeners, LAMBDA m : m # l)
  /\ synced' = synced \ {l}
  /\ UNCHANGED <<server, xfer, thread, evpipe, adding, nadd, sending, locked, pub, hung, running, done>>

\* etcdwatcher_stop.
Stop ==
  /\ running /\ adding = {}
  /\ running' = FALSE
  /\ UNCHANGED <<server, xfer, thread, lists, queues, done>>

ThreadStep == ParseResponse \/ CheckForEvent \/ ThreadExit
Next ==
  \/ \E k \in Keys, v \in Vals \cup {NULL} : Change(k, v)
  \/ Respond \/ Fail \/ StartFlush \/ ThreadStep
  \/ \E l \in Listeners : AddListen(l) \/ AddWrite(l) \/ RemoveListen(l)
  \/ Stop

Spec == Init /\ [][Next]_vars

\* The thread runs, the server answers, an event is written.
FairSpec ==
  /\ Spec
  /\ WF_vars(Respond) /\ WF_vars(ThreadStep)
  /\ WF_vars(\E l \in Listeners : AddWrite(l))
-----------------------------------------------------------------------------
\* No change is missed: what a listener has got, with the changes the watch has
\* still to report, is what the server has.  A fetch for a new listener must
\* not let the watch skip changes for the others, which is what
\* preproc_wait_idx is for.
NoGap ==
  \A l \in synced \cap Range(listeners) :
    ~hung /\ ~locked[l] => Part(l, Replay(pub[l], wait_idx)) = Part(l, Store)

\* Every answer reaches the queues: after etcd_parse_response the thread goes on
\* and no queue is left locked.  "v = sd_queue_wait(sdq, 3000); assert(v);"
\* after a flush (core/test/etcdclient_test.c:154).
Delivers == ~hung /\ \A l \in Listeners : ~locked[l]

\* The server has forgotten the change the watch asks for: see Respond.
Forgotten == wait_idx <= Len(log) - History

\* Once the server pauses the listeners have what it has, unless the watch is
\* stopped, stuck for the reason Delivers tells, or asks for a change the server
\* has forgotten.  A failed transfer, a fetch for another listener and a flush
\* that interrupts the watch must not keep it from going on.
CatchesUp ==
  <>[](\/ ~running \/ ~Delivers \/ Forgotten
       \/ \A l \in Known : pub[l] = Part(l, Store))
=============================================================================
