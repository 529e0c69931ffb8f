------------------------------- MODULE Plogd -------------------------------
(***************************************************************************)
(* plog/bin/plogd: the log daemon, for one client program.                 *)
(*                                                                         *)
(* Every connection has a goroutine (handleConnection), every program a    *)
(* handler (progStoreHandler) fed by one muxer per root storage channel,   *)
(* every dictionary a goroutine of its own (dictStoreHandler).  Channels   *)
(* are sequences; a channel a session is done with goes back to smPool and *)
(* is handed to the next session.  A muxer holds one message at most, so   *)
(* that message is left at the head of the muxer's channel.                *)
(*                                                                         *)
(* A context is one of three kinds: "log", a root log context; "dict", a   *)
(* log dictionary; "count", a count context with a path of one step, the   *)
(* form the counters of the connection pool have.  Log messages are        *)
(* numbers, given out as they are written.                                 *)
(***************************************************************************)
EXTENDS Integers, Sequences, FiniteSets, FiniteSetsExt, SequencesExt

CONSTANTS
    Conns,      \* the client connections
    Mixes,      \* the kinds of context the connections open together
    QueueCap,   \* the length of Storage.channelQueue
    MaxOpens,   \* bound: contexts opened
    MaxWrites   \* bound: messages written

ASSUME PlogdAssumption ==
    /\ Mixes \subseteq [Conns -> {"log", "dict", "count"}]
    /\ {QueueCap, MaxOpens, MaxWrites} \subseteq Nat

VARIABLES
    conn,   \* the connection goroutines
    sess,   \* the storage sessions, in the order they were made
    chan,   \* the contents of each channel made so far
    smPool, \* the channels to use again
    store,  \* the Storage made for the program, one after another
    reg,    \* the index of the registered one in DataStorage.ProgStore, or 0
    refs,   \* SessionStorage.CountRefs of the count path
    main,   \* where main is
    trace   \* what has happened: pending, written, opens and the excuses

plogdvars == <<conn, sess, chan, smPool, store, reg, refs, main, trace>>

Types == {"log", "count"}

TypeOf(kind) == IF kind = "count" THEN "count" ELSE "log"

Msg(code, val) == [code |-> code, val |-> val]

\* A session of the storage: its channel, its references, the session it
\* feeds (0: it is the root of its type), and the entries of its dictionary.
Session(ch, type, parent) ==
    [ch |-> ch, refs |-> 1, type |-> type, parent |-> parent, dict |-> {}]

NoStore == [pc |-> "top", queue |-> <<>>, chs |-> [t \in Types |-> 0], mux |-> {},
            sess |-> [t \in Types |-> 0], node |-> FALSE, n |-> 0, cb |-> FALSE]

NoConn == [pc |-> "idle", kind |-> "log", s |-> 0, count |-> 0, last |-> FALSE, proper |-> TRUE]

PlogdInit ==
    /\ conn = [c \in Conns |-> NoConn]
    /\ sess = <<>> /\ chan = <<>> /\ smPool = <<>> /\ store = <<>>
    /\ reg = 0 /\ refs = 0 /\ main = "run"
    /\ \E mix \in Mixes :
       trace = [mix |-> mix, pending |-> {}, written |-> 0, opens |-> 0,
                overtaken |-> FALSE, wiped |-> FALSE, refused |-> FALSE,
                timeout |-> FALSE, late |-> FALSE]

----------------------------------------------------------------------------
\* Sessions

\* newStorageSession: the channel it uses and what the pool and the channels
\* become
NewCh == IF smPool = <<>> THEN Len(chan) + 1 ELSE Head(smPool)

PoolLess == IF smPool = <<>> THEN smPool ELSE Tail(smPool)

ChanMore == IF smPool = <<>> THEN Append(chan, <<>>) ELSE chan

\* A message put on channel ch of cs.
Put(cs, ch, m) == [cs EXCEPT ![ch] = Append(@, m)]

Retain(ss, s) == [ss EXCEPT ![s].refs = @ + 1]

\* Mutant of ReleaseCh: the close is sent when one reference is left.
ReleaseEarly(ss, cs, s) ==
    IF ss[s].refs = 2 THEN Put(cs, ss[s].ch, Msg("close", 0)) ELSE cs

\* releaseStorageSession: the last reference closes the channel
ReleaseCh(ss, cs, s) ==
    IF ss[s].refs = 1 THEN Put(cs, ss[s].ch, Msg("close", 0)) ELSE cs

ReleaseSess(ss, s) == [ss EXCEPT ![s].refs = @ - 1]

----------------------------------------------------------------------------
\* Connections: handleOpenContext, handlePublishMessage, Session.Close

\* The session findOutput found had lost its last reference: reopen it.
Revived(s) == sess[s].refs = 0

\* findOutput, under DataStorage.lock.  When the queue of new channels is
\* full the connection is aborted; the session that was found dead has been
\* retained by then, and stays registered.
FindOutput(c, kind) ==
    LET t     == TypeOf(kind)
        i     == IF reg = 0 THEN Len(store) + 1 ELSE reg
        sts   == IF reg = 0 THEN Append(store, NoStore) ELSE store
        old   == sts[i].sess[t]
        ss    == IF old = 0 THEN sess ELSE Retain(sess, old)
        found == old # 0 /\ ~Revived(old)
        new   == Len(ss) + 1
    IN
    /\ reg' = i
    /\ \/ /\ found
          /\ sess' = ss /\ store' = sts
          /\ conn' = [conn EXCEPT ![c] = [NoConn EXCEPT !.pc = "found", !.kind = kind, !.s = old]]
          /\ UNCHANGED <<chan, smPool>>
          /\ trace' = [trace EXCEPT !.opens = @ + 1]
       \/ /\ ~found /\ Len(sts[i].queue) < QueueCap
          /\ sess' = Append(ss, Session(NewCh, t, 0))
          /\ chan' = ChanMore /\ smPool' = PoolLess
          /\ store' = [sts EXCEPT ![i].queue = Append(@, [t |-> t, ch |-> NewCh]),
                                  ![i].sess[t] = new]
          /\ conn' = [conn EXCEPT ![c] = [NoConn EXCEPT !.pc = "found", !.kind = kind, !.s = new]]
          /\ trace' = [trace EXCEPT !.opens = @ + 1]
       \/ /\ ~found /\ Len(sts[i].queue) >= QueueCap
          /\ sess' = ss /\ store' = sts
          /\ chan' = Put(ChanMore, NewCh, Msg("close", 0)) /\ smPool' = PoolLess
          /\ conn' = [conn EXCEPT ![c] = [NoConn EXCEPT !.pc = "done"]]
          /\ trace' = [trace EXCEPT !.opens = @ + 1, !.refused = TRUE]
    /\ UNCHANGED <<refs, main>>

\* An open message arrives.
DaemonOpen(c) ==
    /\ conn[c].pc = "idle" /\ trace.opens < MaxOpens
    /\ FindOutput(c, trace.mix[c])

\* OpenDict for the second step of the key, whose session holds the
\* reference findOutput took, the root output being closed right after.
OpenDict(c) ==
    \/ /\ conn[c].kind = "log"
       /\ conn' = [conn EXCEPT ![c].pc = "open"]
       /\ UNCHANGED <<sess, chan, smPool>>
    \/ /\ conn[c].kind # "log"
       /\ sess' = Append(sess, Session(NewCh, TypeOf(conn[c].kind), conn[c].s))
       /\ chan' = ChanMore /\ smPool' = PoolLess
       /\ conn' = [conn EXCEPT ![c].s = Len(sess) + 1, ![c].pc = "open"]

\* The rest of handleOpenContext, and newSession under SessionStorage.lock
NewSession(c) ==
    /\ conn[c].pc = "found"
    /\ OpenDict(c)
    /\ refs' = IF conn[c].kind = "count" THEN refs + 1 ELSE refs
    /\ UNCHANGED <<store, reg, main, trace>>

\* handlePublishMessage: a message to a log context, a delta of one to a
\* count context, remembered by CountOutput.Write
Publish(c) ==
    LET id == trace.written + 1
        ch == sess[conn[c].s].ch IN
    /\ conn[c].pc = "open" /\ id <= MaxWrites
    /\ \/ /\ conn[c].kind = "count"
          /\ conn' = [conn EXCEPT ![c].count = @ + 1]
          /\ chan' = Put(chan, ch, Msg("add", 1))
          /\ trace' = [trace EXCEPT !.written = id]
       \/ /\ conn[c].kind # "count"
          /\ conn' = conn
          /\ chan' = Put(chan, ch, Msg("msg", {id}))
          /\ trace' = [trace EXCEPT !.written = id, !.pending = @ \cup {id}]
    /\ UNCHANGED <<sess, smPool, store, reg, refs, main>>

\* The session is the last one of its count path.
LastRef(c) == conn[c].kind = "count" /\ refs = 1

\* The locked part of Session.Close: a close message (proper), or the end of
\* the connection.
CloseSession(c) ==
    /\ conn[c].pc = "open"
    /\ \E proper \in BOOLEAN :
          conn' = [conn EXCEPT ![c].pc = "closing", ![c].proper = proper,
                               ![c].last = LastRef(c)]
    /\ refs' = IF conn[c].kind = "count" THEN refs - 1 ELSE refs
    /\ UNCHANGED <<sess, chan, smPool, store, reg, main, trace>>

\* Mutant of UndoDeltas: closing leaves the deltas in place.
UndoNothing(c) == <<>>

\* What CountOutput.Close writes: the deltas of the session, undone.
UndoDeltas(c) ==
    IF conn[c].count = 0 THEN <<>> ELSE <<Msg("add", -conn[c].count)>>

\* What storageSession.Close writes: the mark of an interrupted session, and
\* that it was the last of its path.
LastWords(c) ==
    (IF conn[c].proper THEN <<>>
     ELSE <<IF conn[c].kind = "count" THEN Msg("add", 0) ELSE Msg("msg", {})>>)
    \o (IF conn[c].last THEN <<Msg("last", 0)>> ELSE <<>>)

\* Session.Writer.Close, after the lock is released.
CloseWriter(c) ==
    LET s  == conn[c].s
        cs == [chan EXCEPT ![sess[s].ch] = @ \o UndoDeltas(c) \o LastWords(c)] IN
    /\ conn[c].pc = "closing"
    /\ chan' = ReleaseCh(sess, cs, s)
    /\ sess' = ReleaseSess(sess, s)
    /\ conn' = [conn EXCEPT ![c] = [NoConn EXCEPT !.pc = IF conn[c].proper THEN "idle" ELSE "done"]]
    /\ UNCHANGED <<smPool, store, reg, refs, main, trace>>

\* The client hangs up with no context open, or main has cancelled.
Hangup(c) ==
    /\ conn[c].pc = "idle"
    /\ conn' = [conn EXCEPT ![c].pc = "done"]
    /\ UNCHANGED <<sess, chan, smPool, store, reg, refs, main, trace>>

----------------------------------------------------------------------------
\* dictStoreHandler, one message at a time
DictStep(d) ==
    LET e  == sess[d]
        m  == Head(chan[e.ch])
        cs == [chan EXCEPT ![e.ch] = Tail(@)]
        up == sess[e.parent].ch IN
    /\ e.parent # 0 /\ e.ch # 0 /\ chan[e.ch] # <<>>
    /\ \/ /\ m.code = "close"
          /\ smPool' = Append(smPool, e.ch)
          /\ LET sent == IF e.type = "log" THEN Put(cs, up, Msg("msg", e.dict)) ELSE cs
             IN  chan' = ReleaseCh(sess, sent, e.parent)
          /\ sess' = [ReleaseSess(sess, e.parent) EXCEPT ![d].ch = 0, ![d].dict = {}]
       \/ /\ m.code = "last"
          /\ chan' = Put(cs, up, Msg("nil", 0))
          /\ UNCHANGED <<sess, smPool>>
       \/ /\ m.code = "add"
          /\ chan' = Put(cs, up, m)
          /\ UNCHANGED <<sess, smPool>>
       \/ /\ m.code = "msg"
          /\ chan' = cs
          /\ sess' = [sess EXCEPT ![d].dict = @ \cup m.val]
          /\ UNCHANGED smPool
    /\ UNCHANGED <<conn, store, reg, refs, main, trace>>

----------------------------------------------------------------------------
\* progStoreHandler of store i, and its muxers

\* A queued channel is taken: it is the latest of its type, and gets a muxer.
TakeChannel(st) ==
    LET q == Head(st.queue) IN
    [st EXCEPT !.pc = "loop", !.queue = Tail(@), !.chs[q.t] = q.ch, !.mux = @ \cup {q}]

\* The locked part, reached with no channel: take one, or unregister.
HandlerTop(i) ==
    /\ store[i].pc = "top"
    /\ \/ store[i].queue # <<>> /\ store' = [store EXCEPT ![i] = TakeChannel(@)] /\ reg' = reg
       \/ store[i].queue = <<>> /\ store' = [store EXCEPT ![i].pc = "drain"] /\ reg' = 0
    /\ UNCHANGED <<conn, sess, chan, smPool, refs, main, trace>>

HandlerQueue(i) ==
    /\ store[i].pc = "loop" /\ store[i].queue # <<>>
    /\ store' = [store EXCEPT ![i] = TakeChannel(@)]
    /\ UNCHANGED <<conn, sess, chan, smPool, reg, refs, main, trace>>

HandlerCallback(i) ==
    /\ store[i].pc = "loop" /\ store[i].cb
    /\ store' = [store EXCEPT ![i].cb = FALSE]
    /\ UNCHANGED <<conn, sess, chan, smPool, reg, refs, main, trace>>

\* The sum of the deltas in a channel
Deltas(q) == FoldLeft(LAMBDA a, m : IF m.code = "add" THEN a + m.val ELSE a, 0, q)

\* Another count session has a write under way, or is about to write its
\* last words.
InFlight(cs) ==
    \/ \E ch \in DOMAIN cs : \E j \in DOMAIN cs[ch] : cs[ch][j].code = "add"
    \/ \E c \in Conns : conn[c].pc = "closing" /\ conn[c].kind = "count"

\* Mutant of Latest: every close ends the type.
LatestAny(st, q) == TRUE

\* "Might've been replaced, only delete if latest."
Latest(st, q) == st.chs[q.t] = q.ch

\* The close of channel q has been received.
Closed(st, q) ==
    LET s2 == [st EXCEPT !.mux = @ \ {q}, !.chs[q.t] = IF Latest(st, q) THEN 0 ELSE @]
    IN  [s2 EXCEPT !.pc = IF \A t \in Types : s2.chs[t] = 0 THEN "top" ELSE "loop"]

\* The output is written to after main has closed it.
Writing(tr) == [tr EXCEPT !.late = @ \/ main = "closed"]

\* A message of muxer q.
HandlerMessage(i, q) ==
    LET st == store[i]
        m  == Head(chan[q.ch])
        cs == [chan EXCEPT ![q.ch] = Tail(@)] IN
    /\ st.pc = "loop" /\ chan[q.ch] # <<>>
    /\ chan' = cs
    /\ \/ /\ m.code = "close"
          /\ smPool' = Append(smPool, q.ch)
          /\ store' = [store EXCEPT ![i] = Closed(@, q)]
          /\ trace' = [trace EXCEPT !.overtaken = @ \/ (st.chs[q.t] = q.ch /\ \E r \in st.mux \ {q} : r.t = q.t)]
       \/ /\ m.code = "msg"
          /\ trace' = [Writing(trace) EXCEPT !.pending = @ \ m.val]
          /\ UNCHANGED <<store, smPool>>
       \/ /\ m.code = "nil"
          /\ store' = [store EXCEPT ![i].node = FALSE, ![i].n = 0]
          /\ trace' = [trace EXCEPT !.wiped = @ \/ st.n # 0 \/ InFlight(cs)]
          /\ UNCHANGED smPool
       \/ /\ m.code = "add"
          /\ store' = [store EXCEPT ![i].node = TRUE, ![i].n = @ + m.val]
          /\ UNCHANGED <<smPool, trace>>
    /\ UNCHANGED <<conn, sess, reg, refs, main>>

\* Mutant of HandlerEnd: callbacks still queued are forgotten.
HandlerEndForgetful(i) ==
    /\ store[i].pc = "drain"
    /\ store' = [store EXCEPT ![i].pc = "gone"]
    /\ trace' = IF store[i].node THEN Writing(trace) ELSE trace
    /\ UNCHANGED <<conn, sess, chan, smPool, reg, refs, main>>

\* After the loop: the queued callback is called and the state dumped.
HandlerEnd(i) ==
    /\ store[i].pc = "drain"
    /\ store' = [store EXCEPT ![i].pc = "gone", ![i].cb = FALSE]
    /\ trace' = IF store[i].node THEN Writing(trace) ELSE trace
    /\ UNCHANGED <<conn, sess, chan, smPool, reg, refs, main>>

----------------------------------------------------------------------------
\* CallbackState, for a state query
Query ==
    /\ reg # 0 /\ ~store[reg].cb
    /\ store' = [store EXCEPT ![reg].cb = TRUE]
    /\ UNCHANGED <<conn, sess, chan, smPool, reg, refs, main, trace>>

\* main, from the signal on: cancel, wait for the connections, wait for the
\* handlers (ProgGroup), close the output.  The two waits last five seconds
\* at most; when the second runs out the daemon exits with the output open.
Shutdown == main = "run" /\ main' = "work" /\ UNCHANGED <<conn, sess, chan, smPool, store, reg, refs, trace>>

ConnsDone == \A c \in Conns : conn[c].pc = "done"

StoresDone == \A i \in DOMAIN store : store[i].pc = "gone"

WaitWork ==
    /\ main = "work" /\ main' = "store"
    /\ ConnsDone
    /\ UNCHANGED <<conn, sess, chan, smPool, store, reg, refs, trace>>

CloseOutput ==
    /\ main = "store" /\ StoresDone
    /\ main' = "closed"
    /\ UNCHANGED <<conn, sess, chan, smPool, store, reg, refs, trace>>

WorkTimeOut ==
    /\ main = "work" /\ main' = "store"
    /\ trace' = [trace EXCEPT !.timeout = TRUE]
    /\ UNCHANGED <<conn, sess, chan, smPool, store, reg, refs>>

\* log.Fatal: nothing is left of the process.
StoreTimeOut ==
    /\ main = "store" /\ main' = "exit"
    /\ conn' = [c \in Conns |-> [NoConn EXCEPT !.pc = "done"]]
    /\ sess' = <<>> /\ chan' = <<>> /\ smPool' = <<>> /\ store' = <<>>
    /\ reg' = 0 /\ refs' = 0
    /\ trace' = [trace EXCEPT !.pending = {}, !.written = 0, !.opens = MaxOpens, !.timeout = TRUE,
                     !.overtaken = FALSE, !.wiped = FALSE, !.refused = FALSE]

Message(i) == \E q \in store[i].mux : HandlerMessage(i, q)

\* What the daemon does of itself.
Progress ==
    \/ \E c \in Conns : NewSession(c) \/ CloseWriter(c)
    \/ \E d \in DOMAIN sess : DictStep(d)
    \/ \E i \in DOMAIN store : HandlerTop(i) \/ HandlerQueue(i) \/ Message(i) \/ HandlerEnd(i)
    \/ WaitWork \/ CloseOutput

Callback == \E i \in DOMAIN store : HandlerCallback(i)

Closing == \E c \in Conns : CloseSession(c) \/ Hangup(c)

PlogdNext ==
    \/ Progress \/ Callback \/ Closing
    \/ \E c \in Conns : DaemonOpen(c) \/ Publish(c)
    \/ Query \/ Shutdown \/ WorkTimeOut \/ StoreTimeOut

----------------------------------------------------------------------------
\* Goroutines are scheduled, and a select with several ready cases picks any
\* of them, so that none is passed over forever.  Clients need not do
\* anything, but main's cancel closes their connections.
PlogdFairness == WF_plogdvars(Progress) /\ WF_plogdvars(Callback) /\ WF_plogdvars(main # "run" /\ Closing)

----------------------------------------------------------------------------
\* Properties

Excused == trace.overtaken \/ trace.refused

\* The types of the state.
\* A handler will still receive what is in root channel ch.
Served(ch) ==
    \E i \in DOMAIN store :
        /\ store[i].pc \in {"top", "loop"}
        /\ \E q \in store[i].mux \cup Range(store[i].queue) : q.ch = ch

\* Nothing written is lost: a message not yet output is in a channel some
\* handler serves, or in a dictionary, or the channel of a dictionary, whose
\* parent is served (storage.go).  There are two exceptions, which the code
\* does have: a channel whose successor was closed before it was emptied, and
\* a session left behind by ErrorTooManyConcurrentRequests.
Accounted ==
    Excused \/ \A id \in trace.pending :
        \/ \E ch \in DOMAIN chan :
              /\ \E j \in DOMAIN chan[ch] : chan[ch][j].code = "msg" /\ id \in chan[ch][j].val
              /\ \/ Served(ch)
                 \/ \E d \in DOMAIN sess : sess[d].ch = ch /\ sess[d].parent # 0
                                              /\ Served(sess[sess[d].parent].ch)
        \/ \E d \in DOMAIN sess : id \in sess[d].dict /\ Served(sess[sess[d].parent].ch)

\* The counts of the state, with the deltas under way, are those of the open
\* count sessions (counter.go, updateState), a wiped path excepted.
CountsConserved ==
    Excused \/ trace.wiped \/
      MapThenSumSet(LAMBDA i : store[i].n, DOMAIN store)
        + MapThenSumSet(LAMBDA h : Deltas(chan[h]), DOMAIN chan)
         = MapThenSumSet(LAMBDA c : conn[c].count, Conns)

\* Nothing about the count path is under way.
CountsAtRest ==
    /\ \A c \in Conns : conn[c].kind # "count"
    /\ \A h \in DOMAIN chan : \A j \in DOMAIN chan[h] : chan[h][j].code \notin {"add", "last", "nil"}

\* "the container is also removed if all count sessions to it are" (plog.h),
\* as the code keeps it: unless a removal overtook another session's counts.
ContainerRemoved ==
    CountsAtRest /\ ~Excused /\ ~trace.wiped => \A i \in DOMAIN store : ~store[i].node

\* The output is not written to once main has closed it, the wait for the
\* connections having run out excepted (main.go: "Not safe to close output").
OutputOpen == trace.late => trace.timeout

\* "The callback will be called" (CallbackState): also when the handler is
\* about to leave.
QueryAnswered ==
    \A i \in 1..MaxOpens :
        (i \in DOMAIN store /\ store[i].cb) ~> ~(i \in DOMAIN store /\ store[i].cb)

\* A shutdown gets to its end without the help of its time limits, unless
\* they have run out.
ShutdownEnds == main = "work" ~> main \in {"closed", "exit"}

\* What clients wrote gets to the output, while there is one.
OutputKept == Accounted /\ OutputOpen

\* The counts are those of the sessions, down to the removal of the container.
CountsKept == CountsConserved /\ ContainerRemoved
============================================================================
