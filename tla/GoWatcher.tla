----------------------------- MODULE GoWatcher ------------------------------
(***************************************************************************)
(* The Go etcd watcher (core/pkg/sd/etcd/watcher.go) and the client it     *)
(* uses (core/internal/pkg/etcdlight): one goroutine that takes commands   *)
(* and responses, the goroutines that wait for etcd, and the users of the  *)
(* connections.                                                            *)
(*                                                                         *)
(* etcd is a log of changes; its index is the length of the log.  A change *)
(* concerns the one key of a service, and the values of a message are the  *)
(* numbers of the changes they come from.                                  *)
(***************************************************************************)
EXTENDS Naturals, Sequences, FiniteSets, SequencesExt

CONSTANTS
    GwUsers,        \* users of connections
    Service,        \* user -> its service
    Below,          \* service -> the services whose path its own is a prefix of
    GwBuf,          \* MessageBufSz
    GwLog,          \* changes before the watcher starts
    MaxChanges,     \* changes after that
    MaxAsks,        \* Connects
    MaxFails        \* watches and requests that fail

VARIABLES
    gwLog,          \* etcd
    gw,             \* the goroutine in run: where it is, index, conns, what it has to send
    gwWatch,        \* the index of the Watch under way, 0 if none
    gwReady,        \* responses that goroutines have for rch
    gwUser,         \* user -> state, channel, the last index and message it was sent and
                    \* the changes it has been told of
    gwLeft          \* what is left of the bounds

gwvars == <<gwLog, gw, gwWatch, gwReady, gwUser, gwLeft>>

NewUser == [pc |-> "idle", chan |-> <<>>, last |-> 0, sent |-> "none", had |-> {}]
End == [type |-> "end", of |-> 0]

\* The last change of a service's key; 0 if there was none.
LastOf(s) == LET at == {i \in DOMAIN gwLog : gwLog[i].srv = s}
           IN  IF at = {} THEN 0 ELSE CHOOSE i \in at : \A j \in at : j <= i
Present(s) == LastOf(s) # 0 /\ gwLog[LastOf(s)].act = "set"

\* What a recursive Get of a service's path finds: the path is compared as text.
Values(s) == SetToSeq({LastOf(x) : x \in {y \in Below[s] : Present(y)}})
----------------------------------------------------------------------------
(* handleResponse: to each connection the values below its path, and the   *)
(* end of the batch to those that had a value at this index.               *)
ValueMsgs(conns, i) == LET to == SelectSeq(conns, LAMBDA u : gwLog[i].srv \in Below[Service[u]])
                       IN  [k \in 1 .. Len(to) |-> <<to[k], [type |-> gwLog[i].act, of |-> i]>>]

Ends(conns, had, index) == LET to == SelectSeq(conns, LAMBDA u : u \in had \/ gwUser[u].last = index)
                           IN  [k \in 1 .. Len(to) |-> <<to[k], End>>]

HandleResponse(conns, index, changes) ==
    LET values == FlattenSeq([k \in 1 .. Len(changes) |-> ValueMsgs(conns, changes[k])])
        had == {values[k][1] : k \in DOMAIN values}
    IN  values \o Ends(conns, had, index)

(* The index is that of the first answer, and stays so.                    *)
IndexLatest(i) == Len(gwLog)

Index(i) == IF i = 0 THEN Len(gwLog) ELSE i
----------------------------------------------------------------------------
(* A turn of run: a Watch for what comes after the index, if anybody wants *)
(* to know.                                                                *)
StartWatch ==
    /\ gw.pc = "loop"
    /\ gw' = [gw EXCEPT !.pc = "select"]
    /\ gwWatch' = IF gw.conns = <<>> THEN 0 ELSE gw.index
    /\ UNCHANGED <<gwLog, gwReady, gwUser, gwLeft>>

(* Next: etcd answers with the first change after the index.               *)
WatchAnswer ==
    /\ gwWatch # 0
    /\ gwWatch < Len(gwLog)
    /\ gwReady' = Append(gwReady, gwWatch + 1)
    /\ gwWatch' = 0
    /\ UNCHANGED <<gwLog, gw, gwUser, gwLeft>>

(* An error ends the goroutine and nobody is told.                         *)
WatchFail ==
    /\ gwWatch # 0
    /\ gwLeft.fails > 0
    /\ gwLeft' = [gwLeft EXCEPT !.fails = @ - 1]
    /\ gwWatch' = 0
    /\ UNCHANGED <<gwLog, gw, gwReady, gwUser>>

(* A response, which may be of a Watch that was cancelled.                 *)
Response ==
    /\ gw.pc = "select"
    /\ \E k \in DOMAIN gwReady :
         /\ gw' = [gw EXCEPT !.pc = "send", !.out = HandleResponse(gw.conns, gw.index, <<gwReady[k]>>)]
         /\ gwReady' = RemoveAt(gwReady, k)
    /\ gwWatch' = 0
    /\ UNCHANGED <<gwLog, gwUser, gwLeft>>

(* The channels block when they are full.                                  *)
Send ==
    /\ gw.pc = "send"
    /\ IF gw.out = <<>>
       THEN gw' = [gw EXCEPT !.pc = "loop"] /\ UNCHANGED gwUser
       ELSE LET u == Head(gw.out)[1]
                msg == Head(gw.out)[2]
            IN  /\ Len(gwUser[u].chan) < GwBuf
                /\ gw' = [gw EXCEPT !.out = Tail(@)]
                /\ gwUser' = [gwUser EXCEPT ![u].chan = Append(@, msg), ![u].last = gw.index, ![u].sent = msg.type,
                                           ![u].had = @ \cup {msg.of}]
    /\ UNCHANGED <<gwLog, gwWatch, gwReady, gwLeft>>
----------------------------------------------------------------------------
(* Commands cancel the Watch.  addService asks for what there is.          *)
TakeAdd(u) ==
    /\ gw.pc = "select"
    /\ gwUser[u].pc = "connecting"
    /\ gw' = [gw EXCEPT !.pc = "get", !.cmd = u]
    /\ gwWatch' = 0
    /\ UNCHANGED <<gwLog, gwReady, gwUser, gwLeft>>

(* Values, or error 100 when there is nothing.                             *)
Got ==
    LET u == gw.cmd
        there == Values(Service[u])
        conns == Append(gw.conns, u)
        index == Index(gw.index)
    IN  /\ gw.pc = "get"
        /\ gwUser' = [gwUser EXCEPT ![u] = [NewUser EXCEPT !.pc = "open", !.had = 0 .. Len(gwLog)]]
        /\ gw' = [gw EXCEPT !.conns = conns, !.index = index, !.pc = "send",
                            !.out = IF there = <<>> THEN <<>> ELSE HandleResponse(conns, index, there)]
        /\ UNCHANGED <<gwLog, gwWatch, gwReady, gwLeft>>

(* An error that is tried again, until the caller gives up, and one that   *)
(* is not.                                                                 *)
GetRetried ==
    /\ gw.pc = "get"
    /\ gwLeft.fails > 0
    /\ gwLeft' = [gwLeft EXCEPT !.fails = @ - 1]
    /\ \E index \in {gw.index, Index(gw.index)} : gw' = [gw EXCEPT !.index = index]
    /\ UNCHANGED <<gwLog, gwWatch, gwReady, gwUser>>

GetFailed ==
    /\ gw.pc = "get"
    /\ gwLeft.fails > 0
    /\ gwLeft' = [gwLeft EXCEPT !.fails = @ - 1]
    /\ \E index \in {gw.index, Index(gw.index)} : gw' = [gw EXCEPT !.pc = "loop", !.index = index]
    /\ gwUser' = [gwUser EXCEPT ![gw.cmd].pc = "idle"]
    /\ UNCHANGED <<gwLog, gwWatch, gwReady>>

(* removeService: the channel is closed and the connection forgotten.      *)
TakeRemove(u) ==
    /\ gw.pc = "select"
    /\ gwUser[u].pc = "closing"
    /\ gw' = [gw EXCEPT !.pc = "loop", !.conns = SelectSeq(@, LAMBDA x : x # u)]
    /\ gwUser' = [gwUser EXCEPT ![u] = NewUser]
    /\ gwWatch' = 0
    /\ UNCHANGED <<gwLog, gwReady, gwLeft>>

(* Watcher.Close, when the connections are closed.                         *)
WatcherClose ==
    /\ gw.pc = "select"
    /\ \A u \in GwUsers : gwUser[u].pc = "idle"
    /\ gw' = [gw EXCEPT !.pc = "gone"]
    /\ gwWatch' = 0
    /\ UNCHANGED <<gwLog, gwReady, gwUser, gwLeft>>
----------------------------------------------------------------------------
Change ==
    /\ gwLeft.changes > 0
    /\ gwLeft' = [gwLeft EXCEPT !.changes = @ - 1]
    /\ \E s \in DOMAIN Below, act \in {"set", "delete"} :
         /\ act = "delete" => Present(s)
         /\ gwLog' = Append(gwLog, [srv |-> s, act |-> act])
    /\ UNCHANGED <<gw, gwWatch, gwReady, gwUser>>

Connect(u) ==
    /\ gwUser[u].pc = "idle"
    /\ gw.pc # "gone"
    /\ gwLeft.asks > 0
    /\ gwLeft' = [gwLeft EXCEPT !.asks = @ - 1]
    /\ gwUser' = [gwUser EXCEPT ![u].pc = "connecting"]
    /\ UNCHANGED <<gwLog, gw, gwWatch, gwReady>>

(* The user reads on while it closes.                                      *)
Read(u) ==
    /\ gwUser[u].chan # <<>>
    /\ gwUser' = [gwUser EXCEPT ![u].chan = Tail(@)]
    /\ UNCHANGED <<gwLog, gw, gwWatch, gwReady, gwLeft>>

CloseConn(u) ==
    /\ gwUser[u].pc = "open"
    /\ gwUser' = [gwUser EXCEPT ![u].pc = "closing"]
    /\ UNCHANGED <<gwLog, gw, gwWatch, gwReady, gwLeft>>
----------------------------------------------------------------------------
GwInit ==
    /\ gwLog = GwLog
    /\ gw = [pc |-> "loop", index |-> 0, conns |-> <<>>, out |-> <<>>, cmd |-> CHOOSE u \in GwUsers : TRUE]
    /\ gwWatch = 0
    /\ gwReady = <<>>
    /\ gwUser = [u \in GwUsers |-> NewUser]
    /\ gwLeft = [changes |-> MaxChanges, asks |-> MaxAsks, fails |-> MaxFails]

RunStep == StartWatch \/ Response \/ Send \/ Got \/ \E u \in GwUsers : TakeAdd(u) \/ TakeRemove(u)

GwNext ==
    \/ RunStep \/ WatchAnswer \/ WatchFail \/ GetRetried \/ GetFailed \/ WatcherClose \/ Change
    \/ \E u \in GwUsers : Connect(u) \/ Read(u) \/ CloseConn(u)

(* The goroutines run, etcd answers and the users read.                    *)
GwFairness == WF_gwvars(RunStep) /\ WF_gwvars(WatchAnswer) /\ \A u \in GwUsers : WF_gwvars(Read(u))
----------------------------------------------------------------------------
(* Nothing is sent on a channel that has been closed, and none is closed   *)
(* twice: the connections that are sent to are those of users that have    *)
(* them.                                                                   *)
ChannelsOpen ==
    /\ IsInjective(gw.conns)
    /\ \A u \in Range(gw.conns) : gwUser[u].pc \in {"open", "closing"}
    /\ \A k \in DOMAIN gw.out : gw.out[k][1] \in Range(gw.conns)

(* When the watcher waits again, what each connection was sent last is the *)
(* end of a batch: a user that applies values at the end of a batch is not *)
(* left with some that it has not applied.                                 *)
BatchEnds == gw.pc \in {"loop", "select"} => \A u \in Range(gw.conns) : gwUser[u].sent \in {"none", "end"}

(* A Watch asks for the changes after the index and will never bring those *)
(* up to it: they are ones that every connection concerned has been told   *)
(* of or is about to be.  The answer to one connection's request may be    *)
(* ahead of what the others were told, and must not become the index.      *)
NothingSkipped == \A u \in Range(gw.conns), i \in 1 .. gw.index :
    gwLog[i].srv = Service[u] => i \in gwUser[u].had \/ \E k \in DOMAIN gw.out : gw.out[k][1] = u /\ gw.out[k][2].of = i

(* A connection is sent to only while it is open, in whole batches, and no *)
(* change is left behind the index from which handleResponse and run watch *)
(* on.  Of the changes after that index it says nothing: since the index   *)
(* does not advance, all but the first of them are never sent, which is    *)
(* what UpdatesArrive is about.                                            *)
WatchComplete == ChannelsOpen /\ BatchEnds /\ NothingSkipped

(* "Updates are received on the channel, until you call the Close          *)
(* function": a change of a service is sent to who is connected to it.     *)
UpdatesArrive == \A u \in GwUsers, i \in 1 .. Len(GwLog) + MaxChanges :
    LET missing == gwUser[u].pc = "open" /\ i \in DOMAIN gwLog /\ gwLog[i].srv = Service[u] /\ i \notin gwUser[u].had
    IN  missing ~> ~missing
=============================================================================
