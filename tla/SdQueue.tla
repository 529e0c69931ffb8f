------------------------------ MODULE SdQueue -------------------------------
(***************************************************************************)
(* The queue between a source of service discovery values and the thread   *)
(* that applies them to a pool (core/lib/sd_queue.c).                      *)
(*                                                                         *)
(* The source inserts the values of one transaction between begin and      *)
(* commit, under the lock of the queue.  A value replaces an older one     *)
(* with the same key that has not been taken yet.  The thread waits for a  *)
(* list of values, with a timeout, and takes all of it.                    *)
(*                                                                         *)
(* A value is [cmd, host, val]: its key is <<cmd, host>>, the path below   *)
(* the service.  conf is what the values mean to the thread: the hosts     *)
(* that exist, with their configuration and health.                        *)
(***************************************************************************)
EXTENDS Integers, Sequences

CONSTANTS
  Hosts,         \* host keys
  Cfgs, BadCfgs, \* configurations that parse, and values that do not
  Static,        \* the static configuration a flush returns to
  Commands,      \* the commands of the source's values
  MaxIndex,      \* bound: transactions
  MaxInsert,     \* bound: values in a transaction
  NULL

ASSUME QueueBounds == MaxIndex \in Nat /\ MaxInsert \in Nat
ASSUME QueueNull == NULL # "source"

\* What arrives from a source; it may delete what it never sent.
Values ==
  {v \in [cmd: {"flush"}, host: {NULL}, val: {NULL}]
           \cup [cmd: {"delete"}, host: Hosts, val: {NULL}]
           \cup [cmd: {"config"}, host: Hosts, val: Cfgs \cup BadCfgs]
           \cup [cmd: {"health"}, host: Hosts, val: {"up", "down"}] : v.cmd \in Commands}

VARIABLES
  list,      \* queue->list
  lock,      \* who holds queue->lock: "source" or NULL
  spc,       \* the source: "idle", "insert", or "broadcast" (sd_queue_commit)
  was_empty, \* *state
  ninsert,   \* values inserted in this transaction
  index,     \* the index of the last transaction
  tpc,       \* the thread: "ready", "wait", "woken", "timedout", "process"
  taken,     \* the list sd_queue_wait returned
  conf,      \* the configuration the thread has built
  sent,      \* history: the configuration the source has sent,
  committed  \* ... and what of it has been committed

queueVars == <<list, lock, spc, was_empty, ninsert, index, sent, committed>>
qvars == <<queueVars, tpc, taken, conf>>

Host == [cfg: Cfgs \cup {NULL}, up: BOOLEAN \cup {NULL}]
NewHost == [cfg |-> NULL, up |-> NULL]

Confs == UNION {[hs -> Host] : hs \in SUBSET Hosts}

ASSUME StaticConf == Static \in Confs

\* bconf_deletev.
Without(f, h) == [k \in DOMAIN f \ {h} |-> f[k]]

\* bconf_add_listnodev: the node of a host, created when it is not there.
Entry(f, h) == IF h \in DOMAIN f THEN f[h] ELSE NewHost

Put(f, h, e) == [k \in DOMAIN f \cup {h} |-> IF k = h THEN e ELSE f[k]]

\* What one value does to the configuration (update_config).
Apply(v, f) ==
  CASE v.cmd = "flush"  -> Static
    [] v.cmd = "delete" -> Without(f, v.host)
    [] v.cmd = "config" -> Put(f, v.host, IF v.val \in BadCfgs
                                          THEN Entry(f, v.host)
                                          ELSE [Entry(f, v.host) EXCEPT !.cfg = v.val])
    [] v.cmd = "health" -> Put(f, v.host, [Entry(f, v.host) EXCEPT !.up = (v.val = "up")])

\* What a list of values does to it, one after the other.
ApplyAll(f, vs) ==
  LET after[n \in 0..Len(vs)] == IF n = 0 THEN f ELSE Apply(vs[n], after[n - 1])
  IN  after[Len(vs)]

\* strcmp of every part of the key.
SameKey(a, b) == a.cmd = b.cmd /\ a.host = b.host

TakeOut(vs, i) == SubSeq(vs, 1, i - 1) \o SubSeq(vs, i + 1, Len(vs))

\* sd_queue_insert: take out the first value with the same key, append.
InsertInto(vs, v) ==
  LET same == {i \in DOMAIN vs : SameKey(vs[i], v)}
  IN  IF same = {}
      THEN Append(vs, v)
      ELSE Append(TakeOut(vs, CHOOSE i \in same : \A j \in same : i <= j), v)

QueueInit ==
  /\ list = <<>> /\ lock = NULL
  /\ spc = "idle" /\ was_empty = FALSE /\ ninsert = 0 /\ index = 0
  /\ sent = Static /\ committed = Static
  /\ tpc = "ready" /\ taken = <<>> /\ conf = Static

\* Mutant of Begin: the lock is not kept for the transaction.
BeginUnlocked ==
  /\ spc = "idle"
  /\ index < MaxIndex
  /\ lock = NULL
  /\ was_empty' = (list = <<>>)
  /\ index' = index + 1
  /\ ninsert' = 0
  /\ spc' = "insert"
  /\ UNCHANGED <<list, lock, sent, committed, tpc, taken, conf>>

\* sd_queue_begin.
Begin ==
  /\ spc = "idle"
  /\ index < MaxIndex
  /\ lock = NULL
  /\ lock' = "source"
  /\ was_empty' = (list = <<>>)
  /\ index' = index + 1
  /\ ninsert' = 0
  /\ spc' = "insert"
  /\ UNCHANGED <<list, sent, committed, tpc, taken, conf>>

Insert(v) ==
  /\ spc = "insert"
  /\ ninsert < MaxInsert
  /\ list' = InsertInto(list, [cmd |-> v.cmd, host |-> v.host, val |-> v.val, idx |-> index])
  /\ sent' = Apply(v, sent)
  /\ ninsert' = ninsert + 1
  /\ UNCHANGED <<lock, spc, was_empty, index, committed, tpc, taken, conf>>

\* Mutant of Commit: signals only if the list was not empty.
CommitInverted ==
  /\ spc = "insert"
  /\ lock' = NULL
  /\ committed' = sent
  /\ spc' = IF was_empty THEN "idle" ELSE "broadcast"
  /\ UNCHANGED <<list, was_empty, ninsert, index, sent, tpc, taken, conf>>

\* sd_queue_commit: unlock ...
Commit ==
  /\ spc = "insert"
  /\ lock' = NULL
  /\ committed' = sent
  /\ spc' = IF was_empty THEN "broadcast" ELSE "idle"
  /\ UNCHANGED <<list, was_empty, ninsert, index, sent, tpc, taken, conf>>

\* ... and pthread_cond_broadcast, after the lock has been released.
Broadcast ==
  /\ spc = "broadcast"
  /\ spc' = "idle"
  /\ tpc' = IF tpc = "wait" THEN "woken" ELSE tpc
  /\ UNCHANGED <<list, lock, was_empty, ninsert, index, sent, committed, taken, conf>>

\* The end of sd_queue_wait: everything is taken; an empty list is a timeout.
Take ==
  /\ taken' = list
  /\ list' = <<>>
  /\ tpc' = IF list = <<>> THEN "ready" ELSE "process"

\* Mutant of Wait: the list is not looked at before the first wait.
WaitFirst ==
  /\ tpc \in {"ready", "woken"}
  /\ lock = NULL
  /\ IF list = <<>> \/ tpc = "ready"
     THEN tpc' = "wait" /\ UNCHANGED <<list, taken>>
     ELSE Take
  /\ UNCHANGED <<lock, spc, was_empty, ninsert, index, sent, committed, conf>>

\* sd_queue_wait up to its wait, at the start and after a wakeup.
\* pthread_cond_timedwait releases the lock when it sleeps.
Wait ==
  /\ tpc \in {"ready", "woken"}
  /\ lock = NULL
  /\ IF list = <<>>
     THEN tpc' = "wait" /\ UNCHANGED <<list, taken>>
     ELSE Take
  /\ UNCHANGED <<lock, spc, was_empty, ninsert, index, sent, committed, conf>>

\* Mutant of Timeout: the wait has no limit.
TimeoutNever ==
  /\ tpc = "wait"
  /\ FALSE
  /\ UNCHANGED qvars

\* The timeout expires; the lock has to be taken before sd_queue_wait goes on.
Timeout ==
  /\ tpc = "wait"
  /\ tpc' = "timedout"
  /\ UNCHANGED <<queueVars, taken, conf>>

TimedOut ==
  /\ tpc = "timedout"
  /\ lock = NULL
  /\ Take
  /\ UNCHANGED <<lock, spc, was_empty, ninsert, index, sent, committed, conf>>

\* The thread applies what it has taken.
Process ==
  /\ tpc = "process"
  /\ conf' = ApplyAll(conf, taken)
  /\ taken' = <<>>
  /\ tpc' = "ready"
  /\ UNCHANGED queueVars

Source == Begin \/ (\E v \in Values : Insert(v)) \/ Commit \/ Broadcast
Waiting == Wait \/ Timeout \/ TimedOut

QueueNext == Source \/ Waiting \/ Process

QueueSpec == QueueInit /\ [][QueueNext]_qvars

\* A source that began a transaction ends it, and the thread runs; nothing is
\* assumed of the timeout.
QueueFair ==
  /\ QueueSpec
  /\ WF_qvars(Commit) /\ WF_qvars(Broadcast)
  /\ WF_qvars(Wait) /\ WF_qvars(TimedOut) /\ WF_qvars(Process)
-----------------------------------------------------------------------------
\* "any duplicate keys should be removed" (sd_queue.c:45).  sd_queue_insert only
\* removes the first duplicate, which is enough as long as this holds.
NoDuplicates ==
  \A i, j \in DOMAIN list : SameKey(list[i], list[j]) => i = j

\* Replacing values that were not taken yet (sd_queue_insert) never changes the
\* outcome: what the thread has, with what it took and what is still queued, is
\* what the source sent, value by value.
Coalesced == ApplyAll(ApplyAll(conf, taken), list) = sent

\* A thread that sleeps in sd_queue_wait while there is something in the list
\* is about to be woken: sd_queue_commit only signals the change from empty.
NoLostWakeup ==
  tpc = "wait" /\ list # <<>> => spc \in {"insert", "broadcast"}

\* What was sent arrives once the source pauses, without the help of the
\* timeout of sd_queue_wait.
Arrives == <>[](conf = sent)

\* The thread ends up with what the source sent, with the whole of it.
SentArrives == []Coalesced /\ Arrives

\* The states are the configurations.
Feed == INSTANCE SdFeed WITH
  States <- Confs, NoState <- Static,
  published <- committed, seen <- ApplyAll(conf, taken)

\* The queue implements SdFeed: the thread only ever sees the configuration as
\* it was after a whole transaction, because the lock is held from
\* sd_queue_begin to sd_queue_commit, and the values it takes add up to it.
FeedSpec == Feed!Spec

\* The list has one value for a key, and a thread that sleeps is told of it.
QueueSound == NoDuplicates /\ NoLostWakeup
=============================================================================
