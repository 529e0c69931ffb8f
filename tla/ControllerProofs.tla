-------------------------- MODULE ControllerProofs --------------------------
(***************************************************************************)
(* Proofs about Controller, for every number of workers and connections:   *)
(* each connection is in one place, no freed handler is called, nothing is *)
(* closed twice, and no request in time is dropped.  ThreadInv is kept on  *)
(* its own; the others need each other and are kept together.              *)
(***************************************************************************)
EXTENDS Controller, TLAPS

\* Zenon finds most of the leaves by itself.
USE ZenonT(20), SMTT(10)

\* The threads that run ctrl_quit_stage_one.
Callers == Workers \cup {"main"}

\* Stage one has waited for the listen thread.
ListenJoined ==
  \/ posted
  \/ pc["main"] \in {"stage_two", "two_join", "freed"}
  \/ \E t \in Callers : pc[t] \in {"q_broadcast", "q_join"}

\* Who has been started and joined: a worker that was joined has returned,
\* ctrl_free joins them all, and the listen thread returned before its join.
ThreadInv ==
  /\ pc = [t \in Threads |-> pc[t]]
  /\ worker_threads \subseteq Workers
  /\ \A w \in Workers \ worker_threads : pc[w] = "exit"
  /\ pc["main"] = "freed" => worker_threads = {}
  /\ ListenJoined => pc["listener"] = "exit"

\* The labels at which a worker has a connection.
Busy == {"run", "test", "ctl", "q_pipe", "q_listen", "q_join_listen", "q_broadcast", "q_join"}

\* No element of the sequence is there twice.
Unique(s) == \A i, j \in DOMAIN s : s[i] = s[j] => i = j

\* OnePlace, with the connections that are on their way to the event list.
PlaceInv ==
  /\ Unique(job_list)
  /\ \A w \in Workers : IF pc[w] \in Busy THEN cur[w] \in Fds ELSE cur[w] = NULL
  /\ \A v, w \in Workers : v # w /\ cur[v] = cur[w] => cur[v] = NULL
  /\ \A w \in Workers : cur[w] \in event_list <=> pc[w] \in {"test", "ctl"}
  /\ \A w \in Workers : cur[w] \notin Range(job_list) \cup given
  /\ Range(job_list) \cap (event_list \cup given) = {}
  /\ event_list \cap given = {}
  /\ pc["main"] # "freed" =>
       \A f \in Fds : f \in open <=> \/ f \in Range(job_list) \cup event_list \cup given
                                     \/ \E w \in Workers : cur[w] = f

\* The epoll descriptor is open.
Polling == epoll # NULL \/ pc["listener"] \notin {"init", "exit"}

\* What epoll watches and reports has a handler, and belongs to no worker.
WatchInv ==
  /\ batch \subseteq event_list
  /\ batch # {} => pc["listener"] = "events"
  /\ pc["listener"] = "exit" => epoll = NULL
  /\ Polling => epoll \subseteq event_list
  /\ pc["listener"] \in {"test", "ctl"} => cur["listener"] \in {NULL} \cup (event_list \ (Fds \cup epoll))
  /\ pc["listener"] \in {"test", "ctl", "add_close"} => "close0" \notin epoll
  /\ \A w \in Workers : cur[w] \notin batch /\ (Polling => cur[w] \notin epoll)

\* One thread runs stage one, once.
MutexInv ==
  /\ \A t \in Callers : pc[t] \in Busy \ {"run", "test", "ctl"} => quit_mutex = t /\ quit
  /\ quit_mutex = NULL => listen_socket = "listen" /\ (pipe => "close1" \in open)
  /\ \A t \in Callers : pc[t] \in {"q_pipe", "q_listen"} => listen_socket = "listen"
  /\ \A t \in Callers : pc[t] = "q_pipe" /\ pipe => "close1" \in open
  /\ listen_socket = NULL => quit
  /\ pc["listener"] \in {"test", "ctl"} /\ cur["listener"] = NULL =>
       quit /\ pc["listener"] = "test"

\* A request that is not late is left to a worker that has not left its loop.
EndInv ==
  /\ \/ Range(job_list) \subseteq late
     \/ \E w \in Workers : pc[w] \notin {"start", "exit"}
  /\ CleanedUp

\* The inductive invariant.
CtrlInv == ThreadInv /\ TypeOK /\ PlaceInv /\ WatchInv /\ MutexInv /\ EndInv

\* No thread has been joined when the controller starts.
LEMMA ThreadInit == Init => ThreadInv
BY ThreadNames DEF Init, ThreadInv, Threads, ListenJoined, Callers

\* Signalling a job moves a waiting worker only.
LEMMA ThreadQueue ==
  ASSUME ThreadInv, NEW f, QueueJob(f, "events"), pc["listener"] = "events",
         UNCHANGED <<worker_threads, posted>>
  PROVE  ThreadInv'
BY ThreadNames DEF QueueJob, Goto, ThreadInv, ListenJoined, Callers, Threads

\* No step of any thread undoes a join.
LEMMA ThreadNext == ThreadInv /\ [Next]_vars => ThreadInv'
<1> SUFFICES ASSUME ThreadInv, [Next]_vars PROVE ThreadInv'
  OBVIOUS
<1> USE ThreadNames DEF ThreadInv, ListenJoined, Callers, Threads, Goto
<1>1. CASE UNCHANGED vars
  BY <1>1 DEF vars, quitVars
<1>2. CASE ListenInit \/ ListenAddClose \/ PollTest \/ Poll \/ CloseEvent \/ EventsDone
           \/ ListenQuit \/ ListenExit \/ PollError
  BY SMTT(10), <1>2 DEF ListenInit, ListenAddClose, PollTest, Poll, CloseEvent, EventsDone, ListenQuit, ListenExit,
              PollError, quitVars
<1>3. ASSUME NEW t \in Threads, EventTest(t) \/ EventCtl(t) PROVE ThreadInv'
  BY SMTT(10), <1>3 DEF EventTest, EventCtl, Added, quitVars
<1>4. ASSUME NEW f \in Fds, ReadEvent(f) PROVE ThreadInv'
  BY <1>4, ThreadQueue DEF ReadEvent, quitVars
<1>5. CASE AcceptEvent
  BY <1>5, ThreadQueue DEF AcceptEvent, quitVars
<1>6. ASSUME NEW w \in Workers, WorkerLoop(w) \/ Finish(w) \/ Upgrade(w) \/ KeepAlive(w) PROVE ThreadInv'
  <2>1. CASE WorkerLoop(w)
    BY <1>6, <2>1 DEF WorkerLoop, quitVars
  <2>2. CASE Finish(w) \/ Upgrade(w) \/ KeepAlive(w)
    BY SMTT(10), <1>6, <2>2 DEF Finish, Upgrade, KeepAlive, quitVars
  <2> QED BY <1>6, <2>1, <2>2
<1>7. ASSUME NEW t \in Callers, Quitting(t) PROVE ThreadInv'
  <2>1. CASE StageOne(t) \/ QuitPipe(t) \/ QuitListen(t) \/ JoinListen(t)
    BY SMTT(10), <1>7, <2>1 DEF StageOne, QuitPipe, QuitListen, JoinListen, quitVars
  <2>2. CASE QuitBroadcast(t)
    BY <1>7, <2>2 DEF QuitBroadcast, quitVars
  <2>3. CASE JoinWorker(t)
    BY <1>7, <2>3 DEF JoinWorker
  <2>4. CASE StageOneDone(t)
    BY <1>7, <2>4 DEF StageOneDone
  <2> QED BY <1>7, <2>1, <2>2, <2>3, <2>4 DEF Quitting
<1>8. CASE StageTwo \/ Cleanup \/ Terminated
  BY <1>8 DEF StageTwo, Cleanup, Terminated, vars, quitVars
<1> QED BY <1>1, <1>2, <1>3, <1>4, <1>5, <1>6, <1>7, <1>8 DEF Next, Listener, Worker

-----------------------------------------------------------------------------
\* queue_job_and_signal appends, worker_thread takes the head.
LEMMA Queued ==
  ASSUME NEW s \in Seq(Fds), NEW f \in Fds
  PROVE  /\ Append(s, f) \in Seq(Fds)
         /\ Range(Append(s, f)) = Range(s) \cup {f}
         /\ Unique(s) /\ f \notin Range(s) => Unique(Append(s, f))
<1>1. /\ Append(s, f) \in Seq(Fds) /\ DOMAIN s = 1 .. Len(s) /\ Len(s) \in Nat
      /\ DOMAIN Append(s, f) = 1 .. Len(s) + 1
      /\ Append(s, f)[Len(s) + 1] = f
      /\ \A i \in 1 .. Len(s) : Append(s, f)[i] = s[i]
  OBVIOUS
<1>2. Range(Append(s, f)) = Range(s) \cup {f}
  BY SMTT(10), <1>1 DEF Range
<1>3. ASSUME Unique(s), f \notin Range(s) PROVE Unique(Append(s, f))
  BY SMTT(10), <1>1, <1>3 DEF Unique, Range
<1> QED BY <1>1, <1>2, <1>3

\* So does taking the first job, which is then no longer in the list.
LEMMA Taken ==
  ASSUME NEW s \in Seq(Fds), s # <<>>
  PROVE  /\ Head(s) \in Fds /\ Tail(s) \in Seq(Fds)
         /\ Range(s) = Range(Tail(s)) \cup {Head(s)}
         /\ Unique(s) => Unique(Tail(s)) /\ Head(s) \notin Range(Tail(s))
<1>1. /\ Head(s) \in Fds /\ Tail(s) \in Seq(Fds) /\ DOMAIN s = 1 .. Len(s) /\ Len(s) \in Nat \ {0}
      /\ DOMAIN Tail(s) = 1 .. Len(s) - 1
      /\ Head(s) = s[1]
      /\ \A i \in 1 .. Len(s) - 1 : Tail(s)[i] = s[i + 1]
  OBVIOUS
<1>2. \A i \in 1 .. Len(s) : i = 1 \/ (i - 1 \in 1 .. Len(s) - 1 /\ i = (i - 1) + 1)
  BY SMTT(10), <1>1
<1>3. \A i \in 1 .. Len(s) - 1 : i + 1 \in 1 .. Len(s) /\ i + 1 # 1
  BY SMTT(10), <1>1
<1>4. Range(s) = Range(Tail(s)) \cup {Head(s)}
  <2>1. ASSUME NEW i \in 1 .. Len(s) PROVE s[i] = s[1] \/ \E j \in 1 .. Len(s) - 1 : s[i] = Tail(s)[j]
    BY <1>1, <1>2
  <2>2. ASSUME NEW i \in 1 .. Len(s) - 1 PROVE \E j \in 1 .. Len(s) : s[j] = Tail(s)[i]
    BY <1>1, <1>3
  <2>3. 1 \in 1 .. Len(s)
    BY <1>1
  <2>4. Range(s) = {s[i] : i \in 1 .. Len(s)} /\ Range(Tail(s)) = {Tail(s)[i] : i \in 1 .. Len(s) - 1}
    BY <1>1 DEF Range
  <2> QED BY SMTT(10), <1>1, <2>1, <2>2, <2>3, <2>4
<1>5. ASSUME Unique(s) PROVE Unique(Tail(s)) /\ Head(s) \notin Range(Tail(s))
  BY SMTT(10), <1>1, <1>3, <1>5 DEF Unique, Range
<1> QED BY <1>1, <1>4, <1>5

\* The entries of a list of connections.
LEMMA RangeInFds == ASSUME NEW s \in Seq(Fds) PROVE Range(s) \subseteq Fds
BY DEF Range

\* What queue_job_and_signal does to the list and the labels.
Signals(f) ==
  /\ job_list' \in Seq(Fds) /\ Range(job_list') = Range(job_list) \cup {f}
  /\ Unique(job_list) /\ f \notin Range(job_list) => Unique(job_list')
  /\ late' = IF WillLook THEN late \ {f} ELSE late \cup {f}
  /\ DOMAIN pc' = Threads
  /\ pc["listener"] = "events" /\ pc'["listener"] = "events" /\ pc'["main"] = pc["main"]
  /\ \A w \in Workers : pc'[w] = pc[w] \/ (pc[w] = "wait" /\ pc'[w] = "woken")

\* What QueueJob does, without the choice of the thread it wakes.
LEMMA Signalled ==
  ASSUME ThreadInv, TypeOK, NEW f \in Fds, QueueJob(f, "events"), pc["listener"] = "events"
  PROVE  Signals(f)
<1>1. job_list \in Seq(Fds) /\ job_list' = Append(job_list, f)
  BY DEF TypeOK, QueueJob
<1>2. /\ DOMAIN pc' = Threads /\ pc'["listener"] = "events" /\ pc'["main"] = pc["main"]
      /\ \A w \in Workers : pc'[w] = pc[w] \/ (pc[w] = "wait" /\ pc'[w] = "woken")
  BY ThreadNames DEF QueueJob, Goto, ThreadInv, Threads
<1> QED BY <1>1, <1>2, Queued DEF Signals, QueueJob

\* The two ways through the loop of a worker: with nothing to do, or with a job.
Rests(w) ==
  /\ pc[w] \in {"start", "woken", "return"} /\ pc'[w] \in {"wait", "exit"}
  /\ pc'[w] = "exit" => pc[w] = "start" \/ job_list = <<>>
  /\ DOMAIN pc' = Threads /\ \A t \in Threads \ {w} : pc'[t] = pc[t]
  /\ UNCHANGED <<cur, evVars, fdVars, jobVars, quitVars>>

\* A worker takes connection f from the jobs.
Takes(w, f) ==
  /\ pc[w] \in {"start", "woken", "return"} /\ pc'[w] = "run"
  /\ DOMAIN pc' = Threads /\ \A t \in Threads \ {w} : pc'[t] = pc[t]
  /\ cur' = [cur EXCEPT ![w] = f]
  /\ job_list' \in Seq(Fds) /\ Range(job_list) = Range(job_list') \cup {f}
  /\ Unique(job_list) => Unique(job_list') /\ f \notin Range(job_list')
  /\ late' = late \ {f}
  /\ UNCHANGED <<evVars, fdVars, quitVars>>

\* A turn of the worker's loop rests or takes a job.
LEMMA Looped ==
  ASSUME ThreadInv, TypeOK, NEW w \in Workers, WorkerLoop(w)
  PROVE  Rests(w) \/ \E f \in Fds : Takes(w, f)
<1>1. pc = [t \in Threads |-> pc[t]] /\ w \in Threads /\ job_list \in Seq(Fds)
  BY DEF ThreadInv, Threads, TypeOK
<1>2. CASE job_list = <<>> \/ (quit /\ pc[w] = "start")
  BY <1>1, <1>2 DEF WorkerLoop, Goto, Rests
<1>3. CASE ~(job_list = <<>> \/ (quit /\ pc[w] = "start"))
  <2>1. Head(job_list) \in Fds
    BY <1>1, <1>3, Taken
  <2>2. pc' = [pc EXCEPT ![w] = "run"] /\ job_list' = Tail(job_list)
    BY <1>3 DEF WorkerLoop, Goto
  <2>3. Takes(w, Head(job_list))
    BY <1>1, <1>3, <2>2, Taken DEF WorkerLoop, Takes
  <2> QED BY <2>1, <2>3
<1> QED BY <1>2, <1>3

\* The invariant holds when the controller starts.
LEMMA CtrlInit == Init => CtrlInv
<1> SUFFICES ASSUME Init PROVE CtrlInv
  OBVIOUS
<1>1. Range(job_list) = {} /\ job_list \in Seq(Fds) /\ Unique(job_list)
  BY SMTT(10) DEF Init, Range, Unique
<1>2. TypeOK
  BY <1>1 DEF Init, TypeOK, Threads
<1>3. PlaceInv /\ WatchInv /\ MutexInv /\ EndInv
  BY <1>1, ThreadNames, FdNames, NullName
  DEF Init, PlaceInv, WatchInv, Polling, MutexInv, EndInv, CleanedUp, Threads, Busy, Callers
<1> QED BY <1>2, <1>3, ThreadInit DEF CtrlInv

\* read_event and accept_event queue a job.
LEMMA QueueKeeps ==
  ASSUME CtrlInv, NEW f \in Fds,
         \/ ReadEvent(f)
         \/ /\ AcceptEvent /\ f \notin open /\ open' = open \cup {f} /\ QueueJob(f, "events")
            /\ UNCHANGED <<given, badclose>>
  PROVE  TypeOK' /\ PlaceInv' /\ WatchInv' /\ MutexInv' /\ EndInv'
<1> USE ThreadNames, FdNames, NullName DEF Threads
<1>1. Signals(f) /\ UNCHANGED <<cur, quitVars, given, badclose>>
  BY Signalled DEF CtrlInv, ReadEvent, AcceptEvent, fdVars
<1>2. /\ batch' \subseteq batch /\ event_list' \subseteq event_list
      /\ \/ /\ f \in event_list /\ f \in batch /\ epoll' = epoll \ {f} /\ batch' = batch \ {f}
            /\ event_list' = event_list \ {f} /\ open' = open
         \/ /\ f \notin open /\ open' = open \cup {f}
            /\ UNCHANGED <<event_list, epoll>>
  BY DEF ReadEvent, AcceptEvent, CtrlInv, WatchInv, fdVars
<1>3. Range(job_list) \subseteq Fds /\ pc["main"] # "freed" /\ epoll \subseteq event_list
  BY <1>1, RangeInFds DEF CtrlInv, TypeOK, ThreadInv, ListenJoined, Signals, WatchInv, Polling
<1>4. f \notin Range(job_list) \cup given /\ \A w \in Workers : cur[w] # f
  BY SMTT(10), <1>2, <1>3 DEF CtrlInv, PlaceInv, WatchInv
<1>5. TypeOK'
  BY <1>1, <1>2, <1>3 DEF Signals, TypeOK, CtrlInv, quitVars
<1>6. PlaceInv'
  <2>1. \A w \in Workers : (pc'[w] \in Busy <=> pc[w] \in Busy) /\ (pc'[w] \in {"test", "ctl"} <=> pc[w] \in {"test", "ctl"})
    BY <1>1 DEF Signals, Busy
  <2>2. Unique(job_list) /\ Unique(job_list)'
    BY <1>1, <1>4 DEF Signals, CtrlInv, PlaceInv
  <2>3. f \notin event_list'
    BY <1>2, <1>3 DEF CtrlInv, PlaceInv
  <2>4. Range(job_list') = Range(job_list) \cup {f} /\ pc'["main"] = pc["main"] /\ UNCHANGED <<cur, given>>
    BY <1>1 DEF Signals
  <2>5. PlaceInv
    BY DEF CtrlInv
  <2>6. /\ \A w \in Workers : IF pc'[w] \in Busy THEN cur'[w] \in Fds ELSE cur'[w] = NULL
        /\ \A v, w \in Workers : v # w /\ cur'[v] = cur'[w] => cur'[v] = NULL
        /\ \A w \in Workers : cur'[w] \notin Range(job_list') \cup given'
    BY <2>1, <2>4, <2>5, <1>4 DEF PlaceInv
  <2>7. \A w \in Workers : cur'[w] \in event_list' <=> pc'[w] \in {"test", "ctl"}
    BY <2>1, <2>4, <2>5, <1>2, <1>4 DEF PlaceInv
  <2>8. Range(job_list') \cap (event_list' \cup given') = {} /\ event_list' \cap given' = {}
    BY SMTT(10), <2>3, <2>4, <2>5, <1>2, <1>4 DEF PlaceInv
  <2>9. \A g \in Fds : g \in open' <=> \/ g \in Range(job_list') \cup event_list' \cup given'
                                       \/ \E w \in Workers : cur'[w] = g
    BY SMTT(10), <2>4, <2>5, <1>2, <1>3, <1>4 DEF PlaceInv
  <2> QED BY <2>2, <2>6, <2>7, <2>8, <2>9 DEF PlaceInv
<1>7. WatchInv'
  <2>1. batch' \subseteq event_list' /\ epoll' \subseteq event_list' /\ batch' \subseteq batch /\ epoll' \subseteq epoll
    BY <1>2, <1>3 DEF WatchInv, CtrlInv, ReadEvent, AcceptEvent
  <2> QED BY <1>1, <2>1 DEF Signals, WatchInv, CtrlInv, Polling
<1>8. MutexInv'
  BY <1>1, <1>2 DEF Signals, MutexInv, CtrlInv, Busy, Callers, quitVars
<1>9. EndInv'
  BY <1>1, <1>3, <1>4 DEF Signals, EndInv, CleanedUp, CtrlInv, WillLook
<1> QED BY <1>5, <1>6, <1>7, <1>8, <1>9

\* worker_thread waits, ends or takes a job.
LEMMA LoopKeeps ==
  ASSUME CtrlInv, NEW w \in Workers, WorkerLoop(w)
  PROVE  TypeOK' /\ PlaceInv' /\ WatchInv' /\ MutexInv' /\ EndInv'
<1> USE ThreadNames, FdNames, NullName DEF Threads
<1>1. ThreadInv /\ TypeOK /\ PlaceInv /\ WatchInv /\ MutexInv /\ EndInv
  BY DEF CtrlInv
<1>2. Range(job_list) \subseteq Fds
  BY <1>1, RangeInFds DEF TypeOK
<1>3. CASE Rests(w)
  <2>1. TypeOK' /\ PlaceInv' /\ WatchInv'
    BY SMTT(10), <1>1, <1>3 DEF Rests, TypeOK, PlaceInv, WatchInv, Polling, Busy, evVars, fdVars, jobVars, quitVars
  <2>2. MutexInv'
    BY <1>1, <1>3 DEF Rests, MutexInv, Busy, Callers, evVars, fdVars, jobVars, quitVars
  <2>3. job_list = <<>> => Range(job_list) = {}
    BY SMTT(10) DEF Range
  <2>4. EndInv'
    BY <1>1, <1>3, <2>3 DEF Rests, EndInv, CleanedUp, evVars, fdVars, jobVars, quitVars
  <2> QED BY <2>1, <2>2, <2>4
<1>4. ASSUME NEW f \in Fds, Takes(w, f) PROVE TypeOK' /\ PlaceInv' /\ WatchInv' /\ MutexInv' /\ EndInv'
  <2>1. /\ UNCHANGED <<evVars, fdVars, quitVars>> /\ cur[w] = NULL
        /\ cur'[w] = f /\ \A t \in Threads \ {w} : cur'[t] = cur[t] /\ pc'[t] = pc[t]
    BY <1>1, <1>4 DEF Takes, TypeOK, PlaceInv, Busy
  <2>2. f \in Range(job_list) /\ f \notin event_list \cup given
    BY <1>1, <1>4 DEF Takes, PlaceInv
  <2>3. \A v \in Workers : cur[v] # f
    BY SMTT(10), <1>1, <2>2 DEF PlaceInv
  <2>4. TypeOK'
    BY <1>1, <1>4 DEF Takes, TypeOK, evVars, fdVars, quitVars
  <2>5. PlaceInv'
    <3>1. /\ Unique(job_list') /\ Range(job_list) = Range(job_list') \cup {f}
          /\ f \notin Range(job_list') /\ pc'[w] = "run" /\ "run" \in Busy
      BY <1>1, <1>4 DEF Takes, PlaceInv, Busy
    <3>2. /\ \A v \in Workers : IF pc'[v] \in Busy THEN cur'[v] \in Fds ELSE cur'[v] = NULL
          /\ \A u, v \in Workers : u # v /\ cur'[u] = cur'[v] => cur'[u] = NULL
      BY SMTT(10), <1>1, <2>1, <2>3, <3>1 DEF PlaceInv
    <3>3. /\ \A v \in Workers : cur'[v] \in event_list' <=> pc'[v] \in {"test", "ctl"}
          /\ \A v \in Workers : cur'[v] \notin Range(job_list') \cup given'
      BY <1>1, <2>1, <2>2, <2>3, <3>1 DEF PlaceInv, evVars, fdVars
    <3>4. Range(job_list') \cap (event_list' \cup given') = {} /\ event_list' \cap given' = {}
      BY <1>1, <2>1, <3>1 DEF PlaceInv, evVars, fdVars
    <3>5. \A g \in Fds : (\E v \in Workers : cur'[v] = g) <=> g = f \/ \E v \in Workers : cur[v] = g
      BY <2>1
    <3>6. pc'["main"] # "freed" =>
            \A g \in Fds : g \in open' <=> \/ g \in Range(job_list') \cup event_list' \cup given'
                                           \/ \E v \in Workers : cur'[v] = g
      BY <1>1, <2>1, <2>2, <3>1, <3>5 DEF PlaceInv, evVars, fdVars
    <3> QED BY <3>1, <3>2, <3>3, <3>4, <3>6 DEF PlaceInv
  <2>6. WatchInv'
    BY <1>1, <2>1, <2>2 DEF WatchInv, Polling, evVars
  <2>7. MutexInv'
    BY SMTT(10), <1>1, <1>4, <2>1 DEF Takes, MutexInv, Busy, Callers, fdVars, quitVars
  <2>8. EndInv'
    BY <1>1, <1>4, <2>1 DEF Takes, EndInv, CleanedUp, ThreadInv, fdVars
  <2> QED BY <2>4, <2>5, <2>6, <2>7, <2>8
<1> QED BY <1>1, <1>3, <1>4, Looped

\* event_add by a worker: it gives the connection to the event list, or closes
\* it.
LEMMA WorkerAdds ==
  ASSUME CtrlInv, NEW w \in Workers, EventTest(w) \/ EventCtl(w)
  PROVE  TypeOK' /\ PlaceInv' /\ WatchInv' /\ MutexInv' /\ EndInv'
<1> USE ThreadNames, FdNames, NullName DEF Threads
<1>1. ThreadInv /\ TypeOK /\ PlaceInv /\ WatchInv /\ MutexInv /\ EndInv
  BY DEF CtrlInv
<1>2. /\ pc[w] \in {"test", "ctl"} /\ pc["main"] # "freed"
      /\ cur[w] \in Fds /\ cur[w] \in event_list /\ cur[w] \in open
  BY <1>1 DEF EventTest, EventCtl, PlaceInv, Busy, ThreadInv
<1>3. /\ DOMAIN pc' = Threads /\ \A t \in Threads \ {w} : pc'[t] = pc[t]
      /\ \/ pc'[w] = "ctl" /\ UNCHANGED cur
         \/ pc'[w] = "return" /\ cur' = [cur EXCEPT ![w] = NULL]
  BY <1>1 DEF EventTest, EventCtl, Added, Goto, ThreadInv
<1>4. /\ UNCHANGED <<job_list, late, given, batch, badclose, quitVars>>
      /\ \/ UNCHANGED <<event_list, epoll, open>>
         \/ pc'[w] = "return" /\ epoll # NULL /\ epoll' = epoll \cup {cur[w]} /\ UNCHANGED <<event_list, open>>
         \/ pc'[w] = "return" /\ event_list' = event_list \ {cur[w]} /\ open' = open \ {cur[w]} /\ UNCHANGED epoll
  BY SMTT(10), <1>1, <1>2 DEF EventTest, EventCtl, Added, Goto, Close, ThreadInv, evVars, fdVars, jobVars
<1>5. \A v \in Workers \ {w} : cur'[v] = cur[v] /\ cur[v] # cur[w]
  BY <1>1, <1>2, <1>3 DEF TypeOK, PlaceInv
<1>6. TypeOK'
  BY <1>1, <1>2, <1>3, <1>4 DEF TypeOK, quitVars
<1>7. PlaceInv'
  <2>1. Unique(job_list') /\ Range(job_list') = Range(job_list) /\ Range(job_list) \subseteq Fds
    BY <1>1, <1>4, RangeInFds DEF PlaceInv, TypeOK
  <2>2. cur'[w] \in {cur[w], NULL} /\ (cur'[w] = NULL <=> pc'[w] = "return") /\ NULL \notin event_list'
    BY <1>1, <1>2, <1>3, <1>4 DEF TypeOK
  <2>3. /\ \A v \in Workers : IF pc'[v] \in Busy THEN cur'[v] \in Fds ELSE cur'[v] = NULL
        /\ \A u, v \in Workers : u # v /\ cur'[u] = cur'[v] => cur'[u] = NULL
    BY SMTT(10), <1>1, <1>2, <1>3, <1>5, <2>2 DEF PlaceInv, Busy
  <2>4. \A v \in Workers : cur'[v] \in event_list' <=> pc'[v] \in {"test", "ctl"}
    BY SMTT(10), <1>1, <1>2, <1>3, <1>4, <1>5, <2>2 DEF PlaceInv
  <2>5. \A v \in Workers : cur'[v] \notin Range(job_list') \cup given'
    BY <1>1, <1>4, <1>5, <2>1, <2>2 DEF PlaceInv, TypeOK
  <2>6. Range(job_list') \cap (event_list' \cup given') = {} /\ event_list' \cap given' = {}
    BY <1>1, <1>4, <2>1 DEF PlaceInv
  <2>7. \A g \in Fds : g \in open' <=> \/ g \in Range(job_list') \cup event_list' \cup given'
                                       \/ \E v \in Workers : cur'[v] = g
    BY SMTT(10), <1>1, <1>2, <1>3, <1>4, <1>5, <2>1, <2>2 DEF PlaceInv
  <2> QED BY <2>1, <2>3, <2>4, <2>5, <2>6, <2>7 DEF PlaceInv
<1>8. WatchInv'
  BY SMTT(10), <1>1, <1>2, <1>3, <1>4, <1>5 DEF WatchInv, Polling, TypeOK
<1>9. MutexInv'
  BY <1>1, <1>2, <1>3, <1>4 DEF MutexInv, Busy, Callers, TypeOK, quitVars
<1>10. EndInv'
  BY <1>1, <1>2, <1>3, <1>4 DEF EndInv, CleanedUp
<1> QED BY <1>6, <1>7, <1>8, <1>9, <1>10

\* event_add by the listen thread.
LEMMA ListenerAdds ==
  ASSUME CtrlInv, EventTest("listener") \/ EventCtl("listener")
  PROVE  TypeOK' /\ PlaceInv' /\ WatchInv' /\ MutexInv' /\ EndInv'
<1> USE ThreadNames, FdNames, NullName DEF Threads
<1>1. ThreadInv /\ TypeOK /\ PlaceInv /\ WatchInv /\ MutexInv /\ EndInv
  BY DEF CtrlInv
<1>2. /\ pc["listener"] \in {"test", "ctl"} /\ pc["main"] # "freed" /\ batch = {}
      /\ cur["listener"] \in {NULL} \cup (event_list \ Fds)
      /\ pc["listener"] = "ctl" => cur["listener"] # NULL
  BY <1>1 DEF EventTest, EventCtl, ThreadInv, ListenJoined, WatchInv, MutexInv
<1>3. /\ DOMAIN pc' = Threads /\ \A t \in Threads \ {"listener"} : pc'[t] = pc[t] /\ cur'[t] = cur[t]
      /\ \/ pc'["listener"] = "ctl" /\ UNCHANGED <<cur, evVars>> /\ ~quit
         \/ /\ pc'["listener"] = "poll" \/ (pc'["listener"] = "add_close" /\ cur["listener"] # "close0")
            /\ cur' = [cur EXCEPT !["listener"] = NULL]
  <2>1. CASE Added("listener")
    <3>1. CASE pipe /\ cur["listener"] # "close0"
      BY <1>1, <2>1, <3>1 DEF Added, Goto, ThreadInv, TypeOK
    <3>2. CASE ~(pipe /\ cur["listener"] # "close0")
      BY <1>1, <2>1, <3>2 DEF Added, Goto, ThreadInv, TypeOK
    <3> QED BY <3>1, <3>2
  <2>2. CASE ~quit /\ Goto("listener", "ctl") /\ UNCHANGED <<cur, evVars>>
    BY <1>1, <2>2 DEF Goto, ThreadInv
  <2> QED BY <2>1, <2>2 DEF EventTest, EventCtl
<1>4. /\ UNCHANGED <<job_list, late, given, batch, quitVars>>
      /\ \/ UNCHANGED <<event_list, epoll, open, badclose>>
         \/ epoll' = epoll \cup {cur["listener"]} /\ cur["listener"] # NULL /\ UNCHANGED <<event_list, open, badclose>>
         \/ /\ event_list' = event_list \ {cur["listener"]} /\ open' = open \ {cur["listener"]} /\ UNCHANGED epoll
            /\ cur["listener"] \notin Fds /\ cur["listener"] # NULL
            /\ badclose' = badclose \cup ({cur["listener"]} \ open)
            /\ epoll = NULL \/ cur["listener"] \notin open
  BY <1>1, <1>2 DEF EventTest, EventCtl, Close, evVars, fdVars, jobVars
<1>5. TypeOK'
  <2>1. epoll \subseteq event_list
    BY <1>1, <1>2 DEF WatchInv, Polling
  <2>2. cur["listener"] \in Fds \cup {"listen", "close0", NULL}
    BY <1>1 DEF TypeOK
  <2> QED BY SMTT(10), <1>1, <1>2, <1>3, <1>4, <2>1, <2>2 DEF TypeOK, quitVars
<1>6. PlaceInv'
  BY SMTT(10), <1>1, <1>2, <1>3, <1>4 DEF PlaceInv, TypeOK
<1>7. WatchInv'
  <2>1. \A w \in Workers : cur[w] # cur["listener"] \/ cur[w] = NULL
    BY <1>1, <1>2 DEF PlaceInv
  <2>2. NULL \notin event_list
    BY <1>1 DEF TypeOK
  <2>3. CASE UNCHANGED <<cur, evVars>>
    BY <1>1, <1>2, <1>3, <2>3 DEF WatchInv, Polling, evVars
  <2>4. CASE ~UNCHANGED <<cur, evVars>>
    BY <1>1, <1>2, <1>3, <1>4, <2>1, <2>2, <2>4 DEF WatchInv, Polling
  <2> QED BY <2>3, <2>4
<1>8. MutexInv'
  BY <1>1, <1>2, <1>3, <1>4 DEF MutexInv, Busy, Callers, TypeOK, quitVars
<1>9. EndInv'
  BY <1>1, <1>2, <1>3, <1>4 DEF EndInv, CleanedUp, TypeOK
<1> QED BY <1>5, <1>6, <1>7, <1>8, <1>9

\* The other steps of the listen thread touch no connection.
LEMMA ListenerKeeps ==
  ASSUME CtrlInv,
         ListenInit \/ ListenAddClose \/ PollTest \/ EventsDone \/ ListenQuit \/ Poll \/ PollError
         \/ CloseEvent \/ ListenExit
  PROVE  TypeOK' /\ PlaceInv' /\ WatchInv' /\ MutexInv' /\ EndInv'
<1> USE ThreadNames, FdNames, NullName DEF Threads
<1>1. ThreadInv /\ TypeOK /\ PlaceInv /\ WatchInv /\ MutexInv /\ EndInv
  BY DEF CtrlInv
<1>2. /\ DOMAIN pc' = Threads /\ \A t \in Threads \ {"listener"} : pc'[t] = pc[t]
      /\ UNCHANGED <<job_list, late, open, given, badclose, quit_mutex, listen_socket, pipe, posted,
                     close_listen, worker_threads>>
      /\ pc["main"] # "freed"
  BY <1>1 DEF ListenInit, ListenAddClose, PollTest, EventsDone, ListenQuit, Poll, PollError, CloseEvent,
              ListenExit, Goto, ThreadInv, ListenJoined, evVars, fdVars, jobVars, quitVars
<1>3. EndInv'
  BY <1>1, <1>2 DEF EndInv, CleanedUp
<1>4. /\ \A w \in Workers : cur'[w] = cur[w]
      /\ \A f \in Fds : f \in event_list' <=> f \in event_list
      /\ event_list' \subseteq Fds \cup {"listen", "close0"}
  BY <1>1 DEF ListenInit, ListenAddClose, PollTest, EventsDone, ListenQuit, Poll, PollError, CloseEvent,
              ListenExit, TypeOK, evVars
<1>5. PlaceInv'
  <2>1. Range(job_list) \subseteq Fds /\ given \subseteq Fds /\ event_list \subseteq Fds \cup {"listen", "close0"}
    BY <1>1, RangeInFds DEF TypeOK
  <2>2. \A w \in Workers : cur[w] \in event_list <=> cur'[w] \in event_list'
    BY <1>1, <1>4, <2>1 DEF PlaceInv
  <2>3. event_list' \cap given' = {} /\ Range(job_list') \cap event_list' = {}
    BY <1>1, <1>2, <1>4, <2>1 DEF PlaceInv
  <2> QED BY SMTT(10), <1>1, <1>2, <1>4, <2>2, <2>3 DEF PlaceInv
<1>6. CASE ListenInit
  <2>1. /\ pc'["listener"] = "test" /\ epoll' = {} /\ event_list' = event_list \cup ({listen_socket} \ {NULL})
        /\ cur' = [cur EXCEPT !["listener"] = listen_socket] /\ batch' = {} /\ UNCHANGED quit
    BY <1>1, <1>6 DEF ListenInit, Goto, ThreadInv, WatchInv, quitVars
  <2>2. TypeOK' /\ WatchInv'
    BY <1>1, <1>2, <2>1 DEF TypeOK, WatchInv, Polling
  <2>3. MutexInv'
    BY <1>1, <1>2, <2>1 DEF MutexInv, Busy, Callers, TypeOK
  <2> QED BY <1>3, <1>5, <2>2, <2>3
<1>7. CASE ListenAddClose
  <2>1. /\ pc'["listener"] = "test" /\ event_list' = event_list \cup {"close0"} /\ "close0" \notin epoll
        /\ pc["listener"] = "add_close" /\ cur' = [cur EXCEPT !["listener"] = "close0"]
        /\ UNCHANGED <<epoll, batch, quit>>
    BY <1>1, <1>7 DEF ListenAddClose, Goto, ThreadInv, WatchInv, quitVars
  <2>2. TypeOK' /\ WatchInv'
    BY <1>1, <1>2, <2>1 DEF TypeOK, WatchInv, Polling
  <2>3. MutexInv'
    BY <1>1, <1>2, <2>1 DEF MutexInv, Busy, Callers, TypeOK
  <2> QED BY <1>3, <1>5, <2>2, <2>3
<1>8. CASE PollTest \/ EventsDone \/ ListenQuit \/ Poll \/ PollError
  <2>1. /\ pc'["listener"] \in {"poll", "epoll_wait", "close", "events"}
        /\ pc["listener"] \in {"poll", "epoll_wait", "events"}
        /\ UNCHANGED <<cur, event_list, epoll>> /\ (quit' = quit \/ quit' = TRUE)
    BY <1>1, <1>8 DEF PollTest, EventsDone, ListenQuit, Poll, PollError, Goto, ThreadInv, evVars, quitVars
  <2>2. epoll \subseteq event_list
    BY <1>1, <2>1 DEF WatchInv, Polling
  <2>3. batch' = {} \/ (batch' \subseteq epoll /\ pc'["listener"] = "events")
    BY <1>1, <1>8 DEF PollTest, EventsDone, ListenQuit, Poll, PollError, Ready, Goto, ThreadInv, WatchInv,
                      evVars
  <2>4. TypeOK'
    BY <1>1, <1>2, <2>1, <2>2, <2>3 DEF TypeOK
  <2>5. WatchInv'
    BY <1>1, <1>2, <2>1, <2>2, <2>3 DEF WatchInv, Polling
  <2>6. MutexInv'
    BY SMTT(10), <1>1, <1>2, <2>1 DEF MutexInv, Busy, Callers
  <2> QED BY <1>3, <1>5, <2>4, <2>5, <2>6
<1>9. CASE CloseEvent
  <2>1. /\ UNCHANGED <<pc, cur, quit>> /\ pc["listener"] = "events" /\ epoll \subseteq event_list
        /\ batch' = batch \ {"close0"} /\ epoll' = epoll \ {"close0"}
        /\ event_list' = event_list \ {"close0"}
    BY <1>1, <1>9 DEF CloseEvent, WatchInv, Polling, quitVars
  <2>2. TypeOK' /\ WatchInv'
    BY <1>1, <1>2, <2>1 DEF TypeOK, WatchInv, Polling
  <2>3. MutexInv'
    BY <1>1, <1>2, <2>1 DEF MutexInv
  <2> QED BY <1>3, <1>5, <2>2, <2>3
<1>10. CASE ListenExit
  <2>1. /\ pc'["listener"] = "exit" /\ epoll' = NULL /\ batch' = {} /\ batch = {}
        /\ UNCHANGED <<cur, event_list, quit>>
    BY <1>1, <1>10 DEF ListenExit, Goto, ThreadInv, WatchInv, quitVars
  <2>2. TypeOK' /\ WatchInv'
    BY <1>1, <1>2, <2>1 DEF TypeOK, WatchInv, Polling
  <2>3. MutexInv'
    BY <1>1, <1>2, <2>1 DEF MutexInv, Busy, Callers
  <2> QED BY <1>3, <1>5, <2>2, <2>3
<1> QED BY <1>6, <1>7, <1>8, <1>9, <1>10

\* A worker ends a request: it closes the connection, gives it to an upgrade
\* handler, or puts it into the event list.
LEMMA RequestKeeps ==
  ASSUME CtrlInv, NEW w \in Workers, Finish(w) \/ Upgrade(w) \/ KeepAlive(w)
  PROVE  TypeOK' /\ PlaceInv' /\ WatchInv' /\ MutexInv' /\ EndInv'
<1> USE ThreadNames, FdNames, NullName DEF Threads
<1>1. ThreadInv /\ TypeOK /\ PlaceInv /\ WatchInv /\ MutexInv /\ EndInv
  BY DEF CtrlInv
<1>2. /\ pc[w] = "run" /\ pc["main"] # "freed"
      /\ cur[w] \in Fds /\ cur[w] \notin event_list
  BY <1>1 DEF Finish, Upgrade, KeepAlive, PlaceInv, Busy, ThreadInv
<1>3. /\ DOMAIN pc' = Threads /\ \A t \in Threads \ {w} : pc'[t] = pc[t] /\ cur'[t] = cur[t]
      /\ UNCHANGED <<job_list, late, batch, epoll, quitVars>>
  BY <1>1 DEF Finish, Upgrade, KeepAlive, Goto, ThreadInv, TypeOK, evVars, jobVars
<1>4. \/ /\ pc'[w] = "return" /\ cur' = [cur EXCEPT ![w] = NULL] /\ cur'[w] = NULL
         /\ open' = open \ {cur[w]} /\ UNCHANGED <<event_list, given, badclose>>
      \/ /\ pc'[w] = "return" /\ cur' = [cur EXCEPT ![w] = NULL] /\ cur'[w] = NULL
         /\ given' = given \cup {cur[w]} /\ UNCHANGED <<event_list, open, badclose>>
      \/ /\ pc'[w] = "test" /\ UNCHANGED cur
         /\ event_list' = event_list \cup {cur[w]} /\ UNCHANGED <<open, given, badclose>>
  <2>1. cur[w] \in open
    BY <1>1, <1>2 DEF PlaceInv
  <2>2. badclose \cup ({cur[w]} \ open) = badclose
    BY <2>1
  <2>3. CASE Finish(w)
    BY <1>1, <2>2, <2>3 DEF Finish, Close, Goto, ThreadInv, TypeOK, evVars
  <2>4. CASE Upgrade(w) \/ KeepAlive(w)
    BY <1>1, <2>4 DEF Upgrade, KeepAlive, Goto, ThreadInv, TypeOK, evVars, fdVars
  <2> QED BY <2>3, <2>4
<1>5. \A v \in Workers \ {w} : cur'[v] = cur[v] /\ cur[v] # cur[w]
  BY <1>1, <1>2, <1>3 DEF PlaceInv
<1>6. TypeOK'
  BY SMTT(10), <1>1, <1>2, <1>3, <1>4 DEF TypeOK, quitVars
<1>7. PlaceInv'
  <2>1. Unique(job_list') /\ Range(job_list') = Range(job_list) /\ Range(job_list) \subseteq Fds
    BY <1>1, <1>3, RangeInFds DEF PlaceInv, TypeOK
  <2>2. NULL \notin event_list' /\ NULL \notin given'
    BY <1>1, <1>2, <1>4 DEF TypeOK
  <2>3. /\ \A v \in Workers : IF pc'[v] \in Busy THEN cur'[v] \in Fds ELSE cur'[v] = NULL
        /\ \A u, v \in Workers : u # v /\ cur'[u] = cur'[v] => cur'[u] = NULL
    BY SMTT(10), <1>1, <1>2, <1>3, <1>4, <1>5 DEF PlaceInv, Busy
  <2>4. \A v \in Workers : cur'[v] \in event_list' <=> pc'[v] \in {"test", "ctl"}
    BY SMTT(10), <1>1, <1>2, <1>3, <1>4, <1>5, <2>2 DEF PlaceInv
  <2>5. \A v \in Workers : cur'[v] \notin Range(job_list') \cup given'
    BY SMTT(10), <1>1, <1>4, <1>5, <2>1, <2>2 DEF PlaceInv
  <2>6. Range(job_list') \cap (event_list' \cup given') = {} /\ event_list' \cap given' = {}
    BY SMTT(10), <1>1, <1>2, <1>4, <2>1 DEF PlaceInv
  <2>7. \A g \in Fds : g \in open' <=> \/ g \in Range(job_list') \cup event_list' \cup given'
                                       \/ \E v \in Workers : cur'[v] = g
    BY SMTT(10), <1>1, <1>2, <1>4, <1>5, <2>1 DEF PlaceInv
  <2> QED BY <2>1, <2>3, <2>4, <2>5, <2>6, <2>7 DEF PlaceInv
<1>8. WatchInv'
  <2>1. \A v \in Workers : cur'[v] \in {cur[v], NULL}
    BY <1>4, <1>5
  <2>2. NULL \notin event_list /\ event_list \subseteq event_list'
    BY <1>1, <1>4 DEF TypeOK
  <2> QED BY <1>1, <1>2, <1>3, <2>1, <2>2 DEF WatchInv, Polling
<1>9. MutexInv'
  BY <1>1, <1>2, <1>3, <1>4 DEF MutexInv, Busy, Callers, quitVars
<1>10. EndInv'
  BY <1>1, <1>2, <1>3, <1>4 DEF EndInv, CleanedUp
<1> QED BY <1>6, <1>7, <1>8, <1>9, <1>10

\* Quitting touches no connection: stage one, and stage two up to its join.
LEMMA QuitKeeps ==
  ASSUME CtrlInv, (\E t \in Callers : Quitting(t)) \/ StageTwo
  PROVE  TypeOK' /\ PlaceInv' /\ WatchInv' /\ MutexInv' /\ EndInv'
<1> USE ThreadNames, FdNames, NullName DEF Threads
<1>1. ThreadInv /\ TypeOK /\ PlaceInv /\ WatchInv /\ MutexInv /\ EndInv
  BY DEF CtrlInv
<1>2. PICK t \in Callers : Quitting(t) \/ (t = "main" /\ StageTwo)
  BY DEF Callers
<1>3. /\ UNCHANGED <<cur, job_list, late, given, event_list, batch, pipe>>
      /\ pc'["listener"] = pc["listener"] /\ DOMAIN pc' = Threads
      /\ pc["main"] # "freed" /\ pc'["main"] # "freed"
      /\ \A v \in Workers : pc'[v] = pc[v] \/ (pc[v] = "wait" /\ pc'[v] = "woken")
                            \/ (pc[v] \in Busy \ {"test", "ctl"} /\ pc'[v] \in Busy \ {"test", "ctl"})
  <2>1. CASE QuitPipe(t) \/ QuitListen(t)
    <3>1. UNCHANGED given
      BY <2>1 DEF QuitPipe, QuitListen, Close, fdVars
    <3> QED BY <1>1, <1>2, <2>1, <3>1 DEF QuitPipe, QuitListen, Goto, ThreadInv, Callers, Busy,
       evVars, jobVars, quitVars
  <2>4. CASE StageOne(t) \/ JoinListen(t)
    BY <1>1, <1>2, <2>4 DEF StageOne, JoinListen, Goto, ThreadInv, Callers, Busy,
       evVars, fdVars, jobVars, quitVars
  <2>2. CASE QuitBroadcast(t)
    <3>1. pc["main"] # "freed"
      BY <1>1, <1>2, <2>2 DEF QuitBroadcast, Callers, ThreadInv
    <3>2. \A v \in Threads : pc'[v] = pc[v] \/ (pc[v] = "wait" /\ pc'[v] = "woken") \/ (v = t /\ pc'[v] = "q_join")
      BY <2>2 DEF QuitBroadcast
    <3> QED BY <1>1, <1>2, <2>2, <3>1, <3>2
            DEF QuitBroadcast, Callers, Busy, ThreadInv, ListenJoined, evVars, fdVars, jobVars, quitVars
  <2>3. CASE JoinWorker(t) \/ StageOneDone(t)
    BY <1>1, <1>2, <2>3 DEF JoinWorker, StageOneDone, Goto, ThreadInv, Callers, Busy, evVars, fdVars, jobVars
  <2>5. CASE t = "main" /\ StageTwo
    <3>1. UNCHANGED given
      BY <2>5 DEF StageTwo, Close, fdVars
    <3> QED BY <1>1, <2>5, <3>1 DEF StageTwo, Goto, ThreadInv, Busy, evVars, jobVars, quitVars
  <2> QED BY <1>2, <2>1, <2>2, <2>3, <2>4, <2>5 DEF Quitting
<1>4. /\ open' \subseteq open /\ \A f \in Fds : f \in open' <=> f \in open
      /\ badclose' \subseteq badclose \cup {"listen"}
  <2>1. CASE QuitPipe(t)
    <3>1. pipe => badclose \cup ({"close1"} \ open) = badclose
      BY <1>1, <1>2, <2>1 DEF QuitPipe, MutexInv
    <3> QED BY <2>1, <3>1 DEF QuitPipe, Close, fdVars
  <2>2. CASE QuitListen(t)
    <3>1. listen_socket = "listen"
      BY <1>1, <1>2, <2>2 DEF QuitListen, MutexInv
    <3> QED BY <2>2, <3>1 DEF QuitListen, Close, fdVars
  <2>3. CASE StageTwo
    BY <1>1, <2>3 DEF StageTwo, Close, TypeOK, fdVars
  <2>4. CASE StageOne(t) \/ JoinListen(t) \/ QuitBroadcast(t) \/ JoinWorker(t) \/ StageOneDone(t)
    BY <2>4 DEF StageOne, JoinListen, QuitBroadcast, JoinWorker, StageOneDone, fdVars
  <2> QED BY <1>2, <2>1, <2>2, <2>3, <2>4 DEF Quitting
<1>5. PlaceInv' 
  BY SMTT(10), <1>1, <1>3, <1>4 DEF PlaceInv, Busy
<1>6. EndInv'
  BY <1>1, <1>3, <1>4 DEF EndInv, CleanedUp, Busy
<1>7. epoll' = epoll \/ (epoll # NULL /\ epoll' = epoll \ {"listen"})
  BY <1>2 DEF Quitting, StageOne, QuitPipe, QuitListen, JoinListen, QuitBroadcast, JoinWorker, StageOneDone,
     StageTwo, evVars
<1>8. WatchInv'
  BY <1>1, <1>3, <1>7 DEF WatchInv, Polling
<1>9. TypeOK'
  <2>1. /\ quit_mutex' \in Workers \cup {"main", NULL} /\ listen_socket' \in {"listen", NULL}
        /\ worker_threads' \subseteq Workers
        /\ quit' \in BOOLEAN /\ posted' \in BOOLEAN /\ close_listen' \in BOOLEAN
    BY <1>1, <1>2 DEF Quitting, StageOne, QuitPipe, QuitListen, JoinListen, QuitBroadcast, JoinWorker, StageOneDone,
       StageTwo, TypeOK, quitVars, Callers
  <2> QED BY <1>1, <1>3, <1>4, <1>7, <2>1 DEF TypeOK
<1>10. MutexInv'
  <2>1. CASE StageOne(t)
    BY <1>1, <1>2, <2>1 DEF StageOne, MutexInv, TypeOK, ThreadInv, Goto, Busy, Callers, evVars, fdVars
  <2>2. CASE QuitPipe(t)
    BY <1>1, <1>2, <2>2 DEF QuitPipe, Close, MutexInv, TypeOK, ThreadInv, Goto, Busy, Callers, evVars, fdVars, quitVars
  <2>3. CASE QuitListen(t)
    <3>1. /\ pc[t] = "q_listen" /\ pc'[t] = "q_join_listen" /\ \A u \in Threads \ {t} : pc'[u] = pc[u]
          /\ UNCHANGED <<cur, quit, quit_mutex, pipe>> /\ listen_socket' \in {listen_socket, NULL}
      BY <1>1, <1>2, <2>3 DEF QuitListen, ThreadInv, Goto, Callers
    <3>2. quit_mutex = t /\ quit /\ t # NULL
      BY <1>1, <1>2, <3>1 DEF MutexInv, Busy, Callers
    <3>3. \A u \in Callers : pc[u] \in {"q_pipe", "q_listen"} => u = t
      BY <1>1, <3>2 DEF MutexInv, Busy
    <3>4. \A u \in Callers : pc'[u] \in Busy \ {"run", "test", "ctl"} => quit_mutex' = u /\ quit'
      BY <1>1, <3>1, <3>2 DEF MutexInv, Busy, Callers
    <3>5. \A u \in Callers : pc'[u] \notin {"q_pipe", "q_listen"}
      BY <3>1, <3>3 DEF Callers
    <3>6. t # "listener"
      BY <1>2 DEF Callers
    <3> QED BY <1>1, <3>1, <3>2, <3>4, <3>5, <3>6 DEF MutexInv
  <2>4. CASE JoinListen(t) \/ QuitBroadcast(t) \/ JoinWorker(t)
    BY SMTT(10), <1>1, <1>2, <2>4 DEF JoinListen, QuitBroadcast, JoinWorker, MutexInv, ThreadInv, Goto, Busy, Callers, evVars, fdVars, quitVars
  <2>5. CASE StageOneDone(t)
    BY <1>1, <1>2, <2>5 DEF StageOneDone, MutexInv, ThreadInv, Goto, Busy, Callers, evVars, fdVars
  <2>6. CASE StageTwo
    BY <1>1, <1>2, <2>6 DEF StageTwo, Close, MutexInv, ThreadInv, Goto, Busy, Callers, evVars, fdVars, quitVars
  <2> QED BY <1>2, <2>1, <2>2, <2>3, <2>4, <2>5, <2>6 DEF Quitting
<1> QED BY <1>5, <1>6, <1>8, <1>9, <1>10

\* ctrl_quit_stage_two closes what is left.
LEMMA CleanupLeaves ==
  ASSUME CtrlInv, Cleanup
  PROVE  TypeOK' /\ PlaceInv' /\ WatchInv' /\ MutexInv' /\ EndInv'
<1> USE ThreadNames, FdNames, NullName DEF Threads
<1>1. ThreadInv /\ TypeOK /\ PlaceInv /\ WatchInv /\ MutexInv /\ EndInv
  BY DEF CtrlInv
<1>2. /\ pc["main"] = "two_join" /\ pc'["main"] = "freed"
      /\ DOMAIN pc' = Threads /\ \A t \in Threads \ {"main"} : pc'[t] = pc[t]
      /\ UNCHANGED <<cur, epoll, batch, given, job_list, late, quit, quit_mutex, listen_socket, pipe,
                     close_listen, posted>>
      /\ event_list' = {} /\ worker_threads' = {}
  BY <1>1 DEF Cleanup, Goto, ThreadInv, jobVars
<1>3. /\ \A w \in Workers : pc[w] = "exit" /\ cur[w] = NULL
      /\ pc["listener"] = "exit" /\ batch = {} /\ epoll = NULL
  BY <1>1, <1>2 DEF Cleanup, ThreadInv, ListenJoined, PlaceInv, WatchInv, Busy
<1>4. /\ open' \subseteq open
      /\ \A f \in Fds : f \in open' <=> f \in open /\ f \notin event_list
      /\ "close1" \in open => "close1" \in open'
      /\ badclose' \subseteq badclose \cup {"listen", "close0"}
  <2>1. event_list \cap Fds \subseteq open /\ event_list \subseteq Fds \cup {"listen", "close0"}
    BY <1>1, <1>2 DEF PlaceInv, TypeOK
  <2> QED BY <2>1 DEF Cleanup
<1>5. TypeOK'
  BY <1>1, <1>2, <1>4 DEF TypeOK
<1>6. PlaceInv'
  BY <1>1, <1>2, <1>3 DEF PlaceInv, Busy
<1>7. WatchInv'
  BY <1>1, <1>2, <1>3 DEF WatchInv, Polling
<1>8. MutexInv'
  BY <1>1, <1>2, <1>3, <1>4 DEF MutexInv, Busy, Callers
<1>9. EndInv'
  BY SMTT(10), <1>1, <1>2, <1>3, <1>4 DEF EndInv, CleanedUp, PlaceInv
<1> QED BY <1>5, <1>6, <1>7, <1>8, <1>9

\* Every step keeps the invariant.
LEMMA CtrlNext == CtrlInv /\ [Next]_vars => CtrlInv'
<1> SUFFICES ASSUME CtrlInv, [Next]_vars PROVE CtrlInv'
  OBVIOUS
<1>1. ThreadInv'
  BY ThreadNext DEF CtrlInv
<1>2. CASE UNCHANGED vars
  BY SMTT(10), <1>1, <1>2 DEF CtrlInv, TypeOK, PlaceInv, WatchInv, Polling, MutexInv, EndInv, CleanedUp, vars, evVars,
     fdVars, jobVars, quitVars
<1>3. CASE AcceptEvent
  <2>1. CASE UNCHANGED <<pc, jobVars, fdVars>>
    <3>1. batch' \subseteq batch /\ UNCHANGED <<cur, event_list, epoll, quitVars>> /\ pc["listener"] = "events"
      BY <1>3 DEF AcceptEvent
    <3>2. TypeOK' /\ PlaceInv' /\ MutexInv' /\ EndInv'
      BY <2>1, <3>1 DEF CtrlInv, TypeOK, PlaceInv, MutexInv, EndInv, CleanedUp, fdVars, jobVars, quitVars
    <3>3. WatchInv'
      BY <2>1, <3>1 DEF CtrlInv, WatchInv, Polling
    <3> QED BY <1>1, <3>2, <3>3 DEF CtrlInv
  <2>2. CASE \E f \in Fds \ open : /\ open' = open \cup {f} /\ QueueJob(f, "events")
                                   /\ UNCHANGED <<given, badclose>>
    BY <1>1, <1>3, <2>2, QueueKeeps DEF CtrlInv
  <2> QED BY <1>3, <2>1, <2>2 DEF AcceptEvent
<1>4. CASE \E f \in Fds : ReadEvent(f)
  BY <1>1, <1>4, QueueKeeps DEF CtrlInv
<1>5. CASE EventTest("listener") \/ EventCtl("listener")
  BY <1>1, <1>5, ListenerAdds DEF CtrlInv
<1>6. CASE ListenInit \/ ListenAddClose \/ PollTest \/ EventsDone \/ ListenQuit \/ Poll \/ PollError
           \/ CloseEvent \/ ListenExit
  BY <1>1, <1>6, ListenerKeeps DEF CtrlInv
<1>7. ASSUME NEW w \in Workers, Worker(w) PROVE CtrlInv'
  BY <1>1, <1>7, LoopKeeps, RequestKeeps, WorkerAdds DEF CtrlInv, Worker
<1>8. CASE (\E t \in Callers : Quitting(t)) \/ StageTwo
  BY <1>1, <1>8, QuitKeeps DEF CtrlInv
<1>9. CASE Cleanup
  BY <1>1, <1>9, CleanupLeaves DEF CtrlInv
<1> QED BY <1>2, <1>3, <1>4, <1>5, <1>6, <1>7, <1>8, <1>9 DEF Next, Listener, Terminated, Callers

\* So it holds throughout.
LEMMA CtrlAlways == Spec => []CtrlInv
BY CtrlInit, CtrlNext, PTL DEF Spec
-----------------------------------------------------------------------------
\* Every connection the controller has open is in exactly one place: queued by
\* read_event, with the worker that took it from the job list, in the event list
\* or with an upgrade handler.
THEOREM ConnectionPlaced == Spec => []OnePlace
<1>1. CtrlInv => OnePlace
  <2> SUFFICES ASSUME CtrlInv PROVE OnePlace
    OBVIOUS
  <2>1. PlaceInv /\ TypeOK /\ Range(job_list) \subseteq Fds
    BY RangeInFds DEF CtrlInv, TypeOK
  <2>2. \A i, j \in DOMAIN job_list : job_list[i] = job_list[j] => i = j
    BY <2>1 DEF PlaceInv, Unique
  <2>3. \A w \in Workers : Working(w) = IF pc[w] \in {"test", "ctl"} \/ cur[w] = NULL THEN {} ELSE {cur[w]}
    BY DEF Working
  <2>4. \A w \in Workers : Working(w) \subseteq {cur[w]} /\ NULL \notin Working(w)
    BY <2>3
  <2>5. \A v, w \in Workers : v # w => Working(v) \cap Working(w) = {}
    BY SMTT(10), <2>1, <2>4 DEF PlaceInv
  <2>6. \A w \in Workers : Working(w) \cap (Range(job_list) \cup (event_list \cap Fds) \cup given) = {}
    BY SMTT(10), <2>1, <2>3 DEF PlaceInv
  <2>7. pc["main"] # "freed" =>
          open \cap Fds = Range(job_list) \cup (event_list \cap Fds) \cup given
                          \cup UNION {Working(w) : w \in Workers}
    <3>1. SUFFICES ASSUME pc["main"] # "freed", NEW f
                   PROVE  f \in open /\ f \in Fds <=>
                            \/ f \in Range(job_list) \/ (f \in event_list /\ f \in Fds) \/ f \in given
                            \/ \E w \in Workers : f \in Working(w)
      OBVIOUS
    <3>2. \A w \in Workers : f \in Working(w) => f = cur[w] /\ f \in Fds
      BY SMTT(10), <2>1, <2>3 DEF PlaceInv
    <3>3. f \in Fds => \A w \in Workers : cur[w] = f => f \in event_list \/ f \in Working(w)
      BY SMTT(10), <2>1, <2>3, FdNames DEF PlaceInv
    <3>4. given \subseteq Fds
      BY <2>1 DEF TypeOK
    <3> QED BY <2>1, <3>1, <3>2, <3>3, <3>4 DEF PlaceInv
  <2> QED BY <2>1, <2>2, <2>5, <2>6, <2>7 DEF OnePlace, PlaceInv
<1> QED BY <1>1, CtrlAlways, PTL

\* event_e_handle calls no handler that has been freed since epoll_wait, and
\* ctrl_quit_stage_two frees the controller when every thread has ended.
THEOREM NothingUsedFreed == Spec => []FreedUnused
<1>1. CtrlInv => FreedUnused
  BY DEF CtrlInv, WatchInv, ThreadInv, ListenJoined, FreedUnused
<1> QED BY <1>1, CtrlAlways, PTL

\* Workers leave their loop only when the job list is empty, so quitting drops no
\* request queued before it; stage two closes every other connection, none twice.
THEOREM RequestsServed == Spec => []NothingDropped
<1>1. CtrlInv => NothingDropped
  BY DEF CtrlInv, EndInv, NothingDropped, ServedUnlessLate
<1> QED BY <1>1, CtrlAlways, PTL
=============================================================================
