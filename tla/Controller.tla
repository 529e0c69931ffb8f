----------------------------- MODULE Controller -----------------------------
(***************************************************************************)
(* The threads of the HTTP controller and its two-stage quit               *)
(* (core/lib/controller.c, controller-epoll.c).                            *)
(*                                                                         *)
(* A listen thread waits for events: new connections, requests on idle     *)
(* ones and the pipe that ends it.  It queues jobs, which worker threads   *)
(* handle.  A connection that is kept alive goes back to the event list.   *)
(* Stage one of quitting is run by a worker (a stop request) or, like      *)
(* stage two, by the main thread.                                          *)
(*                                                                         *)
(* job_lock and event_lock are only held for one step at a time.  A        *)
(* request is abstracted to its outcome, and a connection's TLS session    *)
(* goes with its descriptor.                                               *)
(***************************************************************************)
EXTENDS Naturals, Sequences, Functions, FiniteSets

CONSTANTS
  Workers,      \* the worker threads
  Fds,          \* the descriptors accept may return
  NULL

ASSUME ThreadNames == Workers \cap {"main", "listener", NULL} = {}
ASSUME FdNames == Fds \cap {"listen", "close0", "close1", NULL} = {}
ASSUME NullName == NULL \notin {"main", "listen", "close0", "close1"}

VARIABLES
  pc,             \* of every thread
  cur,            \* the descriptor a thread is working on
  quit,           \* ctrl->quit
  quit_mutex,     \* who has taken ctrl->quit_mutex; it is never released
  listen_socket,  \* ctrl->listen_socket, NULL for -1
  worker_threads, \* ctrl->worker_threads
  job_list,       \* ctrl->job_list
  event_list,     \* the descriptors of ctrl->event_list
  epoll,          \* the descriptors epoll watches, NULL when it is closed
  batch,          \* events epoll_wait returned that are still to be handled
  open,           \* open descriptors
  given,          \* connections handed to an upgrade handler
  pipe,           \* whether pipe(ctrl->closefd) succeeded in ctrl_setup
  close_listen,   \* the argument of ctrl_quit_stage_one
  posted,         \* a stop handler has told the main thread
  badclose,       \* history: descriptors that were closed when they were not open
  late            \* history: jobs queued while no worker was sure to look again

evVars == <<event_list, epoll, batch>>
fdVars == <<open, given, badclose>>
jobVars == <<job_list, late>>
quitVars == <<quit, quit_mutex, listen_socket, worker_threads, pipe, close_listen, posted>>
vars == <<pc, cur, evVars, fdVars, jobVars, quitVars>>

Threads == Workers \cup {"main", "listener"}

Init ==
  /\ pc = [t \in Threads |-> IF t = "main" THEN "run"
                             ELSE IF t = "listener" THEN "init" ELSE "start"]
  /\ cur = [t \in Threads |-> NULL]
  /\ quit = FALSE /\ quit_mutex = NULL /\ posted = FALSE
  /\ pipe \in BOOLEAN /\ close_listen = FALSE
  /\ listen_socket = "listen"
  /\ worker_threads = Workers
  /\ job_list = <<>> /\ late = {}
  /\ event_list = {} /\ epoll = NULL /\ batch = {}
  /\ open = {"listen"} \cup (IF pipe THEN {"close0", "close1"} ELSE {})
  /\ given = {} /\ badclose = {}

Goto(t, l) == pc' = [pc EXCEPT ![t] = l]

\* close(2).
Close(f) ==
  /\ open' = open \ {f}
  /\ badclose' = badclose \cup ({f} \ open)
  /\ UNCHANGED given
-----------------------------------------------------------------------------
\* Whether some worker is in its loop and will look at the job list once more.
WillLook == ~quit /\ \E w \in Workers : pc[w] \notin {"start", "exit"}

\* Mutant of QueueJob: nobody is signalled.
QueueJobSilent(f, l) ==
  /\ job_list' = Append(job_list, f)
  /\ late' = IF WillLook THEN late \ {f} ELSE late \cup {f}
  /\ pc' = [pc EXCEPT !["listener"] = l]

\* queue_job_and_signal: one waiting worker wakes up.
QueueJob(f, l) ==
  /\ job_list' = Append(job_list, f)
  /\ late' = IF WillLook THEN late \ {f} ELSE late \cup {f}
  /\ LET waiting == {w \in Workers : pc[w] = "wait"}
     IN  IF waiting = {}
         THEN Goto("listener", l)
         ELSE \E w \in waiting : pc' = [pc EXCEPT !["listener"] = l, ![w] = "woken"]

\* Where event_add returns to: worker_thread, or the next step of listen_thread.
Added(t) ==
  /\ Goto(t, IF t # "listener" THEN "return"
             ELSE IF pipe /\ cur[t] # "close0" THEN "add_close" ELSE "poll")
  /\ cur' = [cur EXCEPT ![t] = NULL]

\* event_add: the handler is in the list; if not quitting, register it.
EventTest(t) ==
  /\ pc[t] = "test"
  /\ IF quit THEN Added(t) ELSE Goto(t, "ctl") /\ UNCHANGED cur
  /\ UNCHANGED <<evVars, fdVars, jobVars, quitVars>>

\* Mutant of EventCtl: the handler of a closed descriptor stays in the list.
EventCtlKeeps(t) ==
  /\ pc[t] = "ctl"
  /\ IF epoll # NULL /\ cur[t] \in open
     THEN epoll' = epoll \cup {cur[t]} /\ UNCHANGED fdVars
     ELSE Close(cur[t]) /\ UNCHANGED epoll
  /\ Added(t)
  /\ UNCHANGED <<event_list, batch, jobVars, quitVars>>

\* event_e_add fails if the engine or the descriptor has been closed meanwhile:
\* the handler is taken out and the descriptor closed.
EventCtl(t) ==
  /\ pc[t] = "ctl"
  /\ IF epoll # NULL /\ cur[t] \in open
     THEN /\ epoll' = epoll \cup {cur[t]}
          /\ UNCHANGED <<event_list, fdVars>>
     ELSE /\ event_list' = event_list \ {cur[t]}
          /\ Close(cur[t])
          /\ UNCHANGED epoll
  /\ Added(t)
  /\ UNCHANGED <<batch, jobVars, quitVars>>
-----------------------------------------------------------------------------
\* listen_thread: event_e_init and the first event_add ...
ListenInit ==
  /\ pc["listener"] = "init"
  /\ epoll' = {}
  /\ event_list' = event_list \cup ({listen_socket} \ {NULL})
  /\ cur' = [cur EXCEPT !["listener"] = listen_socket]
  /\ Goto("listener", "test")
  /\ UNCHANGED <<batch, fdVars, jobVars, quitVars>>

\* ... and the second, when there is a pipe.
ListenAddClose ==
  /\ pc["listener"] = "add_close"
  /\ event_list' = event_list \cup {"close0"}
  /\ cur' = [cur EXCEPT !["listener"] = "close0"]
  /\ Goto("listener", "test")
  /\ UNCHANGED <<epoll, batch, fdVars, jobVars, quitVars>>

\* What epoll may report: clients send, connect and close when they like; the
\* pipe hangs up when its other end has been closed.
Ready == {f \in epoll \cap open : f = "close0" => "close1" \notin open}

\* The test of the loop in listen_thread; quitting may begin while it is in
\* epoll_wait.
PollTest ==
  /\ pc["listener"] = "poll"
  /\ ~quit
  /\ Goto("listener", "epoll_wait")
  /\ UNCHANGED <<cur, evVars, fdVars, jobVars, quitVars>>

\* event_e_handle: epoll_wait, possibly with no event (a timeout or EINTR).
Poll ==
  /\ pc["listener"] = "epoll_wait"
  /\ batch' \in SUBSET Ready
  /\ Goto("listener", "events")
  /\ UNCHANGED <<cur, event_list, epoll, fdVars, jobVars, quitVars>>

\* epoll_wait fails for good.
PollError ==
  /\ pc["listener"] = "epoll_wait"
  /\ quit' = TRUE
  /\ Goto("listener", "close")
  /\ UNCHANGED <<cur, evVars, fdVars, jobVars, quit_mutex, listen_socket, worker_threads, pipe,
                 close_listen, posted>>

\* Mutant of ReadEvent: epoll is left watching the descriptor.
ReadEventWatched(f) ==
  /\ pc["listener"] = "events"
  /\ f \in batch \cap Fds
  /\ batch' = batch \ {f}
  /\ event_list' = event_list \ {f}
  /\ QueueJob(f, "events")
  /\ UNCHANGED <<cur, epoll, fdVars, quitVars>>

\* read_event: the event fires once, its handler is freed, a job is queued.
ReadEvent(f) ==
  /\ pc["listener"] = "events"
  /\ f \in batch \cap Fds
  /\ batch' = batch \ {f}
  /\ epoll' = epoll \ {f}
  /\ event_list' = event_list \ {f}
  /\ QueueJob(f, "events")
  /\ UNCHANGED <<cur, fdVars, quitVars>>

\* accept_event: accept fails, or returns any unused descriptor.
AcceptEvent ==
  /\ pc["listener"] = "events"
  /\ "listen" \in batch
  /\ batch' = batch \ {"listen"}
  /\ \/ /\ listen_socket \in open
        /\ \E f \in Fds \ open : /\ open' = open \cup {f}
                                 /\ QueueJob(f, "events")
        /\ UNCHANGED <<given, badclose>>
     \/ UNCHANGED <<pc, jobVars, fdVars>>
  /\ UNCHANGED <<cur, event_list, epoll, quitVars>>

\* close_event.
CloseEvent ==
  /\ pc["listener"] = "events"
  /\ "close0" \in batch
  /\ batch' = batch \ {"close0"}
  /\ event_list' = event_list \ {"close0"}
  /\ epoll' = epoll \ {"close0"}
  /\ UNCHANGED <<pc, cur, fdVars, jobVars, quitVars>>

EventsDone ==
  /\ pc["listener"] = "events"
  /\ batch = {}
  /\ Goto("listener", "poll")
  /\ UNCHANGED <<cur, evVars, fdVars, jobVars, quitVars>>

\* The end of the loop, and event_e_close.
ListenQuit ==
  /\ pc["listener"] = "poll"
  /\ quit
  /\ Goto("listener", "close")
  /\ UNCHANGED <<cur, evVars, fdVars, jobVars, quitVars>>

ListenExit ==
  /\ pc["listener"] = "close"
  /\ epoll' = NULL
  /\ Goto("listener", "exit")
  /\ UNCHANGED <<cur, event_list, batch, fdVars, jobVars, quitVars>>

Listener ==
  \/ ListenInit \/ ListenAddClose \/ EventTest("listener") \/ EventCtl("listener")
  \/ PollTest \/ Poll \/ (\E f \in Fds : ReadEvent(f)) \/ AcceptEvent
  \/ CloseEvent \/ EventsDone \/ ListenQuit \/ ListenExit
-----------------------------------------------------------------------------
\* Mutant of WorkerLoop: quit is tested before the list.
WorkerLoopQuits(w) ==
  /\ pc[w] \in {"start", "woken", "return"}
  /\ IF quit
     THEN Goto(w, "exit") /\ UNCHANGED <<cur, jobVars>>
     ELSE IF job_list = <<>>
     THEN Goto(w, "wait") /\ UNCHANGED <<cur, jobVars>>
     ELSE /\ Goto(w, "run")
          /\ cur' = [cur EXCEPT ![w] = Head(job_list)]
          /\ job_list' = Tail(job_list)
          /\ late' = late \ {Head(job_list)}
  /\ UNCHANGED <<evVars, fdVars, quitVars>>

\* worker_thread with job_lock: at the start it looks at quit first, after a
\* wait and after a job it empties the list before it does.
WorkerLoop(w) ==
  /\ pc[w] \in {"start", "woken", "return"}
  /\ IF quit /\ (pc[w] = "start" \/ job_list = <<>>)
     THEN Goto(w, "exit") /\ UNCHANGED <<cur, jobVars>>
     ELSE IF job_list = <<>>
     THEN Goto(w, "wait") /\ UNCHANGED <<cur, jobVars>>
     ELSE /\ Goto(w, "run")
          /\ cur' = [cur EXCEPT ![w] = Head(job_list)]
          /\ job_list' = Tail(job_list)
          /\ late' = late \ {Head(job_list)}
  /\ UNCHANGED <<evVars, fdVars, quitVars>>

\* The connection is closed: no TLS, a parse error, an empty read, or no keep
\* alive.
Finish(w) ==
  /\ pc[w] = "run"
  /\ Close(cur[w])
  /\ Goto(w, "return")
  /\ cur' = [cur EXCEPT ![w] = NULL]
  /\ UNCHANGED <<evVars, jobVars, quitVars>>

\* hand.upgrade takes the connection over.
Upgrade(w) ==
  /\ pc[w] = "run"
  /\ given' = given \cup {cur[w]}
  /\ Goto(w, "return")
  /\ cur' = [cur EXCEPT ![w] = NULL]
  /\ UNCHANGED <<evVars, open, badclose, jobVars, quitVars>>

\* Keep alive: event_add.
KeepAlive(w) ==
  /\ pc[w] = "run"
  /\ event_list' = event_list \cup {cur[w]}
  /\ Goto(w, "test")
  /\ UNCHANGED <<cur, epoll, batch, fdVars, jobVars, quitVars>>
-----------------------------------------------------------------------------
\* Mutant of StageOne: quit is not set.
StageOneRuns(t) ==
  /\ pc[t] = "run"
  /\ quit_mutex = NULL
  /\ quit_mutex' = t
  /\ close_listen' \in BOOLEAN
  /\ Goto(t, "q_pipe")
  /\ UNCHANGED <<cur, evVars, fdVars, jobVars, quit, listen_socket, worker_threads, pipe, posted>>

\* ctrl_quit_stage_one by the handler of a stop request, or by ctrl_quit in the
\* main thread.  Who does not get the mutex answers an error and goes on.
StageOne(t) ==
  /\ pc[t] = "run"
  /\ quit_mutex = NULL
  /\ quit_mutex' = t
  /\ close_listen' \in BOOLEAN
  /\ quit' = TRUE
  /\ Goto(t, "q_pipe")
  /\ UNCHANGED <<cur, evVars, fdVars, jobVars, listen_socket, worker_threads, pipe, posted>>

\* quit_listen_thread_and_broadcast: wake up the listen thread ...
QuitPipe(t) ==
  /\ pc[t] = "q_pipe"
  /\ IF pipe THEN Close("close1") ELSE UNCHANGED fdVars
  /\ Goto(t, "q_listen")
  /\ UNCHANGED <<cur, evVars, jobVars, quitVars>>

\* ... close the listen socket, which takes it out of epoll, or only take it
\* out; event_e_remove has no effect when the engine is closed ...
QuitListen(t) ==
  /\ pc[t] = "q_listen"
  /\ IF close_listen
     THEN Close(listen_socket) /\ listen_socket' = NULL
     ELSE UNCHANGED <<fdVars, listen_socket>>
  /\ epoll' = IF epoll = NULL THEN NULL ELSE epoll \ {"listen"}
  /\ Goto(t, "q_join_listen")
  /\ UNCHANGED <<cur, event_list, batch, jobVars, quit, quit_mutex, worker_threads, pipe, close_listen,
                 posted>>

\* ... wait for it to end ...
JoinListen(t) ==
  /\ pc[t] = "q_join_listen"
  /\ pc["listener"] = "exit"
  /\ Goto(t, "q_broadcast")
  /\ UNCHANGED <<cur, evVars, fdVars, jobVars, quitVars>>

\* ... and wake up all workers.
QuitBroadcast(t) ==
  /\ pc[t] = "q_broadcast"
  /\ pc' = [v \in Threads |-> IF v = t THEN "q_join"
                              ELSE IF pc[v] = "wait" THEN "woken" ELSE pc[v]]
  /\ UNCHANGED <<cur, evVars, fdVars, jobVars, quitVars>>

\* ctrl_quit_stage_one joins every worker but the one that runs it.
JoinWorker(t) ==
  /\ pc[t] = "q_join"
  /\ \E w \in worker_threads \ {t} :
       /\ pc[w] = "exit"
       /\ worker_threads' = worker_threads \ {w}
  /\ UNCHANGED <<pc, cur, evVars, fdVars, jobVars, quit, quit_mutex, listen_socket, pipe, close_listen,
                 posted>>

\* It puts itself back, and the stop handler tells the main thread.
StageOneDone(t) ==
  /\ pc[t] = "q_join"
  /\ worker_threads \subseteq {t}
  /\ IF t = "main" THEN Goto(t, "stage_two") /\ UNCHANGED posted
                   ELSE Goto(t, "run") /\ posted' = TRUE
  /\ UNCHANGED <<cur, evVars, fdVars, jobVars, quit, quit_mutex, listen_socket,
                 worker_threads, pipe, close_listen>>

\* ctrl_quit_stage_two, up to its pthread_join.
StageTwo ==
  /\ \/ pc["main"] = "run" /\ posted
     \/ pc["main"] = "stage_two"
  /\ IF listen_socket = NULL THEN UNCHANGED fdVars ELSE Close(listen_socket)
  /\ Goto("main", "two_join")
  /\ UNCHANGED <<cur, evVars, jobVars, quitVars>>

\* The rest: the connections and other descriptors in the event list are
\* closed, then the read end of the pipe.
Cleanup ==
  /\ pc["main"] = "two_join"
  /\ \A w \in worker_threads : pc[w] = "exit"
  /\ worker_threads' = {}
  /\ event_list' = {}
  /\ LET last == IF pipe THEN {"close0"} ELSE {}
     IN  /\ open' = open \ (event_list \cup last)
         /\ badclose' = badclose \cup ((event_list \cup last) \ open) \cup (event_list \cap last)
  /\ Goto("main", "freed")
  /\ UNCHANGED <<cur, epoll, batch, given, jobVars, quit, quit_mutex, listen_socket, pipe,
                 close_listen, posted>>

Quitting(t) ==
  \/ StageOne(t) \/ QuitPipe(t) \/ QuitListen(t) \/ JoinListen(t) \/ QuitBroadcast(t)
  \/ JoinWorker(t) \/ StageOneDone(t)

Worker(w) ==
  WorkerLoop(w) \/ Finish(w) \/ Upgrade(w) \/ KeepAlive(w) \/ EventTest(w) \/ EventCtl(w)

Terminated == pc["main"] = "freed" /\ UNCHANGED vars

Next ==
  \/ Listener \/ PollError
  \/ \E w \in Workers : Worker(w) \/ Quitting(w)
  \/ Quitting("main") \/ StageTwo \/ Cleanup
  \/ Terminated

Spec == Init /\ [][Next]_vars

\* Threads run.  A handler ends at some time, and does not start stage one again
\* and again; nobody has to call quit.
FairSpec ==
  /\ Spec
  /\ WF_vars(Listener)
  /\ \A w \in Workers : WF_vars(Worker(w) \/ (pc[w] # "run" /\ Quitting(w)))
  /\ WF_vars(pc["main"] # "run" /\ Quitting("main"))
  /\ WF_vars(StageTwo \/ Cleanup)
-----------------------------------------------------------------------------
TypeOK ==
  /\ DOMAIN pc = Threads
  /\ cur \in [Threads -> Fds \cup {"listen", "close0", NULL}]
  /\ {quit, posted, pipe, close_listen} \subseteq BOOLEAN
  /\ quit_mutex \in Workers \cup {"main", NULL}
  /\ listen_socket \in {"listen", NULL}
  /\ worker_threads \subseteq Workers
  /\ job_list \in Seq(Fds) /\ late \subseteq Fds
  /\ event_list \subseteq Fds \cup {"listen", "close0"}
  /\ epoll = NULL \/ epoll \subseteq Fds \cup {"listen", "close0"}
  /\ batch \subseteq Fds \cup {"listen", "close0"}
  /\ open \subseteq Fds \cup {"listen", "close0", "close1"}
  /\ given \subseteq Fds
  /\ badclose \subseteq Fds \cup {"listen", "close0", "close1"}

Working(w) == IF pc[w] \in {"test", "ctl"} THEN {} ELSE {cur[w]} \ {NULL}

\* Every connection is in one place: queued once, with one worker, in the event
\* list or with an upgrade handler; a descriptor that is closed is nowhere.
\* read_event takes the event out of epoll "so that it does not wake on
\* multiple reads on the same request" (controller.c:1103).
OnePlace ==
  /\ \A i, j \in DOMAIN job_list : job_list[i] = job_list[j] => i = j
  /\ \A v, w \in Workers : v # w => Working(v) \cap Working(w) = {}
  /\ \A w \in Workers : Working(w) \cap (Range(job_list) \cup (event_list \cap Fds) \cup given) = {}
  /\ Range(job_list) \cap (event_list \cup given) = {}
  /\ event_list \cap given = {}
  /\ pc["main"] # "freed" =>
       open \cap Fds = Range(job_list) \cup (event_list \cap Fds) \cup given
                       \cup UNION {Working(w) : w \in Workers}

\* Nothing is used after it is freed: event_e_handle calls a handler for every
\* event of a batch, and none of them has been freed since epoll_wait;
\* ctrl_quit_stage_two frees the controller when no thread uses it any more.
FreedUnused ==
  /\ batch \subseteq event_list
  /\ pc["main"] = "freed" => \A t \in Workers \cup {"listener"} : pc[t] = "exit"

\* Quitting does not drop requests: what is still queued when all workers are
\* gone was queued after quit was set, or before any worker had started.
ServedUnlessLate ==
  (\A w \in Workers : pc[w] = "exit") => Range(job_list) \subseteq late

\* "cleanup properly" (controller.h:116), as far as it goes: stage two leaves no
\* connection open but those of dropped requests, and no connection is ever
\* closed twice.  The listen socket and the read end of the pipe are: their
\* handlers stay in event_list.
CleanedUp ==
  /\ pc["main"] = "freed" => open \cap Fds \subseteq given \cup late
  /\ badclose \subseteq {"listen", "close0"}

\* Quitting loses neither a request that was queued in time nor a descriptor.
NothingDropped == ServedUnlessLate /\ CleanedUp

\* A queued request is taken by a worker unless the controller quits.
Served ==
  \A f \in Fds : f \in Range(job_list) ~> f \notin Range(job_list) \/ quit

\* Who has started to quit comes to an end, in the worker that serves the stop
\* request as in the main thread: nobody waits for anybody in a circle.
QuitReturns == quit_mutex # NULL ~> pc["main"] = "freed"
=============================================================================
