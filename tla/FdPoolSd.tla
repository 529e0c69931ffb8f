------------------------------ MODULE FdPoolSd ------------------------------
(***************************************************************************)
(* The thread that keeps one service of a pool up to date from a service   *)
(* discovery queue, and who waits for it (core/lib/fd_pool_sd.c).          *)
(*                                                                         *)
(* The pool is abstracted to the hosts of the last fd_pool_update_hosts    *)
(* that changed it, see FdPool for what that call does.  A value is        *)
(* applied at a time, because fd_pool_sd_wait_index reads max_index        *)
(* without a lock.                                                         *)
(***************************************************************************)
EXTENDS SdQueue

CONSTANT WaitFor   \* the indices fd_pool_sd_wait_index is called with

VARIABLES
  pool,            \* the hosts of the service: [host -> configuration]
  res,             \* the result update_config is computing
  max_index, max_index_valid,
  running,         \* fps->running
  wpc, windex, wret, \* a caller of fd_pool_sd_wait_index
  forgot           \* history: a reason to update was overwritten

fpsVars == <<pool, res, max_index, max_index_valid, forgot>>
waitVars == <<wpc, windex, wret>>
vars == <<qvars, fpsVars, running, waitVars>>

\* "the node is complete": it has a name and a health.
Complete(f, h) == h \in DOMAIN f /\ f[h].cfg # NULL /\ f[h].up # NULL

\* The hosts fd_pool_populate_from_vtree takes: they have ports and are not
\* disabled.  A host without a health is not disabled.
Enabled(f) == {h \in DOMAIN f : f[h].cfg # NULL /\ f[h].up # FALSE}

\* A static configuration alone does not say that a host is up, and the values
\* that stand for nothing are not configurations.
ASSUME StaticNotUp == ~\E h \in Hosts : Complete(Static, h) /\ Static[h].up
ASSUME WaitForIndices == WaitFor \subseteq Nat
ASSUME NothingKnown == NULL \notin Cfgs /\ NULL \notin BOOLEAN /\ NULL # 0

\* parse_config_value and parse_health_value return whether anything changed.
Changed(v) ==
  LET old == Entry(conf, v.host)
  IN  \/ v.cmd = "config" /\ v.val \notin BadCfgs /\ v.val # old.cfg
      \/ v.cmd = "health" /\ old.up # (v.val = "up")

\* Mutant of Result: a health change alone is no reason to update.
ResultIgnoresHealth(v) ==
  CASE v.cmd = "flush"  -> TRUE
    [] v.cmd = "delete" -> v.host \in DOMAIN conf
    [] v.cmd = "config" -> res \/ (Changed(v) /\ Complete(Apply(v, conf), v.host))
    [] OTHER -> res

\* What update_config knows after a value: whether to update the pool.
Result(v) ==
  CASE v.cmd = "flush"  -> TRUE
    [] v.cmd = "delete" -> v.host \in DOMAIN conf
    [] OTHER -> res \/ (Changed(v) /\ Complete(Apply(v, conf), v.host))

Init ==
  /\ QueueInit
  /\ pool = [h \in {} |-> NULL]
  /\ res = FALSE
  /\ max_index = 0 /\ max_index_valid = FALSE /\ forgot = FALSE
  /\ running = TRUE
  /\ wpc = "idle" /\ windex = 0 /\ wret = NULL

\* The loop of fd_pool_sd_thread: sd_queue_wait while running.
ThreadWait ==
  /\ tpc = "ready" => running
  /\ Waiting
  /\ UNCHANGED <<fpsVars, running, waitVars>>

ThreadExit ==
  /\ tpc = "ready"
  /\ ~running
  /\ tpc' = "exit"
  /\ UNCHANGED <<queueVars, taken, conf, fpsVars, running, waitVars>>

\* One turn of the loop of update_config.
UpdateValue ==
  /\ tpc = "process"
  /\ taken # <<>>
  /\ LET v == Head(taken) IN
       /\ conf' = Apply(v, conf)
       /\ res' = Result(v)
       /\ forgot' = (forgot \/ (res /\ ~Result(v)))
       /\ max_index' = IF v.idx > max_index THEN v.idx ELSE max_index
  /\ taken' = Tail(taken)
  /\ UNCHANGED <<queueVars, tpc, pool, max_index_valid, running, waitVars>>

\* The end of update_config, without and with a reason to update the pool.
NotUpdated ==
  /\ tpc = "process"
  /\ taken = <<>>
  /\ ~res
  /\ tpc' = "signal"
  /\ UNCHANGED <<queueVars, taken, conf, fpsVars, running, waitVars>>

\* fd_pool_update_hosts changes nothing when there is no node.
UpdateHosts ==
  /\ tpc = "process"
  /\ taken = <<>>
  /\ res
  /\ IF Enabled(conf) # {}
     THEN /\ pool' = [h \in Enabled(conf) |-> conf[h].cfg]
          /\ max_index_valid' = TRUE
     ELSE UNCHANGED <<pool, max_index_valid>>
  /\ res' = FALSE /\ forgot' = FALSE
  /\ tpc' = "signal"
  /\ UNCHANGED <<queueVars, taken, conf, max_index, running, waitVars>>

\* pthread_cond_broadcast of update_signal, and back to the loop.
Signal ==
  /\ tpc = "signal"
  /\ tpc' = "ready"
  /\ wpc' = IF wpc = "wait" THEN "test" ELSE wpc
  /\ UNCHANGED <<queueVars, taken, conf, fpsVars, running, windex, wret>>

Reached == max_index_valid /\ max_index >= windex

\* fd_pool_sd_wait_index: the first test.
WaitIndex(i) ==
  /\ wpc = "idle"
  /\ windex' = i
  /\ IF max_index_valid /\ max_index >= i
     THEN wpc' = "done" /\ wret' = 0
     ELSE wpc' = "test" /\ wret' = NULL
  /\ UNCHANGED <<qvars, fpsVars, running>>

\* The test of the loop.  The lock is a local one, so a broadcast may come
\* between the test and the wait.
WaitTest ==
  /\ wpc = "test"
  /\ IF Reached
     THEN wpc' = "done" /\ wret' = 0
     ELSE wpc' = "sleep" /\ UNCHANGED wret
  /\ UNCHANGED <<qvars, fpsVars, running, windex>>

WaitSleep ==
  /\ wpc = "sleep"
  /\ wpc' = "wait"
  /\ UNCHANGED <<qvars, fpsVars, running, windex, wret>>

WaitTimeout ==
  /\ wpc = "wait"
  /\ wpc' = "done"
  /\ wret' = IF Reached THEN 0 ELSE 1
  /\ UNCHANGED <<qvars, fpsVars, running, windex>>

WaitReturn ==
  /\ wpc = "done"
  /\ wpc' = "idle" /\ windex' = 0 /\ wret' = NULL
  /\ UNCHANGED <<qvars, fpsVars, running>>

\* fd_pool_sd_stop clears the flag and joins the thread.
Stop ==
  /\ running
  /\ running' = FALSE
  /\ UNCHANGED <<qvars, fpsVars, waitVars>>

Stopped ==
  /\ tpc = "exit"
  /\ tpc' = "done"
  /\ UNCHANGED <<queueVars, taken, conf, fpsVars, running, waitVars>>

SourceNext == Source /\ UNCHANGED <<fpsVars, running, waitVars>>
ThreadNext == ThreadWait \/ ThreadExit \/ UpdateValue \/ NotUpdated \/ UpdateHosts \/ Signal
WaiterNext ==
  (\E i \in WaitFor : WaitIndex(i)) \/ WaitTest \/ WaitSleep \/ WaitTimeout \/ WaitReturn

\* The service has been disconnected and no value is being sent.
Terminated == tpc = "done" /\ spc = "idle" /\ wpc = "idle" /\ UNCHANGED vars

Next == SourceNext \/ ThreadNext \/ WaiterNext \/ Stop \/ Stopped \/ Terminated

Spec == Init /\ [][Next]_vars

\* Both threads run and sd_queue_wait times out.
FairSpec ==
  /\ Spec
  /\ WF_vars(Commit /\ UNCHANGED <<fpsVars, running, waitVars>>)
  /\ WF_vars(Broadcast /\ UNCHANGED <<fpsVars, running, waitVars>>)
  /\ WF_vars(ThreadNext) /\ WF_vars(Stopped)
  /\ WF_vars(WaitTest \/ WaitSleep \/ WaitTimeout)
-----------------------------------------------------------------------------
\* Between two lists of values the pool has what the configuration says: with
\* at least one complete host that is up, every complete host is in the pool
\* with its configuration exactly when it is up.  update_config must find out
\* whether any value of a list matters: "Only set res to true if the node is
\* complete." (fd_pool_sd.c:218).  The one exception: the deletion of a host
\* that is not there overwrites the reason an earlier value of the list gave
\* (fd_pool_sd.c:203); the pool then follows at the next update.
PoolFollows ==
  tpc = "ready" /\ ~forgot /\ (\E h \in Hosts : Complete(conf, h) /\ conf[h].up) =>
    \A h \in Hosts : Complete(conf, h) =>
      IF conf[h].up THEN h \in DOMAIN pool /\ pool[h] = conf[h].cfg
                    ELSE h \notin DOMAIN pool

\* "Keep max_index invalid until we have at least one node via SD."
\* (fd_pool_sd.c:258): who waited for an index has nodes to connect to.
WaitedHasNodes == wret = 0 => pool # [h \in {} |-> NULL]

\* When fd_pool_sd_wait_index returns 0, no value of a lower index is still to
\* come, in the queue or in the list being applied: all of them are in the
\* thread's configuration, although values replace and overtake each other in
\* the queue.  It does not say that they are in the pool, nor that every value
\* of the index itself has been seen: max_index is raised with the first of
\* them (fd_pool_sd.c:227), before fd_pool_update_hosts is called for the list,
\* where fd_pool_sd.h:22 says that the index "has been fully processed".
WaitedKnown ==
  wret = 0 => \A vs \in {taken, list} : \A i \in DOMAIN vs : vs[i].idx >= windex

\* fd_pool_sd_stop returns although the thread may sleep in sd_queue_wait, and
\* fd_pool_sd_wait_index returns although its wakeup may have been lost.
StopReturns == /\ ~running ~> tpc = "done"
               /\ wpc = "sleep" ~> wpc = "done"

\* Between lists the pool has the hosts that the configuration calls for, but
\* for a list in which a deletion overwrote the reason to update it.  A caller
\* that is told that an index was reached has nodes, if not yet those of that
\* index, and the values before it are known.
HostsApplied == PoolFollows /\ WaitedHasNodes /\ WaitedKnown
=============================================================================
