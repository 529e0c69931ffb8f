----------------------------- MODULE Guardian -----------------------------
(***************************************************************************)
(* The guardian of core/lib/daemon.c: a process that forks the real program *)
(* and waits for it, forwards signals, runs the health check from a timer,   *)
(* starts the program again when it dies, and stops it when asked to.  Its   *)
(* events drive the etcd registration of Registration.tla, in the guardian's *)
(* own thread, so that a registration runs to its end before the guardian    *)
(* goes on.                                                                  *)
(*                                                                          *)
(* Three processes: the starter that forked the guardian and waits for the  *)
(* program to say that it is ready; the guardian; the child.  Signals are   *)
(* delivered between any two steps of the guardian.  Seconds are kept only  *)
(* where the code compares them, in the child's lifetime and the respawn    *)
(* delay; the health check timer is the pair (armed, due).                  *)
(***************************************************************************)
EXTENDS Registration

CONSTANTS
    DelayMin, DelayMax, Rate,   \* set_respawn_backoff_attrs
    Lifetimes,                  \* seconds from fork to death a child may have
    UnavailLimit,               \* healthcheck_unavail_limit
    AlignedUnavail,             \* healthcheck_unavail_ms is a multiple of 1000
    Signals,                    \* signals others send to the guardian, each one a trouble
    MaxRespawns

VARIABLES
    starter,    \* the process that ran daemonify: where it waits or how it exited
    gwait,      \* startup_wait in the guardian: it holds both ends of the pipe
    notified,   \* the byte of startup_ready is in the pipe
    pidfile,    \* whose pid the pid file holds
    pc,         \* where the guardian is
    handlers,   \* its signal handlers are installed
    flags,      \* hup, usr1, usr2, term and alrm that are set
    eintr,      \* the last waitpid was interrupted
    stat,       \* the counter of the stop loop
    out_rc,     \* the guardian's exit code
    forkfailed, \* it left because fork failed
    timer,      \* the interval timer is running
    due,        \* now >= next_cb
    checked,    \* what this round of the loop found: "no", "good" or "bad"
    unavail,    \* consecutive 503 answers
    respawn, delay,
    child       \* st: where the child is; got: signals sent to it; cwait: its startup_wait

gvars == <<starter, gwait, notified, pidfile, pc, handlers, flags, eintr, stat, out_rc,
           forkfailed, timer, due, checked, unavail, respawn, delay, child>>
vars == <<gvars, rvars>>

GInit ==
    /\ starter = "asleep" /\ gwait = TRUE /\ notified = FALSE
    /\ pidfile = "mine" /\ pc = "prefork" /\ handlers = FALSE
    /\ flags = {} /\ eintr = FALSE /\ stat = 0 /\ out_rc = 0 /\ forkfailed = FALSE
    /\ timer = FALSE /\ due = TRUE /\ checked = "no" /\ unavail = 0
    /\ respawn = 0 /\ delay = DelayMin
    /\ child = [st |-> "none", got |-> {}, cwait |-> FALSE]

Init == GInit /\ RegInit

Alive == child.st \in {"running", "ready"}
\* Mutant of Zombie: a waitpid that returns 0 is taken for an end.
ZombieAny == child.st # "none"

Zombie == child.st \in {"exit0", "exit1", "crashed"}
Ended == pc \in {"exited", "killed"}

\* The guardian acts when no registration is under way.
At(p) == pc = p /\ rpc = "idle"

-----------------------------------------------------------------------------
\* bev_prefork, then fork.  The child sleeps the respawn delay before it runs;
\* it has its own copy of startup_wait.
Prefork ==
    /\ At("prefork")
    /\ FlushHandle
    /\ pc' = "fork"
    /\ UNCHANGED <<starter, gwait, notified, pidfile, handlers, flags, eintr, stat, out_rc,
                   forkfailed, timer, due, checked, unavail, respawn, delay, child>>

Fork ==
    /\ At("fork")
    /\ \/ /\ child' = [st |-> "running", got |-> {}, cwait |-> gwait]
          /\ pc' = "handlers"
          /\ UNCHANGED <<out_rc, forkfailed>>
       \/ /\ out_rc' = 1 /\ forkfailed' = TRUE /\ pc' = "cleanup"
          /\ UNCHANGED child
    /\ UNCHANGED <<starter, gwait, notified, pidfile, handlers, flags, eintr, stat, timer, due,
                   checked, unavail, respawn, delay, rvars>>

\* sigaction for all of them, bev_start, next_cb = 0.
InstallHandlers ==
    /\ At("handlers")
    /\ handlers' = TRUE
    /\ due' = TRUE
    /\ StartRegister("down")
    /\ pc' = "reset"
    /\ UNCHANGED <<starter, gwait, notified, pidfile, flags, eintr, stat, out_rc, forkfailed,
                   timer, checked, unavail, respawn, delay, child>>

-----------------------------------------------------------------------------
\* The loop around waitpid.  Clearing the flags drops a signal that came since
\* they were last looked at.
Reset ==
    /\ At("reset")
    /\ flags' = {}
    /\ pc' = "check"
    /\ UNCHANGED <<starter, gwait, notified, pidfile, handlers, eintr, stat, out_rc, forkfailed,
                   timer, due, checked, unavail, respawn, delay, child, rvars>>

\* The health check when it is due: 503 is reported only after more than
\* healthcheck_unavail_limit of them, any other answer at once.
Check ==
    /\ At("check")
    /\ pc' = "arm"
    /\ IF ~due
       THEN checked' = "no" /\ UNCHANGED <<unavail, due, rvars>>
       ELSE /\ due' = FALSE
            /\ \/ /\ checked' = "good" /\ unavail' = 0      \* 2xx, or 3xx
                  /\ \E health \in {"up", "down"} : StartRegister(health)
               \/ /\ checked' = "bad" /\ unavail' = 0
                  /\ StartRegister("down")
               \/ /\ checked' = "bad"
                  /\ IF unavail + 1 > UnavailLimit
                     THEN unavail' = 0 /\ StartRegister("down")
                     ELSE unavail' = unavail + 1 /\ UNCHANGED rvars
    /\ UNCHANGED <<starter, gwait, notified, pidfile, handlers, flags, eintr, stat, out_rc,
                   forkfailed, timer, respawn, delay, child>>

\* setitimer with next_cb - now.  The borrow is taken on the wrong side, so
\* that a nanosecond part of now above that of next_cb gives a negative value,
\* which setitimer refuses; a timer that was running keeps running.  After an
\* answer below 400 both parts are equal.
Arm ==
    /\ At("arm")
    /\ \E borrow \in BOOLEAN :
         /\ checked = "good" => ~borrow
         /\ (checked = "bad" /\ AlignedUnavail) => ~borrow
         /\ timer' = (timer \/ ~borrow)
    /\ checked' = "no"
    /\ pc' = "wait"
    /\ UNCHANGED <<starter, gwait, notified, pidfile, handlers, flags, eintr, stat, out_rc,
                   forkfailed, due, unavail, respawn, delay, child, rvars>>

\* waitpid returns the child's status.  (Signal interrupts it.)
Reap ==
    /\ At("wait") /\ Zombie
    /\ eintr' = FALSE
    /\ pc' = "forward"
    /\ UNCHANGED <<starter, gwait, notified, pidfile, handlers, flags, stat, out_rc, forkfailed,
                   timer, due, checked, unavail, respawn, delay, child, rvars>>

Kill(s) == IF Alive THEN [child EXCEPT !.got = @ \union s] ELSE child

\* Forward what is set; an alarm makes the check due.  The loop goes round
\* unless the child is gone or a termination was asked for, which starts the
\* stop loop with bev_exit_ok.  The flags are not read again before they are
\* reset, and are dropped here already.
Forward ==
    /\ At("forward")
    /\ due' = (due \/ "alrm" \in flags)
    /\ child' = Kill(flags \ {"alrm"})
    /\ \/ /\ eintr /\ "term" \notin flags
          /\ pc' = "reset"
          /\ UNCHANGED <<gwait, stat, rvars>>
       \/ /\ eintr /\ "term" \in flags
          /\ pc' = "stop" /\ stat' = 0 /\ gwait' = FALSE
          /\ StartDeregister
       \/ /\ ~eintr
          /\ pc' = "judge" /\ gwait' = FALSE
          /\ UNCHANGED <<stat, rvars>>
    /\ flags' = {} /\ eintr' = FALSE
    /\ UNCHANGED <<starter, notified, pidfile, handlers, out_rc, forkfailed, timer,
                   checked, unavail, respawn, delay>>

-----------------------------------------------------------------------------
\* The stop loop: five looks a second apart, then SIGINT, then SIGKILL.
StopRound ==
    /\ At("stop")
    /\ IF Zombie
       THEN /\ out_rc' = 0 /\ pc' = "cleanup"
            /\ UNCHANGED <<stat, child>>
       ELSE /\ stat' = IF stat < 7 THEN stat + 1 ELSE stat
            /\ child' = CASE stat' <= 5 -> child
                          [] stat' = 6  -> Kill({"int"})
                          [] OTHER      -> Kill({"kill"})
            /\ UNCHANGED <<out_rc, pc>>
    /\ UNCHANGED <<starter, gwait, notified, pidfile, handlers, flags, eintr, forkfailed, timer,
                   due, checked, unavail, respawn, delay, rvars>>

\* The status of a child that died by itself, and the event it is announced by.
Judge ==
    /\ At("judge")
    /\ \/ /\ child.st = "exit0"
          /\ StartDeregister
          /\ out_rc' = 0 /\ pc' = "cleanup"
       \/ /\ child.st \in {"exit1", "crashed"}
          /\ StartRegister("down")
          /\ pc' = "again"
          /\ UNCHANGED out_rc
    /\ UNCHANGED <<starter, gwait, notified, pidfile, handlers, flags, eintr, stat, forkfailed,
                   timer, due, checked, unavail, respawn, delay, child>>

\* Respawn: the delay goes back to its minimum after five minutes, and then
\* grows by the rate up to the maximum.
NextDelay(lived) ==
    LET reset == IF lived - delay >= 300 THEN DelayMin ELSE delay
    IN  IF reset * Rate >= DelayMax THEN DelayMax ELSE reset * Rate

\* A first child that died within five seconds of its start, the delay
\* subtracted, ends the guardian (bev_quick_exit).
Again ==
    /\ At("again")
    /\ \E lived \in Lifetimes :
         IF respawn = 0 /\ lived - delay <= 5
         THEN /\ StartDeregister
              /\ out_rc' = 1 /\ pc' = "cleanup"
              /\ UNCHANGED <<delay, respawn>>
         ELSE /\ respawn < MaxRespawns
              /\ delay' = NextDelay(lived)
              /\ respawn' = respawn + 1
              /\ pc' = "prefork"
              /\ UNCHANGED <<out_rc, rvars>>
    /\ UNCHANGED <<starter, gwait, notified, pidfile, handlers, flags, eintr, stat, forkfailed,
                   timer, due, checked, unavail, child>>

\* cleanup: the pid file goes if it names this process.
Cleanup ==
    /\ At("cleanup")
    /\ pidfile' = IF pidfile = "mine" THEN "none" ELSE pidfile
    /\ pc' = "exited"
    /\ UNCHANGED <<starter, gwait, notified, handlers, flags, eintr, stat, out_rc, forkfailed,
                   timer, due, checked, unavail, respawn, delay, child, rvars>>

GuardianStep ==
    \/ Prefork \/ Fork \/ InstallHandlers \/ Reset \/ Check \/ Arm \/ Reap \/ Forward
    \/ StopRound \/ Judge \/ Again \/ Cleanup

-----------------------------------------------------------------------------
\* Mutant of Deliver: the handlers are installed with SA_RESTART.
DeliverRestart(s) ==
    IF ~handlers
    THEN pc' = "killed" /\ UNCHANGED <<flags, eintr>>
    ELSE flags' = flags \union {s} /\ UNCHANGED <<pc, eintr>>

(* Signals to the guardian.  Before its handlers are installed any of them   *)
(* ends it; afterwards the handler sets a flag, and waitpid is interrupted   *)
(* if the guardian is in it.                                                 *)
Deliver(s) ==
    IF ~handlers
    THEN pc' = "killed" /\ UNCHANGED <<flags, eintr>>
    ELSE /\ flags' = flags \union {s}
         /\ IF pc = "wait" THEN pc' = "forward" /\ eintr' = TRUE
                           ELSE UNCHANGED <<pc, eintr>>

Signal ==
    /\ ~Ended /\ trouble < MaxTrouble
    /\ \E s \in Signals : Deliver(s)
    /\ trouble' = trouble + 1
    /\ UNCHANGED <<starter, gwait, notified, pidfile, handlers, stat, out_rc, forkfailed, timer,
                   due, checked, unavail, respawn, delay, child,
                   keyfile, hk, sd, hc, etcd, rpc, want, newdir, clean, conflost>>

\* The timer runs out.
Alarm ==
    /\ ~Ended /\ timer
    /\ timer' = FALSE /\ due' = TRUE
    /\ Deliver("alrm")
    /\ UNCHANGED <<starter, gwait, notified, pidfile, handlers, stat, out_rc, forkfailed,
                   checked, unavail, respawn, delay, child, rvars>>

\* Time passes next_cb with no timer running.
Late ==
    /\ ~Ended /\ ~timer /\ ~due
    /\ due' = TRUE
    /\ UNCHANGED <<starter, gwait, notified, pidfile, pc, handlers, flags, eintr, stat, out_rc,
                   forkfailed, timer, checked, unavail, respawn, delay, child, rvars>>

-----------------------------------------------------------------------------
(* The child.  It may end at any time, and need not react to any signal but  *)
(* SIGKILL.                                                                  *)
ChildEnds ==
    /\ Alive
    /\ \E end \in {"exit0", "exit1", "crashed"} :
         /\ "kill" \in child.got => end = "crashed"
         /\ child' = [child EXCEPT !.st = end, !.got = {}]
    /\ UNCHANGED <<starter, gwait, notified, pidfile, pc, handlers, flags, eintr, stat, out_rc,
                   forkfailed, timer, due, checked, unavail, respawn, delay, rvars>>

\* startup_ready.  The child's own read end is closed first: with no reader
\* left the write fails and the child exits with 2.  Without startup_wait it
\* does nothing.
StartupReady ==
    /\ child.st = "running"
    /\ child.cwait
    /\ \/ /\ (starter \in {"asleep", "polling"} \/ (gwait /\ ~Ended))
          /\ child' = [child EXCEPT !.st = "ready", !.cwait = FALSE]
          /\ notified' = TRUE
       \/ /\ starter \notin {"asleep", "polling"} /\ (~gwait \/ Ended)
          /\ child' = [child EXCEPT !.st = "exit1", !.got = {}]
          /\ UNCHANGED notified
    /\ UNCHANGED <<starter, gwait, pidfile, pc, handlers, flags, eintr, stat, out_rc,
                   forkfailed, timer, due, checked, unavail, respawn, delay, rvars>>

-----------------------------------------------------------------------------
(* The starter.  After its sleep it exits with the guardian's own code if    *)
(* that one is gone, and otherwise polls the pipe; the byte, end of file and  *)
(* the timeout each decide its exit code, the last two after sending SIGTERM. *)
Awake ==
    /\ starter = "asleep"
    /\ starter' = CASE pc = "exited" /\ out_rc = 0 -> "ok"
                    [] pc = "killed" \/ (pc = "exited" /\ out_rc # 0) -> "failed"
                    [] OTHER -> "polling"
    /\ UNCHANGED <<gwait, notified, pidfile, pc, handlers, flags, eintr, stat, out_rc,
                   forkfailed, timer, due, checked, unavail, respawn, delay, child, rvars>>

PipeOpen == (gwait /\ ~Ended) \/ (Alive /\ child.cwait)

Poll ==
    /\ starter = "polling"
    /\ \/ /\ notified
          /\ starter' = "ok"
          /\ UNCHANGED <<pc, flags, eintr>>
       \/ /\ ~notified
          /\ starter' = IF PipeOpen THEN "timeout" ELSE "eof"
          /\ IF Ended THEN UNCHANGED <<pc, flags, eintr>> ELSE Deliver("term")
    /\ UNCHANGED <<gwait, notified, pidfile, handlers, stat, out_rc, forkfailed, timer, due,
                   checked, unavail, respawn, delay, child, rvars>>

-----------------------------------------------------------------------------
RegAlone == (RegStep \/ RegEnv) /\ ~Ended /\ UNCHANGED gvars

Next ==
    \/ GuardianStep \/ RegAlone
    \/ Signal \/ Alarm \/ Late
    \/ ChildEnds \/ StartupReady
    \/ Awake \/ Poll

\* The guardian runs, requests end (they have a timeout of a second), the timer
\* runs out, and a child that was sent SIGKILL dies.  Nothing else is certain.
Fairness ==
    /\ WF_vars(GuardianStep)
    /\ WF_vars(RegStep /\ ~Ended /\ UNCHANGED gvars)
    /\ WF_vars(Alarm)
    /\ WF_vars(ChildEnds /\ "kill" \in child.got)

Spec == Init /\ [][Next]_vars /\ Fairness

-----------------------------------------------------------------------------
\* When bos_here_until returns in the guardian, the child is dead, the pid file
\* is not left behind, and the service was deregistered (or never had a host
\* key); only a failed fork skips the deregistration.  A signal that comes
\* before the handlers are installed kills the guardian without any of this.
CleanExit ==
    pc = "exited" =>
        /\ ~Alive
        /\ pidfile = "none"
        /\ forkfailed \/ hk = 0 \/ ~sd.live

\* The starter reports success only if the program said that it is ready, or
\* if the guardian had already ended with exit code 0 when the starter woke up:
\* the look at waitpid before the poll is the one hole in what the comment at
\* daemon.c:548 guarantees.
StarterHonest ==
    starter = "ok" => notified \/ (pc = "exited" /\ out_rc = 0)

\* While the guardian sits in waitpid the health check timer runs, so that the
\* registration is refreshed; the one way to lose it is an alarm that goes off
\* between setitimer and waitpid, which leaves its flag set and nothing to
\* interrupt the wait.  (The run has an unavailable interval of whole seconds.)
HealthTimer ==
    pc = "wait" => timer \/ "alrm" \in flags

\* A SIGTERM that came after the flags were cleared for this round of the loop,
\* but too early to interrupt waitpid, is acted on all the same when the health
\* check timer runs: the alarm ends the wait and the flag is still set; or the
\* child has gone first.  The guardian gets stuck in waitpid with the request
\* only when the timer does not run.
TermActedOn ==
    /\ ("term" \in flags /\ pc = "wait" /\ timer) ~> pc \in {"stop", "judge"}
    /\ ("term" \in flags /\ pc \in {"check", "arm", "forward"}) ~>
           (pc \in {"stop", "judge"} \/ (pc = "wait" /\ ~timer))

\* Stopping always ends, with the child dead, even if the child ignores
\* SIGTERM and SIGINT.
StopEnds ==
    pc = "stop" ~> (pc = "exited" /\ ~Alive)

\* Both who started the program and who looks after it learn how it ended.
EndsTold == CleanExit /\ StarterHonest

\* What becomes of a signal that comes while the guardian is in its loop: the
\* health check timer that makes up for one that came too early runs whenever
\* it waits (but for an alarm lost in the same way), a request to stop that
\* comes after the flags were cleared is acted on if the timer runs, and
\* stopping ends.  A signal that comes before that, while the guardian starts
\* the child, respawns it or registers the start, or between two rounds of the
\* loop, is cleared with the flags (daemon.c:316-320) and forgotten.
SignalsActedOn == []HealthTimer /\ TermActedOn /\ StopEnds
=============================================================================
