---------------------------- MODULE MCController ----------------------------
(***************************************************************************)
(* A controller with a few workers and, in behaviours of their own, the    *)
(* requests that one worker reads: a worker's connection is its own from   *)
(* the accept to the answer, so that the state spaces add up.              *)
(***************************************************************************)
EXTENDS Controller, CtrlRequest

VARIABLE part  \* "threads" or "request"

(* Handlers with and without parameters, and all paths of up to five       *)
(* characters; requests with up to two headers and two pieces of body.     *)
MCPatterns ==
    {<<"/", "a">>, <<"/", "a", "/", "<", "x", ">">>, <<"/", "<", "x", ">", "/", "b">>,
     <<"/", "<", "x", ">", "/", "<", "y", ">">>}
MCMixes ==
    {[urls |-> UNION {[1 .. n -> {"/", "a", "b"}] : n \in 1 .. 5}, headers |-> {<<>>}, bodies |-> {1}],
     [urls |-> {<<>>, <<"bad">>, <<"/", "a">>, <<"/">>}, headers |-> UNION {[1 .. n -> HeaderKinds] : n \in 0 .. 2},
      bodies |-> 0 .. 2]}

MCVars == <<vars, crvars, part>>

MCInit == Init /\ ((part = "threads" /\ CrIdle) \/ (part = "request" /\ pipe /\ CrInit))

RequestOver == cr.pc \in {"closed", "kept", "upgraded"} /\ UNCHANGED crvars

MCNext == UNCHANGED part /\
    \/ part = "threads" /\ Next /\ UNCHANGED crvars
    \/ part = "request" /\ (CrNext \/ RequestOver) /\ UNCHANGED vars

Run(A) == part = "threads" /\ A /\ UNCHANGED <<crvars, part>>

(* The fairness of Controller for the behaviours of its threads.           *)
MCSpec ==
    /\ MCInit /\ [][MCNext]_MCVars
    /\ WF_MCVars(Run(Listener))
    /\ \A w \in Workers : WF_MCVars(Run(Worker(w) \/ (pc[w] # "run" /\ Quitting(w))))
    /\ WF_MCVars(Run(pc["main"] # "run" /\ Quitting("main")))
    /\ WF_MCVars(Run(StageTwo \/ Cleanup))
=============================================================================
