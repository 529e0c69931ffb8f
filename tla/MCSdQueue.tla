----------------------------- MODULE MCSdQueue ------------------------------
(***************************************************************************)
(* Small instances of SdQueue, in which two hosts are added, changed,      *)
(* deleted and flushed in a few transactions, and, in behaviours of their  *)
(* own, of SdRegistry: the registry hands out queues and does not look     *)
(* into them, so that the state spaces add up.                             *)
(***************************************************************************)
EXTENDS SdQueue, SdRegistry

VARIABLE part  \* "queue" or "registry"

NoStatic == [h \in {} |-> NewHost]

MCVars == <<qvars, rgvars, part>>

MCInit == QueueInit /\ ((part = "queue" /\ RgIdle) \/ (part = "registry" /\ RgInit))

(* The owner of the registry has freed it or the process has crashed.      *)
RegistryOver == rgUp # "up" /\ UNCHANGED rgvars

MCNext == UNCHANGED part /\
    \/ part = "queue" /\ QueueNext /\ UNCHANGED rgvars
    \/ part = "registry" /\ (RgNext \/ RegistryOver) /\ UNCHANGED qvars

Run(A) == part = "queue" /\ A /\ UNCHANGED <<rgvars, part>>

(* The fairness of SdQueue for the behaviours of the queue.                *)
MCSpec ==
    /\ MCInit /\ [][MCNext]_MCVars
    /\ WF_MCVars(Run(Commit)) /\ WF_MCVars(Run(Broadcast))
    /\ WF_MCVars(Run(Wait)) /\ WF_MCVars(Run(TimedOut)) /\ WF_MCVars(Run(Process))
=============================================================================
