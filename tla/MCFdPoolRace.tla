---------------------------- MODULE MCFdPoolRace ----------------------------
(***************************************************************************)
(* FdPool with several threads.  Two handles and two updaters at once are  *)
(* too many: in a behaviour either all handles race with one updater, or   *)
(* all updaters race with one handle at a time.                            *)
(***************************************************************************)
EXTENDS MCFdPool

CONSTANT u1

VARIABLE mix

SwapConfigs == {<<HostA>>, <<HostB>>}
RaceConfigs == {<<>>, <<HostA>>}
AllConfigs == SwapConfigs \cup RaceConfigs

AddNext(u) == AddKnownNode(u) \/ AddNewNode(u) \/ AddDone(u) \/ Swap(u) \/ UpdRelease(u)

\* Handles on a service whose only host is replaced.
HandlesRace ==
  \/ \E c \in Conns : ConnNext(c)
  \/ \E cfg \in SwapConfigs : UpdateStart(u1, v1, cfg) \/ AddConfig(u1, v1, cfg)
  \/ AddNext(u1)
  \/ \E v \in Services : FreeService(u1, v)

\* Updates of two services that share their nodes.
UpdatersRace ==
  \/ \E c \in Conns :
       /\ \A d \in Conns \ {c} : pc[d] = "none"
       /\ ConnNext(c)
  \/ \E u \in Updaters :
       \/ \E v \in Services, cfg \in RaceConfigs : UpdateStart(u, v, cfg)
       \/ \E v \in Services : AddSingle(u, v, HostA) \/ FreeService(u, v)
       \/ AddNext(u)

RaceNext ==
  /\ \/ mix = "handles" /\ HandlesRace
     \/ mix = "updaters" /\ UpdatersRace
     \/ \E t \in Threads : FreeNode(t) \/ FreeSb(t)
     \/ FreePool
     \/ Terminated
  /\ UNCHANGED mix

RaceSpec ==
  /\ Init /\ mix \in {"handles", "updaters"}
  /\ [][RaceNext]_<<vars, mix>>

\* Addresses, descriptor numbers and handles are interchangeable.
Symmetry == Permutations(Sbs) \cup Permutations(Nodes) \cup Permutations(Fds)
              \cup Permutations(Conns)
=============================================================================
