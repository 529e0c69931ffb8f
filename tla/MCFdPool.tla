------------------------------ MODULE MCFdPool ------------------------------
(***************************************************************************)
(* Small instances of FdPool for TLC.                                      *)
(***************************************************************************)
EXTENDS FdPool, TLC

CONSTANT v1   \* the service of the handles

\* Host a with one port, host a with a second port, host b.
A1 == [key |-> "port", addr |-> "a1"]
A2 == [key |-> "alt", addr |-> "a2"]
B1 == [key |-> "port", addr |-> "b1"]

MCKeys == {"1", "2"}
MCPorts == {A1, A2, B1}

HostA == [key |-> "1", ports |-> <<A1>>]
HostA2 == [key |-> "1", ports |-> <<A1, A2>>]
HostB == [key |-> "2", ports |-> <<B1>>]

PortConfigs == {<<HostA2>>, <<HostA2, HostB>>}

AltKeys == [c \in Conns |-> <<"alt", "port">>]
OneService == [c \in Conns |-> v1]
PlainKeys == [c \in Conns |-> <<"port">>]
NoFilter == [c \in Conns |-> NULL]
=============================================================================
