------------------------------ MODULE MCPlogd ------------------------------
EXTENDS Plogd

CONSTANTS c1, c2

\* Two count contexts, or a dictionary and a log.
MCMixes == {(c1 :> "count") @@ (c2 :> "count"), (c1 :> "dict") @@ (c2 :> "log")}

Spec == PlogdInit /\ [][PlogdNext]_plogdvars /\ PlogdFairness

============================================================================
