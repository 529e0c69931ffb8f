-------------------------------- MODULE MCGo --------------------------------
(***************************************************************************)
(* The Go pool and the Go watcher for TLC; a behaviour is one of the pool  *)
(* or one of the watcher, so that the state spaces add up.                 *)
(***************************************************************************)
EXTENDS GoPool, GoWatcher

VARIABLE part

(* A host with two ports and a host with one.                              *)
MCPorts == [h \in GoHosts |-> IF h = "h1" THEN {"port", "ctl"} ELSE {"port"}]
MCWanted == [t \in GoClients |-> IF t = "c1" THEN <<"ctl", "port">> ELSE <<"port">>]
MCMixes == {
    [sd |-> FALSE, strat |-> "seq", retries |-> 1, users |-> {"c1", "c2"}, msgs |-> 1, hosts |-> {{"h1"}, {"h1", "h2"}}],
    [sd |-> FALSE, strat |-> "seq", retries |-> 1, users |-> {"c1"}, msgs |-> 2, hosts |-> {{"h1"}, {"h1", "h2"}}],
    [sd |-> FALSE, strat |-> "random", retries |-> 1, users |-> {"c1"}, msgs |-> 1, hosts |-> {{"h1", "h2"}}],
    [sd |-> FALSE, strat |-> "random", retries |-> 0, users |-> {"c1"}, msgs |-> 1, hosts |-> {{"h1", "h2"}}],
    [sd |-> FALSE, strat |-> "seq", retries |-> 0, users |-> {"c1"}, msgs |-> 1, hosts |-> {{"h1", "h2"}}],
    [sd |-> TRUE, strat |-> "seq", retries |-> 1, users |-> {"c2"}, msgs |-> 2, hosts |-> {{"h1"}, {"h1", "h2"}}]}

MCBatches == {<<<<"config", "h1">>, <<"up", "h1">>, <<"config", "h2">>>>,
              <<<<"up", "h2">>, <<"delete", "h1">>>>,
              <<<<"flush", "h1">>, <<"config", "h2">>, <<"up", "h2">>, <<"config", "h1">>, <<"up", "h1">>, <<"down", "h1">>>>}
(* A service, and one whose name begins with its own.                      *)
GwService == [u \in GwUsers |-> IF u = "u1" THEN "a" ELSE "ab"]
GwBelow == [s \in {"a", "ab"} |-> IF s = "a" THEN {"a", "ab"} ELSE {"ab"}]
GwStart == <<[srv |-> "ab", act |-> "set"]>>

(* A behaviour of the watcher stands still in the pool, and the other way. *)
Init ==
    /\ GpInit /\ GwInit
    /\ part \in {"pool", "watcher"}
    /\ part = "watcher" => gpMix = CHOOSE mix \in Mixes : TRUE

Step == UNCHANGED part /\
    \/ part = "pool" /\ GpNext /\ UNCHANGED gwvars
    \/ part = "watcher" /\ GwNext /\ UNCHANGED gpvars

GoSpec == Init /\ [][Step]_<<gpvars, gwvars, part>> /\ GpFairness
UpdatesSpec == Init /\ part = "watcher" /\ [][Step]_<<gpvars, gwvars, part>> /\ GwFairness
=============================================================================
