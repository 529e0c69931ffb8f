------------------------------ MODULE MCParts ------------------------------
(***************************************************************************)
(* Parts of the system that have nothing to do with each other, for TLC: a *)
(* behaviour is one of one part, so that the state spaces add up.          *)
(***************************************************************************)
EXTENDS PlogC, JsonTree, HttpPool, Rcycle, TLC

VARIABLE part

vars == <<plogvars, bcvars, vtvars, httpvars, rcvars, part>>

PartSymmetry == Permutations(LruThreads)

(* One entry, and one more for a dict or a list, whose first may be the    *)
(* time that plog_open_sub publishes.                                      *)
MCEntries == [c \in Ctxs |-> IF c \in Subs THEN 2 ELSE 1]

(* Keys with stars and numbers of one and two digits; a list below one of  *)
(* them, with a key that is not shown; the settings of hosts and           *)
(* applications; and longer, additions and merges of values and lists.     *)
MCUses ==
    {[paths |-> {<<Star>>, <<<<50>>>>, <<<<49, 48>>>>, <<<<97>>>>}, ops |-> 2],
     [paths |-> {<<<<50>>>>, <<<<49, 48>>>>, <<<<49, 48>>, <<98>>>>, <<<<49, 48>>, <<95>>>>}, ops |-> 2],
     [paths |-> {<<host, appl, <<120>>>> : host \in {Star, <<104>>}, appl \in {Star, <<97>>}}, ops |-> 2],
     [paths |-> {<<<<97>>>>, <<<<98>>>>, <<<<98>>, <<99>>>>}, ops |-> 3],
     [paths |-> {<<<<98>>>>, <<<<98>>, <<99>>>>}, ops |-> 4]}

(* Chains of every kind over small trees.                                  *)
X == <<120>>
Y == <<121>>
P == <<112>>
Tree(paths, v) == FoldLeft(LAMBDA n, p : Add(n, p, v, "DUP").node, Fresh(<<>>), SetToSeq(paths))
Trees(v) == {Tree(S, v) : S \in SUBSET {<<X>>, <<X, Y>>, <<Y>>, <<Star>>}}
FewTrees(v) == {Tree(S, v) : S \in {{}, {<<X>>}, {<<X, Y>>, <<Y>>}}}
Apps(v, w, levels) ==
    [kind : {"app"}, low : FewTrees(v), high : FewTrees(w), level : levels]
Dict(v) ==
    [kind |-> "literal", type |-> "dict",
     list |-> <<[key |-> X, v |-> ValueChain(v)], [key |-> Y, v |-> NodeChain(Tree({<<X>>}, v))]>>]
Lists(v) ==
    [kind : {"literal"}, type : {"list"},
     list : {<<[key |-> NoKey, v |-> ValueChain(v)]>>, <<[key |-> NoKey, v |-> ValueChain(v)], [key |-> NoKey, v |-> NoChain]>>}]
PrefixChains(v) == [kind : {"prefix"}, prefix : {<<P>>, <<X>>, <<P, X>>}, next : {NodeChain(t) : t \in FewTrees(v)}]

MCBottoms == {NodeChain(t) : t \in Trees("b")} \cup Apps("b", "h", {CANT, CAN}) \cup PrefixChains("b") \cup {Dict("b")} \cup Lists("b")
MCTops == {NodeChain(t) : t \in FewTrees("t") \cup {Tree({<<Y>>, <<Star>>}, "t")}} \cup Apps("t", "s", {CAN}) \cup {Dict("t")} \cup Lists("t")
MCCalls == [op : {"get", "len", "has", "node"}, argv : {<<>>, <<<<X>>>>, <<<<X>>, <<Y>>>>, <<<<P>>, <<X>>>>}]

(* All ranges of up to four bits.                                          *)
MCRanges == 1 .. 14
MCSeeds == 0 .. 511

Init ==
    \/ part = "client" /\ PlogInit /\ BcIdle /\ VtIdle /\ HttpIdle /\ RcIdle
    \/ part = "tree" /\ PlogIdle /\ BcInit /\ VtIdle /\ HttpIdle /\ RcIdle
    \/ part = "chain" /\ PlogIdle /\ BcIdle /\ VtInit /\ HttpIdle /\ RcIdle
    \/ part = "http" /\ PlogIdle /\ BcIdle /\ VtIdle /\ HttpInit /\ RcIdle
    \/ part = "cycle" /\ PlogIdle /\ BcIdle /\ VtIdle /\ HttpIdle /\ RcInit

Next == UNCHANGED part /\
    \/ part = "client" /\ PlogNext /\ UNCHANGED <<bcvars, vtvars, httpvars, rcvars>>
    \/ part = "tree" /\ BcNext /\ UNCHANGED <<plogvars, vtvars, httpvars, rcvars>>
    \/ part = "chain" /\ VtNext /\ UNCHANGED <<plogvars, bcvars, httpvars, rcvars>>
    \/ part = "http" /\ HttpNext /\ UNCHANGED <<plogvars, bcvars, vtvars, rcvars>>
    \/ part = "cycle" /\ RcNext /\ UNCHANGED <<plogvars, bcvars, vtvars, httpvars>>

Spec == Init /\ [][Next]_vars

============================================================================
