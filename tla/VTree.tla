------------------------------- MODULE VTree -------------------------------
(***************************************************************************)
(* The read interface over configuration trees (vtree/lib): a chain is a   *)
(* configuration node, an application's node over a common one, a literal, *)
(* a single value, a prefix put before another chain, or a shadow chain    *)
(* over another.  An operation is one of                                   *)
(*   len get has   node           (one answer)                             *)
(*   keys values byval nodes kvs  (a loop variable: a sequence)            *)
(* and its answer says how far it may be cached.  Templates keep what may  *)
(* be cached for the life of the process, while shadow chains come and go  *)
(* with the requests.                                                      *)
(***************************************************************************)
EXTENDS Bconf

CONSTANTS
    VtBottoms,    \* the chains under the shadow
    VtTops,       \* the chains that a request may put over it
    VtCalls       \* the calls that are cached: [op, argv]

VARIABLES
    vtBottom,     \* the chain of the process
    vtTop,        \* the chain of the request, or NoChain
    vtCall,       \* a call of a template, which has a cache of its own
    vtCache       \* what has been cached for it: at most one answer

vtvars == <<vtBottom, vtTop, vtCall, vtCache>>

CANT == 0
UNKNOWN == 1
CAN == 2

Loop == <<<<0>>>>
NoValue == "(null)"
NoChain == [kind |-> "none"]
NoKey == <<>>

Loops == {"keys", "values", "byval", "nodes", "kvs"}

Nothing(op) ==
    CASE op = "len" -> 0
      [] op = "get" -> NoValue
      [] op = "has" -> FALSE
      [] op = "node" -> NoChain
      [] OTHER -> <<>>

NodeChain(node) == [kind |-> "node", data |-> node]
ValueChain(v) == [kind |-> "value", data |-> v]

NodeValue(node) == IF node # NULL /\ node.type \in {"val", "bin"} THEN node.value ELSE NoValue
Vasget(node, argv) == FoldLeft(Get, node, argv)

LoopAt(argv) == CHOOSE i \in 1 .. Len(argv) : argv[i] = Loop
BeforeLoop(argv) == IF Contains(argv, Loop) THEN SubSeq(argv, 1, LoopAt(argv) - 1) ELSE argv
AfterLoop(argv) == IF Contains(argv, Loop) THEN SubSeq(argv, LoopAt(argv) + 1, Len(argv)) ELSE <<>>
----------------------------------------------------------------------------
(* A configuration node.                                                   *)
SubsOf(n) == IF n = NULL THEN <<>> ELSE n.subs
BconfSubs(node, argv) == SubsOf(Vasget(node, BeforeLoop(argv)))

BconfKeys(op, subs, after, val) ==
    LET Value(sub) == NodeValue(Vasget(sub, after))
        Shown(v) == IF v = NoValue THEN "" ELSE v
        Keys(nodes) == [i \in 1 .. Len(nodes) |-> nodes[i].key]
    IN  CASE op = "keys" -> Keys(subs)
          [] op = "values" -> [i \in 1 .. Len(subs) |-> Shown(Value(subs[i]))]
          [] op = "byval" -> Keys(SelectSeq(subs, LAMBDA sub : Value(sub) = val))

BconfNodes(op, subs, after) ==
    LET Elem(n) == IF n = NULL THEN NoChain ELSE IF NodeValue(n) # NoValue THEN ValueChain(NodeValue(n)) ELSE NodeChain(n)
    IN  CASE op = "nodes" -> [i \in 1 .. Len(subs) |-> NodeChain(subs[i])]
          [] op = "kvs" -> [i \in 1 .. Len(subs) |-> [key |-> subs[i].key, v |-> Elem(Vasget(subs[i], after))]]

BconfOne(op, n) ==
    CASE n = NULL -> Nothing(op)
      [] op = "len" /\ n # NULL -> Len(n.subs)
      [] op = "get" /\ n # NULL -> NodeValue(n)
      [] op = "has" /\ n # NULL -> TRUE
      [] op = "node" /\ n # NULL -> NodeChain(n)

BconfLoop(op, subs, after, val) == IF op \in {"nodes", "kvs"} THEN BconfNodes(op, subs, after) ELSE BconfKeys(op, subs, after, val)

BconfAnswer(op, node, argv, val) ==
    IF op \in Loops THEN BconfLoop(op, BconfSubs(node, argv), AfterLoop(argv), val) ELSE BconfOne(op, Vasget(node, argv))

(* An application's node, before the one all applications have.            *)
AppChoice(op, c, cc, high, low) ==
    CASE high # {} -> [res |-> CHOOSE r \in high : TRUE, cc |-> c.level]
      [] high = {} /\ low # {} -> [res |-> CHOOSE r \in low : TRUE, cc |-> cc]
      [] OTHER -> [res |-> Nothing(op), cc |-> IF c.level < CAN THEN UNKNOWN ELSE cc]

(* The answer of a node that has the path or, to a loop, something in it.  *)
AppFound(op, node, argv, val) ==
    IF op \in Loops THEN {BconfAnswer(op, node, argv, val)} \ {<<>>}
    ELSE {BconfOne(op, n) : n \in {Vasget(node, argv)} \ {NULL}}

AppAnswer(op, c, cc, argv, val) ==
    LET Choice(found) == AppChoice(op, c, cc, found["high"], found["low"])
    IN  Choice([node \in {"high", "low"} |-> AppFound(op, c[node], argv, val)])
----------------------------------------------------------------------------
Digit(i) == <<47 + i>>

(* The dict or the list of a literal: keys, or the numbers from 0.         *)
Index(c, argv) ==
    LET dict == {i \in 1 .. Len(c.list) : argv[1] = <<c.list[i].key>>}
        list == {i \in 1 .. Len(c.list) : argv[1] = <<Digit(i)>>}
        hits == IF c.type = "list" THEN list ELSE dict
    IN  IF argv = <<>> \/ hits = {} THEN 0 ELSE CHOOSE i \in hits : \A j \in hits : i <= j

LiteralKey(c, i) == IF c.type = "list" THEN Digit(i) ELSE c.list[i].key

ValueAnswer(op, c, argv) ==
    IF argv # <<>> THEN Nothing(op)
    ELSE CASE op = "get" -> c.data [] op = "has" -> TRUE [] op = "node" -> c [] OTHER -> Nothing(op)

RECURSIVE Ask(_, _, _, _, _)

(* A literal's entries are values, chains or nothing; all of it may change *)
(* with the request, so that nothing may be cached.                        *)
LiteralSub(op, c, i, argv, val) ==
    IF i = 0 \/ c.list[i].v = NoChain THEN Nothing(op) ELSE Ask(op, c.list[i].v, CAN, Tail(argv), val).res

LiteralGet(op, c, argv, val) ==
    LET i == Index(c, argv)
    IN  CASE argv = <<>> -> IF op = "len" THEN Len(c.list) ELSE Nothing(op)
          [] op = "has" /\ Len(argv) = 1 -> i # 0
          [] OTHER -> LiteralSub(op, c, i, argv, val)

LiteralKeys(op, c, argv, val) ==
    LET n == Len(c.list)
        Value(i) == LiteralSub("get", c, i, argv, val)
        Hits == SelectSeq([i \in 1 .. n |-> i], LAMBDA i : Value(i) = val)
    IN  CASE argv = <<>> -> IF op = "keys" THEN [i \in 1 .. n |-> LiteralKey(c, i)] ELSE <<>>
          [] argv # <<>> /\ argv[1] = Loop ->
               (CASE op = "keys" -> <<>>
                  [] op = "values" -> [i \in 1 .. n |-> Value(i)]
                  [] op = "byval" -> [i \in 1 .. Len(Hits) |-> LiteralKey(c, Hits[i])])
          [] OTHER -> LiteralSub(op, c, Index(c, argv), argv, val)

LiteralNodes(op, c, argv, val) ==
    LET n == Len(c.list)
        Elem(i) == LET node == LiteralSub("node", c, i, argv, val)
                       v == IF node = NoChain THEN NoValue ELSE Ask("get", node, CAN, <<>>, val).res
                   IN  IF v = NoValue THEN node ELSE ValueChain(v)
    IN  CASE argv = <<>> ->
               (CASE op = "node" -> c
                  [] op = "nodes" -> [i \in 1 .. n |-> c.list[i].v]
                  [] op = "kvs" -> c.list)
          [] argv # <<>> /\ argv[1] = Loop ->
               IF op = "kvs" THEN [i \in 1 .. n |-> [key |-> c.list[i].key, v |-> Elem(i)]] ELSE Nothing(op)
          [] OTHER -> LiteralSub(op, c, Index(c, argv), argv, val)

LiteralAnswer(op, c, argv, val) ==
    CASE op \in {"len", "get", "has"} -> LiteralGet(op, c, argv, val)
      [] op \in {"keys", "values", "byval"} -> LiteralKeys(op, c, argv, val)
      [] OTHER -> LiteralNodes(op, c, argv, val)
----------------------------------------------------------------------------
(* A chain below a prefix: the prefix is taken off the first argument.     *)
Stripped(p, argv) ==
    IF argv[1] \in {Loop, p} THEN Tail(argv) ELSE <<SubSeq(argv[1], Len(p) + 1, Len(argv[1]))>> \o Tail(argv)

PrefixBelow(op, c, cc, argv, val) ==
    IF argv # <<>> /\ (argv[1] = Loop \/ IsPrefix(c.prefix, argv[1]))
    THEN Ask(op, c.next, cc, Stripped(c.prefix, argv), val)
    ELSE [res |-> Nothing(op), cc |-> cc]

PrefixName(c) == FoldLeft(LAMBDA k, l : k \o <<46>> \o l, c.prefix[1], Tail(c.prefix))

PrefixKeys(op, c, cc, argv, val) ==
    IF argv = <<>> /\ op = "keys" THEN [res |-> <<PrefixName(c)>>, cc |-> cc]
    ELSE PrefixBelow(op, c, cc, argv, val)

PrefixNodes(op, c, cc, argv, val) ==
    CASE argv = <<>> /\ op = "node" -> [res |-> c, cc |-> cc]
      [] argv = <<>> /\ op = "nodes" -> [res |-> <<c.next>>, cc |-> cc]
      [] argv = <<Loop>> /\ op = "kvs" -> [res |-> <<[key |-> PrefixName(c), v |-> c.next]>>, cc |-> cc]
      [] OTHER -> PrefixBelow(op, c, cc, argv, val)

PrefixAnswer(op, c, cc, argv, val) ==
    CASE op \in {"keys", "values", "byval"} -> PrefixKeys(op, c, cc, argv, val)
      [] op \in {"node", "nodes", "kvs"} -> PrefixNodes(op, c, cc, argv, val)
      [] OTHER -> PrefixBelow(op, c, cc, argv, val)

(* The merges of a shadow chain's first level with the level below it.     *)
RECURSIVE MergeKeys(_, _)
MergeKeys(l1, l2) ==
    IF l1 = <<>> \/ l2 = <<>> THEN <<>>
    ELSE IF Strcmp(l1[1], l2[1]) <= 0
         THEN <<l1[1]>> \o MergeKeys(Tail(l1), IF l1[1] = l2[1] THEN Tail(l2) ELSE l2)
         ELSE <<l2[1]>> \o MergeKeys(l1, Tail(l2))

ShadowKeys(l1, l2) ==
    LET Sorted(s) == SortSeq(s, LAMBDA a, b : Strcmp(a, b) < 0)
    IN  MergeKeys(Sorted(l1), Sorted(l2))

RECURSIVE MergeKeyvals(_, _)
MergeKeyvals(l1, l2) ==
    IF l1 = <<>> \/ l2 = <<>> THEN l1 \o l2
    ELSE IF Strcmp(l1[1].key, l2[1].key) <= 0
         THEN <<l1[1]>> \o MergeKeyvals(Tail(l1), IF l1[1].key = l2[1].key THEN Tail(l2) ELSE l2)
         ELSE <<l2[1]>> \o MergeKeyvals(l1, Tail(l2))

RECURSIVE KvType(_)
KvType(c) ==
    CASE c.kind \in {"node", "app"} -> "unknown"
      [] c.kind = "literal" -> c.type
      [] c.kind = "shadow" /\ c.top # NoChain -> IF KvType(c.top) = KvType(c.next) THEN KvType(c.top) ELSE "unknown"
      [] c.kind = "shadow" -> KvType(c.next)
      [] OTHER -> "dict"

(* Both are sorted by their keys before their types are looked at, and the *)
(* entries of a list have none: comparing two of them ends the process.    *)
Unsortable(l) == Len(l) > 1 /\ \E i \in 1 .. Len(l) : l[i].key = NoKey

NoKeysCrash == "crash"

(* Lists are put one after the other and, beside keys, get numbers as keys. *)
ShadowKeyvals(c, l1, l2) ==
    LET Sorted(s) == SortSeq(s, LAMBDA a, b : Strcmp(a.key, b.key) < 0)
        Both(s1, s2) == CASE KvType(c.top) = "list" -> s1 \o s2
                          [] KvType(c.top) # "list" /\ KvType(c.next) = "list" -> s2 \o s1
                          [] OTHER -> MergeKeyvals(s1, s2)
        Keyed(all) == [i \in 1 .. Len(all) |-> IF all[i].key = NoKey THEN [all[i] EXCEPT !.key = Digit(i)] ELSE all[i]]
        Numbered(all) == IF KvType(c) = "list" THEN all ELSE Keyed(all)
    IN  IF Unsortable(l1) \/ Unsortable(l2) THEN NoKeysCrash ELSE Numbered(Both(Sorted(l1), Sorted(l2)))

(* What the top of a shadow chain has is never cached, nor is an answer    *)
(* that neither had.                                                       *)
ShadowHitCached(res, cc) == [res |-> res, cc |-> cc]
ShadowHit(res, cc) == [res |-> res, cc |-> CANT]

ShadowMiss(op, below) == IF below.res = Nothing(op) THEN [below EXCEPT !.cc = UNKNOWN] ELSE below

ShadowBelow(op, c, cc, argv, val) == ShadowMiss(op, Ask(op, c.next, cc, argv, val))

ShadowFind(op, c, cc, argv, val) ==
    LET Up(up) == IF up.res # Nothing(op) THEN ShadowHit(up.res, up.cc) ELSE ShadowBelow(op, c, up.cc, argv, val)
    IN  Up(IF c.top = NoChain THEN [res |-> Nothing(op), cc |-> cc] ELSE Ask(op, c.top, cc, argv, val))

(* The first levels of both, one after the other.                          *)
ShadowBoth(op, c, argv, val) ==
    LET Merged(first, second) ==
            CASE op = "len" -> first + second [] op = "keys" -> ShadowKeys(first, second) [] op = "kvs" -> ShadowKeyvals(c, first, second)
        Then(first, second) == [second EXCEPT !.res = Merged(first, @)]
        First(first) == Then(first.res, Ask(op, c.next, first.cc, argv, val))
    IN  First(Ask(op, c.top, CANT, argv, val))

ShadowAnswer(op, c, cc, argv, val) ==
    CASE op = "kvs" /\ argv = <<>> -> [res |-> <<>>, cc |-> cc]
      [] c.top # NoChain /\ <<op, argv>> \in {<<"len", <<>>>>, <<"keys", <<>>>>, <<"kvs", <<Loop>>>>} -> ShadowBoth(op, c, argv, val)
      [] c.top # NoChain /\ argv = <<>> /\ op \in {"get", "has"} -> [res |-> Nothing(op), cc |-> cc]
      [] c.top # NoChain /\ argv = <<>> /\ op = "node" -> [res |-> c, cc |-> cc]
      [] OTHER -> ShadowFind(op, c, cc, argv, val)

Ask(op, c, cc, argv, val) ==
    CASE c.kind = "node" -> [res |-> BconfAnswer(op, c.data, argv, val), cc |-> IF op = "node" THEN CANT ELSE cc]
      [] c.kind = "app" -> AppAnswer(op, c, cc, argv, val)
      [] c.kind = "literal" -> [res |-> LiteralAnswer(op, c, argv, val), cc |-> CANT]
      [] c.kind = "value" -> [res |-> ValueAnswer(op, c, argv), cc |-> cc]
      [] c.kind = "prefix" -> PrefixAnswer(op, c, cc, argv, val)
      [] c.kind = "shadow" -> ShadowAnswer(op, c, cc, argv, val)
----------------------------------------------------------------------------
Chain == [kind |-> "shadow", top |-> vtTop, next |-> vtBottom]

VtStart(bottom, call) ==
    /\ vtBottom = bottom
    /\ vtTop = NoChain
    /\ vtCall = call
    /\ vtCache = <<>>

VtInit == \E bottom \in VtBottoms, call \in VtCalls : VtStart(bottom, call)

(* Nobody uses the chain.                                                  *)
VtIdle == VtStart(NoChain, [op |-> "get", argv |-> <<>>])

(* A request comes with its chain, which shadow_vtree_init puts on top.    *)
ShadowInit ==
    /\ vtTop' \in VtTops \cup {NoChain}
    /\ UNCHANGED <<vtBottom, vtCall, vtCache>>

(* The value a call leaves with its caller, when it may be kept.           *)
CachedCall(op) ==
    /\ vtCall.op = op
    /\ vtCache = <<>>
    /\ \E r \in {Ask(op, Chain, CAN, vtCall.argv, NoValue)} : r.cc = CAN /\ vtCache' = <<r.res>>
    /\ UNCHANGED <<vtBottom, vtTop, vtCall>>

GetlenCache == CachedCall("len")

(* A value that is missing cannot be told from one not asked for.          *)
GetCache == CachedCall("get") /\ vtCache' # <<NoValue>>

HaskeyCache == CachedCall("has")

GetnodeCache == CachedCall("node")

VtNext == ShadowInit \/ GetlenCache \/ GetCache \/ HaskeyCache \/ GetnodeCache
----------------------------------------------------------------------------
(* Chains in which a lookup finds keys that a loop does not go through.    *)
FindsMore(c) == c.kind = "app" \/ (c.kind = "node" /\ c.data.star)

KeysOf(kvs) == {kvs[i].key : i \in 1 .. Len(kvs)}

(* What is cached for a call is what the process's own chain answers: a    *)
(* request never sees what the shadow chain of an earlier one had.  A call *)
(* without arguments that is no vtree_get is the exception: the number of  *)
(* the keys of the first level is that of both chains, and an              *)
(* application's chain says that it may be kept; haskey and getnode answer *)
(* by themselves, FALSE and the shadow chain itself, and say nothing.      *)
ShadowNotCached ==
    (vtCall.argv # <<>> \/ vtCall.op = "get") /\ vtCache # <<>> =>
        vtCache = <<Ask(vtCall.op, vtBottom, CAN, vtCall.argv, NoValue).res>>

(* The keys and values of a shadow chain are those of both chains, every   *)
(* key once, and a value is the one that a lookup of its key finds (unless *)
(* the top is one that finds keys it does not list).  The list of the keys *)
(* alone is the beginning of it, all of it when nothing is on top, and     *)
(* as long as getlen says (which does not count a prefix and does not look *)
(* below an application's empty node).  A list of one entry comes before   *)
(* the other chain's, and nothing is dropped; one of two entries or more   *)
(* ends the process and is left out.                                       *)
LoopsAgree ==
    LET All(c, op, argv) == IF c = NoChain THEN <<>> ELSE Ask(op, c, CAN, argv, NoValue).res
        Path(key) == IF vtBottom.kind = "prefix" /\ key = PrefixName(vtBottom) THEN vtBottom.prefix ELSE <<key>>
        Agree(kvs, keys) ==
            /\ KeysOf(kvs) = UNION {KeysOf(All(c, "kvs", <<Loop>>)) : c \in {vtTop, vtBottom}}
            /\ Cardinality(KeysOf(kvs)) = Len(kvs)
            /\ \A i \in 1 .. Len(kvs) :
                  /\ Ask("has", Chain, CAN, <<Path(kvs[i].key)>>, NoValue).res
                  /\ kvs[i].v.kind = "value" /\ ~FindsMore(vtTop) =>
                        Ask("get", Chain, CAN, <<Path(kvs[i].key)>>, NoValue).res = kvs[i].v.data
            /\ IsPrefix(keys, [i \in 1 .. Len(kvs) |-> kvs[i].key])
            /\ vtTop = NoChain => Len(keys) = Len(kvs)
            /\ vtTop = NoChain /\ vtBottom.kind \in {"node", "literal"} => Len(keys) = Ask("len", Chain, CAN, <<>>, NoValue).res
        Listed(c) == c # NoChain /\ KvType(c) = "list"
        lists == {c \in {vtTop, vtBottom} : Listed(c)}
        Both(kvs, top, bottom) ==
            /\ Len(kvs) = Len(top) + Len(bottom)
            /\ \E list \in {All(c, "kvs", <<Loop>>) : c \in lists} : list # <<>> => kvs[1].v = list[1].v
    IN  /\ vtBottom # NoChain /\ lists = {} => Agree(All(Chain, "kvs", <<Loop>>), All(Chain, "keys", <<>>))
        /\ lists # {} /\ (\A c \in lists : Len(c.list) <= 1) =>
               Both(All(Chain, "kvs", <<Loop>>), All(vtTop, "kvs", <<Loop>>), All(vtBottom, "kvs", <<Loop>>))

(* The loops over a configuration node or a literal go through the same    *)
(* entries in the same order, and what a loop finds below an entry is what *)
(* a lookup with the entry's key finds there.                              *)
LoopsFollow == \A c \in {vtTop, vtBottom}, rest \in {<<>>, vtCall.argv} : c.kind \in {"node", "literal"} =>
    LET Keys(keys, is) == [j \in 1 .. Len(is) |-> keys[is[j]]]
        Looped == [op \in {"kvs", "values"} |-> Ask(op, c, CAN, <<Loop>> \o rest, NoValue).res]
        At(keys) == [i \in 1 .. Len(keys) |-> Ask("get", c, CAN, <<<<keys[i]>>>> \o rest, NoValue).res]
        Follow(keys, at, kvs, values) ==
            /\ {Len(kvs), Len(values), Len(Ask("nodes", c, CAN, <<>>, NoValue).res)} = {Len(keys)}
            /\ \A i \in 1 .. Len(keys) :
                  /\ kvs[i].key \in {keys[i], NoKey}
                  /\ IF at[i] = NoValue THEN values[i] \in {"", NoValue} /\ kvs[i].v.kind # "value"
                     ELSE values[i] = at[i] /\ kvs[i].v = ValueChain(at[i])
            /\ \A v \in Range(at) \ {NoValue} :
                  Ask("byval", c, CAN, <<Loop>> \o rest, v).res = Keys(keys, SelectSeq([i \in 1 .. Len(keys) |-> i], LAMBDA i : at[i] = v))
        WithKeys(keys, loops) == Follow(keys, At(keys), loops["kvs"], loops["values"])
    IN  WithKeys(Ask("keys", c, CAN, <<>>, NoValue).res, Looped)

(* A path asked for with dots is the path asked for with one argument for  *)
(* every key, with the same answer and the same word on caching, through   *)
(* shadows and prefixes of one key.  A prefix with dots is looked for in   *)
(* the first argument alone, and literals know no dots.                    *)
DotsSplit ==
    LET Splits(c) == c.kind # "literal" /\ (c.kind = "prefix" => Len(c.prefix) = 1)
    IN  Len(vtCall.argv) = 2 /\ Splits(vtTop) /\ Splits(vtBottom) =>
            Ask(vtCall.op, Chain, CAN, vtCall.argv, NoValue) =
                Ask(vtCall.op, Chain, CAN, <<vtCall.argv[1] \o vtCall.argv[2]>>, NoValue)

(* The operations of a chain agree on what is in the tree, and what a      *)
(* caller keeps of an answer (vtree_get_cache and the like) is nothing     *)
(* that a request's own chain said.                                        *)
ViewsAgree == LoopsAgree /\ LoopsFollow /\ DotsSplit /\ ShadowNotCached
============================================================================
