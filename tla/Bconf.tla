------------------------------- MODULE Bconf -------------------------------
(***************************************************************************)
(* Configuration trees (vtree/lib/bconf.c): a node is a value, a reference *)
(* to a caller's data ("bin"), a list of nodes sorted by key, or nothing   *)
(* yet ("none").  A key is the sequence of its bytes, since the order of   *)
(* the keys depends on them; a value is opaque.  The two trees are a       *)
(* destination and a source, as for bconf_merge, edited by their owner.    *)
(***************************************************************************)
EXTENDS Integers, Sequences, FiniteSets, SequencesExt

CONSTANTS
    BcUses,      \* the ways to use a tree: the paths its user adds, and a
                 \* bound on the operations on the trees
    BcValues     \* the values

VARIABLES
    bcUse,       \* the use of this behaviour
    bcDst,       \* the root of the destination
    bcSrc,       \* the root of the source
    bcLast,      \* the last operation and its result
    bcOps        \* the number of operations

bcvars == <<bcUse, bcDst, bcSrc, bcLast, bcOps>>

Star == <<42>>

Fresh(k) == [key |-> k, type |-> "none", value |-> "", subs |-> <<>>, star |-> FALSE]

NULL == [type |-> "NULL"]

IsDigit(key) == key # <<>> /\ key[1] \in 48 .. 57

(* A byte of a string, which ends with a NUL.                              *)
Byte(s, i) == IF i <= Len(s) THEN s[i] ELSE 0

Strcmp(key, sub) ==
    LET At(i) == Byte(key, i) - Byte(sub, i)
    IN  At(CHOOSE i \in 1 .. Len(sub) + 1 :
               (i <= Len(sub) => Byte(key, i) # sub[i]) /\ \A j \in 1 .. i - 1 : Byte(key, j) = sub[j])

(* keycomp: keys that start with digits are compared by length first.      *)
Keycomp(key, sub) ==
    IF IsDigit(key) /\ IsDigit(sub) /\ Len(key) # Len(sub) THEN Len(key) - Len(sub) ELSE Strcmp(key, sub)

(* The binary search of node_search and of node_insert, over the n nodes   *)
(* that follow the first `no`.                                             *)
RECURSIVE BisectFrom(_, _, _, _)
BisectFrom(subs, k, no, n) ==
    LET half == n \div 2
        even == 1 - (n % 2)
        Side(res) == CASE res = 0 -> [at |-> no + half + 1, hit |-> TRUE]
                       [] res > 0 -> BisectFrom(subs, k, no, half)
                       [] res < 0 -> BisectFrom(subs, k, no + half + 1, half - even)
    IN  IF n <= 0 THEN [at |-> no + 1, hit |-> FALSE] ELSE Side(Keycomp(subs[no + half + 1].key, k))

Bisect(subs, k) == BisectFrom(subs, k, 0, Len(subs))

(* The place of a key among the children, 0 when there is none.            *)
NodeSearch(node, k) ==
    LET Place(found) == IF found.hit THEN found.at ELSE 0
    IN  IF node.type = "list" THEN Place(Bisect(node.subs, k)) ELSE 0

NodeInsert(node, n) ==
    [node EXCEPT !.type = "list", !.subs = InsertAt(@, Bisect(@, n.key).at, n), !.star = @ \/ n.key = Star]

IsList(node) == node.type \in {"none", "list"}

GetNode(node, k) == IF NodeSearch(node, k) = 0 THEN NodeInsert(node, Fresh(k)) ELSE node

AddDataXOnce(node, v, dup) ==
    IF node.type = "none" THEN [node |-> [node EXCEPT !.type = "val", !.value = v], ret |-> 0, harm |-> FALSE]
    ELSE [node |-> node, ret |-> IF node.type = "list" THEN -1 ELSE 1, harm |-> FALSE]

(* What bconf_add_dataX does to one node: its result, and whether it       *)
(* writes to or frees memory of a caller.                                  *)
AddDataX(node, v, dup) ==
    LET kept == [node |-> node, ret |-> -1, harm |-> FALSE]
        set(type) == [node EXCEPT !.type = type, !.value = v]
    IN  CASE node.type = "list" -> kept
          [] node.type = "none" -> [kept EXCEPT !.ret = 0, !.node = set(IF dup = "REF" THEN "bin" ELSE "val")]
          [] OTHER ->
               [node |-> set(CASE dup = "REF" -> "bin" [] dup = "OWN" -> "val" [] OTHER -> node.type),
                ret |-> IF dup # "REF" /\ node.type = "val" /\ node.value = v THEN 1 ELSE 0,
                harm |-> dup = "DUP" /\ node.type = "bin"]

(* What was done to a child is done to its parent.                         *)
Below(parent, i, sub) == [sub EXCEPT !.node = [parent EXCEPT !.subs[i] = sub.node]]

(* bconf_lookup_add and bconf_add_dataX: the nodes of the path are made as *)
(* needed; -1 when one of them is a value.  "LIST" only makes the nodes.   *)
RECURSIVE Add(_, _, _, _)
Add(node, path, v, dup) ==
    LET Down(grown, i) == Below(grown, i, Add(grown.subs[i], Tail(path), v, dup))
        Grown(grown) == Down(grown, NodeSearch(grown, path[1]))
    IN  IF path = <<>>
        THEN IF dup = "LIST" THEN [node |-> node, ret |-> 1, harm |-> FALSE] ELSE AddDataX(node, v, dup)
        ELSE IF ~IsList(node) THEN [node |-> node, ret |-> -1, harm |-> FALSE]
        ELSE Grown(GetNode(node, path[1]))

ValidatedLeaf(node) == node.type \in {"none", "val"}

RECURSIVE ValidateKeyConflict(_, _)
ValidateKeyConflict(node, path) ==
    LET Down(i) == i # 0 /\ ValidateKeyConflict(node.subs[i], Tail(path))
    IN  IF path = <<>> THEN ~ValidatedLeaf(node) ELSE ~IsList(node) \/ Down(NodeSearch(node, path[1]))

(* bconf_get and its variants: a child that is missing is replaced by "*". *)
RECURSIVE Get(_, _)
Get(node, path) ==
    LET Sub(i) == IF i # 0 THEN node.subs[i] ELSE IF node.star THEN node.subs[NodeSearch(node, Star)] ELSE NULL
    IN  IF node = NULL \/ path = <<>> THEN node ELSE Get(Sub(NodeSearch(node, path[1])), Tail(path))

MergeList(dst, sn) == IF IsList(dst) THEN GetNode(dst, sn.key) ELSE dst

(* bconf_merge, child by child; `dead` when an addition ends the process.  *)
Unmerged(node) == [node |-> node, changed |-> FALSE, dead |-> FALSE, harm |-> FALSE]

AddMerged(a) == [node |-> a.node, changed |-> a.ret = 0, dead |-> a.ret = -1, harm |-> a.harm]

RECURSIVE Merge(_, _)
Merge(dst, src) ==
    LET Then(acc, m) == [m EXCEPT !.changed = @ \/ acc.changed, !.harm = @ \/ acc.harm]
        Down(grown, i, sn) == Below(grown, i, Merge(grown.subs[i], sn))
        Grown(grown, sn) == Down(grown, NodeSearch(grown, sn.key), sn)
        One(acc, sn) ==
            CASE acc.dead \/ sn.type = "none" -> acc
              [] ~acc.dead /\ sn.type = "list" ->
                   IF IsList(acc.node) THEN Then(acc, Grown(MergeList(acc.node, sn), sn)) ELSE acc
              [] OTHER -> Then(acc, AddMerged(Add(acc.node, <<sn.key>>, sn.value, IF sn.type = "bin" THEN "REF" ELSE "DUP")))
    IN  FoldLeft(One, Unmerged(dst), src.subs)


DropSub(node, i) ==
    [node EXCEPT !.subs = RemoveAt(@, i), !.star = @ /\ node.subs[i].key # Star]

(* bconf_deletev: the nodes above the key are made when they are missing.  *)
RECURSIVE Delete(_, _)
Delete(node, path) ==
    LET gone == {i \in 1 .. Len(node.subs) : node.subs[i].key = path[1]}
        Down(grown, i) == Below(grown, i, Delete(grown.subs[i], Tail(path)))
        Grown(grown) == Down(grown, NodeSearch(grown, path[1]))
    IN  IF Len(path) = 1
        THEN IF gone = {} THEN [node |-> node, ret |-> FALSE]
             ELSE [node |-> DropSub(node, CHOOSE j \in gone : TRUE), ret |-> TRUE]
        ELSE IF ~IsList(node) THEN [node |-> node, ret |-> FALSE]
        ELSE Grown(GetNode(node, path[1]))

Dropped(acc, k) == [node |-> DropSub(acc.node, NodeSearch(acc.node, k)), ret |-> acc.ret + 1]

FilterToKeys(root, filter) ==
    LET One(acc, n) == IF Get(filter, <<n.key>>) # NULL THEN acc ELSE Dropped(acc, n.key)
    IN  IF root.type # "list" THEN [node |-> root, ret |-> 0]
        ELSE FoldLeft(One, [node |-> root, ret |-> 0], root.subs)
----------------------------------------------------------------------------
(* config_merge_bconf: the settings of a host and an application out of a  *)
(* file's tree, the more general ones first.                               *)
Trail(node, path) ==
    FoldLeft(LAMBDA done, k : Append(done, IF NodeSearch(Get(node, done), k) # 0 THEN k ELSE Star), <<>>, path)

Asked(host, appl) == <<<<Star, Star>>, <<Star, appl>>, <<host, Star>>, <<host, appl>>>>

MergeOrder(conf, host, appl) ==
    LET asked == Asked(host, appl)
        Again(i) == \E j \in 1 .. i - 1 : Trail(conf, asked[i]) = Trail(conf, asked[j])
        Use(n, again) == IF n = NULL \/ again THEN Fresh(<<>>) ELSE n
    IN  [i \in 1 .. 4 |-> Use(Get(conf, asked[i]), Again(i))]

ConfigMerge(root, conf, host, appl) ==
    FoldLeft(LAMBDA acc, n : IF acc.dead THEN acc ELSE Merge(acc.node, n), Unmerged(root), MergeOrder(conf, host, appl))
----------------------------------------------------------------------------
(* A tree that a file was read into (config_init_file).                    *)
Loaded(paths) ==
    FoldLeft(LAMBDA node, p : Add(node, p, CHOOSE v \in BcValues : TRUE, "DUP").node, Fresh(<<>>), SetToSeq(paths))

BcStart(use, dst) ==
    /\ bcUse = use
    /\ bcDst = dst
    /\ bcSrc = Fresh(<<>>)
    /\ bcLast = [op |-> "none", ret |-> FALSE, dead |-> FALSE, harm |-> FALSE]
    /\ bcOps = 0

BcInit == \E use \in BcUses : \E S \in SUBSET use.paths : BcStart(use, Loaded(S))

(* Nobody uses the trees.                                                  *)
BcIdle == BcStart([paths |-> {}, ops |-> 0], Fresh(<<>>))

Did(op, ret, dead, harm) ==
    /\ bcOps' = bcOps + 1
    /\ bcLast' = [op |-> op, ret |-> ret, dead |-> dead, harm |-> harm]
    /\ UNCHANGED bcUse

(* bconf_add_data and bconf_add_datav, which end the process on a conflict, *)
(* and bconf_add_listnode.                                                 *)
AddTo(tree, other) == \E p \in bcUse.paths, v \in BcValues, dup \in {"DUP", "REF", "LIST"} :
    /\ dup # "DUP" => v = CHOOSE w \in BcValues : TRUE
    /\ \E r \in {Add(tree, p, v, dup)} : Did("add", r.ret = 0, r.ret = -1, r.harm) /\ tree' = r.node
    /\ UNCHANGED other

AddDst == AddTo(bcDst, bcSrc)

AddSrc == AddTo(bcSrc, bcDst)

MergeTrees ==
    /\ \E r \in {Merge(bcDst, bcSrc)} : Did("merge", r.changed, r.dead, r.harm) /\ bcDst' = r.node
    /\ UNCHANGED bcSrc

(* What fd_pool_sd.c does with the new configuration of a host.            *)
SyncTrees ==
    /\ \E r \in {Merge(bcDst, bcSrc)} : \E f \in {FilterToKeys(r.node, bcSrc)} :
          Did("sync", r.changed \/ f.ret > 0, r.dead, r.harm) /\ bcDst' = f.node
    /\ UNCHANGED bcSrc

DeleteKey ==
    /\ \E p \in bcUse.paths : \E r \in {Delete(bcDst, p)} : Did("delete", r.ret, FALSE, FALSE) /\ bcDst' = r.node
    /\ UNCHANGED bcSrc

FreeTree ==
    /\ Did("free", TRUE, FALSE, FALSE)
    /\ bcDst' = Fresh(<<>>)
    /\ UNCHANGED bcSrc

(* Bound: bcUse.ops.                                                       *)
BcNext == bcOps < bcUse.ops /\ ~bcLast.dead /\ (AddDst \/ AddSrc \/ MergeTrees \/ SyncTrees \/ DeleteKey \/ FreeTree)
----------------------------------------------------------------------------
RECURSIVE Nodes(_)
Nodes(node) == {node} \cup UNION {Nodes(node.subs[i]) : i \in 1 .. Len(node.subs)}

(* The settings of a tree: its values by path.                             *)
RECURSIVE Settings(_)
Settings(node) ==
    UNION {LET sub == node.subs[i]
           IN  CASE sub.type = "none" -> {}
                 [] sub.type = "list" -> {[e EXCEPT !.path = <<sub.key>> \o @] : e \in Settings(sub)}
                 [] OTHER -> {[path |-> <<sub.key>>, value |-> sub.value]} : i \in 1 .. Len(node.subs)}

Named(settings) == {e.path : e \in settings}

Over(new, old) == new \cup {e \in old : e.path \notin Named(new)}

Child(node, k) == LET i == NodeSearch(node, k) IN IF i = 0 THEN Fresh(k) ELSE node.subs[i]

(* A list in one tree where the other has a value.                         *)
RECURSIVE Clash(_, _)
Clash(dst, src) == \E i \in 1 .. Len(src.subs) :
    LET sn == src.subs[i]
        dn == Child(dst, sn.key)
    IN  \/ sn.type = "list" /\ ~IsList(dn)
        \/ sn.type \in {"val", "bin"} /\ dn.type = "list"
        \/ Clash(dn, sn)

HasBin(tree) == \E n \in Nodes(tree) : n.type = "bin"

(* Whatever was added, merged, deleted and filtered out, the binary search *)
(* of node_search finds exactly the children that a list has, in the order *)
(* that keycomp gives, and the node remembered as "*" is one of them.      *)
ChildrenFound == \A n \in Nodes(bcDst) \cup Nodes(bcSrc) :
    LET keys == {n.subs[i].key : i \in 1 .. Len(n.subs)}
    IN  /\ \A i, j \in 1 .. Len(n.subs) : i < j => Keycomp(n.subs[i].key, n.subs[j].key) < 0
        /\ \A k \in keys \cup UNION {{p[i] : i \in 1 .. Len(p)} : p \in bcUse.paths} : (Bisect(n.subs, k).hit) <=> k \in keys
        /\ n.star <=> Star \in keys
        /\ n.type = "list" \/ n.subs = <<>>

(* A key that bconf_validate_key_conflict accepts can be added: the        *)
(* addition does not end the process, touches no memory of a caller, sets  *)
(* the value and leaves every other setting alone.                         *)
ValidatedAdd == \A p \in bcUse.paths, v \in BcValues :
    ~ValidateKeyConflict(bcDst, p) =>
        LET r == Add(bcDst, p, v, "DUP")
        IN  /\ r.ret # -1 /\ ~r.harm
            /\ Settings(r.node) = Over({[path |-> p, value |-> v]}, Settings(bcDst))

(* bconf_merge has the effect of adding every setting of the source: the   *)
(* new ones are added, the old ones updated and nothing is removed.  It    *)
(* says so when a setting has changed.  Only a list in the place of a      *)
(* value, or the reverse, ends the process or is left out, and only        *)
(* referenced data, in either tree, is reported as changed when it is not  *)
(* (bconf_add_dataX compares nothing unless both are its own copies).      *)
MergeAdds ==
    bcOps' # bcOps /\ bcLast'.op = "merge" /\ ~Clash(bcDst, bcSrc) =>
        /\ ~bcLast'.dead
        /\ Settings(bcDst') = Over(Settings(bcSrc), Settings(bcDst))
        /\ Settings(bcDst') # Settings(bcDst) => bcLast'.ret
        /\ bcLast'.ret /\ ~HasBin(bcSrc) /\ ~HasBin(bcDst) => Settings(bcDst') # Settings(bcDst)

(* A host's configuration that is merged and then filtered to the keys of  *)
(* the new one is never changed without that being reported; when the new  *)
(* one is a plain list of values, it is the new one.                       *)
SyncReported ==
    bcOps' # bcOps /\ bcLast'.op = "sync" /\ ~Clash(bcDst, bcSrc) =>
        /\ Settings(bcDst') # Settings(bcDst) => bcLast'.ret
        /\ ~bcSrc.star /\ (\A i \in 1 .. Len(bcSrc.subs) : bcSrc.subs[i].type \in {"val", "bin"}) =>
               Settings(bcDst') = Settings(bcSrc)

(* config_merge_bconf gives a setting the value of the most specific entry *)
(* that names it: the host's for the application, then the host's for all, *)
(* then that of any host for the application, then that for all.           *)
ConfigPrecedence == \A p \in {q \in bcUse.paths : Len(q) = 3 /\ Star \notin {q[1], q[2]}} :
    LET r == ConfigMerge(Fresh(<<>>), bcDst, p[1], p[2])
        order == <<<<p[1], p[2]>>, <<p[1], Star>>, <<Star, p[2]>>, <<Star, Star>>>>
        In(i) == {e \in Settings(bcDst) : e.path = order[i] \o <<p[3]>>}
        best == {i \in 1 .. 4 : In(i) # {} /\ \A j \in 1 .. i - 1 : In(j) = {}}
    IN  ~r.dead => {e.value : e \in {e \in Settings(r.node) : e.path = <<p[3]>>}} =
                       {e.value : e \in UNION {In(i) : i \in best}}

(* Merging adds what the source has, and every change is reported.         *)
MergesReported == [][MergeAdds /\ SyncReported]_bcvars
============================================================================
