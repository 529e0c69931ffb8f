------------------------------ MODULE JsonTree ------------------------------
(***************************************************************************)
(* JSON in and out of configuration trees (vtree/lib/json_vtree.c).  A     *)
(* document is null, true, false, a string, a map (a sequence of keys and  *)
(* documents) or an array; the text between its parts is left out.         *)
(***************************************************************************)
EXTENDS VTree

Text(v) == [t |-> "str", v |-> v]

(* What the parser's callbacks do for a document with a key; -1 ends the   *)
(* process.  Null and false leave nothing, not even their place in an      *)
(* array.                                                                  *)
RECURSIVE JsonAdd(_, _, _)
JsonAdd(node, key, doc) ==
    LET One(acc, e) ==
            LET k == IF doc.t = "arr" THEN Digit(acc.count + 1) ELSE e.key
                consumed == e.doc.t \notin {"null", "false"}
            IN  [node |-> JsonAdd(acc.node, k, e.doc), count |-> acc.count + (IF consumed THEN 1 ELSE 0)]
        Filled(made) == [made EXCEPT !.subs[NodeSearch(made, key)] = FoldLeft(One, [node |-> @, count |-> 0], doc.list).node]
    IN  CASE doc.t \in {"null", "false"} -> node
          [] doc.t = "true" -> Add(node, <<key>>, "true", "REF").node
          [] doc.t = "str" -> Add(node, <<key>>, doc.v, "OWN").node
          [] OTHER -> Filled(Add(node, <<key>>, NoValue, "LIST").node)

(* json_bconf with the name of a root, and what is below that root.        *)
JsonBconf(doc) == JsonAdd(Fresh(<<>>), <<114>>, doc).subs[1]

AllDigits(key) == \A i \in 1 .. Len(key) : key[i] \in 48 .. 57

(* vtree_json: with use_arrays, an array when all the keys are numbers.    *)
RECURSIVE VtreeJson(_, _)
VtreeJson(c, arrays) ==
    LET Numeric(kvs) == IF arrays /\ KvType(c) = "unknown" THEN \A i \in 1 .. Len(kvs) : AllDigits(kvs[i].key)
                        ELSE KvType(c) = "list"
        Doc(v) == CASE v.kind = "value" -> Text(v.data)
                    [] v = NoChain -> [t |-> "null"]
                    [] OTHER -> VtreeJson(v, arrays)
        Docs(kvs) == [i \in 1 .. Len(kvs) |-> [key |-> kvs[i].key, doc |-> Doc(kvs[i].v)]]
        Written(kvs, numeric) ==
            [t |-> IF numeric THEN "arr" ELSE "map", list |-> Docs(SelectSeq(kvs, LAMBDA e : numeric \/ e.key[1] # 95))]
        All(kvs) == Written(kvs, Numeric(kvs))
    IN  All(Ask("kvs", c, UNKNOWN, <<Loop>>, NoValue).res)

(* bconf_json: a map, whatever the keys.                                   *)
RECURSIVE BconfJson(_)
BconfJson(n) ==
    [t |-> "map",
     list |-> [i \in 1 .. Len(n.subs) |->
                 [key |-> n.subs[i].key, doc |-> IF n.subs[i].type = "val" THEN Text(n.subs[i].value) ELSE BconfJson(n.subs[i])]]]
----------------------------------------------------------------------------
RECURSIVE Number(_)
Number(key) == IF key = <<>> THEN 0 ELSE 10 * Number(Front(key)) + Last(key) - 48

(* The settings of a tree when the lists with only numbers as keys have    *)
(* been numbered from 0, in the order of the numbers.                      *)
RECURSIVE Renumbered(_)
Renumbered(node) ==
    LET n == Len(node.subs)
        Rank(i) == Cardinality({j \in 1 .. n : Number(node.subs[j].key) < Number(node.subs[i].key)})
        Key(i) == IF \A j \in 1 .. n : AllDigits(node.subs[j].key) THEN Digit(Rank(i) + 1) ELSE node.subs[i].key
    IN  UNION {LET sub == node.subs[i]
               IN  CASE sub.type = "none" -> {}
                     [] sub.type = "list" -> {[e EXCEPT !.path = <<Key(i)>> \o @] : e \in Renumbered(sub)}
                     [] OTHER -> {[path |-> <<Key(i)>>, value |-> sub.value]} : i \in 1 .. n}

(* The settings without a key that begins with '_' on their path.          *)
Shown(settings) == {e \in settings : \A i \in 1 .. Len(e.path) : e.path[i][1] # 95}

(* A tree that bconf_json writes and json_bconf reads again has the same   *)
(* settings.  vtree_json leaves out what is below a key that begins with   *)
(* '_' and nothing else; with arrays, lists of numbers are numbered again  *)
(* in the order of the numbers, which is not that of their text.           *)
(* (bconf_json writes no value for referenced data and for a node that is  *)
(* nothing yet.)                                                           *)
JsonReadBack == bcUse.paths # {} =>
    /\ \A arrays \in BOOLEAN :
          Settings(JsonBconf(VtreeJson(NodeChain(bcDst), arrays))) =
              Shown(IF arrays THEN Renumbered(bcDst) ELSE Settings(bcDst))
    /\ (\A n \in Nodes(bcDst) \ {bcDst} : n.type \in {"val", "list"}) =>
           Settings(JsonBconf(BconfJson(bcDst))) = Settings(bcDst)

============================================================================
