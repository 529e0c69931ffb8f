--------------------------- MODULE SdProofs ----------------------------------
(***************************************************************************)
(* What the queue of service discovery values and the thread behind it     *)
(* keep, for any hosts, configurations and number of transactions:         *)
(*                                                                         *)
(*  - the list has one value for a key, and a sleeping thread is woken;    *)
(*  - replacing values that were not taken yet changes nothing, and the    *)
(*    queue implements SdFeed (as long as every configuration parses);     *)
(*  - the pool has the hosts that the values applied so far ask for.       *)
(*                                                                         *)
(* The second one is about lists of any length.  ApplyAll is a recursive   *)
(* function, and what it computes is shown from a least counterexample:    *)
(* LeastNat, then Way, the configurations between the values of a list.    *)
(***************************************************************************)
EXTENDS FdPoolSd, SdRegistry, FiniteSetTheorems, WellFoundedInduction, TLAPS

\* Zenon finds most of the leaves by itself.
USE ZenonT(20), SMTT(10)

\* A set of numbers that has a member has a least one: what is false of some
\* number is false of one and true of those below it.
LEMMA LeastNat ==
  ASSUME NEW T \in SUBSET Nat, T # {}
  PROVE  \E n \in T : \A m \in Nat : m < n => m \notin T
<1>1. PICK n \in T : \A m \in T : ~(<<m, n>> \in OpToRel(<, Nat))
  BY NatLessThanWellFounded, WFMin
<1>2. ASSUME NEW m \in Nat, m < n
      PROVE  m \notin T
  BY <1>1, <1>2 DEF OpToRel
<1> QED
  BY <1>2

\* Taking out one value moves those behind it by one place.
LEMMA RemovedAt ==
  ASSUME NEW S, NEW s \in Seq(S), NEW k \in 1..Len(s)
  PROVE  /\ TakeOut(s, k) \in Seq(S)
         /\ Len(TakeOut(s, k)) = Len(s) - 1
         /\ \A i \in 1..(Len(s) - 1) :
              TakeOut(s, k)[i] = IF i < k THEN s[i] ELSE s[i + 1]
<1> DEFINE a == SubSeq(s, 1, k - 1)
           b == SubSeq(s, k + 1, Len(s))
<1>1. a \in Seq(S) /\ Len(a) = k - 1 /\ \A i \in 1..(k - 1) : a[i] = s[i]
  OBVIOUS
<1>2. b \in Seq(S) /\ Len(b) = Len(s) - k /\ \A i \in 1..(Len(s) - k) : b[i] = s[k + i]
  OBVIOUS
<1>3. TakeOut(s, k) = a \o b
  BY DEF TakeOut
<1> HIDE DEF a, b
<1>4. /\ a \o b \in Seq(S)
      /\ Len(a \o b) = Len(a) + Len(b)
  <2>0. a \in Seq(S) /\ b \in Seq(S)
    BY <1>1, <1>2
  <2>1. a \o b \in Seq(S)
    BY <2>0
  <2>2. Len(a \o b) = Len(a) + Len(b)
    BY <2>0
  <2> QED
    BY <2>1, <2>2
<1>5. \A i \in 1..(Len(a) + Len(b)) :
        (a \o b)[i] = IF i <= Len(a) THEN a[i] ELSE b[i - Len(a)]
  BY SMTT(10), <1>1, <1>2
<1>6. ASSUME NEW i \in 1..(Len(s) - 1)
      PROVE  (a \o b)[i] = IF i < k THEN s[i] ELSE s[i + 1]
  <2>1. CASE i < k
    BY SMTT(10), <1>1, <1>2, <1>5, <2>1
  <2>2. CASE ~(i < k)
    <3>1. i - Len(a) \in 1..(Len(s) - k) /\ k + (i - Len(a)) = i + 1
      BY <1>1, <2>2
    <3>2. (a \o b)[i] = b[i - Len(a)]
      BY SMTT(10), <1>1, <1>2, <1>5, <2>2
    <3> QED
      BY <1>2, <2>2, <3>1, <3>2
  <2> QED
    BY <2>1, <2>2
<1> QED
  BY SMTT(10), <1>1, <1>2, <1>3, <1>4, <1>6

\* sd_queue_insert removes the first value with the same key only; in a list
\* without duplicates there is no other.
LEMMA InsertKeepsUnique ==
  ASSUME NEW S, NEW s \in Seq(S), NEW x \in S,
         \A i, j \in DOMAIN s : SameKey(s[i], s[j]) => i = j
  PROVE  /\ InsertInto(s, x) \in Seq(S)
         /\ InsertInto(s, x) # <<>>
         /\ \A i, j \in DOMAIN InsertInto(s, x) :
              SameKey(InsertInto(s, x)[i], InsertInto(s, x)[j]) => i = j
<1> DEFINE same == {i \in DOMAIN s : SameKey(s[i], x)}
           k == CHOOSE i \in same : \A j \in same : i <= j
<1>1. CASE same = {}
  <2>1. InsertInto(s, x) = Append(s, x)
    BY <1>1 DEF InsertInto
  <2>2. \A i \in 1..Len(s) : ~SameKey(s[i], x) /\ ~SameKey(x, s[i])
    BY <1>1 DEF SameKey
  <2> QED
    BY <2>1, <2>2
<1>2. CASE same # {}
  <2>1. PICK m \in same : TRUE
    BY <1>2
  <2>2. \A i \in same : i = m
    BY <2>1 DEF SameKey
  <2>3. k = m /\ m \in 1..Len(s)
    BY SMTT(10), <2>1, <2>2
  <2> DEFINE r == TakeOut(s, m)
  <2>4. InsertInto(s, x) = Append(r, x)
    BY <1>2, <2>3 DEF InsertInto
  <2>5. /\ r \in Seq(S) /\ Len(r) = Len(s) - 1
        /\ \A i \in 1..(Len(s) - 1) : r[i] = IF i < m THEN s[i] ELSE s[i + 1]
    BY <2>3, RemovedAt
  <2> HIDE DEF r
  <2>6. \A i \in 1..Len(s) : SameKey(s[i], x) \/ SameKey(x, s[i]) => i = m
    BY SMTT(10), <2>2 DEF SameKey
  <2> DEFINE At(i) == IF i < m THEN i ELSE i + 1
  <2>7. \A i \in 1..Len(r) : r[i] = s[At(i)] /\ At(i) \in DOMAIN s /\ At(i) # m
    BY SMTT(10), <2>3, <2>5
  <2>8. \A i, j \in 1..Len(r) : At(i) = At(j) => i = j
    BY SMTT(10), <2>3, <2>5
  <2> HIDE DEF At
  <2>9. \A i \in 1..Len(r) : ~SameKey(r[i], x) /\ ~SameKey(x, r[i])
    BY SMTT(10), <2>6, <2>7
  <2>10. \A i, j \in 1..Len(r) : SameKey(r[i], r[j]) => i = j
    BY <2>7, <2>8
  <2> QED
    BY SMTT(10), <2>4, <2>5, <2>9, <2>10
<1> QED
  BY <1>1, <1>2

\* The configurations on the way through a list.
Way(a, f, vs) == a[0] = f /\ \A n \in 1..Len(vs) : a[n] = Apply(vs[n], a[n - 1])

\* There is no other way.
LEMMA OneWay ==
  ASSUME NEW S, NEW vs \in Seq(S), NEW f, NEW a, NEW b, Way(a, f, vs), Way(b, f, vs)
  PROVE  a[Len(vs)] = b[Len(vs)]
<1> DEFINE T == {n \in 0..Len(vs) : a[n] # b[n]}
<1>1. SUFFICES T = {}
  OBVIOUS
<1>2. ASSUME T # {} PROVE FALSE
  <2>0. T \in SUBSET Nat
    BY SMTT(10)
  <2>1. PICK n \in T : \A m \in Nat : m < n => m \notin T
    <3> HIDE DEF T
    <3> QED BY <1>2, <2>0, LeastNat
  <2>2. n # 0
    BY DEF Way
  <2>3. n - 1 \in 0..Len(vs) /\ n \in 1..Len(vs) /\ n - 1 \in Nat /\ n - 1 < n
    BY <2>2
  <2>4. a[n - 1] = b[n - 1]
    BY <2>1, <2>3
  <2> QED
    BY <2>3, <2>4 DEF Way
<1> QED
  BY <1>2

\* There is one, and it ends where ApplyAll does.
LEMMA WayThere ==
  ASSUME NEW S, NEW vs \in Seq(S), NEW f
  PROVE  \E a : Way(a, f, vs) /\ ApplyAll(f, vs) = a[Len(vs)]
<1> DEFINE Is(a, n) == a = [i \in 0..n |-> IF i = 0 THEN f ELSE Apply(vs[i], a[i - 1])]
           T == {n \in 0..Len(vs) : ~\E a : Is(a, n)}
<1>1. ASSUME T # {} PROVE FALSE
  <2>0. T \in SUBSET Nat
    BY SMTT(10)
  <2>1. PICK n \in T : \A m \in Nat : m < n => m \notin T
    <3> HIDE DEF T
    <3> QED BY <1>1, <2>0, LeastNat
  <2>2. CASE n = 0
    <3>1. Is([i \in 0..0 |-> f], 0)
      OBVIOUS
    <3> QED
      BY <2>2, <3>1
  <2>3. CASE n # 0
    <3>1. n - 1 \in 0..Len(vs) /\ n - 1 \in Nat /\ n - 1 < n
      BY <2>3
    <3>2. PICK a : Is(a, n - 1)
      BY <2>1, <3>1
    <3> DEFINE b == [i \in 0..n |-> IF i = n THEN Apply(vs[n], a[n - 1]) ELSE a[i]]
    <3>3. \A i \in 0..n : b[i] = IF i = 0 THEN f ELSE Apply(vs[i], b[i - 1])
      <4>1. ASSUME NEW i \in 0..n, i # 0
            PROVE  b[i - 1] = a[i - 1]
        BY <4>1
      <4>2. b[0] = f
        BY SMTT(10), <2>3, <3>2
      <4>3. ASSUME NEW i \in 1..(n - 1)
            PROVE  b[i] = Apply(vs[i], b[i - 1])
        <5>1. b[i] = a[i]
          OBVIOUS
        <5>2. a[i] = Apply(vs[i], a[i - 1])
          BY SMTT(10), <3>2
        <5>3. b[i - 1] = a[i - 1]
          BY <4>1
        <5> QED
          BY <5>1, <5>2, <5>3
      <4>4. b[n] = Apply(vs[n], b[n - 1])
        BY <4>1, <2>3
      <4> HIDE DEF b
      <4> TAKE i \in 0..n
      <4>5. i = 0 \/ i \in 1..(n - 1) \/ i = n
        OBVIOUS
      <4> QED
        BY <4>2, <4>3, <4>4, <4>5, <2>3
    <3>4. Is(b, n)
      BY <3>3
    <3> QED
      BY <3>4
  <2> QED
    BY <2>2, <2>3
<1>2. \E a : Is(a, Len(vs))
  BY SMTT(10), <1>1
<1>3. PICK a : a = (CHOOSE g : Is(g, Len(vs)))
  OBVIOUS
<1>4. Is(a, Len(vs))
  BY <1>2, <1>3
<1>5. ApplyAll(f, vs) = a[Len(vs)]
  BY <1>3 DEF ApplyAll
<1>6. Way(a, f, vs)
  BY SMTT(10), <1>4 DEF Way
<1> QED
  BY <1>5, <1>6

\* An empty list changes nothing.
LEMMA ApplyNone ==
  ASSUME NEW f
  PROVE  ApplyAll(f, <<>>) = f
<1>1. <<>> \in Seq({}) /\ Len(<<>>) = 0
  OBVIOUS
<1>2. PICK a : Way(a, f, <<>>) /\ ApplyAll(f, <<>>) = a[Len(<<>>)]
  BY <1>1, WayThere
<1> QED
  BY <1>1, <1>2 DEF Way

\* The last value of a list is applied last.
LEMMA ApplyLast ==
  ASSUME NEW S, NEW vs \in Seq(S), NEW x \in S, NEW f
  PROVE  ApplyAll(f, Append(vs, x)) = Apply(x, ApplyAll(f, vs))
<1>1. /\ Append(vs, x) \in Seq(S) /\ Len(Append(vs, x)) = Len(vs) + 1 /\ Len(vs) \in Nat
      /\ Append(vs, x)[Len(vs) + 1] = x
      /\ \A n \in 1..Len(vs) : Append(vs, x)[n] = vs[n]
  OBVIOUS
<1>2. PICK a : Way(a, f, Append(vs, x)) /\ ApplyAll(f, Append(vs, x)) = a[Len(vs) + 1]
  BY <1>1, WayThere
<1>3. PICK b : Way(b, f, vs) /\ ApplyAll(f, vs) = b[Len(vs)]
  BY WayThere
<1>4. Way(a, f, vs)
  BY SMTT(10), <1>1, <1>2 DEF Way
<1>5. a[Len(vs)] = ApplyAll(f, vs)
  BY <1>3, <1>4, OneWay
<1>6. a[Len(vs) + 1] = Apply(x, a[Len(vs)])
  BY SMTT(10), <1>1, <1>2 DEF Way
<1> QED
  BY <1>2, <1>5, <1>6

\* A value on its way or in the list, and one that parses.
Valid(v) ==
  \/ v.cmd = "flush"
  \/ v.cmd = "delete" /\ v.host \in Hosts
  \/ v.cmd = "config" /\ v.host \in Hosts /\ v.val \in Cfgs \cup BadCfgs
  \/ v.cmd = "health" /\ v.host \in Hosts
Meant(v) == Valid(v) /\ (v.cmd = "config" => v.val \notin BadCfgs)

\* A configuration: some hosts, each with what is known of it.
IsConf(f) == DOMAIN f \subseteq Hosts /\ f \in [DOMAIN f -> Host]

\* Confs has these and no others.
LEMMA ConfsAre == \A f : f \in Confs <=> IsConf(f)
BY DEF Confs, IsConf

\* A value makes a configuration of a configuration.
LEMMA ApplyIsConf ==
  ASSUME NEW f, IsConf(f), IsConf(Static), NEW v, Valid(v)
  PROVE  IsConf(Apply(v, f))
<1> DEFINE h == v.host
<1>1. CASE v.cmd = "flush"
  BY <1>1 DEF Apply
<1>2. CASE v.cmd = "delete"
  <2>1. Apply(v, f) = Without(f, h)
    BY <1>2 DEF Apply
  <2> QED
    BY <2>1 DEF Without, IsConf
<1>3. Entry(f, h) \in Host
  BY DEF Entry, IsConf, NewHost, Host
<1>4. ASSUME NEW e \in Host, h \in Hosts
      PROVE  IsConf(Put(f, h, e))
  BY <1>4 DEF Put, IsConf
<1>5. CASE v.cmd = "config"
  <2> DEFINE e == IF v.val \in BadCfgs THEN Entry(f, h) ELSE [Entry(f, h) EXCEPT !.cfg = v.val]
  <2>1. h \in Hosts /\ v.val \in Cfgs \cup BadCfgs /\ Apply(v, f) = Put(f, h, e)
    BY <1>5 DEF Valid, Apply
  <2>2. e \in Host
    BY <1>3, <2>1 DEF Host
  <2> HIDE DEF e
  <2> QED
    BY <1>4, <2>1, <2>2
<1>6. CASE v.cmd = "health"
  <2>1. h \in Hosts /\ Apply(v, f) = Put(f, h, [Entry(f, h) EXCEPT !.up = (v.val = "up")])
    BY <1>6 DEF Valid, Apply
  <2>2. (v.val = "up") \in BOOLEAN
    OBVIOUS
  <2>3. [Entry(f, h) EXCEPT !.up = (v.val = "up")] \in Host
    BY <1>3, <2>2 DEF Host
  <2> QED
    BY <1>4, <2>1, <2>3
<1> QED
  BY <1>1, <1>2, <1>5, <1>6 DEF Valid

\* Two configurations that a value x makes the same: they differ in nothing
\* but what x overwrites.
Alike(x, f, g) ==
  x.cmd = "flush" \/
    /\ DOMAIN f \ {x.host} = DOMAIN g \ {x.host}
    /\ \A k \in DOMAIN f \ {x.host} : f[k] = g[k]
    /\ x.cmd = "config" => Entry(f, x.host).up = Entry(g, x.host).up
    /\ x.cmd = "health" => Entry(f, x.host).cfg = Entry(g, x.host).cfg

\* What a value v that parses changes, from f to g: the host of its key.
After(v, f, g) ==
  /\ DOMAIN g = IF v.cmd = "delete" THEN DOMAIN f \ {v.host} ELSE DOMAIN f \cup {v.host}
  /\ \A k \in DOMAIN f \ {v.host} : g[k] = f[k]
  /\ v.cmd = "delete" => Entry(g, v.host) = NewHost
  /\ v.cmd = "config" => Entry(g, v.host) = [cfg |-> v.val, up |-> Entry(f, v.host).up]
  /\ v.cmd = "health" => Entry(g, v.host) = [cfg |-> Entry(f, v.host).cfg, up |-> (v.val = "up")]

\* update_config does that and no more with it.
LEMMA EntryAfter ==
  ASSUME NEW f, IsConf(f), NEW v, Meant(v), v.cmd # "flush"
  PROVE  After(v, f, Apply(v, f))
<1> DEFINE h == v.host
<1>1. CASE v.cmd = "delete"
  <2>1. Apply(v, f) = Without(f, h)
    BY <1>1 DEF Apply
  <2> QED
    BY <1>1, <2>1 DEF After, Without, Entry
<1>2. Entry(f, h) \in Host
  BY DEF Entry, IsConf, NewHost, Host
<1>3. ASSUME NEW e
      PROVE  /\ DOMAIN Put(f, h, e) = DOMAIN f \cup {h}
             /\ \A k \in DOMAIN f \ {h} : Put(f, h, e)[k] = f[k]
             /\ Entry(Put(f, h, e), h) = e
  BY DEF Put, Entry
<1>4. CASE v.cmd = "config"
  <2>1. Apply(v, f) = Put(f, h, [Entry(f, h) EXCEPT !.cfg = v.val])
    BY <1>4 DEF Meant, Valid, Apply
  <2>2. [Entry(f, h) EXCEPT !.cfg = v.val] = [cfg |-> v.val, up |-> Entry(f, h).up]
    BY SMTT(10), <1>2 DEF Host
  <2> QED
    BY SMTT(10), <1>3, <1>4, <2>1, <2>2 DEF After
<1>5. CASE v.cmd = "health"
  <2>1. Apply(v, f) = Put(f, h, [Entry(f, h) EXCEPT !.up = (v.val = "up")])
    BY <1>5 DEF Meant, Valid, Apply
  <2>2. [Entry(f, h) EXCEPT !.up = (v.val = "up")] = [cfg |-> Entry(f, h).cfg, up |-> (v.val = "up")]
    BY SMTT(10), <1>2 DEF Host
  <2> QED
    BY SMTT(10), <1>3, <1>5, <2>1, <2>2 DEF After
<1> QED
  BY <1>1, <1>4, <1>5 DEF Meant, Valid

\* A value changes nothing that a later one with the same key does not overwrite.
LEMMA AlikeStart ==
  ASSUME NEW f, IsConf(f), NEW x, NEW v, Meant(v), SameKey(v, x)
  PROVE  Alike(x, Apply(v, f), f)
<1>1. CASE x.cmd = "flush"
  BY <1>1 DEF Alike
<1>2. CASE x.cmd # "flush"
  <2>1. v.cmd # "flush" /\ v.cmd = x.cmd /\ v.host = x.host
    BY <1>2 DEF SameKey
  <2> DEFINE F == Apply(v, f)
  <2>2. After(v, f, F)
    BY <2>1, EntryAfter
  <2> HIDE DEF F
  <2>3. /\ DOMAIN F \ {x.host} = DOMAIN f \ {x.host}
        /\ \A k \in DOMAIN F \ {x.host} : F[k] = f[k]
    BY <2>1, <2>2 DEF After
  <2>4. /\ x.cmd = "config" => Entry(F, x.host).up = Entry(f, x.host).up
        /\ x.cmd = "health" => Entry(F, x.host).cfg = Entry(f, x.host).cfg
    BY <2>1, <2>2 DEF After
  <2>5. Alike(x, F, f)
    BY <2>3, <2>4 DEF Alike
  <2> QED
    BY <2>5 DEF F
<1> QED
  BY <1>1, <1>2

\* Whatever comes in between does not tell them apart.
LEMMA AlikeStays ==
  ASSUME NEW f, NEW g, IsConf(f), IsConf(g), NEW x, NEW v, Meant(v), Alike(x, f, g)
  PROVE  Alike(x, Apply(v, f), Apply(v, g))
<1>1. CASE x.cmd = "flush"
  BY <1>1 DEF Alike
<1>2. CASE x.cmd # "flush" /\ v.cmd = "flush"
  <2>1. Apply(v, f) = Static /\ Apply(v, g) = Static
    BY <1>2 DEF Apply
  <2> QED
    BY <2>1 DEF Alike
<1>3. CASE x.cmd # "flush" /\ v.cmd # "flush"
  <2> DEFINE F == Apply(v, f)
             G == Apply(v, g)
  <2>1. /\ DOMAIN f \ {x.host} = DOMAIN g \ {x.host}
        /\ \A k \in DOMAIN f \ {x.host} : f[k] = g[k]
        /\ x.cmd = "config" => Entry(f, x.host).up = Entry(g, x.host).up
        /\ x.cmd = "health" => Entry(f, x.host).cfg = Entry(g, x.host).cfg
    BY <1>3 DEF Alike
  <2>2. After(v, f, F)
    BY <1>3, EntryAfter
  <2>3. After(v, g, G)
    BY <1>3, EntryAfter
  <2> HIDE DEF F, G
  <2>4. DOMAIN F \ {x.host} = DOMAIN G \ {x.host}
    BY <2>1, <2>2, <2>3 DEF After
  <2>5. v.host # x.host => Entry(f, v.host) = Entry(g, v.host)
    BY <2>1 DEF Entry
  <2>6. v.host # x.host => Entry(F, v.host) = Entry(G, v.host)
    BY <2>2, <2>3, <2>5, <1>3 DEF After, Meant, Valid
  <2>7. ASSUME NEW k \in DOMAIN F \ {x.host}
        PROVE  F[k] = G[k]
    <3>1. CASE k = v.host
      BY <2>4, <2>6, <3>1 DEF Entry
    <3>2. CASE k # v.host
      BY <2>1, <2>2, <2>3, <3>2 DEF After
    <3> QED
      BY <3>1, <3>2
  <2>8. ASSUME v.host # x.host
        PROVE  Entry(F, x.host) = Entry(f, x.host) /\ Entry(G, x.host) = Entry(g, x.host)
    BY <2>2, <2>3, <2>8 DEF After, Entry
  <2>9. ASSUME x.cmd = "config"
        PROVE  Entry(F, x.host).up = Entry(G, x.host).up
    BY SMTT(10), <1>3, <2>1, <2>2, <2>3, <2>8, <2>9 DEF After, Meant, Valid
  <2>10. ASSUME x.cmd = "health"
        PROVE  Entry(F, x.host).cfg = Entry(G, x.host).cfg
    BY SMTT(10), <1>3, <2>1, <2>2, <2>3, <2>8, <2>10 DEF After, Meant, Valid
  <2>11. Alike(x, F, G)
    BY <2>4, <2>7, <2>9, <2>10 DEF Alike
  <2> QED
    BY <2>11 DEF F, G
<1> QED
  BY <1>1, <1>2, <1>3

\* And then the later value makes them the same.
LEMMA AlikeEnds ==
  ASSUME NEW f, NEW g, IsConf(f), IsConf(g), IsConf(Static), NEW x, Meant(x), Alike(x, f, g)
  PROVE  Apply(x, f) = Apply(x, g)
<1>1. CASE x.cmd = "flush"
  BY <1>1 DEF Apply
<1>2. CASE x.cmd # "flush"
  <2> DEFINE F == Apply(x, f)
             G == Apply(x, g)
  <2>0. IsConf(F) /\ IsConf(G)
    BY ApplyIsConf DEF Meant
  <2>1. /\ DOMAIN f \ {x.host} = DOMAIN g \ {x.host}
        /\ \A k \in DOMAIN f \ {x.host} : f[k] = g[k]
        /\ x.cmd = "config" => Entry(f, x.host).up = Entry(g, x.host).up
        /\ x.cmd = "health" => Entry(f, x.host).cfg = Entry(g, x.host).cfg
    BY <1>2 DEF Alike
  <2>2. After(x, f, F)
    BY <1>2, EntryAfter
  <2>3. After(x, g, G)
    BY <1>2, EntryAfter
  <2> HIDE DEF F, G
  <2>4. DOMAIN F = DOMAIN G
    <3>1. CASE x.cmd = "delete"
      BY <2>1, <2>2, <2>3, <3>1 DEF After
    <3>2. CASE x.cmd # "delete"
      <4>1. DOMAIN F = DOMAIN f \cup {x.host} /\ DOMAIN G = DOMAIN g \cup {x.host}
        BY <2>2, <2>3, <3>2 DEF After
      <4> QED
        BY <2>1, <4>1
    <3> QED
      BY <3>1, <3>2
  <2>5. x.cmd # "delete" => Entry(F, x.host) = Entry(G, x.host)
    BY <1>2, <2>1, <2>2, <2>3 DEF After, Meant, Valid
  <2>6. ASSUME NEW k \in DOMAIN F
        PROVE  F[k] = G[k]
    <3>1. CASE k = x.host
      BY <2>2, <2>4, <2>5, <3>1 DEF After, Entry
    <3>2. CASE k # x.host
      BY <2>1, <2>2, <2>3, <3>2 DEF After
    <3> QED
      BY <3>1, <3>2
  <2>7. F = G
    BY <2>0, <2>4, <2>6 DEF IsConf
  <2> QED
    BY <2>7 DEF F, G
<1> QED
  BY <1>1, <1>2

\* What is on the way is always a configuration.
LEMMA WayConfs ==
  ASSUME NEW S, NEW vs \in Seq(S), NEW f, IsConf(f), IsConf(Static), NEW a, Way(a, f, vs),
         \A v \in S : Valid(v)
  PROVE  \A n \in 0..Len(vs) : IsConf(a[n])
<1> DEFINE T == {n \in 0..Len(vs) : ~IsConf(a[n])}
<1>1. ASSUME T # {} PROVE FALSE
  <2>0. T \in SUBSET Nat
    BY SMTT(10)
  <2>1. PICK n \in T : \A m \in Nat : m < n => m \notin T
    <3> HIDE DEF T
    <3> QED BY <1>1, <2>0, LeastNat
  <2>2. n # 0
    BY DEF Way
  <2>3. n - 1 \in 0..Len(vs) /\ n \in 1..Len(vs) /\ n - 1 \in Nat /\ n - 1 < n
    BY <2>2
  <2>4. IsConf(a[n - 1])
    BY <2>1, <2>3
  <2>5. Valid(vs[n]) /\ a[n] = Apply(vs[n], a[n - 1])
    BY SMTT(10), <2>3 DEF Way
  <2>6. IsConf(a[n])
    BY <2>4, <2>5, ApplyIsConf
  <2> QED
    BY <2>6
<1> QED
  BY <1>1

\* So is the one at the end.
LEMMA ApplyAllConf ==
  ASSUME NEW S, NEW vs \in Seq(S), NEW f, IsConf(f), IsConf(Static), \A v \in S : Valid(v)
  PROVE  IsConf(ApplyAll(f, vs))
<1>1. PICK a : Way(a, f, vs) /\ ApplyAll(f, vs) = a[Len(vs)]
  BY WayThere
<1>2. Len(vs) \in 0..Len(vs)
  OBVIOUS
<1> QED
  BY <1>1, <1>2, WayConfs

\* A value taken out of a list, before the one that replaces it, is not missed.
LEMMA TakenOut ==
  ASSUME NEW S, NEW vs \in Seq(S), NEW f, IsConf(f), IsConf(Static), \A v \in S : Meant(v),
         NEW m \in 1..Len(vs), NEW x \in S, SameKey(vs[m], x)
  PROVE  Apply(x, ApplyAll(f, TakeOut(vs, m))) = Apply(x, ApplyAll(f, vs))
<1> DEFINE r == TakeOut(vs, m)
<1>1. /\ r \in Seq(S) /\ Len(r) = Len(vs) - 1
      /\ \A i \in 1..(Len(vs) - 1) : r[i] = IF i < m THEN vs[i] ELSE vs[i + 1]
  BY RemovedAt
<1> HIDE DEF r
<1>2. PICK a : Way(a, f, vs) /\ ApplyAll(f, vs) = a[Len(vs)]
  BY WayThere
<1>3. PICK b : Way(b, f, r) /\ ApplyAll(f, r) = b[Len(r)]
  BY <1>1, WayThere
<1>0. \A v \in S : Valid(v)
  BY DEF Meant
<1>4. \A n \in 0..Len(vs) : IsConf(a[n])
  BY <1>0, <1>2, WayConfs
<1>5. \A n \in 0..Len(r) : IsConf(b[n])
  BY <1>0, <1>1, <1>3, WayConfs
<1> DEFINE OK(n) == /\ n < m => b[n] = a[n]
                    /\ n >= m - 1 => Alike(x, a[n + 1], b[n])
           T == {n \in 0..Len(r) : ~OK(n)}
<1>6. ASSUME T # {} PROVE FALSE
  <2>0. T \in SUBSET Nat
    BY SMTT(10)
  <2>1. PICK n \in T : \A k \in Nat : k < n => k \notin T
    <3> HIDE DEF T
    <3> QED BY <1>6, <2>0, LeastNat
  <2>2. n \in 0..Len(r) /\ n + 1 \in 1..Len(vs) /\ n + 1 \in 0..Len(vs) /\ n \in 0..Len(vs)
    BY <1>1
  <2>3. n # 0 => /\ n - 1 \in 0..Len(r) /\ n - 1 \in Nat /\ n - 1 < n
                 /\ n \in 1..Len(r) /\ n \in 1..Len(vs)
    BY <1>1
  <2>4. n # 0 => OK(n - 1)
    BY <2>1, <2>3
  <2>5. n < m => b[n] = a[n]
    <3>1. CASE n = 0
      BY <1>2, <1>3, <3>1 DEF Way
    <3>2. CASE n # 0
      <4>1. ASSUME n < m PROVE b[n] = a[n]
        <5>1. r[n] = vs[n]
          BY <1>1, <2>3, <3>2, <4>1
        <5>2. b[n - 1] = a[n - 1]
          BY <2>3, <2>4, <3>2, <4>1
        <5> QED
          BY <1>2, <1>3, <2>3, <3>2, <5>1, <5>2 DEF Way
      <4> QED
        BY <4>1
    <3> QED
      BY <3>1, <3>2
  <2>6. ASSUME n >= m - 1
        PROVE  Alike(x, a[n + 1], b[n])
    <3>1. CASE n = m - 1
      <4>1. a[n + 1] = Apply(vs[m], a[n]) /\ b[n] = a[n] /\ Meant(vs[m]) /\ IsConf(a[n])
        BY SMTT(10), <1>2, <1>4, <2>2, <2>5, <3>1 DEF Way
      <4> QED
        BY <4>1, AlikeStart
    <3>2. CASE n # m - 1
      <4>1. n # 0 /\ n >= m /\ n - 1 >= m - 1 /\ (n - 1) + 1 = n
        BY <2>2, <2>6, <3>2
      <4>2. Alike(x, a[n], b[n - 1])
        BY <2>4, <4>1
      <4>3. r[n] = vs[n + 1] /\ Meant(vs[n + 1])
        BY <1>1, <2>2, <2>3, <4>1
      <4>4. b[n] = Apply(vs[n + 1], b[n - 1])
        BY <1>3, <2>3, <4>1, <4>3 DEF Way
      <4>5. a[n + 1] = Apply(vs[n + 1], a[n])
        <5>1. (n + 1) - 1 = n
          BY <2>2
        <5> QED
          BY <1>2, <2>2, <5>1 DEF Way
      <4>6. IsConf(a[n]) /\ IsConf(b[n - 1])
        BY <1>4, <1>5, <2>2, <2>3, <4>1
      <4> QED
        BY <4>2, <4>3, <4>4, <4>5, <4>6, AlikeStays
    <3> QED
      BY <3>1, <3>2
  <2> QED
    BY <2>1, <2>5, <2>6
<1>7. OK(Len(r)) /\ Len(r) + 1 = Len(vs)
  <2>1. Len(r) \in 0..Len(r) /\ Len(r) + 1 = Len(vs)
    BY <1>1
  <2> HIDE DEF OK
  <2> QED
    BY <1>6, <2>1
<1>8. Alike(x, a[Len(vs)], b[Len(r)])
  BY <1>1, <1>7
<1>9. IsConf(a[Len(vs)]) /\ IsConf(b[Len(r)]) /\ Meant(x)
  BY <1>1, <1>4, <1>5
<1>10. Apply(x, a[Len(vs)]) = Apply(x, b[Len(r)])
  BY <1>8, <1>9, AlikeEnds
<1> QED
  BY <1>2, <1>3, <1>10 DEF r

\* sd_queue_insert: appending a value, and taking out the one it replaces, comes
\* to the same as appending it.
LEMMA InsertApplied ==
  ASSUME NEW S, NEW vs \in Seq(S), NEW f, IsConf(f), IsConf(Static), \A v \in S : Meant(v),
         NEW x \in S
  PROVE  ApplyAll(f, InsertInto(vs, x)) = Apply(x, ApplyAll(f, vs))
<1> DEFINE same == {i \in DOMAIN vs : SameKey(vs[i], x)}
           k == CHOOSE i \in same : \A j \in same : i <= j
<1>1. CASE same = {}
  <2>1. InsertInto(vs, x) = Append(vs, x)
    BY <1>1 DEF InsertInto
  <2> QED
    BY <2>1, ApplyLast
<1>2. CASE same # {}
  <2>1. same \in SUBSET Nat
    BY SMTT(10)
  <2>2. \E n \in same : \A m \in Nat : m < n => m \notin same
    <3> HIDE DEF same
    <3> QED BY <1>2, <2>1, LeastNat
  <2>3. \E i \in same : \A j \in same : i <= j
    BY SMTT(10), <2>1, <2>2
  <2>4. k \in same
    BY <2>3
  <2>5. InsertInto(vs, x) = Append(TakeOut(vs, k), x)
    BY <1>2 DEF InsertInto
  <2>6. k \in 1..Len(vs) /\ SameKey(vs[k], x)
    BY <2>4
  <2> HIDE DEF k, same
  <2>7. TakeOut(vs, k) \in Seq(S)
    BY <2>6, RemovedAt
  <2>8. ApplyAll(f, InsertInto(vs, x)) = Apply(x, ApplyAll(f, TakeOut(vs, k)))
    BY <2>5, <2>7, ApplyLast
  <2> QED
    BY <2>6, <2>8, TakenOut
<1> QED
  BY <1>1, <1>2
-----------------------------------------------------------------------------
\* The values of the list, each with the index of its transaction.
Stamped == {[cmd |-> v.cmd, host |-> v.host, val |-> v.val, idx |-> i] : v \in Values, i \in Nat}

\* sd_queue_begin and sd_queue_commit enclose the insertions, and a
\* thread that sleeps meanwhile slept when the lock was taken, when nothing
\* was left to signal: the list was empty, and was_empty says so.
LockInv ==
  /\ list \in Seq(Stamped)
  /\ index \in Nat
  /\ spc \in {"idle", "insert", "broadcast"}
  /\ spc = "insert" => lock = "source"
  /\ lock = "source" => spc = "insert"
  /\ spc = "insert" /\ tpc = "wait" => was_empty
  /\ NoDuplicates
  /\ NoLostWakeup

\* LockInv holds at first ...
LEMMA LockInit == QueueInit => LockInv
BY QueueNull DEF QueueInit, LockInv, NoDuplicates, NoLostWakeup

\* ... and the steps keep it.
LEMMA LockNext == LockInv /\ [QueueNext]_qvars => LockInv'
<1> SUFFICES ASSUME LockInv, [QueueNext]_qvars PROVE LockInv'
  OBVIOUS
<1> USE QueueNull
<1>1. CASE Begin
  <2>1. tpc = "wait" => list = <<>>
    BY <1>1 DEF LockInv, NoLostWakeup, Begin
  <2>2. tpc' = "wait" => was_empty'
    BY <1>1, <2>1 DEF Begin
  <2> QED
    BY <1>1, <2>2 DEF LockInv, NoDuplicates, NoLostWakeup, Begin
<1>2. ASSUME NEW v \in Values, Insert(v) PROVE LockInv'
  <2> DEFINE x == [cmd |-> v.cmd, host |-> v.host, val |-> v.val, idx |-> index]
  <2>1. x \in Stamped
    BY DEF LockInv, Stamped
  <2> HIDE DEF x
  <2>2. list' = InsertInto(list, x)
    BY <1>2 DEF Insert, x
  <2>3. list' \in Seq(Stamped) /\ NoDuplicates'
    BY <2>1, <2>2, InsertKeepsUnique DEF LockInv, NoDuplicates
  <2> QED
    BY <1>2, <2>3 DEF LockInv, NoLostWakeup, Insert
<1>3. CASE Commit
  BY <1>3 DEF LockInv, NoDuplicates, NoLostWakeup, Commit
<1>4. CASE Broadcast
  BY <1>4 DEF LockInv, NoDuplicates, NoLostWakeup, Broadcast
<1>5. CASE Wait
  <2>1. CASE list = <<>>
    BY <1>5, <2>1 DEF LockInv, NoDuplicates, NoLostWakeup, Wait
  <2>2. CASE list # <<>>
    BY SMTT(10), <1>5, <2>2 DEF LockInv, NoDuplicates, NoLostWakeup, Wait, Take
  <2> QED
    BY <2>1, <2>2
<1>6. CASE Timeout
  BY <1>6 DEF LockInv, NoDuplicates, NoLostWakeup, Timeout, queueVars
<1>7. CASE TimedOut
  BY SMTT(10), <1>7 DEF LockInv, NoDuplicates, NoLostWakeup, TimedOut, Take
<1>8. CASE Process
  BY <1>8 DEF LockInv, NoDuplicates, NoLostWakeup, Process, queueVars
<1>9. CASE UNCHANGED qvars
  BY <1>9 DEF LockInv, NoDuplicates, NoLostWakeup, qvars, queueVars
<1> QED
  BY <1>1, <1>2, <1>3, <1>4, <1>5, <1>6, <1>7, <1>8, <1>9
     DEF QueueNext, Source, Waiting

\* sd_queue_insert leaves no two values with one key in the list, whatever the
\* source sends and whenever the thread takes the list; and a thread asleep in
\* sd_queue_wait while values are queued is woken by the source that queued
\* them: sd_queue_commit may signal only the change from an empty list, after
\* it has released the lock.
THEOREM QueueConsistent == QueueSpec => []QueueSound
<1>1. QueueSpec => []LockInv
  BY LockInit, LockNext, PTL DEF QueueSpec
<1>2. LockInv => QueueSound
  BY DEF LockInv, QueueSound
<1> QED
  BY <1>1, <1>2, PTL

\* What the thread has and will get adds up to what was sent; outside of a
\* transaction all of that has been committed.
FeedInv ==
  /\ LockInv
  /\ lock \in {"source", NULL}
  /\ IsConf(conf) /\ IsConf(sent)
  /\ taken \in Seq(Stamped)
  /\ tpc # "process" => taken = <<>>
  /\ spc # "insert" => committed = sent
  /\ Coalesced

\* What the source sends is valid, in the list as well.
LEMMA StampedValid == \A v \in Values \cup Stamped : Valid(v)
<1>1. \A v \in Values : Valid(v)
  BY DEF Values, Valid
<1> QED
  BY <1>1 DEF Stamped, Valid

\* Without values that do not parse it means something.
LEMMA StampedMeant ==
  ASSUME BadCfgs = {}
  PROVE  \A v \in Values \cup Stamped : Meant(v)
BY StampedValid DEF Meant

\* The thread starts with the configuration the source starts from.
LEMMA FeedInit == ASSUME BadCfgs = {} PROVE QueueInit => FeedInv
<1>1. IsConf(Static)
  BY StaticConf, ConfsAre
<1> QED
  BY <1>1, LockInit, ApplyNone DEF QueueInit, FeedInv, Coalesced

\* The end of sd_queue_wait: the thread has all that was sent.
LEMMA TakeFeeds ==
  ASSUME FeedInv, Take, tpc # "process", UNCHANGED <<conf, sent>>
  PROVE  ApplyAll(conf, taken)' = sent /\ Coalesced' /\ taken' \in Seq(Stamped)
<1>1. taken = <<>> /\ taken' = list /\ list' = <<>> /\ conf' = conf /\ sent' = sent
  BY DEF FeedInv, Take
<1>2. ApplyAll(conf, taken) = conf
  BY <1>1, ApplyNone
<1>3. ApplyAll(conf, list) = sent
  BY <1>2 DEF FeedInv, Coalesced
<1>4. ApplyAll(sent, <<>>) = sent
  BY ApplyNone
<1>5. list \in Seq(Stamped)
  BY DEF FeedInv, LockInv
<1> QED
  BY <1>1, <1>3, <1>4, <1>5 DEF Coalesced

\* Every step keeps FeedInv, and is a step of SdFeed or none: sd_queue_commit
\* publishes, the end of sd_queue_wait catches up.
LEMMA FeedNext ==
  ASSUME BadCfgs = {}
  PROVE  FeedInv /\ [QueueNext]_qvars => FeedInv' /\ [Feed!Next]_<<committed, ApplyAll(conf, taken)>>
<1> SUFFICES ASSUME FeedInv, [QueueNext]_qvars
             PROVE  FeedInv' /\ [Feed!Next]_<<committed, ApplyAll(conf, taken)>>
  OBVIOUS
<1> USE QueueNull
<1>0. LockInv'
  BY LockNext DEF FeedInv
<1> DEFINE seen == ApplyAll(conf, taken)
<1>1. IsConf(Static)
  BY StaticConf, ConfsAre
<1>2. ASSUME Take, tpc # "process", UNCHANGED <<conf, sent, committed, spc, lock>>, lock = NULL
      PROVE  FeedInv' /\ [Feed!Next]_<<committed, seen>>
  <2>1. seen' = sent /\ Coalesced' /\ taken' \in Seq(Stamped)
    BY <1>2, TakeFeeds
  <2>2. spc # "insert" /\ committed = sent
    BY <1>2 DEF FeedInv, LockInv
  <2>3. FeedInv'
    BY <1>0, <1>2, <2>1 DEF FeedInv, Take
  <2>4. Feed!CatchUp
    BY <1>2, <2>1, <2>2 DEF Feed!CatchUp
  <2> QED
    BY <2>3, <2>4 DEF Feed!Next
<1>3. ASSUME UNCHANGED <<conf, taken, sent, committed, list>>,
             lock' \in {"source", NULL}, tpc' = "process" => tpc = "process",
             tpc = "process" => tpc' = "process", spc' # "insert" => committed = sent
      PROVE  FeedInv' /\ UNCHANGED <<committed, seen>>
  BY <1>0, <1>3 DEF FeedInv, Coalesced
<1>4. CASE Begin
  BY <1>3, <1>4 DEF Begin
<1>5. ASSUME NEW v \in Values, Insert(v)
      PROVE  FeedInv' /\ UNCHANGED <<committed, seen>>
  <2>1. PICK x : x = [cmd |-> v.cmd, host |-> v.host, val |-> v.val, idx |-> index]
    OBVIOUS
  <2>2. x \in Stamped /\ list \in Seq(Stamped)
    BY <2>1 DEF FeedInv, LockInv, Stamped
  <2>3. /\ list' = InsertInto(list, x) /\ sent' = Apply(v, sent) /\ spc' = "insert"
        /\ UNCHANGED <<lock, committed, tpc, taken, conf>>
    BY <1>5, <2>1 DEF Insert
  <2>4. Apply(v, sent) = Apply(x, sent)
    BY <2>1 DEF Apply
  <2>5. \A w \in Stamped : Meant(w) /\ Valid(w)
    BY StampedMeant, StampedValid
  <2>6. Valid(v)
    BY StampedValid
  <2>7. IsConf(seen) /\ taken \in Seq(Stamped) /\ IsConf(sent) /\ ApplyAll(seen, list) = sent
    <3>1. IsConf(conf) /\ taken \in Seq(Stamped) /\ IsConf(sent) /\ ApplyAll(seen, list) = sent
      BY DEF FeedInv, Coalesced
    <3> QED
      BY <1>1, <2>5, <3>1, ApplyAllConf
  <2>8. seen' = seen
    BY <2>3
  <2> HIDE DEF seen
  <2>9. ApplyAll(seen, InsertInto(list, x)) = Apply(x, sent)
    BY <1>1, <2>2, <2>5, <2>7, InsertApplied
  <2>10. IsConf(sent')
    BY <1>1, <2>3, <2>6, <2>7, ApplyIsConf
  <2>11. Coalesced'
    BY <2>3, <2>4, <2>8, <2>9 DEF Coalesced, seen
  <2> QED
    BY <1>0, <2>3, <2>8, <2>10, <2>11 DEF FeedInv
<1>6. CASE Commit
  <2>1. FeedInv'
    BY <1>0, <1>6 DEF FeedInv, Coalesced, Commit
  <2>2. Feed!Publish
    <3>1. sent \in Confs
      BY ConfsAre DEF FeedInv
    <3> QED
      BY <1>6, <3>1 DEF Commit, Feed!Publish
  <2> QED
    BY <2>1, <2>2 DEF Feed!Next
<1>7. CASE Broadcast
  BY <1>3, <1>7 DEF Broadcast, FeedInv
<1>8. CASE Wait
  <2>1. CASE list = <<>>
    BY <1>3, <1>8, <2>1 DEF Wait, FeedInv
  <2>2. CASE list # <<>>
    BY <1>2, <1>8, <2>2 DEF Wait
  <2> QED
    BY <2>1, <2>2
<1>9. CASE Timeout
  BY <1>3, <1>9 DEF Timeout, queueVars, FeedInv
<1>10. CASE TimedOut
  BY <1>2, <1>10 DEF TimedOut
<1>11. CASE Process
  <2>1. conf' = seen /\ taken' = <<>> /\ tpc' = "ready" /\ UNCHANGED <<list, lock, spc, sent, committed>>
    BY <1>11 DEF Process, queueVars
  <2>2. ApplyAll(seen, <<>>) = seen
    BY ApplyNone
  <2>3. IsConf(seen) /\ ApplyAll(seen, list) = sent
    <3>1. IsConf(conf) /\ taken \in Seq(Stamped) /\ ApplyAll(seen, list) = sent
      BY DEF FeedInv, Coalesced
    <3> QED
      BY <1>1, <3>1, StampedValid, ApplyAllConf
  <2>4. seen' = seen
    BY <2>1, <2>2
  <2> HIDE DEF seen
  <2>5. Coalesced'
    BY <2>1, <2>3, <2>4 DEF Coalesced, seen
  <2>6. FeedInv'
    BY <1>0, <2>1, <2>3, <2>5 DEF FeedInv
  <2>7. UNCHANGED <<committed, seen>>
    BY <2>1, <2>4
  <2> QED
    BY <2>6, <2>7 DEF seen
<1>12. CASE UNCHANGED qvars
  BY <1>3, <1>12 DEF qvars, queueVars, FeedInv
<1> QED
  BY <1>4, <1>5, <1>6, <1>7, <1>8, <1>9, <1>10, <1>11, <1>12
     DEF QueueNext, Source, Waiting

\* However often sd_queue_insert replaces a value that was not taken yet, what
\* the thread has, took and will take adds up to what the source sent, value by
\* value.  Without BadCfgs = {} it does not: a configuration that does not parse
\* replaces one that does.
THEOREM NothingLost == ASSUME BadCfgs = {} PROVE QueueSpec => []Coalesced
<1>1. QueueInit => FeedInv
  BY FeedInit
<1>2. FeedInv /\ [QueueNext]_qvars => FeedInv'
  BY FeedNext
<1>3. FeedInv => Coalesced
  BY DEF FeedInv
<1> QED
  BY <1>1, <1>2, <1>3, PTL DEF QueueSpec

\* The queue implements SdFeed: between sd_queue_begin and sd_queue_commit the
\* thread takes nothing, and what sd_queue_wait returns brings it to the state
\* of the last transaction, never to one in the middle of it.
THEOREM QueueFeeds == ASSUME BadCfgs = {} PROVE QueueSpec => FeedSpec
<1>1. QueueInit => FeedInv /\ Feed!Init
  <2>1. QueueInit => Feed!Init
    BY ApplyNone DEF QueueInit, Feed!Init
  <2> QED
    BY <2>1, FeedInit
<1>2. FeedInv /\ [QueueNext]_qvars => FeedInv' /\ [Feed!Next]_<<committed, ApplyAll(conf, taken)>>
  BY FeedNext
<1> QED
  BY <1>1, <1>2, PTL DEF QueueSpec, FeedSpec, Feed!Spec
-----------------------------------------------------------------------------
\* What PoolFollows asks for while nothing is being applied.
Follows(f, p) ==
  (\E h \in Hosts : Complete(f, h) /\ f[h].up) =>
    \A h \in Hosts : Complete(f, h) =>
      IF f[h].up THEN h \in DOMAIN p /\ p[h] = f[h].cfg ELSE h \notin DOMAIN p

\* A list is being applied while there is a reason to update the pool; without
\* one, now or forgotten, the pool is up to date value by value.
PoolInv ==
  /\ list \in Seq(Stamped) /\ taken \in Seq(Stamped) /\ index \in Nat
  /\ IsConf(conf)
  /\ res \in BOOLEAN /\ forgot \in BOOLEAN /\ max_index_valid \in BOOLEAN
  /\ res => tpc = "process"
  /\ ~res /\ ~forgot => Follows(conf, pool)
  /\ max_index_valid => pool # [h \in {} |-> NULL]
  /\ wret = 0 => max_index_valid

\* Whether a host is complete, and how, only depends on its entry.
LEMMA CompleteEntry ==
  \A f, h : /\ Complete(f, h) <=> Entry(f, h).cfg # NULL /\ Entry(f, h).up # NULL
            /\ Complete(f, h) => f[h] = Entry(f, h)
BY DEF Complete, Entry, NewHost

\* ... and Follows only on which are.
LEMMA FollowsSame ==
  ASSUME NEW f, NEW g, NEW p, Follows(f, p),
         \A h \in Hosts : /\ Complete(f, h) <=> Complete(g, h)
                          /\ Complete(f, h) => f[h] = g[h]
  PROVE  Follows(g, p)
BY DEF Follows

\* A value that update_config finds no reason in leaves every complete host as
\* it is, and makes none complete.
LEMMA NoReason ==
  ASSUME IsConf(conf), NEW v, Valid(v), res \in BOOLEAN, ~Result(v), NEW h \in Hosts
  PROVE  /\ Complete(conf, h) <=> Complete(Apply(v, conf), h)
         /\ Complete(conf, h) => conf[h] = Apply(v, conf)[h]
<1> DEFINE g == Apply(v, conf)
           old == Entry(conf, v.host)
           new == Entry(g, v.host)
<1>1. v.cmd # "flush"
  BY DEF Result
<1>2. CASE v.cmd = "delete"
  <2>1. v.host \notin DOMAIN conf /\ g = Without(conf, v.host)
    BY <1>2 DEF Result, Apply
  <2>2. DOMAIN g = DOMAIN conf /\ \A k \in DOMAIN conf : g[k] = conf[k]
    BY <2>1 DEF Without
  <2> QED
    BY <2>2 DEF Complete
<1>3. CASE v.cmd \in {"config", "health"}
  <2>1. ~(Changed(v) /\ Complete(g, v.host))
    BY <1>3 DEF Result
  <2>2. old \in Host
    BY DEF Entry, IsConf, NewHost, Host
  <2>3. PICK e : /\ g = Put(conf, v.host, e)
                 /\ v.cmd = "config" =>
                      e = IF v.val \in BadCfgs THEN old ELSE [old EXCEPT !.cfg = v.val]
                 /\ v.cmd = "health" => e = [old EXCEPT !.up = (v.val = "up")]
    BY <1>3 DEF Apply
  <2>4. /\ Entry(g, v.host) = e
        /\ \A k : k # v.host => Entry(g, k) = Entry(conf, k)
    BY <2>3 DEF Put, Entry
  <2>5. h # v.host => Entry(g, h) = Entry(conf, h)
    BY <2>4
  <2>6. \/ e = old
        \/ ~Complete(g, v.host) /\ ~Complete(conf, v.host)
    <3>1. CASE ~Changed(v)
      <4>1. CASE v.cmd = "config"
        BY <2>2, <2>3, <3>1, <4>1, SMTT(20) DEF Changed, Host
      <4>2. CASE v.cmd = "health"
        BY <2>2, <2>3, <3>1, <4>2, SMTT(20) DEF Changed, Host
      <4> QED
        BY <1>3, <4>1, <4>2
    <3>2. CASE Changed(v) /\ ~Complete(g, v.host)
      <4>1. e.cfg = NULL \/ e.up = NULL
        BY <2>4, <3>2, CompleteEntry
      <4>2. CASE v.cmd = "config"
        <5>1. v.val \in Cfgs /\ e = [old EXCEPT !.cfg = v.val]
          BY <2>3, <3>2, <4>2, SMTT(20) DEF Changed, Valid
        <5>2. old.up = NULL
          BY <2>2, <4>1, <5>1, NothingKnown DEF Host
        <5> QED
          BY <3>2, <5>2, CompleteEntry
      <4>3. CASE v.cmd = "health"
        <5>1. e.cfg = old.cfg /\ e.up = (v.val = "up")
          BY <2>2, <2>3, <4>3 DEF Host
        <5>2. e.up # NULL
          BY <5>1, NothingKnown
        <5>3. old.cfg = NULL
          BY <4>1, <5>1, <5>2
        <5> QED
          BY <3>2, <5>3, CompleteEntry
      <4> QED
        BY <1>3, <4>2, <4>3
    <3> QED
      BY <2>1, <3>1, <3>2
  <2>7. \/ Entry(g, h) = Entry(conf, h)
        \/ ~Complete(g, h) /\ ~Complete(conf, h)
    BY <2>4, <2>5, <2>6
  <2> HIDE DEF g
  <2>8. /\ Complete(conf, h) <=> Complete(g, h)
        /\ Complete(conf, h) => conf[h] = g[h]
    BY <2>7, CompleteEntry
  <2> QED
    BY <2>8 DEF g
<1> QED
  BY <1>1, <1>2, <1>3 DEF Valid

\* fd_pool_update_hosts brings the pool up to date.
LEMMA UpdateFollows ==
  ASSUME NEW f, IsConf(f), NEW p,
         Enabled(f) # {} => p = [h \in Enabled(f) |-> f[h].cfg]
  PROVE  Follows(f, p)
<1>1. ASSUME NEW h \in Hosts, Complete(f, h)
      PROVE  /\ f[h].up \in BOOLEAN
             /\ h \in Enabled(f) <=> f[h].up # FALSE
  <2>1. h \in DOMAIN f /\ f[h] \in Host
    BY <1>1 DEF Complete, IsConf
  <2>2. f[h].up \in BOOLEAN
    BY <1>1, <2>1 DEF Complete, Host
  <2> QED
    BY <1>1, <2>1, <2>2 DEF Complete, Enabled
<1>2. CASE Enabled(f) = {}
  BY <1>1, <1>2 DEF Follows
<1>3. CASE Enabled(f) # {}
  <2>1. DOMAIN p = Enabled(f) /\ \A h \in Enabled(f) : p[h] = f[h].cfg
    BY <1>3
  <2> QED
    BY <1>1, <2>1 DEF Follows
<1> QED
  BY <1>2, <1>3

\* The pool is empty at first, and no host is up.
LEMMA PoolInit == Init => PoolInv
<1> SUFFICES ASSUME Init PROVE PoolInv
  OBVIOUS
<1>1. IsConf(conf)
  BY StaticConf, ConfsAre DEF Init, QueueInit
<1>2. Follows(conf, pool)
  BY StaticNotUp DEF Follows, Init, QueueInit
<1>3. ~(wret = 0)
  BY NothingKnown DEF Init
<1>4. list \in Seq(Stamped) /\ taken \in Seq(Stamped) /\ index \in Nat
  BY DEF Init, QueueInit
<1>5. res = FALSE /\ forgot = FALSE /\ max_index_valid = FALSE
  BY DEF Init
<1> QED
  BY <1>1, <1>2, <1>3, <1>4, <1>5 DEF PoolInv

\* sd_queue_insert makes a list of a list.
LEMMA InsertStays ==
  ASSUME NEW S, NEW s \in Seq(S), NEW x \in S
  PROVE  InsertInto(s, x) \in Seq(S)
<1> DEFINE same == {i \in DOMAIN s : SameKey(s[i], x)}
           k == CHOOSE i \in same : \A j \in same : i <= j
<1>1. CASE same = {}
  BY <1>1 DEF InsertInto
<1>2. CASE same # {}
  <2>1. same \in SUBSET Nat
    BY SMTT(10)
  <2>2. \E n \in same : \A m \in Nat : m < n => m \notin same
    <3> HIDE DEF same
    <3> QED BY <1>2, <2>1, LeastNat
  <2>3. k \in same
    BY SMTT(10), <2>1, <2>2
  <2>4. InsertInto(s, x) = Append(TakeOut(s, k), x) /\ k \in 1..Len(s)
    BY <1>2, <2>3 DEF InsertInto
  <2> HIDE DEF k
  <2>5. TakeOut(s, k) \in Seq(S)
    BY <2>4, RemovedAt
  <2> QED
    BY <2>4, <2>5
<1> QED
  BY <1>1, <1>2

\* PoolInv holds in every step of the source, the thread and the callers.
LEMMA PoolNext == PoolInv /\ [Next]_vars => PoolInv'
<1> SUFFICES ASSUME PoolInv, [Next]_vars PROVE PoolInv'
  OBVIOUS
<1>1. ASSUME UNCHANGED <<conf, res, forgot, pool, max_index_valid, wret>>,
             list' \in Seq(Stamped), taken' \in Seq(Stamped), index' \in Nat,
             tpc = "process" => tpc' = "process"
      PROVE  PoolInv'
  BY <1>1 DEF PoolInv
<1>2. CASE SourceNext
  <2>1. /\ UNCHANGED <<conf, res, forgot, pool, max_index_valid, wret, taken>>
        /\ tpc = "process" => tpc' = "process"
    BY <1>2 DEF SourceNext, Source, Begin, Insert, Commit, Broadcast, fpsVars, waitVars
  <2>2. index' \in Nat
    <3>1. index \in Nat
      BY DEF PoolInv
    <3>2. index' = index \/ index' = index + 1
      BY <1>2 DEF SourceNext, Source, Begin, Insert, Commit, Broadcast
    <3> QED
      BY <3>1, <3>2
  <2>3. list' \in Seq(Stamped)
    <3>1. ASSUME NEW v \in Values, Insert(v) PROVE list' \in Seq(Stamped)
      <4>1. PICK x : x = [cmd |-> v.cmd, host |-> v.host, val |-> v.val, idx |-> index]
        OBVIOUS
      <4>2. x \in Stamped /\ list' = InsertInto(list, x) /\ list \in Seq(Stamped)
        BY <3>1, <4>1 DEF Insert, Stamped, PoolInv
      <4> QED
        BY <4>2, InsertStays
    <3> QED
      BY <1>2, <3>1 DEF SourceNext, Source, Begin, Commit, Broadcast, PoolInv
  <2> QED
    BY <1>1, <2>1, <2>2, <2>3 DEF PoolInv
<1>3. CASE ThreadWait
  <2>1. UNCHANGED <<conf, res, forgot, pool, max_index_valid, wret, index>> /\ tpc # "process"
    BY <1>3 DEF ThreadWait, Waiting, Wait, Timeout, TimedOut, fpsVars, waitVars, queueVars
  <2>2. list' \in Seq(Stamped) /\ taken' \in Seq(Stamped)
    <3>1. list \in Seq(Stamped) /\ taken \in Seq(Stamped) /\ <<>> \in Seq(Stamped)
      BY DEF PoolInv
    <3>2. list' \in {list, <<>>} /\ taken' \in {list, taken}
      BY <1>3 DEF ThreadWait, Waiting, Wait, Timeout, TimedOut, Take, queueVars
    <3> QED
      BY <3>1, <3>2
  <2> QED
    BY <1>1, <2>1, <2>2 DEF PoolInv
<1>4. CASE ThreadExit \/ Stopped \/ Signal \/ Stop
  BY <1>1, <1>4 DEF ThreadExit, Stopped, Signal, Stop, PoolInv, qvars, queueVars, fpsVars, waitVars
<1>5. CASE UpdateValue
  <2>1. PICK v : v = Head(taken)
    OBVIOUS
  <2>2. /\ taken # <<>> /\ tpc = "process" /\ tpc' = tpc /\ conf' = Apply(v, conf) /\ res' = Result(v)
        /\ forgot' = (forgot \/ (res /\ ~Result(v))) /\ taken' = Tail(taken)
        /\ UNCHANGED <<list, index, pool, max_index_valid, wret>>
    BY <1>5, <2>1 DEF UpdateValue, queueVars, waitVars
  <2>3. v \in Stamped /\ taken' \in Seq(Stamped)
    BY <2>1, <2>2 DEF PoolInv
  <2>4. Valid(v) /\ IsConf(conf)
    BY <2>3, StampedValid DEF PoolInv
  <2>5. IsConf(conf')
    <3>1. IsConf(Static)
      BY StaticConf, ConfsAre
    <3> QED
      BY <2>2, <2>4, <3>1, ApplyIsConf
  <2>6. Result(v) \in BOOLEAN
    <3>1. res \in BOOLEAN
      BY DEF PoolInv
    <3>2. CASE v.cmd = "flush"
      BY <3>2 DEF Result
    <3>3. CASE v.cmd = "delete"
      BY <3>3 DEF Result
    <3>4. CASE v.cmd # "flush" /\ v.cmd # "delete"
      <4>1. Result(v) = (res \/ (Changed(v) /\ Complete(Apply(v, conf), v.host)))
        BY <3>4 DEF Result
      <4> QED
        BY <4>1
    <3> QED
      BY <3>2, <3>3, <3>4
  <2>7. ASSUME ~Result(v), ~forgot' PROVE Follows(conf', pool')
    <3>1. res \in BOOLEAN /\ forgot \in BOOLEAN /\ ~res /\ ~forgot /\ Follows(conf, pool)
      BY <2>2, <2>7 DEF PoolInv
    <3> QED
      BY <2>2, <2>4, <2>7, <3>1, NoReason, FollowsSame
  <2>8. forgot' \in BOOLEAN
    BY <2>2, <2>6 DEF PoolInv
  <2> QED
    BY <2>2, <2>3, <2>5, <2>6, <2>7, <2>8 DEF PoolInv
<1>6. CASE NotUpdated
  BY <1>6 DEF NotUpdated, PoolInv, queueVars, fpsVars, waitVars
<1>7. CASE UpdateHosts
  <2>1. /\ UNCHANGED <<list, index, taken, conf, wret>> /\ res' = FALSE /\ forgot' = FALSE
        /\ Enabled(conf) # {} => /\ pool' = [h \in Enabled(conf) |-> conf[h].cfg]
                                  /\ max_index_valid' = TRUE
        /\ Enabled(conf) = {} => UNCHANGED <<pool, max_index_valid>>
    BY <1>7 DEF UpdateHosts, queueVars, waitVars
  <2>2. Follows(conf, pool')
    <3>1. IsConf(conf)
      BY DEF PoolInv
    <3> QED
      BY <2>1, <3>1, UpdateFollows
  <2>3. max_index_valid' => pool' # [h \in {} |-> NULL]
    <3>1. CASE Enabled(conf) = {}
      BY <2>1, <3>1 DEF PoolInv
    <3>2. CASE Enabled(conf) # {}
      <4>1. DOMAIN pool' # {}
        BY <2>1, <3>2
      <4> QED
        BY <4>1
    <3> QED
      BY <3>1, <3>2
  <2>4. (wret' = 0 => max_index_valid') /\ max_index_valid' \in BOOLEAN
    <3>1. wret' = wret /\ (wret = 0 => max_index_valid) /\ max_index_valid \in BOOLEAN
      BY <2>1 DEF PoolInv
    <3>2. max_index_valid' = TRUE \/ max_index_valid' = max_index_valid
      BY <2>1
    <3> QED
      BY <3>1, <3>2
  <2> QED
    BY <2>1, <2>2, <2>3, <2>4 DEF PoolInv
<1>8. CASE WaiterNext
  <2>1. UNCHANGED <<qvars, fpsVars>>
    BY <1>8 DEF WaiterNext, WaitIndex, WaitTest, WaitSleep, WaitTimeout, WaitReturn
  <2>2. wret' = 0 => max_index_valid
    <3>1. wret = 0 => max_index_valid
      BY DEF PoolInv
    <3>2. ASSUME NEW i \in WaitFor, WaitIndex(i) PROVE wret' = 0 => max_index_valid
      BY <3>2, NothingKnown DEF WaitIndex
    <3>3. CASE WaitTest \/ WaitTimeout
      BY <3>1, <3>3 DEF WaitTest, WaitTimeout, Reached
    <3>4. CASE WaitSleep \/ WaitReturn
      BY <3>1, <3>4, NothingKnown DEF WaitSleep, WaitReturn
    <3> QED
      BY <1>8, <3>2, <3>3, <3>4 DEF WaiterNext
  <2>3. UNCHANGED <<list, index, taken, conf, tpc, res, forgot, pool, max_index_valid>>
    BY <2>1 DEF qvars, queueVars, fpsVars
  <2> QED
    BY <2>2, <2>3 DEF PoolInv
<1>9. CASE UNCHANGED vars
  BY <1>9 DEF vars, qvars, queueVars, fpsVars, waitVars, PoolInv
<1> QED
  BY <1>2, <1>3, <1>4, <1>5, <1>6, <1>7, <1>8, <1>9 DEF Next, ThreadNext, Terminated

\* The indices of a list never go down.
Ascending(vs) == \A i, j \in DOMAIN vs : i <= j => vs[i].idx <= vs[j].idx

\* The indices of a list lie between two others.
Between(lo, vs, hi) == \A i \in DOMAIN vs : lo <= vs[i].idx /\ vs[i].idx <= hi

\* The indices go up from what was applied to what was taken, to the list and
\* to the source, wherever a value is on its way.
IndexInv ==
  /\ max_index \in Nat /\ max_index <= index
  /\ tpc # "process" => taken = <<>>
  /\ Ascending(taken) /\ Ascending(list)
  /\ Between(max_index, taken, index) /\ Between(max_index, list, index)
  /\ \A i \in DOMAIN taken, j \in DOMAIN list : taken[i].idx <= list[j].idx
  /\ windex \in Nat
  /\ wret = 0 => windex <= max_index

\* An inserted value has the highest index and goes to the end; the others stay
\* in their order.
LEMMA InsertAscends ==
  ASSUME NEW s \in Seq(Stamped), NEW x \in Stamped, Ascending(s),
         \A i \in DOMAIN s : s[i].idx <= x.idx
  PROVE  /\ Ascending(InsertInto(s, x))
         /\ \A i \in DOMAIN InsertInto(s, x) :
              InsertInto(s, x)[i] = x \/ \E j \in DOMAIN s : InsertInto(s, x)[i] = s[j]
<1> DEFINE same == {i \in DOMAIN s : SameKey(s[i], x)}
           k == CHOOSE i \in same : \A j \in same : i <= j
<1>0. \A v \in Stamped : v.idx \in Nat
  BY DEF Stamped
<1>1. ASSUME NEW r \in Seq(Stamped), Ascending(r), \A i \in DOMAIN r : r[i].idx <= x.idx
      PROVE  Ascending(Append(r, x))
  <2>1. /\ DOMAIN Append(r, x) = 1..(Len(r) + 1) /\ DOMAIN r = 1..Len(r) /\ Len(r) \in Nat
        /\ \A i \in 1..Len(r) : Append(r, x)[i] = r[i]
        /\ Append(r, x)[Len(r) + 1] = x
    BY SMTT(10)
  <2> SUFFICES ASSUME NEW i \in 1..(Len(r) + 1), NEW j \in 1..(Len(r) + 1), i <= j
               PROVE  Append(r, x)[i].idx <= Append(r, x)[j].idx
    BY <2>1 DEF Ascending
  <2>2. CASE j \in 1..Len(r)
    <3>1. i \in 1..Len(r)
      BY <2>1, <2>2
    <3> QED
      BY <1>1, <2>1, <2>2, <3>1 DEF Ascending
  <2>3. CASE j = Len(r) + 1 /\ i \in 1..Len(r)
    BY <1>1, <2>1, <2>3
  <2>4. CASE j = Len(r) + 1 /\ i = Len(r) + 1
    BY <1>0, <2>1, <2>4
  <2> QED
    BY <2>1, <2>2, <2>3, <2>4
<1>2. CASE same = {}
  <2>1. InsertInto(s, x) = Append(s, x)
    BY <1>2 DEF InsertInto
  <2>2. \A i \in DOMAIN Append(s, x) : Append(s, x)[i] = x \/ \E j \in DOMAIN s : Append(s, x)[i] = s[j]
    BY SMTT(10)
  <2> QED
    BY <1>1, <2>1, <2>2
<1>3. CASE same # {}
  <2>1. same \in SUBSET Nat
    BY SMTT(10)
  <2>2. \E n \in same : \A m \in Nat : m < n => m \notin same
    <3> HIDE DEF same
    <3> QED BY <1>3, <2>1, LeastNat
  <2>3. k \in same
    BY SMTT(10), <2>1, <2>2
  <2>4. InsertInto(s, x) = Append(TakeOut(s, k), x) /\ k \in 1..Len(s)
    BY <1>3, <2>3 DEF InsertInto
  <2> HIDE DEF k
  <2> DEFINE r == TakeOut(s, k)
             At(i) == IF i < k THEN i ELSE i + 1
  <2>5. /\ r \in Seq(Stamped) /\ Len(r) = Len(s) - 1
        /\ \A i \in 1..(Len(s) - 1) : r[i] = IF i < k THEN s[i] ELSE s[i + 1]
    BY <2>4, RemovedAt
  <2> HIDE DEF r
  <2>6. /\ DOMAIN r = 1..(Len(s) - 1) /\ DOMAIN s = 1..Len(s) /\ Len(s) \in Nat
    BY SMTT(10), <2>5
  <2>7. \A i \in DOMAIN r : r[i] = s[At(i)] /\ At(i) \in DOMAIN s
    BY SMTT(10), <2>4, <2>5, <2>6
  <2>8. \A i, j \in DOMAIN r : i <= j => At(i) <= At(j)
    BY SMTT(10), <2>4, <2>6
  <2> HIDE DEF At
  <2>9. Ascending(r) /\ \A i \in DOMAIN r : r[i].idx <= x.idx
    BY <2>7, <2>8 DEF Ascending
  <2>10. \A i \in DOMAIN Append(r, x) : Append(r, x)[i] = x \/ \E j \in DOMAIN r : Append(r, x)[i] = r[j]
    BY SMTT(10), <2>5
  <2>11. InsertInto(s, x) = Append(r, x)
    BY <2>4 DEF r
  <2> QED
    BY <1>1, <2>5, <2>7, <2>9, <2>10, <2>11
<1> QED
  BY <1>2, <1>3

\* IndexInv holds at first ...
LEMMA IndexInit == Init => IndexInv
<1> SUFFICES ASSUME Init PROVE IndexInv
  OBVIOUS
<1>1. max_index = 0 /\ windex = 0 /\ index = 0 /\ taken = <<>> /\ list = <<>> /\ wret = NULL
  BY DEF Init, QueueInit
<1>2. DOMAIN taken = {} /\ DOMAIN list = {}
  BY <1>1, SMTT(10)
<1> QED
  BY <1>1, <1>2, NothingKnown, SMTT(10) DEF IndexInv, Ascending, Between

\* ... and in every step of the source, the thread and the callers.
LEMMA IndexNext == PoolInv /\ IndexInv /\ [Next]_vars => IndexInv'
<1> SUFFICES ASSUME PoolInv, IndexInv, [Next]_vars PROVE IndexInv'
  OBVIOUS
<1>0. list \in Seq(Stamped) /\ taken \in Seq(Stamped) /\ index \in Nat /\ max_index \in Nat
  BY DEF PoolInv, IndexInv
<1>1. \A v \in Stamped : v.idx \in Nat
  BY DEF Stamped
<1>2. \A i \in DOMAIN list : list[i] \in Stamped
  BY <1>0, SMTT(10)
<1>3. \A i \in DOMAIN taken : taken[i] \in Stamped
  BY <1>0, SMTT(10)
<1>4. ASSUME UNCHANGED <<list, taken, index, max_index, wret, windex>>,
             tpc' # "process" => tpc # "process"
      PROVE  IndexInv'
  BY <1>4 DEF IndexInv, Ascending, Between
<1>5. CASE SourceNext
  <2>1. /\ UNCHANGED <<taken, max_index, wret, windex>>
        /\ tpc' # "process" => tpc # "process"
    BY <1>5 DEF SourceNext, Source, Begin, Insert, Commit, Broadcast, fpsVars, waitVars
  <2>2. CASE Commit \/ Broadcast
    BY <1>4, <2>1, <2>2 DEF Commit, Broadcast
  <2>3. CASE Begin
    <3>1. list' = list /\ index' = index + 1
      BY <2>3 DEF Begin
    <3>2. max_index' <= index'
      BY <1>0, <2>1, <3>1, SMTT(10) DEF IndexInv
    <3>3. \A i \in DOMAIN taken : taken[i].idx <= index + 1
      BY <1>0, <1>1, <1>3, SMTT(10) DEF IndexInv, Between
    <3>4. \A i \in DOMAIN list : list[i].idx <= index + 1
      BY <1>0, <1>1, <1>2, SMTT(10) DEF IndexInv, Between
    <3> QED
      BY <2>1, <3>1, <3>2, <3>3, <3>4 DEF IndexInv, Ascending, Between
  <2>4. ASSUME NEW v \in Values, Insert(v) PROVE IndexInv'
    <3>1. PICK x : x = [cmd |-> v.cmd, host |-> v.host, val |-> v.val, idx |-> index]
      OBVIOUS
    <3>2. x \in Stamped /\ x.idx = index /\ list' = InsertInto(list, x) /\ index' = index
      BY <1>0, <2>4, <3>1 DEF Insert, Stamped
    <3>3. Ascending(list) /\ \A i \in DOMAIN list : list[i].idx <= x.idx
      BY <3>2 DEF IndexInv, Between
    <3>4. /\ Ascending(list')
          /\ \A i \in DOMAIN list' : list'[i] = x \/ \E j \in DOMAIN list : list'[i] = list[j]
      BY <1>0, <3>2, <3>3, InsertAscends
    <3>5. Between(max_index, list', index)
      <4> SUFFICES ASSUME NEW i \in DOMAIN list' PROVE max_index <= list'[i].idx /\ list'[i].idx <= index
        BY DEF Between
      <4>1. CASE list'[i] = x
        BY <1>0, <3>2, <4>1, SMTT(10) DEF IndexInv
      <4>2. CASE \E j \in DOMAIN list : list'[i] = list[j]
        BY <4>2 DEF IndexInv, Between
      <4> QED
        BY <3>4, <4>1, <4>2
    <3>6. ASSUME NEW i \in DOMAIN taken, NEW j \in DOMAIN list' PROVE taken[i].idx <= list'[j].idx
      <4>1. CASE list'[j] = x
        BY <3>2, <4>1 DEF IndexInv, Between
      <4>2. CASE \E k \in DOMAIN list : list'[j] = list[k]
        BY <4>2 DEF IndexInv
      <4> QED
        BY <3>4, <4>1, <4>2
    <3>7. taken' = taken /\ max_index' = max_index /\ index' = index /\ wret' = wret /\ windex' = windex
      BY <2>1, <3>2
    <3>8. Ascending(taken') /\ Between(max_index', taken', index')
      BY <3>7 DEF IndexInv, Ascending, Between
    <3>9. Between(max_index', list', index') /\ Ascending(list')
      BY <3>4, <3>5, <3>7 DEF Between, Ascending
    <3>10. \A i \in DOMAIN taken', j \in DOMAIN list' : taken'[i].idx <= list'[j].idx
      BY <3>6, <3>7
    <3> QED
      BY <2>1, <3>7, <3>8, <3>9, <3>10 DEF IndexInv
  <2> QED
    BY <1>5, <2>2, <2>3, <2>4 DEF SourceNext, Source
<1>6. CASE ThreadWait
  <2>1. UNCHANGED <<index, max_index, wret, windex>> /\ tpc # "process" /\ taken = <<>>
    BY <1>6 DEF ThreadWait, Waiting, Wait, Timeout, TimedOut, fpsVars, waitVars, queueVars, IndexInv
  <2>2. \/ UNCHANGED <<list, taken>> /\ tpc' # "process"
        \/ taken' = list /\ list' = <<>> /\ (list # <<>> => tpc' = "process")
    BY <1>6 DEF ThreadWait, Waiting, Wait, Timeout, TimedOut, Take, queueVars
  <2>3. CASE UNCHANGED <<list, taken>>
    BY <1>4, <2>1, <2>3
  <2>4. CASE taken' = list /\ list' = <<>> /\ (list # <<>> => tpc' = "process")
    <3>1. DOMAIN list' = {}
      BY <2>4, SMTT(10)
    <3>2. Ascending(list') /\ Between(max_index', list', index')
      BY <3>1 DEF Ascending, Between
    <3>3. Ascending(taken') /\ Between(max_index', taken', index')
      BY <2>1, <2>4 DEF IndexInv, Ascending, Between
    <3>4. tpc' # "process" => taken' = <<>>
      BY <2>4
    <3> QED
      BY <2>1, <3>1, <3>2, <3>3, <3>4 DEF IndexInv
  <2> QED
    BY <2>2, <2>3, <2>4
<1>7. CASE ThreadExit \/ Stopped \/ Signal \/ Stop \/ NotUpdated \/ UpdateHosts
  <2>1. UNCHANGED <<list, taken, index, max_index, wret, windex>>
    BY <1>7 DEF ThreadExit, Stopped, Signal, Stop, NotUpdated, UpdateHosts, qvars, queueVars, fpsVars, waitVars
  <2>2. tpc = "process" /\ tpc' # "process" => taken = <<>>
    BY <1>7 DEF ThreadExit, Stopped, Signal, Stop, NotUpdated, UpdateHosts, qvars
  <2> QED
    BY <2>1, <2>2 DEF IndexInv, Ascending, Between
<1>8. CASE UpdateValue
  <2>1. PICK v : v = Head(taken)
    OBVIOUS
  <2>2. /\ taken # <<>> /\ tpc = "process" /\ tpc' = tpc /\ taken' = Tail(taken)
        /\ max_index' = IF v.idx > max_index THEN v.idx ELSE max_index
        /\ UNCHANGED <<list, index, wret, windex>>
    BY <1>8, <2>1 DEF UpdateValue, queueVars, waitVars
  <2>3. 1 \in DOMAIN taken /\ v = taken[1]
    BY <1>0, <2>1, <2>2, SMTT(10)
  <2>4. v.idx \in Nat /\ max_index <= v.idx /\ v.idx <= index
    BY <1>1, <1>3, <2>3 DEF IndexInv, Between
  <2>5. max_index' = v.idx
    BY <1>0, <2>2, <2>4, SMTT(10)
  <2>6. \A i \in DOMAIN taken' : i + 1 \in DOMAIN taken /\ taken'[i] = taken[i + 1] /\ i \in Nat /\ 1 <= i + 1
    BY <1>0, <2>2, SMTT(10)
  <2>7. Ascending(taken')
    <3> SUFFICES ASSUME NEW i \in DOMAIN taken', NEW j \in DOMAIN taken', i <= j
                 PROVE  taken'[i].idx <= taken'[j].idx
      BY DEF Ascending
    <3>1. i + 1 <= j + 1
      BY <2>6, SMTT(10)
    <3> QED
      BY <2>6, <3>1 DEF IndexInv, Ascending
  <2>8. Between(max_index', taken', index')
    <3> SUFFICES ASSUME NEW i \in DOMAIN taken' PROVE v.idx <= taken'[i].idx /\ taken'[i].idx <= index
      BY <2>2, <2>5 DEF Between
    <3>1. i + 1 \in DOMAIN taken /\ taken'[i] = taken[i + 1] /\ 1 <= i + 1
      BY <2>6
    <3> QED
      BY <2>3, <3>1 DEF IndexInv, Ascending, Between
  <2>9. Between(max_index', list', index')
    BY <2>2, <2>3, <2>5 DEF IndexInv, Between
  <2>10. \A i \in DOMAIN taken', j \in DOMAIN list' : taken'[i].idx <= list'[j].idx
    BY <2>2, <2>6 DEF IndexInv
  <2>11. windex' \in Nat /\ (wret' = 0 => windex' <= max_index')
    <3>1. windex \in Nat /\ (wret = 0 => windex <= max_index)
      BY DEF IndexInv
    <3>2. wret = 0 => windex <= v.idx
      BY <1>0, <2>4, <3>1, SMTT(10)
    <3> QED
      BY <2>2, <2>5, <3>1, <3>2
  <2>12. max_index' \in Nat /\ max_index' <= index'
    BY <2>2, <2>4, <2>5
  <2>13. Ascending(list')
    BY <2>2 DEF IndexInv, Ascending
  <2>14. tpc' # "process" => taken' = <<>>
    BY <2>2
  <2> QED
    BY <2>7, <2>8, <2>9, <2>10, <2>11, <2>12, <2>13, <2>14 DEF IndexInv
<1>9. CASE WaiterNext
  <2>1. UNCHANGED <<list, index, taken, tpc, max_index>>
    BY <1>9 DEF WaiterNext, WaitIndex, WaitTest, WaitSleep, WaitTimeout, WaitReturn, qvars, queueVars, fpsVars
  <2>2. windex' \in Nat /\ (wret' = 0 => windex' <= max_index)
    <3>1. windex \in Nat /\ (wret = 0 => windex <= max_index)
      BY DEF IndexInv
    <3>2. ASSUME NEW i \in WaitFor, WaitIndex(i) PROVE windex' \in Nat /\ (wret' = 0 => windex' <= max_index)
      <4>1. i \in Nat
        BY WaitForIndices
      <4>2. windex' = i /\ (wret' = 0 => max_index >= i)
        BY <3>2, NothingKnown DEF WaitIndex
      <4> QED
        BY <1>0, <4>1, <4>2, SMTT(10)
    <3>3. CASE WaitTest \/ WaitTimeout
      <4>1. windex' = windex /\ wret' \in {0, 1, wret} /\ (wret' = 0 /\ wret # 0 => max_index >= windex)
        BY <3>3 DEF WaitTest, WaitTimeout, Reached
      <4> QED
        BY <1>0, <3>1, <3>3, <4>1, SMTT(10)
    <3>4. CASE WaitSleep
      BY <3>1, <3>4 DEF WaitSleep
    <3>5. CASE WaitReturn
      <4>1. windex' = 0 /\ wret' = NULL /\ 0 \in Nat
        BY <3>5 DEF WaitReturn
      <4> QED
        BY <4>1, NothingKnown
    <3> QED
      BY <1>9, <3>2, <3>3, <3>4, <3>5 DEF WaiterNext
  <2> QED
    BY <2>1, <2>2 DEF IndexInv, Ascending, Between
<1>10. CASE UNCHANGED vars
  BY <1>4, <1>10 DEF vars, qvars, queueVars, fpsVars, waitVars
<1> QED
  BY <1>5, <1>6, <1>7, <1>8, <1>9, <1>10 DEF Next, ThreadNext, Terminated

\* Between two lists the pool of fd_pool_sd_thread has exactly the complete hosts
\* that are up, with their configurations, unless a deletion made update_config
\* forget a reason.  fd_pool_sd_wait_index reports success only when the pool
\* has nodes and every value of a lower index is in the configuration; the pool
\* need not have them yet.
THEOREM PoolUpToDate == Spec => []HostsApplied
<1>1. PoolInv /\ IndexInv => HostsApplied
  <2>1. PoolInv => PoolFollows
    BY DEF PoolInv, PoolFollows, Follows
  <2>2. PoolInv => WaitedHasNodes
    BY DEF PoolInv, WaitedHasNodes
  <2>3. PoolInv /\ IndexInv => WaitedKnown
    <3> SUFFICES ASSUME PoolInv, IndexInv, wret = 0, NEW vs \in {taken, list}, NEW i \in DOMAIN vs
                 PROVE  vs[i].idx >= windex
      BY DEF WaitedKnown
    <3>1. vs \in Seq(Stamped)
      BY DEF PoolInv
    <3>2. vs[i] \in Stamped
      BY <3>1, SMTT(10)
    <3>3. vs[i].idx \in Nat
      BY <3>2 DEF Stamped
    <3>4. windex \in Nat /\ max_index \in Nat /\ windex <= max_index /\ max_index <= vs[i].idx
      BY DEF IndexInv, Between
    <3> QED
      BY <3>3, <3>4, SMTT(10)
  <2> QED
    BY <2>1, <2>2, <2>3 DEF HostsApplied
<1> QED
  BY <1>1, PoolInit, PoolNext, IndexInit, IndexNext, PTL DEF Spec

-----------------------------------------------------------------------------
(***************************************************************************)
(* The registry leaves nothing behind and nothing dangling, for any number *)
(* of services, URLs and set ups (SdRegistry).                             *)
(*                                                                         *)
(* A service can only lose a connection it has made if src or queue change *)
(* hands, so the invariant says whose they are (OwnConns), that a connect  *)
(* call that has not been granted a queue holds nothing (HoldsNothing),    *)
(* and that the instances in source_data run (DataRuns), from which a      *)
(* queue is taken to be one of a watcher that runs.                        *)
(***************************************************************************)

\* The records the registry is made of.
Watchers == [url : RgUrls \cup {NoUrl}, n : Nat]
Conns == [svc : RgServices, kind : Kinds, data : Watchers]
Sources == [kind : Kinds, value : Nat, data : Watchers]
SvcStates == [pc : {"idle", "match", "grab", "start", "connected", "joined", "gone"}, node : RgNodes,
              todo : SUBSET Kinds, type : Kinds \cup {"none"}, src : SUBSET Conns, queue : SUBSET Conns]

(* The type of the registry.                                               *)
RgTypeOK ==
    /\ rgUp \in {"up", "freed", "crashed"}
    /\ rgData \in SUBSET Sources
    /\ rgWatchers \in SUBSET Watchers /\ IsFiniteSet(rgWatchers)
    /\ rgConns \in SUBSET Conns
    /\ rgSvc \in [RgServices -> SvcStates]
    /\ rgBoth \in SUBSET RgServices

(* What a service holds and reads was made for it.                         *)
OwnConns == \A s \in RgServices : \A c \in rgSvc[s].src \cup rgSvc[s].queue : c.svc = s

(* A call that has no queue yet, and one that is over, hold nothing.       *)
HoldsNothing == \A s \in RgServices : rgSvc[s].pc \in {"idle", "match", "grab", "gone"} => rgSvc[s].src = {}

(* The watchers in source_data run.                                        *)
DataRuns == \A e \in rgData : e.kind = "etcd" => e.data \in rgWatchers

(* The inductive invariant.                                                *)
RgInv == RgTypeOK /\ OwnConns /\ HoldsNothing /\ DataRuns /\ ConnsHeld /\ ReadsLive /\ WatchersKnown

(* What the invariant asks of the new record r of a service.               *)
Kept(s, r) ==
    /\ \A c \in r.src \cup r.queue : c.svc = s
    /\ r.pc \in {"idle", "match", "grab", "gone"} => r.src = {}
    /\ \A c \in rgConns : c.svc = s /\ s \notin rgBoth => r.src = {c} /\ r.type = c.kind
    /\ rgUp = "up" /\ r.pc \in {"start", "connected"} =>
            /\ r.queue # {} /\ r.queue \subseteq rgConns
            /\ \A c \in r.queue : c.kind = "etcd" => c.data \in rgWatchers

(* What it asks of source_data and the watchers.                           *)
DataKept ==
    /\ rgData \in SUBSET Sources
    /\ rgWatchers \in SUBSET Watchers /\ IsFiniteSet(rgWatchers)
    /\ DataRuns /\ WatchersKnown
-----------------------------------------------------------------------------
(* Setting up sources keeps the instances known and running                *)
(* (sd_registry_add_sources).                                              *)
LEMMA AddKeeps ==
    ASSUME RgInv, NEW node \in RgNodes, AddSources(node)
    PROVE  DataKept' /\ rgWatchers \subseteq rgWatchers'
  <1> DEFINE url == node.url
             added == url = NoUrl \/ SourceFound("etcd", url) # {}
  <1>1. PICK new \in IF added THEN {{}} ELSE EtcdSetup(url) :
            /\ rgWatchers' = rgWatchers \cup new
            /\ rgData' = {e \in rgData : ~(e.kind = "etcd" /\ e.value = url /\ new # {})}
                            \cup {[kind |-> "etcd", value |-> w.url, data |-> w] : w \in new}
                            \cup ReloadSources(node)
    BY DEF AddSources
  <1>2. url \in RgUrls \cup {NoUrl} /\ url \in Nat
    <2>1. node \in [url : RgUrls \cup {NoUrl}, reload : BOOLEAN, hosts : BOOLEAN]
      BY Zenon DEF RgNodes
    <2>2. url \in RgUrls \cup {NoUrl}
      BY <2>1
    <2>3. \A u \in RgUrls : u \in Nat
      BY RgAssumption
    <2>4. NoUrl \in Nat
      BY DEF NoUrl
    <2>5. CASE url \in RgUrls
      BY <2>3, <2>5, Zenon
    <2>6. CASE url = NoUrl
      BY <2>4, <2>6, Zenon
    <2> QED BY <2>2, <2>5, <2>6, Zenon
  <1>3. Cardinality({w \in rgWatchers : w.url = url}) + 1 \in Nat
    <2>1. IsFiniteSet({w \in rgWatchers : w.url = url})
      BY FS_Subset DEF RgInv, RgTypeOK
    <2> QED BY <2>1, FS_CardinalityType
  <1>4. new = {} \/ \E w \in Watchers : new = {w} /\ w.url = url /\ ~added
    BY <1>1, <1>2, <1>3 DEF EtcdSetup, Watchers
  <1>5. ReloadSources(node) \in SUBSET Sources /\ \A e \in ReloadSources(node) : e.kind # "etcd"
    BY DEF ReloadSources, Sources, Kinds, Watchers, NoWatcher, NoUrl
  <1>6. CASE new = {}
    <2>1. rgWatchers' = rgWatchers /\ rgData' = rgData \cup ReloadSources(node)
      BY <1>1, <1>6
    <2> QED BY <2>1, <1>5 DEF RgInv, RgTypeOK, DataKept, DataRuns, WatchersKnown
  <1>7. CASE \E w \in Watchers : new = {w} /\ w.url = url /\ ~added
    <2>1. PICK w \in Watchers : new = {w} /\ w.url = url /\ ~added
      BY <1>7
    <2> DEFINE entry == [kind |-> "etcd", value |-> url, data |-> w]
    <2>2. /\ rgWatchers' = rgWatchers \cup {w}
          /\ rgData' = {e \in rgData : ~(e.kind = "etcd" /\ e.value = url)} \cup {entry} \cup ReloadSources(node)
      BY <1>1, <2>1
    <2>3. entry \in Sources
      BY <1>2 DEF Sources, Kinds
    <2>4. rgData' \in SUBSET Sources
      BY <2>2, <2>3, <1>5 DEF RgInv, RgTypeOK
    <2>5. rgWatchers' \in SUBSET Watchers /\ IsFiniteSet(rgWatchers') /\ rgWatchers \subseteq rgWatchers'
      BY <2>2, FS_AddElement DEF RgInv, RgTypeOK
    <2>6. DataRuns'
      BY SMTT(10), <2>2, <1>5 DEF RgInv, DataRuns
    <2>7. ASSUME NEW v \in rgWatchers', v.url \notin RgDotted
          PROVE  [kind |-> "etcd", value |-> v.url, data |-> v] \in rgData'
      <3>1. CASE v = w
        BY <3>1, <2>1, <2>2
      <3>2. CASE v \in rgWatchers
        <4>1. [kind |-> "etcd", value |-> v.url, data |-> v] \in rgData
          BY <3>2, <2>7 DEF RgInv, WatchersKnown
        <4>2. v.url # url
          BY <4>1, <2>1, <2>7 DEF SourceFound
        <4> QED BY <4>1, <4>2, <2>2
      <3> QED BY <3>1, <3>2, <2>2
    <2> QED BY <2>4, <2>5, <2>6, <2>7 DEF DataKept, WatchersKnown
  <1> QED BY <1>4, <1>6, <1>7

(* A step of one service's call keeps the invariant if it keeps what the   *)
(* invariant says of that service: the others hold nothing of it.          *)
LEMMA OneService ==
    ASSUME RgInv, rgUp = "up", NEW s \in RgServices, NEW r \in SvcStates,
           rgSvc' = [rgSvc EXCEPT ![s] = r],
           rgUp' \in {"up", "crashed"},
           DataKept', rgWatchers \subseteq rgWatchers',
           rgConns' \in SUBSET Conns,
           \A c \in Conns : c.svc # s => (c \in rgConns' <=> c \in rgConns),
           rgBoth' \in SUBSET RgServices, rgBoth \subseteq rgBoth',
           Kept(s, r)'
    PROVE  RgInv'
  <1>1. rgSvc'[s] = r /\ \A t \in RgServices : t # s => rgSvc'[t] = rgSvc[t]
    BY DEF RgInv, RgTypeOK
  <1>2. RgTypeOK'
    BY DEF RgInv, RgTypeOK, DataKept
  <1>3. \A t \in RgServices : rgSvc[t].src \in SUBSET Conns /\ rgSvc[t].queue \in SUBSET Conns
    BY DEF RgInv, RgTypeOK, SvcStates
  <1>4. OwnConns'
    <2>1. \A t \in RgServices : t # s => \A c \in rgSvc'[t].src \cup rgSvc'[t].queue : c.svc = t
      BY <1>1 DEF RgInv, OwnConns
    <2>2. \A c \in rgSvc'[s].src \cup rgSvc'[s].queue : c.svc = s
      BY <1>1 DEF Kept
    <2> QED BY <2>1, <2>2 DEF OwnConns
  <1>5. HoldsNothing'
    BY <1>1 DEF RgInv, HoldsNothing, Kept
  <1>6. ConnsHeld'
    <2>1. SUFFICES ASSUME NEW c \in rgConns', c.svc \notin rgBoth'
                   PROVE  rgSvc'[c.svc].src = {c} /\ rgSvc'[c.svc].type = c.kind
      BY DEF ConnsHeld
    <2>2. c \in Conns /\ c.svc \in RgServices
      BY DEF Conns
    <2>3. CASE c.svc = s
      BY <2>1, <2>3, <1>1 DEF Kept
    <2>4. CASE c.svc # s
      <3>1. c \in rgConns /\ c.svc \notin rgBoth
        BY <2>1, <2>2, <2>4
      <3>2. rgSvc[c.svc].src = {c} /\ rgSvc[c.svc].type = c.kind
        BY <3>1 DEF RgInv, ConnsHeld
      <3> QED BY <3>2, <2>2, <2>4, <1>1
    <2> QED BY <2>3, <2>4
  <1>7. ReadsLive'
    <2>1. SUFFICES ASSUME NEW t \in RgServices, rgUp' = "up", rgSvc'[t].pc \in {"start", "connected"}
                   PROVE  /\ rgSvc'[t].queue # {} /\ rgSvc'[t].queue \subseteq rgConns'
                          /\ \A c \in rgSvc'[t].queue : c.kind = "etcd" => c.data \in rgWatchers'
      BY DEF ReadsLive
    <2>2. CASE t = s
      BY <2>1, <2>2, <1>1 DEF Kept
    <2>3. CASE t # s
      <3>1. rgSvc'[t] = rgSvc[t]
        BY <2>3, <1>1
      <3>2. /\ rgSvc[t].queue # {} /\ rgSvc[t].queue \subseteq rgConns
            /\ \A c \in rgSvc[t].queue : c.kind = "etcd" => c.data \in rgWatchers
        BY <3>1, <2>1 DEF RgInv, ReadsLive
      <3>3. \A c \in rgSvc[t].queue : c \in Conns /\ c.svc # s
        BY <1>3, <2>3 DEF RgInv, OwnConns
      <3> QED BY <3>1, <3>2, <3>3
    <2> QED BY <2>2, <2>3
  <1> QED BY <1>2, <1>4, <1>5, <1>6, <1>7 DEF RgInv, DataKept

(* At most one connection, of a kind and for a service.                    *)
AtMostOne(g, s, kind) ==
    /\ g \subseteq Conns
    /\ \A c \in g : g = {c} /\ c.svc = s /\ c.kind = kind
    /\ \A c \in g : c.kind = "etcd" => c.data \in rgWatchers

(* What a source answers is nothing, or one connection for the service     *)
(* (sd_etcd_connect, sd_reload_connect).                                   *)
LEMMA GrantedOne ==
    ASSUME RgInv, NEW s \in RgServices, NEW e \in rgData, NEW g \in Granted(s, e)
    PROVE  AtMostOne(g, s, e.kind)
  <1>1. e \in Sources /\ e.data \in Watchers /\ e.kind \in Kinds
    BY DEF RgInv, RgTypeOK, Sources
  <1>2. CASE e.kind = "etcd"
    <2>1. g = {[svc |-> s, kind |-> "etcd", data |-> e.data]}
      BY <1>2 DEF Granted, EtcdConnect
    <2>2. [svc |-> s, kind |-> "etcd", data |-> e.data] \in Conns
      BY <1>1, <1>2 DEF Conns
    <2>3. e.data \in rgWatchers
      BY <1>2 DEF RgInv, DataRuns
    <2> QED BY <2>1, <2>2, <2>3, <1>2 DEF AtMostOne
  <1>3. CASE e.kind = "reload"
    <2>1. g = {} \/ g = {[svc |-> s, kind |-> "reload", data |-> NoWatcher]}
      BY <1>3 DEF Granted, ReloadConnect
    <2>2. [svc |-> s, kind |-> "reload", data |-> NoWatcher] \in Conns
      BY DEF Conns, Kinds, Watchers, NoWatcher
    <2> QED BY <2>1, <2>2, <1>3 DEF AtMostOne
  <1> QED BY <1>1, <1>2, <1>3 DEF Kinds

(* There is a first source of a kind, by its value.                        *)
LEMMA FirstSource ==
    ASSUME NEW S \in SUBSET Sources, S # {}
    PROVE  \E e \in S : \A o \in S : e.value <= o.value
  <1> DEFINE T == {e.value : e \in S}
  <1>1. T \subseteq Nat /\ T # {}
    BY DEF Sources
  <1>2. PICK n \in T : \A m \in T : ~(<<m, n>> \in OpToRel(<, Nat))
    <2> HIDE DEF T
    <2> QED BY <1>1, NatLessThanWellFounded, WFMin
  <1>3. ASSUME NEW m \in T
        PROVE  n <= m
    <2>1. m \in Nat /\ n \in Nat
      BY <1>1
    <2>2. ~(<<m, n>> \in OpToRel(<, Nat))
      BY <1>2
    <2>3. ~(m < n)
      BY <2>1, <2>2 DEF OpToRel
    <2> QED BY <2>1, <2>3
  <1> QED BY <1>3

\* An empty registry holds nothing.
LEMMA InitHolds == RgInit => RgInv
  <1> SUFFICES ASSUME RgInit PROVE RgInv
    OBVIOUS
  <1>1. NullNode \in RgNodes
    BY DEF NullNode, RgNodes
  <1>2. RgFree \in SvcStates
    BY <1>1 DEF RgFree, SvcStates
  <1>3. \A s \in RgServices : rgSvc[s] = RgFree
    BY DEF RgInit
  <1>4. RgTypeOK
    BY <1>2, FS_EmptySet DEF RgInit, RgTypeOK
  <1>5. OwnConns /\ HoldsNothing
    BY <1>3 DEF OwnConns, HoldsNothing, RgFree
  <1>6. DataRuns /\ ConnsHeld /\ WatchersKnown
    BY DEF RgInit, DataRuns, ConnsHeld, WatchersKnown
  <1>7. ReadsLive
    BY <1>3 DEF ReadsLive, RgFree
  <1> QED BY <1>4, <1>5, <1>6, <1>7 DEF RgInv

\* papp_init_sdr sets the registry up.
LEMMA InitSdrKeeps ==
    ASSUME RgInv, NEW node \in RgNodes, InitSdr(node)
    PROVE  RgInv'
  <1>1. DataKept' /\ rgWatchers \subseteq rgWatchers'
    BY AddKeeps DEF InitSdr
  <1>2. rgUp' = rgUp /\ rgConns' = rgConns /\ rgSvc' = rgSvc /\ rgBoth' = rgBoth
    BY DEF InitSdr
  <1>3. RgTypeOK'
    BY <1>1, <1>2 DEF RgInv, RgTypeOK, DataKept
  <1>4. OwnConns' /\ HoldsNothing' /\ ConnsHeld'
    BY <1>2 DEF RgInv, OwnConns, HoldsNothing, ConnsHeld
  <1>5. ReadsLive'
    BY <1>1, <1>2 DEF RgInv, ReadsLive
  <1> QED BY <1>1, <1>3, <1>4, <1>5 DEF RgInv, DataKept

(* source_data and the watchers stay as they are.                          *)
LEMMA SameData ==
    ASSUME RgInv, UNCHANGED <<rgData, rgWatchers>>
    PROVE  DataKept' /\ rgWatchers \subseteq rgWatchers'
  BY DEF RgInv, RgTypeOK, DataKept, DataRuns, WatchersKnown

(* A connect call begins (fd_pool_add_config, fd_pool_new_conn).           *)
LEMMA ConnectKeeps ==
    ASSUME RgInv, NEW s \in RgServices,
           (\E node \in RgNodes : ConnectConfig(s, node)) \/ ConnectPlain(s) \/ NoMatch(s)
    PROVE  RgInv'
  <1>1. rgSvc[s] \in SvcStates /\ NullNode \in RgNodes
    BY DEF RgInv, RgTypeOK, NullNode, RgNodes
  <1>2. \A c \in rgConns : c.svc = s => s \in rgBoth \/ rgSvc[s].src = {c}
    BY DEF RgInv, ConnsHeld
  <1>5. rgConns \in SUBSET Conns /\ rgBoth \in SUBSET RgServices
    BY DEF RgInv, RgTypeOK
  <1>3. CASE \E node \in RgNodes : ConnectConfig(s, node)
    <2>1. PICK node \in RgNodes : ConnectConfig(s, node)
      BY <1>3
    <2> DEFINE r == [RgFree EXCEPT !.pc = "match", !.node = node, !.todo = {kind \in Kinds : Wants(node, kind)}]
    <2>2. r \in SvcStates /\ r.pc = "match" /\ r.src = {} /\ r.queue = {}
      BY <1>1 DEF RgFree, SvcStates
    <2>3. rgSvc[s].src = {}
      BY <2>1 DEF ConnectConfig, RgInv, HoldsNothing
    <2>4. DataKept' /\ rgWatchers \subseteq rgWatchers'
      BY <2>1, AddKeeps DEF ConnectConfig
    <2>5. /\ rgUp = "up" /\ rgSvc' = [rgSvc EXCEPT ![s] = r]
          /\ rgUp' = rgUp /\ rgConns' = rgConns /\ rgBoth' = rgBoth
      BY <2>1 DEF ConnectConfig
    <2>6. Kept(s, r)'
      BY <2>2, <2>3, <2>5, <1>2 DEF Kept
    <2> HIDE DEF r
    <2> QED BY <2>2, <2>4, <2>5, <2>6, <1>5, OneService
  <1>4. CASE ConnectPlain(s) \/ NoMatch(s)
    <2>7. PICK r : r = [rgSvc[s] EXCEPT !.pc = "grab"]
      OBVIOUS
    <2>1. rgSvc[s].src = {}
      BY <1>4 DEF ConnectPlain, NoMatch, RgInv, HoldsNothing
    <2>2. r \in SvcStates /\ r.pc = "grab" /\ r.src = {} /\ r.queue = rgSvc[s].queue
      BY <1>1, <2>1, <2>7 DEF SvcStates
    <2>3. /\ rgUp = "up" /\ rgSvc' = [rgSvc EXCEPT ![s] = r]
          /\ rgUp' = rgUp /\ rgConns' = rgConns /\ rgBoth' = rgBoth /\ UNCHANGED <<rgData, rgWatchers>>
      BY <1>4, <2>7 DEF ConnectPlain, NoMatch
    <2>4. \A c \in rgSvc[s].queue : c.svc = s
      BY DEF RgInv, OwnConns
    <2>5. Kept(s, r)'
      BY <2>1, <2>2, <2>3, <2>4, <1>2 DEF Kept
    <2>6. DataKept' /\ rgWatchers \subseteq rgWatchers'
      BY <2>3, SameData
    <2> QED BY <2>2, <2>3, <2>5, <2>6, <1>5, OneService
  <1> QED BY <1>3, <1>4

(* The first pass of sd_registry_connect_fd_pool.                          *)
LEMMA MatchKeeps ==
    ASSUME RgInv, NEW s \in RgServices, Match(s)
    PROVE  RgInv'
  <1>1. PICK kind \in rgSvc[s].todo :
            LET found == SourceFound(kind, ValueOf(rgSvc[s].node, kind)) IN
            /\ rgUp = "up" /\ rgSvc[s].pc = "match"
            /\ \E granted \in IF found = {} THEN {{}} ELSE UNION {Granted(s, e) : e \in found} :
                /\ rgConns' = rgConns \cup granted
                /\ rgSvc' = [rgSvc EXCEPT ![s].todo = @ \ {kind},
                                          ![s].pc = IF granted = {} THEN @ ELSE "start",
                                          ![s].type = IF found = {} THEN @ ELSE kind,
                                          ![s].src = IF found = {} THEN @ ELSE granted,
                                          ![s].queue = granted]
            /\ UNCHANGED <<rgUp, rgData, rgWatchers, rgBoth>>
    BY DEF Match
  <1> DEFINE found == SourceFound(kind, ValueOf(rgSvc[s].node, kind))
  <1>2. PICK granted \in IF found = {} THEN {{}} ELSE UNION {Granted(s, e) : e \in found} :
            /\ rgConns' = rgConns \cup granted
            /\ rgSvc' = [rgSvc EXCEPT ![s].todo = @ \ {kind},
                                      ![s].pc = IF granted = {} THEN @ ELSE "start",
                                      ![s].type = IF found = {} THEN @ ELSE kind,
                                      ![s].src = IF found = {} THEN @ ELSE granted,
                                      ![s].queue = granted]
    BY <1>1
  <1>3. rgUp = "up" /\ rgSvc[s].pc = "match" /\ UNCHANGED <<rgUp, rgData, rgWatchers, rgBoth>>
    BY <1>1
  <1>4. rgSvc[s] \in SvcStates /\ rgSvc[s].todo \in SUBSET Kinds /\ kind \in Kinds /\ rgSvc \in [RgServices -> SvcStates]
    BY DEF RgInv, RgTypeOK, SvcStates
  <1>5. rgSvc[s].src = {} /\ rgConns \in SUBSET Conns /\ rgBoth \in SUBSET RgServices
    BY <1>3 DEF RgInv, RgTypeOK, HoldsNothing
  <1>6. found \subseteq rgData /\ \A e \in found : e.kind = kind
    BY DEF SourceFound
  <1>7. AtMostOne(granted, s, kind) /\ (granted # {} => found # {})
    <2>1. CASE found = {}
      BY <1>2, <2>1 DEF AtMostOne
    <2>2. CASE found # {}
      <3>1. PICK e \in found : granted \in Granted(s, e)
        BY <1>2, <2>2
      <3>2. e \in rgData /\ e.kind = kind
        BY <1>6
      <3> QED BY <3>1, <3>2, <2>2, GrantedOne
    <2> QED BY <2>1, <2>2
  <1> HIDE DEF found
  <1>14. PICK r : r = [rgSvc[s] EXCEPT !.todo = @ \ {kind},
                                       !.pc = IF granted = {} THEN @ ELSE "start",
                                       !.type = IF found = {} THEN @ ELSE kind,
                                       !.src = IF found = {} THEN @ ELSE granted,
                                       !.queue = granted]
    OBVIOUS
  <1>8. rgSvc' = [rgSvc EXCEPT ![s] = r]
    BY <1>2, <1>4, <1>14
  <1>9. /\ r \in SvcStates
        /\ r.pc = (IF granted = {} THEN "match" ELSE "start") /\ r.src = granted /\ r.queue = granted
        /\ granted # {} => r.type = kind
    BY <1>3, <1>4, <1>5, <1>7, <1>14 DEF SvcStates, AtMostOne
  <1>10. rgConns' \in SUBSET Conns /\ \A c \in Conns : c.svc # s => (c \in rgConns' <=> c \in rgConns)
    BY <1>2, <1>5, <1>7 DEF AtMostOne
  <1>11. \A c \in rgConns : c.svc = s => s \in rgBoth
    BY <1>5 DEF RgInv, ConnsHeld
  <1>12. Kept(s, r)'
    BY <1>2, <1>3, <1>7, <1>9, <1>11 DEF Kept, AtMostOne
  <1>13. DataKept' /\ rgWatchers \subseteq rgWatchers'
    BY <1>3, SameData
  <1> QED BY <1>3, <1>5, <1>8, <1>9, <1>10, <1>12, <1>13, OneService

(* The second pass of sd_registry_connect_fd_pool.  When one kind of       *)
(* source is asked, its answer is what the service holds.                  *)
LEMMA GrabKeeps ==
    ASSUME RgInv, NEW s \in RgServices, Grab(s)
    PROVE  RgInv'
  <1> DEFINE sources(kind) == {e \in rgData : e.kind = kind}
             asked == {kind \in Kinds : sources(kind) # {}}
             first(kind) == CHOOSE e \in sources(kind) : \A o \in sources(kind) : e.value <= o.value
             answers(kind) == IF kind \in asked THEN Granted(s, first(kind)) ELSE {{}}
  <1>1. PICK etcd \in answers("etcd"), reload \in answers("reload") :
            /\ rgConns' = rgConns \cup etcd \cup reload
            /\ rgSvc' = [rgSvc EXCEPT ![s] =
                            IF etcd \cup reload = {} THEN RgFree
                            ELSE [@ EXCEPT !.pc = "start",
                                           !.type = IF "reload" \in asked THEN "reload" ELSE "etcd",
                                           !.src = IF "reload" \in asked THEN reload ELSE etcd,
                                           !.queue = IF reload # {} THEN reload ELSE etcd]]
    BY DEF Grab
  <1>2. /\ rgUp = "up" /\ rgSvc[s].pc = "grab" /\ UNCHANGED <<rgUp, rgData, rgWatchers>>
        /\ rgBoth' = IF asked = Kinds THEN rgBoth \cup {s} ELSE rgBoth
    BY DEF Grab
  <1>3. ASSUME NEW kind \in Kinds, NEW g \in answers(kind)
        PROVE  AtMostOne(g, s, kind) /\ (g # {} => kind \in asked)
    <2>1. CASE kind \in asked
      <3>1. sources(kind) \in SUBSET Sources /\ sources(kind) # {}
        BY <2>1 DEF RgInv, RgTypeOK
      <3>2. \E e \in sources(kind) : \A o \in sources(kind) : e.value <= o.value
        BY <3>1, FirstSource
      <3>3. first(kind) \in sources(kind)
        BY <3>2
      <3>4. first(kind) \in rgData /\ first(kind).kind = kind
        BY <3>3
      <3>5. g \in Granted(s, first(kind))
        BY <2>1
      <3> HIDE DEF first
      <3> QED BY <2>1, <3>4, <3>5, GrantedOne
    <2>2. CASE kind \notin asked
      BY <2>2 DEF AtMostOne
    <2> QED BY <2>1, <2>2
  <1>4. AtMostOne(etcd, s, "etcd") /\ (etcd # {} => "etcd" \in asked)
    BY <1>1, <1>3 DEF Kinds
  <1>5. AtMostOne(reload, s, "reload") /\ (reload # {} => "reload" \in asked)
    BY <1>1, <1>3 DEF Kinds
  <1>6. asked \subseteq Kinds /\ (asked # Kinds => "etcd" \notin asked \/ "reload" \notin asked)
    BY DEF Kinds
  <1>7. /\ rgSvc[s] \in SvcStates /\ RgFree \in SvcStates
        /\ rgSvc[s].src = {} /\ rgConns \in SUBSET Conns /\ rgBoth \in SUBSET RgServices
    <2>1. NullNode \in RgNodes
      BY DEF NullNode, RgNodes
    <2>2. RgFree \in SvcStates
      BY <2>1 DEF RgFree, SvcStates
    <2> QED BY <2>2, <1>2 DEF RgInv, RgTypeOK, HoldsNothing
  <1> HIDE DEF asked
  <1>8. PICK r : r = IF etcd \cup reload = {} THEN RgFree
                     ELSE [rgSvc[s] EXCEPT !.pc = "start",
                                           !.type = IF "reload" \in asked THEN "reload" ELSE "etcd",
                                           !.src = IF "reload" \in asked THEN reload ELSE etcd,
                                           !.queue = IF reload # {} THEN reload ELSE etcd]
    OBVIOUS
  <1>9. rgSvc' = [rgSvc EXCEPT ![s] = r]
    BY <1>1, <1>8
  <1>10. /\ r \in SvcStates
         /\ r.pc = (IF etcd \cup reload = {} THEN "idle" ELSE "start")
         /\ r.src = (IF "reload" \in asked THEN reload ELSE etcd)
         /\ r.queue = (IF reload # {} THEN reload ELSE etcd)
    BY <1>4, <1>5, <1>7, <1>8 DEF SvcStates, AtMostOne, Kinds, RgFree
  <1>11. etcd \cup reload # {} => r.type = (IF "reload" \in asked THEN "reload" ELSE "etcd")
    BY <1>7, <1>8 DEF SvcStates
  <1>12. rgConns' \in SUBSET Conns /\ \A c \in Conns : c.svc # s => (c \in rgConns' <=> c \in rgConns)
    BY <1>1, <1>4, <1>5, <1>7 DEF AtMostOne
  <1>13. \A c \in rgConns : c.svc = s => s \in rgBoth
    <2>1. \A c \in rgConns : c.svc \notin rgBoth => rgSvc[c.svc].src = {c}
      BY DEF RgInv, ConnsHeld
    <2> HIDE DEF answers
    <2> QED BY <2>1, <1>7
  <1>14. rgBoth' \in SUBSET RgServices /\ rgBoth \subseteq rgBoth'
    BY <1>2, <1>7
  <1>15. ASSUME NEW c \in rgConns', c.svc = s, s \notin rgBoth'
         PROVE  r.src = {c} /\ r.type = c.kind
    <2>1. asked # Kinds /\ s \notin rgBoth
      BY <1>15, <1>2
    <2>2. c \in etcd \/ c \in reload
      BY <1>15, <1>1, <1>13, <2>1
    <2>3. CASE c \in etcd
      BY <2>1, <2>3, <1>4, <1>6, <1>10, <1>11 DEF AtMostOne
    <2>4. CASE c \in reload
      BY <2>1, <2>4, <1>5, <1>10, <1>11 DEF AtMostOne
    <2> QED BY <2>2, <2>3, <2>4
  <1>16. Kept(s, r)'
    <2>1. \A c \in r.src \cup r.queue : c.svc = s
      BY <1>4, <1>5, <1>10 DEF AtMostOne
    <2>2. r.pc \in {"idle", "match", "grab", "gone"} => r.src = {}
      BY <1>10
    <2>3. r.pc \in {"start", "connected"} =>
            /\ r.queue # {} /\ r.queue \subseteq rgConns'
            /\ \A c \in r.queue : c.kind = "etcd" => c.data \in rgWatchers'
      BY <1>1, <1>2, <1>4, <1>5, <1>10 DEF AtMostOne
    <2> QED BY <2>1, <2>2, <2>3, <1>15 DEF Kept
  <1>17. DataKept' /\ rgWatchers \subseteq rgWatchers'
    BY <1>2, SameData
  <1> QED BY <1>2, <1>9, <1>10, <1>12, <1>14, <1>16, <1>17, OneService

(* The pool's thread starts or does not, and is joined before its queue    *)
(* goes (sd_registry_disconnect).                                          *)
LEMMA ThreadKeeps ==
    ASSUME RgInv, NEW s \in RgServices,
           StartFps(s) \/ FreeFps(s) \/ StartFailed(s) \/ SdDisconnect(s)
    PROVE  RgInv'
  <1>1. /\ rgSvc[s] \in SvcStates /\ rgConns \in SUBSET Conns /\ rgBoth \in SUBSET RgServices
        /\ rgSvc[s].src \in SUBSET Conns
    BY DEF RgInv, RgTypeOK, SvcStates
  <1>2. NullNode \in RgNodes
    BY DEF NullNode, RgNodes
  <1>3. \A c \in rgSvc[s].src \cup rgSvc[s].queue : c.svc = s
    BY DEF RgInv, OwnConns
  <1>4. \A c \in rgConns : c.svc = s /\ s \notin rgBoth => rgSvc[s].src = {c} /\ rgSvc[s].type = c.kind
    BY DEF RgInv, ConnsHeld
  <1>5. /\ rgUp = "up" /\ rgBoth' = rgBoth /\ UNCHANGED <<rgData, rgWatchers>>
        /\ rgUp' \in {"up", "crashed"}
    BY DEF StartFps, FreeFps, StartFailed, SdDisconnect, EtcdDisconnect, ReloadDisconnect
  <1>6. DataKept' /\ rgWatchers \subseteq rgWatchers'
    BY <1>5, SameData
  <1>7. CASE StartFps(s)
    <2>1. PICK r : r = [rgSvc[s] EXCEPT !.pc = "connected", !.node = NullNode, !.todo = {}]
      OBVIOUS
    <2>2. rgSvc' = [rgSvc EXCEPT ![s] = r] /\ rgConns' = rgConns /\ rgSvc[s].pc = "start"
      BY <1>7, <2>1, <1>1 DEF StartFps, RgInv, RgTypeOK
    <2>3. /\ r \in SvcStates /\ r.pc = "connected"
          /\ r.src = rgSvc[s].src /\ r.queue = rgSvc[s].queue /\ r.type = rgSvc[s].type
      BY <2>1, <1>1, <1>2 DEF SvcStates
    <2>4. /\ r.queue # {} /\ r.queue \subseteq rgConns
          /\ \A c \in r.queue : c.kind = "etcd" => c.data \in rgWatchers
      BY <2>2, <2>3, <1>5 DEF RgInv, ReadsLive
    <2>5. Kept(s, r)'
      BY <2>2, <2>3, <2>4, <1>3, <1>4, <1>5 DEF Kept
    <2> QED BY <2>2, <2>3, <2>5, <1>1, <1>5, <1>6, OneService
  <1>8. CASE FreeFps(s)
    <2>1. PICK r : r = [rgSvc[s] EXCEPT !.pc = "joined"]
      OBVIOUS
    <2>2. rgSvc' = [rgSvc EXCEPT ![s] = r] /\ rgConns' = rgConns
      BY <1>8, <2>1 DEF FreeFps
    <2>3. /\ r \in SvcStates /\ r.pc = "joined"
          /\ r.src = rgSvc[s].src /\ r.queue = rgSvc[s].queue /\ r.type = rgSvc[s].type
      BY <2>1, <1>1 DEF SvcStates
    <2>4. Kept(s, r)'
      BY <2>2, <2>3, <1>3, <1>4, <1>5 DEF Kept
    <2> QED BY <2>2, <2>3, <2>4, <1>1, <1>5, <1>6, OneService
  <1>9. CASE StartFailed(s) \/ SdDisconnect(s)
    <2>1. PICK r \in {RgFree, [RgFree EXCEPT !.pc = "gone"]} : rgSvc' = [rgSvc EXCEPT ![s] = r]
      BY <1>9 DEF StartFailed, SdDisconnect
    <2>2. rgConns' = rgConns \ rgSvc[s].src
      BY <1>9 DEF StartFailed, SdDisconnect, EtcdDisconnect, ReloadDisconnect
    <2>3. r \in SvcStates /\ r.pc \in {"idle", "gone"} /\ r.src = {} /\ r.queue = {}
      BY <1>2, <2>1 DEF SvcStates, RgFree
    <2>4. rgConns' \in SUBSET Conns /\ \A c \in Conns : c.svc # s => (c \in rgConns' <=> c \in rgConns)
      BY <2>2, <1>1, <1>3
    <2>5. \A c \in rgConns' : c.svc = s => s \in rgBoth
      BY <2>2, <1>4
    <2>6. Kept(s, r)'
      BY <2>3, <2>5, <1>5 DEF Kept
    <2> QED BY <2>1, <2>3, <2>4, <2>6, <1>1, <1>5, <1>6, OneService
  <1> QED BY <1>7, <1>8, <1>9

(* The end of the registry: the watchers it knows stop with the listeners  *)
(* they have left (sd_registry_free).                                      *)
LEMMA FreeKeeps ==
    ASSUME RgInv, FreeRegistry
    PROVE  RgInv'
  <1>1. /\ rgUp' = "freed" /\ rgData' = {} /\ UNCHANGED <<rgSvc, rgBoth>>
        /\ rgWatchers' = rgWatchers \ {e.data : e \in rgData} /\ rgConns' \subseteq rgConns
    BY DEF FreeRegistry
  <1>2. RgTypeOK'
    <2>1. IsFiniteSet(rgWatchers')
      BY <1>1, FS_Subset DEF RgInv, RgTypeOK
    <2> QED BY <1>1, <2>1 DEF RgInv, RgTypeOK
  <1>3. OwnConns' /\ HoldsNothing' /\ ConnsHeld'
    BY <1>1 DEF RgInv, OwnConns, HoldsNothing, ConnsHeld
  <1>4. DataRuns' /\ ReadsLive'
    BY <1>1 DEF DataRuns, ReadsLive
  <1>5. ASSUME NEW w \in rgWatchers', w.url \notin RgDotted
        PROVE  FALSE
    <2>1. [kind |-> "etcd", value |-> w.url, data |-> w] \in rgData
      BY <1>1, <1>5 DEF RgInv, WatchersKnown
    <2>2. w \in {e.data : e \in rgData}
      BY <2>1
    <2> QED BY <2>2, <1>1
  <1> QED BY <1>2, <1>3, <1>4, <1>5 DEF RgInv, WatchersKnown

\* Every step of the registry and of its services keeps the invariant.
LEMMA NextKeeps == RgInv /\ [RgNext]_rgvars => RgInv'
  <1> SUFFICES ASSUME RgInv, [RgNext]_rgvars PROVE RgInv'
    OBVIOUS
  <1>1. CASE \E node \in RgNodes : InitSdr(node)
    BY <1>1, InitSdrKeeps
  <1>2. ASSUME NEW s \in RgServices, NEW node \in RgNodes, ConnectConfig(s, node)
        PROVE  RgInv'
    BY <1>2, ConnectKeeps
  <1>3. ASSUME NEW s \in RgServices, ConnectPlain(s) \/ Match(s) \/ NoMatch(s) \/ Grab(s)
        PROVE  RgInv'
    BY <1>3, ConnectKeeps, MatchKeeps, GrabKeeps
  <1>4. ASSUME NEW s \in RgServices, StartFps(s) \/ StartFailed(s) \/ FreeFps(s) \/ SdDisconnect(s)
        PROVE  RgInv'
    BY <1>4, ThreadKeeps
  <1>5. CASE FreeRegistry
    BY <1>5, FreeKeeps
  <1>6. CASE UNCHANGED rgvars
    BY <1>6 DEF rgvars, RgInv, RgTypeOK, OwnConns, HoldsNothing, DataRuns, ConnsHeld, ReadsLive, WatchersKnown
  <1> QED BY <1>1, <1>2, <1>3, <1>4, <1>5, <1>6 DEF RgNext

(* Connecting, failing to connect, disconnecting and freeing leave nothing *)
(* behind and nothing dangling, for any number of services, URLs and set   *)
(* ups: a connection is held by whoever will disconnect it, the pool's     *)
(* thread reads a queue that exists, and sd_registry_free finds every      *)
(* watcher whose URL has no dots (sd_registry_connect_fd_pool,             *)
(* sd_registry_disconnect, sd_registry_add_sources).                       *)
THEOREM RegistryReleases == RgSpec => []SourcesReleased
  <1>1. RgInv => SourcesReleased
    BY DEF RgInv, SourcesReleased
  <1> QED BY <1>1, InitHolds, NextKeeps, PTL DEF RgSpec
=============================================================================
