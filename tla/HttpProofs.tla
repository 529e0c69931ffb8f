----------------------------- MODULE HttpProofs -----------------------------
(***************************************************************************)
(* Proofs about HttpPool and its cache Lru: the cache's size and bound are *)
(* off by no more than the additions that evictions overwrite, nothing in  *)
(* use is freed and nobody left waiting, and sessions and descriptors are  *)
(* freed once, for every number of threads, sizes of the cache, peers and  *)
(* requests.                                                               *)
(***************************************************************************)
EXTENDS HttpPool, FiniteSetTheorems, WellFoundedInduction, TLAPS

\* Zenon finds most of the leaves by itself.
USE ZenonT(20), SMTT(10)

-----------------------------------------------------------------------------
(***************************************************************************)
(* The inductive invariant.                                                *)
(***************************************************************************)
Fills == {"handshake", "session", "store", "failstore"}
Wakes == {"wake", "failwake"}
Leaves == {"leave", "failleave"}
Outside == {"connect", "open", "lookup", "write", "parse", "cleanup"}
Points == Fills \cup Wakes \cup Leaves \cup Outside \cup {"wait"}

Peers == HttpPeers \cup {""}
Indexes == 0 .. LruWidth - 1

LruRec ==
    [size : Int, rindex : Indexes, list : Seq(Slots), lock : LruThreads \cup {NoThread, "owner"},
     seen : Int, cut : {0, 1}, lost : Int, epoch : Nat, wrapped : BOOLEAN]

EntRec ==
    [live : BOOLEAN, key : Peers, rindex : Indexes, users : Int, pending : BOOLEAN,
     storage : BOOLEAN, size : {0, 1}, born : Nat]

ConnRec ==
    [pc : Points, fd : BOOLEAN, tls : BOOLEAN, used : BOOLEAN, peer : Peers, slot : Slots \cup {0},
     new : BOOLEAN, stale : BOOLEAN, keep : BOOLEAN]

HttpType ==
    /\ lru \in LruRec /\ ent \in [Slots -> EntRec] /\ http \in [LruThreads -> ConnRec]
    /\ https \in BOOLEAN /\ fds \in Int /\ sessions \in Int /\ mixed \in BOOLEAN /\ tries \in Nat

\* No place of a list has what another one has.
Once(list) == \A i, j \in DOMAIN list : list[i] = list[j] => i = j

\* The list has every live entry once.
ListInv ==
    /\ Once(lru.list)
    /\ \A s \in Slots : ent[s].live <=> s \in Range(lru.list)

\* A slot without an entry is as it was at first.
FreeInv == \A s \in Slots : ~ent[s].live => ~ent[s].pending /\ ~ent[s].storage

\* A thread at t has the mutex only while it looks for room.
LockInv == \A t \in LruThreads : lru.lock = t => http[t].pc = "lookup"

\* How far the thread that made an entry has come with it.
FillOK(pc, e) ==
    \/ pc \in Fills /\ e.pending /\ e.size = 0 /\ (pc \in {"handshake", "session"} => ~e.storage)
    \/ pc \in Wakes /\ e.pending /\ e.size = 1
    \/ pc \in Leaves /\ ~e.pending /\ e.size = 1

\* The maker fills the entry, the others wait until it has.
HoldOK(new, pc, e) == IF new THEN FillOK(pc, e) ELSE e.pending => pc = "wait"

\* Where a thread holds an entry, and as what.
PcOK(c) ==
    /\ c.pc \in Outside => c.slot = 0
    /\ c.pc \in {"wait", "session", "store", "failstore"} \cup Wakes \cup Leaves => c.slot # 0
    /\ c.pc \in {"store", "failstore"} \cup Wakes => c.new
    /\ c.stale => c.slot # 0
    /\ c.pc = "cleanup" /\ c.keep => c.tls = c.used

ConnInv ==
    \A t \in LruThreads :
        /\ PcOK(http[t])
        /\ http[t].slot # 0 => HoldOK(http[t].new, http[t].pc, ent[http[t].slot])

\* An entry has one maker,
MakerInv ==
    \A t, u \in LruThreads :
        http[t].slot # 0 /\ http[t].slot = http[u].slot /\ http[t].new /\ http[u].new => t = u

\* who holds it until it is filled.
FillerInv ==
    \A s \in Slots : ent[s].live /\ (ent[s].pending \/ ent[s].size = 0) =>
        \E t \in LruThreads : http[t].slot = s /\ http[t].new

\* The users of an entry are the threads that hold it.
One(x, y) == IF x = y THEN 1 ELSE 0
Holding(f, s) == {t \in LruThreads : f[t].slot = s}
HeldOK(e, f) ==
    \A s \in Slots : e[s].users = Cardinality(Holding(f, s)) /\ (Holding(f, s) # {} => e[s].live)

\* As long as the index has not come round, an entry's index tells how many
\* invalidations it has seen.
EpochInv ==
    ~lru.wrapped => \A s \in Slots : ent[s].live => lru.epoch - ent[s].born = lru.rindex - ent[s].rindex

\* An eviction that is about to write the size has the mutex and has read
\* no more than is there now.
CutOK(l) ==
    /\ l.size >= 0 /\ l.lost >= 0
    /\ l.cut # 0 => l.lock \in LruThreads /\ l.seen >= 1 /\ l.size >= l.seen

\* The size is that of the counted entries, less the lost additions.
SizeInv == CutOK(lru) /\ (lru.lock # "owner" => lru.size + lru.lost = Cardinality(Counted) + lru.cut)

\* Nothing is added to the size and nothing subtracted.
SameSize(m, l) == m.size = l.size /\ m.seen = l.seen /\ m.cut = l.cut /\ m.lost = l.lost

HttpInv ==
    /\ HttpType /\ ListInv /\ FreeInv /\ LockInv /\ ConnInv /\ MakerInv /\ FillerInv /\ EpochInv
    /\ SizeInv /\ SizeBounded /\ EntriesHeld /\ NotStale /\ SessionsOwned /\ HttpFds

-----------------------------------------------------------------------------
(***************************************************************************)
(* Lists.                                                                  *)
(***************************************************************************)

\* A list that has nothing twice is as long as the set of what it has.
LEMMA OnceCounts ==
  ASSUME NEW S, NEW list \in Seq(S), Once(list)
  PROVE  IsFiniteSet(Range(list)) /\ Cardinality(Range(list)) = Len(list)
<1>1. IsFiniteSet(1 .. Len(list)) /\ Cardinality(1 .. Len(list)) = Len(list)
  <2>1. Len(list) \in Nat
    OBVIOUS
  <2>2. 1 \in Int /\ Len(list) \in Int
    BY <2>1
  <2>3. /\ IsFiniteSet(1 .. Len(list))
        /\ Cardinality(1 .. Len(list)) = IF 1 > Len(list) THEN 0 ELSE Len(list) - 1 + 1
    BY <2>2, FS_Interval
  <2> QED
    BY <2>1, <2>3
<1>2. list \in Surjection(1 .. Len(list), Range(list))
  BY SMTT(10) DEF Surjection, Range
<1>3. list \in Injection(1 .. Len(list), Range(list))
  BY SMTT(10) DEF Injection, IsInjective, Range, Once
<1> QED
  BY <1>1, <1>2, <1>3, FS_Surjection

\* What Append does to such a list.
LEMMA AppendOnce ==
  ASSUME NEW S, NEW list \in Seq(S), Once(list), NEW s \in S, s \notin Range(list)
  PROVE  /\ Append(list, s) \in Seq(S) /\ Once(Append(list, s))
         /\ Range(Append(list, s)) = Range(list) \cup {s}
         /\ Len(Append(list, s)) = Len(list) + 1
BY DEF Once, Range

\* What TAILQ_REMOVE does to it.
LEMMA WithoutOnce ==
  ASSUME NEW S, NEW list \in Seq(S), Once(list), NEW s \in Range(list)
  PROVE  /\ Without(list, s) \in Seq(S) /\ Once(Without(list, s))
         /\ Range(Without(list, s)) = Range(list) \ {s}
         /\ Len(Without(list, s)) = Len(list) - 1
<1> DEFINE i == CHOOSE i \in DOMAIN list : list[i] = s
           W == Without(list, s)
<1>1. i \in 1 .. Len(list) /\ list[i] = s
  BY DEF Range
<1>2. W = SubSeq(list, 1, i - 1) \o SubSeq(list, i + 1, Len(list))
  BY DEF Without
<1> HIDE DEF i, W
<1>3. /\ W \in Seq(S) /\ Len(W) = Len(list) - 1
      /\ \A j \in 1 .. Len(W) : W[j] = IF j < i THEN list[j] ELSE list[j + 1]
  <2> DEFINE a == SubSeq(list, 1, i - 1)
             b == SubSeq(list, i + 1, Len(list))
  <2>1. a \in Seq(S) /\ Len(a) = i - 1 /\ \A j \in 1 .. i - 1 : a[j] = list[j]
    BY <1>1
  <2>2. b \in Seq(S) /\ Len(b) = Len(list) - i /\ \A j \in 1 .. Len(list) - i : b[j] = list[i + j]
    BY <1>1
  <2>3. W = a \o b
    BY <1>2
  <2> HIDE DEF a, b
  <2>4. W \in Seq(S) /\ Len(W) = Len(a) + Len(b)
    BY SMTT(10), <2>1, <2>2, <2>3
  <2>5. \A j \in 1 .. Len(a) + Len(b) : W[j] = IF j <= Len(a) THEN a[j] ELSE b[j - Len(a)]
    BY SMTT(10), <2>1, <2>2, <2>3
  <2>6. ASSUME NEW j \in 1 .. Len(W)
        PROVE  W[j] = IF j < i THEN list[j] ELSE list[j + 1]
    <3>1. CASE j < i
      BY SMTT(10), <1>1, <2>1, <2>2, <2>4, <2>5, <3>1
    <3>2. CASE ~(j < i)
      <4>1. j - Len(a) \in 1 .. Len(list) - i /\ i + (j - Len(a)) = j + 1 /\ ~(j <= Len(a))
        BY SMTT(10), <1>1, <2>1, <2>2, <2>4, <3>2
      <4>2. W[j] = b[j - Len(a)]
        BY SMTT(10), <1>1, <2>1, <2>2, <2>4, <2>5, <4>1
      <4> QED
        BY <2>2, <3>2, <4>1, <4>2
    <3> QED
      BY <3>1, <3>2
  <2> QED
    BY SMTT(10), <1>1, <2>1, <2>2, <2>4, <2>6
<1>4. Once(W)
  BY <1>1, <1>3 DEF Once
<1>5. Range(W) = Range(list) \ {s}
  <2>1. ASSUME NEW r \in Range(W)
        PROVE  r \in Range(list) /\ r # s
    <3>1. PICK j \in 1 .. Len(W) : W[j] = r
      BY SMTT(10), <1>3 DEF Range
    <3>2. PICK k \in 1 .. Len(list) : list[k] = r /\ k # i
      BY SMTT(10), <1>1, <1>3, <3>1
    <3> QED
      BY SMTT(10), <1>1, <3>2 DEF Range, Once
  <2>2. ASSUME NEW r \in Range(list), r # s
        PROVE  r \in Range(W)
    <3>1. PICK j \in 1 .. Len(list) : list[j] = r
      BY DEF Range
    <3>2. PICK k \in 1 .. Len(W) : W[k] = r
      <4>1. CASE j < i
        BY <1>1, <1>3, <3>1, <4>1
      <4>2. CASE j > i
        <5>1. j - 1 \in 1 .. Len(W) /\ ~(j - 1 < i) /\ j - 1 + 1 = j
          BY <1>1, <1>3, <4>2
        <5> QED
          BY <1>3, <3>1, <5>1
      <4> QED
        BY <1>1, <2>2, <3>1, <4>1, <4>2
    <3> QED
      BY SMTT(10), <1>3, <3>2 DEF Range
  <2> QED
    BY <2>1, <2>2
<1> QED
  BY <1>3, <1>4, <1>5 DEF W

-----------------------------------------------------------------------------
(***************************************************************************)
(* Room for one more entry.                                                *)
(***************************************************************************)

\* A set of numbers has a least one.
LEMMA LeastOf ==
  ASSUME NEW T \in SUBSET Nat, T # {}
  PROVE  \E n \in T : \A m \in Nat : m < n => m \notin T
<1>1. PICK n \in T : \A m \in T : ~(<<m, n>> \in OpToRel(<, Nat))
  BY NatLessThanWellFounded, WFMin
<1>2. ASSUME NEW m \in Nat, m < n
      PROVE  m \notin T
  BY <1>1, <1>2 DEF OpToRel
<1> QED
  BY <1>2

\* The number of threads.
LEMMA ThreadsFinite ==
  IsFiniteSet(LruThreads) /\ Cardinality(LruThreads) \in Nat
BY LruAssumption, FS_CardinalityType

\* The addresses are numbers, finitely many.
LEMMA SlotsFinite ==
  Slots \subseteq Nat /\ 0 \notin Slots /\ IsFiniteSet(Slots)
<1>1. 1 \in Int /\ LruSlots \in Int
  BY LruAssumption
<1>2. IsFiniteSet(1 .. LruSlots)
  BY <1>1, FS_Interval
<1>3. 1 .. LruSlots \subseteq Nat /\ 0 \notin 1 .. LruSlots
  BY <1>1
<1> QED
  BY <1>2, <1>3 DEF Slots

\* The entries that are not counted are being filled, each by a thread of
\* its own.  A thread that holds none is not among them.
LEMMA Uncounted ==
  ASSUME HttpInv, NEW t \in LruThreads, http[t].slot = 0
  PROVE  Len(lru.list) <= Cardinality(Counted) + Cardinality(LruThreads) - 1
<1> DEFINE U == {s \in Range(lru.list) : ent[s].size = 0}
           T == LruThreads \ {t}
           f == [s \in U |-> CHOOSE u \in LruThreads : http[u].slot = s /\ http[u].new]
<1>1. lru.list \in Seq(Slots) /\ Once(lru.list) /\ Range(lru.list) \subseteq Slots
  BY SMTT(10) DEF HttpInv, HttpType, LruRec, ListInv, Range
<1>2. IsFiniteSet(Range(lru.list)) /\ Cardinality(Range(lru.list)) = Len(lru.list)
  BY <1>1, OnceCounts
<1>3. IsFiniteSet(T) /\ Cardinality(T) = Cardinality(LruThreads) - 1
  BY ThreadsFinite, FS_RemoveElement
<1>4. ASSUME NEW s \in U
      PROVE  f[s] \in T /\ http[f[s]].slot = s
  <2>1. \E u \in LruThreads : http[u].slot = s /\ http[u].new
    BY <1>1 DEF HttpInv, ListInv, FillerInv
  <2>2. f[s] \in LruThreads /\ http[f[s]].slot = s
    BY <2>1
  <2>3. s # 0
    BY <1>1, SlotsFinite
  <2> QED
    BY <2>2, <2>3
<1> HIDE DEF f
<1>5. f \in Injection(U, T)
  <2>1. f = [s \in U |-> f[s]]
    BY DEF f
  <2> HIDE DEF U, T
  <2>2. f \in [U -> T]
    BY <1>4, <2>1
  <2>3. ASSUME NEW r \in U, NEW s \in U, f[r] = f[s]
        PROVE  r = s
    BY <1>4, <2>3
  <2> QED
    BY <2>2, <2>3 DEF Injection, IsInjective
<1>6. Cardinality(U) <= Cardinality(T)
  BY <1>3, <1>5, FS_Injection
<1>7. /\ IsFiniteSet(U) /\ IsFiniteSet(Counted) /\ U \cap Counted = {} /\ U \cup Counted = Range(lru.list)
  <2>1. \A s \in Range(lru.list) : ent[s].size \in {0, 1}
    BY <1>1 DEF HttpInv, HttpType, EntRec
  <2>2. U \in SUBSET Range(lru.list) /\ Counted \in SUBSET Range(lru.list)
    BY DEF Counted
  <2> QED
    BY SMTT(10), <1>2, <2>1, <2>2, FS_Subset DEF Counted
<1>8. Cardinality(Range(lru.list)) = Cardinality(U) + Cardinality(Counted) - 0
  BY SMTT(10), <1>7, FS_Union, FS_EmptySet
<1> HIDE DEF U, T
<1> QED
  BY <1>2, <1>3, <1>6, <1>7, <1>8, ThreadsFinite, FS_CardinalityType

\* A thread that finds the cache not full has room; what evictions have
\* overwritten counts for more room.
LEMMA RoomForOne ==
  ASSUME HttpInv, NEW t \in LruThreads, http[t].slot = 0, lru.lock # "owner", lru.cut = 0, ~Full, HasRoom
  PROVE  /\ Len(lru.list) + 1 <= LruMax - 1 + Cardinality(LruThreads) + lru.lost
         /\ NewSlot \in Slots /\ ~ent[NewSlot].live
<1>1. lru.list \in Seq(Slots) /\ Once(lru.list) /\ lru.size \in Int /\ lru.lost \in Int
  BY DEF HttpInv, HttpType, LruRec, ListInv
<1>2. lru.size + lru.lost = Cardinality(Counted) /\ lru.size < LruMax
  <2>1. Cardinality(Counted) \in Nat
    BY <1>1, OnceCounts, FS_Subset, FS_CardinalityType DEF Counted
  <2>2. lru.size + lru.lost = Cardinality(Counted) + lru.cut
    BY DEF HttpInv, SizeInv
  <2> QED
    BY <1>1, <2>1, <2>2, LruAssumption DEF Full
<1>3. Len(lru.list) + 1 <= LruMax - 1 + Cardinality(LruThreads) + lru.lost
  BY <1>1, <1>2, Uncounted, ThreadsFinite, LruAssumption
<1>4. \E s \in Slots : ~ent[s].live
  BY DEF HasRoom
<1>5. \E s \in Slots : ~ent[s].live /\ \A r \in Slots : r < s => ent[r].live
  <2> DEFINE F == {s \in Slots : ~ent[s].live}
  <2>1. PICK n \in F : \A m \in Nat : m < n => m \notin F
    <3>1. F \in SUBSET Nat /\ F # {}
      BY <1>4, SlotsFinite
    <3> HIDE DEF F
    <3> QED
      BY <3>1, LeastOf
  <2> QED
    BY <2>1, SlotsFinite
<1> QED
  BY <1>3, <1>5 DEF NewSlot

-----------------------------------------------------------------------------
(***************************************************************************)
(* Steps of a thread that leave the cache alone.                           *)
(***************************************************************************)

\* How the size of a set changes when it changes in one element.
LEMMA OneMoved ==
  ASSUME NEW A, IsFiniteSet(A), NEW B, NEW x, A \ {x} = B \ {x}
  PROVE  /\ IsFiniteSet(B) /\ Cardinality(A) \in Nat /\ Cardinality(B) \in Nat
         /\ Cardinality(B) = Cardinality(A) - (IF x \in A THEN 1 ELSE 0) + (IF x \in B THEN 1 ELSE 0)
<1>1. /\ IsFiniteSet(A \ {x})
      /\ Cardinality(A \ {x}) = IF x \in A THEN Cardinality(A) - 1 ELSE Cardinality(A)
  BY FS_RemoveElement
<1>2. /\ IsFiniteSet((A \ {x}) \cup {x})
      /\ Cardinality((A \ {x}) \cup {x}) =
           IF x \in A \ {x} THEN Cardinality(A \ {x}) ELSE Cardinality(A \ {x}) + 1
  BY <1>1, FS_AddElement
<1>3. B = IF x \in B THEN (A \ {x}) \cup {x} ELSE A \ {x}
  OBVIOUS
<1>4. IsFiniteSet(B) /\ Cardinality(A) \in Nat /\ Cardinality(B) \in Nat /\ Cardinality(A \ {x}) \in Nat
  BY <1>1, <1>2, <1>3, FS_CardinalityType
<1>5. CASE x \in B
  <2>1. Cardinality(B) = Cardinality(A \ {x}) + 1
    BY <1>2, <1>3, <1>5
  <2> QED
    BY <1>1, <1>4, <1>5, <2>1
<1>6. CASE x \notin B
  <2>1. Cardinality(B) = Cardinality(A \ {x})
    BY <1>3, <1>6
  <2> QED
    BY <1>1, <1>4, <1>6, <2>1
<1> QED
  BY <1>4, <1>5, <1>6

\* The threads that hold an entry, when t has become c.
LEMMA HoldersMoved ==
  ASSUME HttpType, NEW t \in LruThreads, NEW c \in ConnRec, http' = [http EXCEPT ![t] = c], NEW s
  PROVE  /\ Cardinality(Holding(http, s)) \in Nat
         /\ Cardinality(Holding(http', s)) =
              Cardinality(Holding(http, s)) - One(http[t].slot, s) + One(c.slot, s)
<1> DEFINE A == Holding(http, s)
           B == Holding(http', s)
<1>1. http \in [LruThreads -> ConnRec]
  BY DEF HttpType
<1>2. A \in SUBSET LruThreads /\ IsFiniteSet(A)
  <2>1. A \in SUBSET LruThreads
    BY DEF Holding
  <2> QED
    BY <2>1, ThreadsFinite, FS_Subset
<1>3. A \ {t} = B \ {t}
  BY <1>1 DEF Holding
<1>4. (t \in A <=> http[t].slot = s) /\ (t \in B <=> c.slot = s)
  BY <1>1 DEF Holding
<1> HIDE DEF A, B
<1>5. /\ Cardinality(B) = Cardinality(A) - (IF t \in A THEN 1 ELSE 0) + (IF t \in B THEN 1 ELSE 0)
      /\ Cardinality(A) \in Nat
  BY <1>2, <1>3, OneMoved
<1>6. Cardinality(B) = Cardinality(A) - One(http[t].slot, s) + One(c.slot, s)
  BY <1>4, <1>5 DEF One
<1> QED
  BY <1>5, <1>6 DEF A, B

\* EntriesHeld in these terms.
LEMMA HeldIs ==
  ASSUME HttpType
  PROVE  EntriesHeld <=> HeldOK(ent, http)
BY DEF HttpType, EntriesHeld, Holders, HeldOK, Holding

\* The same after a step.
LEMMA HeldIsNext ==
  ASSUME HttpType'
  PROVE  EntriesHeld' <=> HeldOK(ent', http')
BY DEF HttpType, EntriesHeld, Holders, HeldOK, Holding

\* A thread holds at most one entry, so that the users of another one than it
\* held and holds are what they were.
LEMMA HeldMoved ==
  ASSUME HttpInv, NEW t \in LruThreads, NEW c \in ConnRec, http' = [http EXCEPT ![t] = c],
         \A r \in Slots : ent'[r].users = ent[r].users - One(http[t].slot, r) + One(c.slot, r),
         \A r \in Slots : ent'[r].live \/ (c.slot # r /\ (ent[r].users = 0 \/ ent'[r].live = ent[r].live))
  PROVE  HeldOK(ent', http')
<1>1. HttpType /\ HeldOK(ent, http) /\ http \in [LruThreads -> ConnRec]
  BY HeldIs DEF HttpInv, HttpType
<1>2. ASSUME NEW r \in Slots
      PROVE  ent'[r].users = Cardinality(Holding(http', r))
  <2>1. ent[r].users = Cardinality(Holding(http, r))
    BY <1>1 DEF HeldOK
  <2>2. /\ Cardinality(Holding(http, r)) \in Nat
        /\ Cardinality(Holding(http', r)) =
             Cardinality(Holding(http, r)) - One(http[t].slot, r) + One(c.slot, r)
    BY <1>1, HoldersMoved
  <2> QED
    BY <2>1, <2>2
<1>3. ASSUME NEW r \in Slots, Holding(http', r) # {}
      PROVE  ent'[r].live
  <2>1. PICK u \in LruThreads : http'[u].slot = r
    BY <1>3 DEF Holding
  <2>2. CASE c.slot = r
    BY <2>2
  <2>3. CASE c.slot # r
    <3>1. u \in Holding(http, r)
      BY <1>1, <2>1, <2>3 DEF Holding
    <3>2. ent[r].live
      BY <1>1, <3>1 DEF HeldOK
    <3>3. ent[r].users # 0
      <4>1. IsFiniteSet(Holding(http, r)) /\ Holding(http, r) # {}
        <5>1. Holding(http, r) \in SUBSET LruThreads
          BY DEF Holding
        <5> QED
          BY <3>1, <5>1, ThreadsFinite, FS_Subset
      <4> QED
        BY <1>1, <4>1, FS_EmptySet DEF HeldOK
    <3> QED
      BY <2>3, <3>2, <3>3
  <2> QED
    BY <2>2, <2>3
<1> QED
  BY <1>2, <1>3 DEF HeldOK

\* The descriptors that are open, when t has become c.
LEMMA FdsMoved ==
  ASSUME HttpType, HttpFds, NEW t \in LruThreads, NEW c \in ConnRec, http' = [http EXCEPT ![t] = c],
         fds' = fds - ConnectCloses(t) + (IF c.fd THEN 1 ELSE 0)
  PROVE  fds' = Cardinality({u \in DOMAIN http : http[u].fd})' /\ fds' \in Int
<1> DEFINE A == {u \in DOMAIN http : http[u].fd}
           B == {u \in DOMAIN http' : http'[u].fd}
<1>1. http \in [LruThreads -> ConnRec]
  BY DEF HttpType
<1>2. A \in SUBSET LruThreads /\ IsFiniteSet(A)
  <2>1. A \in SUBSET LruThreads
    BY <1>1
  <2> QED
    BY <2>1, ThreadsFinite, FS_Subset
<1>3. A \ {t} = B \ {t}
  BY <1>1
<1>4. (t \in A <=> http[t].fd) /\ (t \in B <=> c.fd)
  BY <1>1
<1>5. fds = Cardinality(A)
  BY DEF HttpFds
<1> HIDE DEF A, B
<1>6. /\ Cardinality(B) = Cardinality(A) - (IF t \in A THEN 1 ELSE 0) + (IF t \in B THEN 1 ELSE 0)
      /\ Cardinality(A) \in Nat /\ Cardinality(B) \in Nat
  BY <1>2, <1>3, OneMoved
<1>7. fds' = Cardinality(B) /\ fds' \in Int
  BY <1>4, <1>5, <1>6 DEF ConnectCloses
<1> QED
  BY <1>7 DEF B

\* A step that keeps what t holds, and the part of the fill it has to do.
LEMMA ThreadStep ==
  ASSUME HttpInv, NEW t \in LruThreads, NEW c \in ConnRec, http' = [http EXCEPT ![t] = c],
         UNCHANGED <<lruvars, https, sessions>>, tries' \in Nat,
         c.slot = http[t].slot, c.slot # 0 => c.new = http[t].new, c.stale => http[t].stale,
         PcOK(c), c.slot # 0 => HoldOK(c.new, c.pc, ent[c.slot]), lru.lock = t => c.pc = "lookup",
         fds' = fds - ConnectCloses(t) + (IF c.fd THEN 1 ELSE 0), mixed' = FALSE
  PROVE  HttpInv'
<1>1. HttpType /\ http \in [LruThreads -> ConnRec]
  BY DEF HttpInv, HttpType
<1>2. fds' = Cardinality({u \in DOMAIN http : http[u].fd})' /\ fds' \in Int
  BY <1>1, FdsMoved DEF HttpInv
<1>3. HttpType'
  BY <1>1, <1>2 DEF HttpType, lruvars
<1>4. http'[t] = c /\ \A u \in LruThreads : u # t => http'[u] = http[u]
  BY <1>1
<1>5. \A u \in LruThreads : http'[u].slot = http[u].slot
  BY <1>4
<1>6. (ListInv /\ FreeInv /\ EpochInv /\ SizeInv /\ SizeBounded)'
  BY DEF HttpInv, ListInv, FreeInv, EpochInv, SizeInv, SizeBounded, Counted, lruvars
<1>7. LockInv'
  BY <1>4 DEF HttpInv, LockInv, lruvars
<1>8. ConnInv'
  BY <1>4 DEF HttpInv, ConnInv, lruvars
<1>9. MakerInv'
  BY SMTT(10), <1>4 DEF HttpInv, MakerInv
<1>10. FillerInv'
  <2>1. SUFFICES ASSUME NEW s \in Slots, ent[s].live, ent[s].pending \/ ent[s].size = 0
                 PROVE  \E u \in LruThreads : http'[u].slot = s /\ http'[u].new
    BY DEF FillerInv, lruvars
  <2>2. PICK u \in LruThreads : http[u].slot = s /\ http[u].new
    BY <2>1 DEF HttpInv, FillerInv
  <2>3. s # 0
    BY SlotsFinite
  <2> QED
    BY <1>4, <2>2, <2>3
<1>11. EntriesHeld'
  <2>1. ASSUME NEW s PROVE Holders(s)' = Holders(s)
    BY <1>1, <1>3, <1>5 DEF Holders, HttpType
  <2> QED
    BY <2>1 DEF HttpInv, EntriesHeld, lruvars
<1>12. NotStale'
  BY <1>1, <1>4 DEF HttpInv, NotStale, lruvars
<1>13. (SessionsOwned /\ HttpFds)'
  BY <1>2 DEF HttpInv, SessionsOwned, HttpFds, lruvars
<1> QED
  BY <1>3, <1>6, <1>7, <1>8, <1>9, <1>10, <1>11, <1>12, <1>13 DEF HttpInv

\* The same for a step that only goes on to pc.
LEMMA GotoStep ==
  ASSUME HttpInv, NEW t \in LruThreads, NEW pc \in Points, NEW c \in ConnRec, http' = [http EXCEPT ![t] = c],
         c = [http[t] EXCEPT !.pc = pc, !.tls = c.tls, !.used = c.used, !.keep = c.keep],
         UNCHANGED <<lruvars, https, fds, sessions, mixed, tries>>,
         http[t].pc # "lookup", PcOK(c), http[t].slot # 0 => HoldOK(http[t].new, pc, ent[http[t].slot])
  PROVE  HttpInv'
<1>1. http[t] \in ConnRec /\ tries \in Nat /\ fds \in Int /\ ~mixed /\ mixed \in BOOLEAN
  BY DEF HttpInv, HttpType, HttpFds
<1>2. /\ c.pc = pc /\ c.slot = http[t].slot /\ c.new = http[t].new /\ c.stale = http[t].stale
      /\ c.fd = http[t].fd
  BY <1>1 DEF ConnRec
<1>3. fds' = fds - ConnectCloses(t) + (IF c.fd THEN 1 ELSE 0)
  BY SMTT(10), <1>1, <1>2 DEF ConnectCloses
<1>4. lru.lock # t
  BY DEF HttpInv, LockInv
<1>5. mixed' = FALSE /\ tries' \in Nat
  BY <1>1
<1> QED
  BY <1>2, <1>3, <1>4, <1>5, ThreadStep

\* A thread starts over.
LEMMA FreshStep ==
  ASSUME HttpInv, NEW t \in LruThreads, NEW c \in ConnRec, http' = [http EXCEPT ![t] = c],
         c.pc \in Outside, c.slot = 0, ~c.stale, ~c.keep,
         http[t].pc \in {"connect", "cleanup"}, UNCHANGED <<lruvars, https, sessions>>, tries' \in Nat,
         fds' = fds - ConnectCloses(t) + (IF c.fd THEN 1 ELSE 0), mixed' = FALSE
  PROVE  HttpInv'
<1>1. http[t].slot = 0 /\ lru.lock # t
  BY DEF HttpInv, ConnInv, PcOK, LockInv, Outside
<1>2. PcOK(c)
  BY DEF PcOK, Outside, Wakes, Leaves
<1> QED
  BY <1>1, <1>2, ThreadStep

\* http_fd_pool_connect closes what it had and may get a connection.
LEMMA ConnectStep ==
  ASSUME HttpInv, NEW t \in LruThreads, HttpConnect(t)
  PROVE  HttpInv'
<1>1. PICK peer \in HttpPeers :
         http' = [http EXCEPT ![t] = [HttpConnInit EXCEPT !.pc = IF https THEN "open" ELSE "write",
                                                          !.fd = TRUE, !.peer = peer]]
  BY DEF HttpConnect
<1> DEFINE c == [HttpConnInit EXCEPT !.pc = IF https THEN "open" ELSE "write", !.fd = TRUE, !.peer = peer]
<1>2. /\ http[t].pc = "connect" /\ tries' \in Nat /\ fds' = fds - ConnectCloses(t) + 1 /\ mixed' = FALSE
      /\ UNCHANGED <<lruvars, https, sessions>>
  BY SMTT(10) DEF HttpConnect, HttpAt, ConnectGets, HttpInv, HttpType, HttpFds
<1>3. c \in ConnRec /\ c.pc \in Outside /\ c.slot = 0 /\ ~c.stale /\ ~c.keep /\ c.fd
  BY DEF HttpConnInit, ConnRec, Points, Outside, Peers
<1>4. http' = [http EXCEPT ![t] = c]
  BY <1>1
<1> HIDE DEF c
<1> QED
  BY <1>2, <1>3, <1>4, FreshStep

\* fd_pool_get has no connection left.
LEMMA GiveUpStep ==
  ASSUME HttpInv, NEW t \in LruThreads, HttpGiveUp(t)
  PROVE  HttpInv'
<1> DEFINE c == [HttpConnInit EXCEPT !.pc = "cleanup"]
<1>1. /\ http[t].pc = "connect" /\ tries' \in Nat /\ fds' = fds - ConnectCloses(t) + 0 /\ mixed' = FALSE
      /\ UNCHANGED <<lruvars, https, sessions>>
  BY DEF HttpGiveUp, HttpAt, ConnectCloses, HttpInv, HttpType, HttpFds
<1>2. c \in ConnRec /\ c.pc \in Outside /\ c.slot = 0 /\ ~c.stale /\ ~c.keep /\ ~c.fd
  BY DEF HttpConnInit, ConnRec, Points, Outside, Peers
<1>3. http' = [http EXCEPT ![t] = c]
  BY DEF HttpGiveUp
<1> HIDE DEF c
<1> QED
  BY <1>1, <1>2, <1>3, FreshStep

\* http_fd_pool_cleanup gives back no connection that has spoken TLS.
LEMMA CleanupStep ==
  ASSUME HttpInv, NEW t \in LruThreads, HttpCleanup(t)
  PROVE  HttpInv'
<1>1. PcOK(http[t]) /\ http[t].pc = "cleanup" /\ ~mixed /\ http' = [http EXCEPT ![t] = HttpConnInit]
  BY DEF HttpInv, ConnInv, HttpFds, HttpCleanup, HttpAt
<1>2. mixed' = FALSE
  BY <1>1 DEF HttpCleanup, PutBack, PcOK, HttpInv, HttpType
<1>3. /\ tries' \in Nat /\ fds' = fds - ConnectCloses(t) + 0 /\ UNCHANGED <<lruvars, https, sessions>>
  BY DEF HttpCleanup, ConnectCloses, HttpInv, HttpType
<1>4. /\ HttpConnInit \in ConnRec /\ HttpConnInit.pc \in Outside /\ HttpConnInit.slot = 0
      /\ ~HttpConnInit.stale /\ ~HttpConnInit.keep /\ ~HttpConnInit.fd
  BY DEF HttpConnInit, ConnRec, Points, Outside, Peers
<1> QED
  BY <1>1, <1>2, <1>3, <1>4, FreshStep

\* What the invariant says of one thread.
LEMMA OfThread ==
  ASSUME HttpInv, NEW t \in LruThreads
  PROVE  /\ http[t] \in ConnRec /\ PcOK(http[t])
         /\ http[t].slot # 0 => HoldOK(http[t].new, http[t].pc, ent[http[t].slot])
         /\ http[t].slot # 0 => http[t].slot \in Slots /\ ent[http[t].slot].live /\ ent[http[t].slot] \in EntRec
<1>1. http[t] \in ConnRec /\ PcOK(http[t]) /\ (http[t].slot # 0 => HoldOK(http[t].new, http[t].pc, ent[http[t].slot]))
  BY DEF HttpInv, HttpType, ConnInv
<1>2. ASSUME http[t].slot # 0
      PROVE  http[t].slot \in Slots /\ ent[http[t].slot].live /\ ent[http[t].slot] \in EntRec
  <2>1. http[t].slot \in Slots
    BY <1>1, <1>2 DEF ConnRec
  <2>2. t \in Holders(http[t].slot) /\ http[t].slot \in DOMAIN ent
    BY <2>1 DEF Holders, HttpInv, HttpType
  <2> QED
    BY <2>1, <2>2 DEF HttpInv, EntriesHeld, HttpType
<1> QED
  BY <1>1, <1>2

\* A thread goes on to pc and changes nothing else.
LEMMA PlainStep ==
  ASSUME HttpInv, NEW t \in LruThreads, NEW pc \in Points, HttpGoto(t, pc), http[t].pc # "lookup",
         UNCHANGED <<lruvars, https, fds, sessions, mixed, tries>>,
         pc \in Outside \ {"cleanup"} => http[t].slot = 0,
         pc \in {"wait", "session", "store", "failstore"} \cup Wakes \cup Leaves => http[t].slot # 0,
         pc \in {"store", "failstore"} \cup Wakes => http[t].new, pc # "cleanup",
         http[t].slot # 0 => HoldOK(http[t].new, pc, ent[http[t].slot])
  PROVE  HttpInv'
<1> DEFINE c == [http[t] EXCEPT !.pc = pc]
<1>1. http[t] \in ConnRec /\ PcOK(http[t])
  BY OfThread
<1>2. c \in ConnRec /\ c = [http[t] EXCEPT !.pc = pc, !.tls = c.tls, !.used = c.used, !.keep = c.keep]
  BY <1>1 DEF ConnRec
<1>3. PcOK(c)
  BY <1>1 DEF PcOK, ConnRec
<1>4. http' = [http EXCEPT ![t] = c]
  BY DEF HttpInv, HttpType, HttpGoto
<1> HIDE DEF c
<1> QED
  BY <1>2, <1>3, <1>4, GotoStep

\* tls_open
LEMMA OpenStep ==
  ASSUME HttpInv, NEW t \in LruThreads, TlsOpen(t)
  PROVE  HttpInv'
<1>1. http[t] \in ConnRec /\ PcOK(http[t]) /\ http[t].pc = "open" /\ http[t].slot = 0
  BY OfThread DEF TlsOpen, HttpAt, PcOK, Outside
<1>2. UNCHANGED <<lruvars, https, fds, sessions, mixed, tries>>
  BY DEF TlsOpen
<1>3. CASE HttpGoto(t, "connect")
  BY <1>1, <1>2, <1>3, PlainStep DEF Points, Outside, Wakes, Leaves
<1>4. CASE http' = [http EXCEPT ![t].pc = "lookup", ![t].tls = TRUE, ![t].used = TRUE]
  <2> DEFINE c == [http[t] EXCEPT !.pc = "lookup", !.tls = TRUE, !.used = TRUE]
  <2>1. /\ c \in ConnRec /\ c = [http[t] EXCEPT !.pc = "lookup", !.tls = c.tls, !.used = c.used, !.keep = c.keep]
        /\ "lookup" \in Points
    BY <1>1 DEF ConnRec, Points, Outside
  <2>2. PcOK(c)
    BY <1>1 DEF PcOK, ConnRec, Outside, Wakes, Leaves
  <2>3. http' = [http EXCEPT ![t] = c]
    BY <1>4 DEF HttpInv, HttpType
  <2> HIDE DEF c
  <2> QED
    BY <1>1, <1>2, <2>1, <2>2, <2>3, GotoStep
<1> QED
  BY <1>3, <1>4 DEF TlsOpen, HttpGoto

\* cache_lru's wait ends.
LEMMA WaitStep ==
  ASSUME HttpInv, NEW t \in LruThreads, CacheWait(t)
  PROVE  HttpInv'
<1>1. /\ http[t].pc = "wait" /\ HttpGoto(t, "handshake")
      /\ UNCHANGED <<lruvars, https, fds, sessions, mixed, tries>>
  BY DEF CacheWait, HttpAt
<1>2. http[t].slot # 0 => ~http[t].new /\ ~ent[http[t].slot].pending
  BY <1>1, OfThread DEF CacheWait, HoldOK, FillOK, Fills, Wakes, Leaves
<1> QED
  BY <1>1, <1>2, PlainStep DEF HoldOK, Points, Fills, Outside, Wakes, Leaves

\* tls_connect: who made the entry goes on to fill it whatever comes back.
LEMMA HandshakeStep ==
  ASSUME HttpInv, NEW t \in LruThreads, TlsConnect(t)
  PROVE  HttpInv'
<1> DEFINE s == http[t].slot
<1>1. http[t].pc = "handshake" /\ UNCHANGED <<lruvars, https, fds, sessions, mixed, tries>>
  BY DEF TlsConnect, HttpAt
<1>2. s # 0 => IF http[t].new THEN ent[s].pending /\ ent[s].size = 0 /\ ~ent[s].storage ELSE ~ent[s].pending
  BY <1>1, OfThread DEF HoldOK, FillOK, Fills, Wakes, Leaves
<1>3. CASE HttpGoto(t, HandshakeFailed(t))
  BY <1>1, <1>2, <1>3, PlainStep DEF HandshakeFailed, HoldOK, FillOK, Points, Fills, Outside, Wakes, Leaves
<1>4. CASE HttpGoto(t, IF s = 0 THEN "write" ELSE IF ent[s].storage THEN "leave" ELSE "session")
  <2>1. CASE s = 0
    BY <1>1, <1>4, <2>1, PlainStep DEF Points, Fills, Outside, Wakes, Leaves
  <2>2. CASE s # 0 /\ ~ent[s].storage
    BY <1>1, <1>2, <1>4, <2>2, PlainStep DEF HoldOK, FillOK, Points, Fills, Outside, Wakes, Leaves
  <2>3. CASE s # 0 /\ ent[s].storage
    BY <1>1, <1>2, <1>4, <2>3, PlainStep DEF HoldOK, FillOK, Points, Fills, Outside, Wakes, Leaves
  <2> QED
    BY <2>1, <2>2, <2>3
<1> QED
  BY <1>3, <1>4 DEF TlsConnect

\* A request is written, with TLS or without.
LEMMA WriteStep ==
  ASSUME HttpInv, NEW t \in LruThreads, HttpWrite(t)
  PROVE  HttpInv'
<1>1. /\ http[t] \in ConnRec /\ PcOK(http[t]) /\ http[t].pc = "write" /\ http[t].slot = 0
      /\ UNCHANGED <<lruvars, https, fds, sessions, mixed, tries>>
  BY OfThread DEF HttpWrite, HttpAt, PcOK, Outside
<1>2. CASE \E pc \in {"parse", "connect"} : HttpGoto(t, pc)
  BY <1>1, <1>2, PlainStep DEF Points, Outside, Wakes, Leaves
<1>3. CASE http' = [http EXCEPT ![t].pc = "parse", ![t].tls = FALSE]
  <2> DEFINE c == [http[t] EXCEPT !.pc = "parse", !.tls = FALSE]
  <2>1. /\ c \in ConnRec /\ c = [http[t] EXCEPT !.pc = "parse", !.tls = c.tls, !.used = c.used, !.keep = c.keep]
        /\ "parse" \in Points
    BY <1>1 DEF ConnRec, Points, Outside
  <2>2. PcOK(c)
    BY <1>1 DEF PcOK, ConnRec, Outside, Wakes, Leaves
  <2>3. http' = [http EXCEPT ![t] = c]
    BY <1>3 DEF HttpInv, HttpType
  <2> HIDE DEF c
  <2> QED
    BY <1>1, <2>1, <2>2, <2>3, GotoStep
<1> QED
  BY <1>2, <1>3 DEF HttpWrite

\* An answer is read.
LEMMA ParseStep ==
  ASSUME HttpInv, NEW t \in LruThreads, HttpParse(t)
  PROVE  HttpInv'
<1>1. /\ http[t] \in ConnRec /\ PcOK(http[t]) /\ http[t].pc = "parse" /\ http[t].slot = 0
      /\ UNCHANGED <<lruvars, https, fds, sessions, mixed, tries>>
  BY OfThread DEF HttpParse, HttpAt, PcOK, Outside
<1>2. PICK keep \in BOOLEAN, pc \in {"cleanup", "connect"} :
         /\ keep => http[t].tls = http[t].used
         /\ http' = [http EXCEPT ![t].pc = pc, ![t].keep = keep]
  BY DEF HttpParse
<1> DEFINE c == [http[t] EXCEPT !.pc = pc, !.keep = keep]
<1>3. /\ c \in ConnRec /\ c = [http[t] EXCEPT !.pc = pc, !.tls = c.tls, !.used = c.used, !.keep = c.keep]
      /\ pc \in Points
  BY <1>1 DEF ConnRec, Points, Outside
<1>4. PcOK(c)
  BY <1>1, <1>2 DEF PcOK, ConnRec, Outside, Wakes, Leaves
<1>5. http' = [http EXCEPT ![t] = c]
  BY <1>2 DEF HttpInv, HttpType
<1> HIDE DEF c
<1> QED
  BY <1>1, <1>3, <1>4, <1>5, GotoStep

-----------------------------------------------------------------------------
(***************************************************************************)
(* Steps that change the cache.                                            *)
(***************************************************************************)

\* A session goes with its entry and with nothing else.
LEMMA SessionsMoved ==
  ASSUME HttpInv, ent' \in [Slots -> EntRec], \A r \in Slots : ent'[r].storage <=> ent[r].storage /\ ent'[r].live,
         sessions' = sessions - Cardinality({r \in Slots : ent[r].storage /\ ~ent'[r].live})
  PROVE  SessionsOwned' /\ sessions' \in Int
<1> DEFINE A == {r \in Slots : ent[r].storage}
           D == {r \in Slots : ent[r].storage /\ ~ent'[r].live}
           B == {r \in DOMAIN ent' : ent'[r].storage}
<1>1. DOMAIN ent = Slots /\ DOMAIN ent' = Slots /\ sessions \in Int
  BY DEF HttpInv, HttpType
<1>2. sessions = Cardinality(A)
  BY <1>1 DEF HttpInv, SessionsOwned
<1>3. IsFiniteSet(A) /\ IsFiniteSet(D)
  BY SlotsFinite, FS_Subset
<1>4. B = A \ D /\ A \cap D = D
  BY <1>1
<1> HIDE DEF A, B, D
<1>5. Cardinality(B) = Cardinality(A) - Cardinality(D) /\ Cardinality(D) \in Nat
  BY <1>3, <1>4, FS_Difference, FS_CardinalityType
<1>6. sessions' = Cardinality(B) /\ sessions' \in Int
  BY <1>1, <1>2, <1>5 DEF D
<1> QED
  BY <1>6 DEF B, SessionsOwned

\* A thread that looks up holds nothing, so that the others are what they were.
LEMMA LookupHolds ==
  ASSUME HttpInv, NEW t \in LruThreads, http[t].pc = "lookup"
  PROVE  http[t] \in ConnRec /\ http[t].slot = 0 /\ http[t].stale = FALSE /\ http[t].peer \in Peers
BY OfThread DEF PcOK, Outside, ConnRec

\* What the evictions of a step free.
SessionsFreed == sessions' = sessions - Cardinality({r \in Slots : ent[r].storage /\ ~ent'[r].live})

\* The first case of cache_lru.
HitBy(t, s, c) ==
    /\ http[t].pc = "lookup" /\ Unlocked /\ s \in Found(http[t].peer) /\ Hit(s)
    /\ c = Gets(t, IF ent[s].pending THEN "wait" ELSE "handshake", s, FALSE) /\ http' = [http EXCEPT ![t] = c]
    /\ SessionsFreed /\ UNCHANGED <<https, fds, mixed, tries>>

\* What a change of one field of an entry leaves alone.
LEMMA UsersSet ==
  ASSUME NEW e \in EntRec, NEW n \in Int, NEW f, f = [e EXCEPT !.users = n]
  PROVE  /\ f \in EntRec /\ f.users = n /\ f.live = e.live /\ f.pending = e.pending /\ f.storage = e.storage
         /\ f.size = e.size /\ f.rindex = e.rindex /\ f.born = e.born
BY SMTT(10) DEF EntRec

\* cache_lru finds the entry.
LEMMA HitStep ==
  ASSUME HttpInv, NEW t \in LruThreads, NEW s, NEW c, HitBy(t, s, c)
  PROVE  HttpInv'
<1>1. /\ http \in [LruThreads -> ConnRec] /\ ent \in [Slots -> EntRec] /\ lru \in LruRec /\ HttpType
      /\ lru.list \in Seq(Slots) /\ Once(lru.list)
  BY DEF HttpInv, HttpType, LruRec, ListInv
<1>2. http[t] \in ConnRec /\ http[t].slot = 0
  BY LookupHolds DEF HitBy
<1>3. s \in Range(lru.list) /\ s \in Slots /\ s # 0 /\ ent[s].live /\ ent[s].rindex = lru.rindex
  <2>1. s \in Range(lru.list) /\ ent[s].rindex = lru.rindex
    BY DEF HitBy, Found
  <2>2. s \in Slots
    BY SMTT(10), <1>1, <2>1 DEF Range
  <2> QED
    BY <2>1, <2>2, SlotsFinite DEF HttpInv, ListInv
<1>4. /\ lru' \in LruRec /\ Once(lru'.list) /\ Range(lru'.list) = Range(lru.list) /\ Len(lru'.list) = Len(lru.list)
      /\ SameSize(lru', lru) /\ lru'.rindex = lru.rindex /\ lru'.lock = lru.lock /\ lru'.epoch = lru.epoch
      /\ lru'.wrapped = lru.wrapped
  <2> DEFINE w == Without(lru.list, s)
  <2>1. w \in Seq(Slots) /\ Once(w) /\ Range(w) = Range(lru.list) \ {s} /\ Len(w) = Len(lru.list) - 1
    BY SMTT(10), <1>1, <1>3, WithoutOnce
  <2> HIDE DEF w
  <2>2. /\ Append(w, s) \in Seq(Slots) /\ Once(Append(w, s)) /\ Range(Append(w, s)) = Range(w) \cup {s}
        /\ Len(Append(w, s)) = Len(w) + 1
    BY SMTT(10), <1>3, <2>1, AppendOnce
  <2>3. lru' = [lru EXCEPT !.list = Append(w, s)]
    BY DEF HitBy, Hit, w
  <2>4. /\ lru' \in LruRec /\ lru'.list = Append(w, s)
        /\ SameSize(lru', lru) /\ lru'.rindex = lru.rindex /\ lru'.lock = lru.lock /\ lru'.epoch = lru.epoch
        /\ lru'.wrapped = lru.wrapped
    BY <1>1, <2>2, <2>3 DEF LruRec, SameSize
  <2>5. Range(lru'.list) = Range(lru.list)
    BY <1>3, <2>1, <2>2, <2>4
  <2>6. Len(lru'.list) = Len(lru.list)
    BY SMTT(10), <1>1, <2>1, <2>2, <2>4
  <2> QED
    BY <2>2, <2>4, <2>5, <2>6
<1>5. /\ ent' \in [Slots -> EntRec] /\ ent'[s].users = ent[s].users + 1
      /\ \A r \in Slots : r # s => ent'[r] = ent[r]
      /\ ent'[s].live = ent[s].live /\ ent'[s].pending = ent[s].pending /\ ent'[s].storage = ent[s].storage
      /\ ent'[s].size = ent[s].size /\ ent'[s].rindex = ent[s].rindex /\ ent'[s].born = ent[s].born
  <2> DEFINE e == [ent[s] EXCEPT !.users = @ + 1]
  <2>1. ent[s] \in EntRec /\ ent[s].users + 1 \in Int
    <3>1. ent[s] \in EntRec
      BY <1>1, <1>3
    <3> QED
      BY SMTT(10), <3>1 DEF EntRec
  <2>2. /\ e \in EntRec /\ e.users = ent[s].users + 1
        /\ e.live = ent[s].live /\ e.pending = ent[s].pending /\ e.storage = ent[s].storage
        /\ e.size = ent[s].size /\ e.rindex = ent[s].rindex /\ e.born = ent[s].born
    BY SMTT(10), <2>1, UsersSet
  <2>3. ent' = [ent EXCEPT ![s] = e]
    BY <1>1 DEF HitBy, Hit
  <2> HIDE DEF e
  <2> QED
    BY <1>1, <1>3, <2>2, <2>3
<1>6. \A r \in Slots : /\ ent'[r].live = ent[r].live /\ ent'[r].pending = ent[r].pending
                       /\ ent'[r].storage = ent[r].storage /\ ent'[r].size = ent[r].size
                       /\ ent'[r].rindex = ent[r].rindex /\ ent'[r].born = ent[r].born
  BY <1>5
<1>7. /\ c \in ConnRec /\ c.slot = s /\ c.new = FALSE /\ c.stale = (ent[s].born # lru.epoch) /\ c.fd = http[t].fd
      /\ c.pc = (IF ent[s].pending THEN "wait" ELSE "handshake")
  BY <1>2, <1>3 DEF HitBy, Gets, ConnRec, Points, Fills
<1>8. http' = [http EXCEPT ![t] = c]
  BY DEF HitBy
<1>9. http'[t] = c /\ \A u \in LruThreads : u # t => http'[u] = http[u]
  BY <1>1, <1>8
<1>10. SessionsOwned' /\ sessions' \in Int
  <2>1. \A r \in Slots : ent'[r].storage <=> ent[r].storage /\ ent'[r].live
    BY <1>1, <1>6 DEF HttpInv, FreeInv, EntRec
  <2> QED
    BY <1>5, <2>1, SessionsMoved DEF HitBy, SessionsFreed
<1>11. HttpType'
  <2>1. http' \in [LruThreads -> ConnRec]
    BY <1>1, <1>7, <1>8
  <2> QED
    BY <1>1, <1>4, <1>5, <1>10, <2>1 DEF HitBy, HttpType
<1>12. (ListInv /\ FreeInv)'
  BY <1>4, <1>6 DEF HttpInv, ListInv, FreeInv
<1>13. LockInv'
  BY <1>4, LruAssumption DEF HitBy, LockInv, Unlocked, NoThread
<1>14. ConnInv'
  <2>1. PcOK(c) /\ HoldOK(c.new, c.pc, ent'[s])
    BY <1>3, <1>6, <1>7 DEF PcOK, HoldOK, Outside, Wakes, Leaves
  <2>2. ASSUME NEW u \in LruThreads, u # t, http[u].slot # 0
        PROVE  HoldOK(http[u].new, http[u].pc, ent'[http[u].slot])
    BY <1>6, <2>2, OfThread DEF HoldOK, FillOK
  <2> QED
    BY <1>7, <1>9, <2>1, <2>2 DEF HttpInv, ConnInv
<1>15. MakerInv'
  BY <1>7, <1>9 DEF HttpInv, MakerInv
<1>16. FillerInv'
  <2>1. SUFFICES ASSUME NEW r \in Slots, ent[r].live, ent[r].pending \/ ent[r].size = 0
                 PROVE  \E u \in LruThreads : http'[u].slot = r /\ http'[u].new
    BY <1>6 DEF FillerInv
  <2>2. PICK u \in LruThreads : http[u].slot = r /\ http[u].new
    BY <2>1 DEF HttpInv, FillerInv
  <2>3. r # 0
    BY SlotsFinite
  <2> QED
    BY <1>2, <1>9, <2>2, <2>3
<1>17. EpochInv'
  BY <1>4, <1>6 DEF HttpInv, EpochInv
<1>18. (SizeInv /\ SizeBounded)'
  <2>1. Counted' = Counted
    <3>1. Range(lru.list) \subseteq Slots
      BY SMTT(10), <1>1 DEF Range
    <3> QED
      BY <1>4, <1>6, <3>1 DEF Counted
  <2> QED
    BY <1>4, <2>1 DEF HttpInv, SizeInv, CutOK, SizeBounded, SameSize
<1>19. EntriesHeld'
  <2>1. ASSUME NEW r \in Slots
        PROVE  ent'[r].users = ent[r].users - One(http[t].slot, r) + One(c.slot, r)
    <3>1. ent[r].users \in Int /\ r # 0
      BY <1>1, SlotsFinite DEF EntRec
    <3> QED
      BY SMTT(10), <1>2, <1>5, <1>7, <3>1 DEF One
  <2>2. ASSUME NEW r \in Slots
        PROVE  ent'[r].live \/ (c.slot # r /\ (ent[r].users = 0 \/ ent'[r].live = ent[r].live))
    BY <1>3, <1>5, <1>6, <1>7
  <2>3. HeldOK(ent', http')
    BY <1>7, <1>8, <2>1, <2>2, HeldMoved
  <2> QED
    BY <1>11, <2>3, HeldIsNext
<1>20. NotStale'
  <2>1. c.stale => lru.wrapped
    <3>1. lru.epoch \in Nat /\ ent[s].born \in Nat /\ lru.rindex \in Int
      <4>1. ent[s] \in EntRec
        BY <1>1, <1>3
      <4>2. ent[s].born \in Nat
        BY <4>1 DEF EntRec
      <4>3. lru.epoch \in Nat /\ lru.rindex \in Indexes
        BY <1>1 DEF LruRec
      <4> QED
        BY <4>2, <4>3, LruAssumption DEF Indexes
    <3>2. ~lru.wrapped => lru.epoch - ent[s].born = lru.rindex - ent[s].rindex
      BY <1>3 DEF HttpInv, EpochInv
    <3>3. ~lru.wrapped => lru.epoch = ent[s].born
      BY <1>3, <3>1, <3>2
    <3> QED
      BY <1>7, <3>3
  <2> QED
    BY <1>1, <1>4, <1>9, <1>11, <2>1 DEF HttpInv, NotStale, HttpType
<1>21. HttpFds'
  <2>1. fds' = fds - ConnectCloses(t) + (IF c.fd THEN 1 ELSE 0)
    <3>1. fds \in Int /\ fds' = fds
      BY <1>1 DEF HitBy, HttpType
    <3> QED
      BY <1>7, <3>1 DEF ConnectCloses
  <2> QED
    BY <1>1, <1>7, <1>8, <2>1, FdsMoved DEF HitBy, HttpInv, HttpFds
<1> QED
  BY <1>10, <1>11, <1>12, <1>13, <1>14, <1>15, <1>16, <1>17, <1>18, <1>19, <1>20, <1>21 DEF HttpInv

\* cache_lru makes an entry, at once or after it has made room.
InsertBy(t, c) ==
    /\ http[t].pc = "lookup" /\ lru.lock # "owner" /\ lru.cut = 0 /\ ~Full /\ Insert(http[t].peer)
    /\ c = Gets(t, "handshake", NewSlot, TRUE) /\ http' = [http EXCEPT ![t] = c]
    /\ SessionsFreed /\ UNCHANGED <<https, fds, mixed, tries>>

\* An entry whose key, index and age are what they should be.
LEMMA EntryMade ==
  ASSUME NEW key \in Peers, NEW rindex \in Indexes, NEW born \in Nat, NEW live \in BOOLEAN, NEW users \in Int,
         NEW pending \in BOOLEAN
  PROVE  [live |-> live, key |-> key, rindex |-> rindex, users |-> users, pending |-> pending, storage |-> FALSE,
          size |-> 0, born |-> born] \in EntRec
BY SMTT(10) DEF EntRec

\* An address without an entry.
LEMMA FreedEntry == Freed \in EntRec
<1>1. "" \in Peers /\ 0 \in Indexes /\ 0 \in Nat /\ 0 \in Int /\ FALSE \in BOOLEAN
  BY LruAssumption DEF Peers, Indexes
<1> QED
  BY Zenon, <1>1, EntryMade DEF Freed

\* Such a step of cache_lru keeps the invariant.
LEMMA InsertStep ==
  ASSUME HttpInv, NEW t \in LruThreads, NEW c, InsertBy(t, c)
  PROVE  HttpInv'
<1> DEFINE s == NewSlot
<1>1. /\ http \in [LruThreads -> ConnRec] /\ ent \in [Slots -> EntRec] /\ lru \in LruRec /\ HttpType
      /\ lru.list \in Seq(Slots) /\ Once(lru.list) /\ Range(lru.list) \subseteq Slots
  BY SMTT(10) DEF HttpInv, HttpType, LruRec, ListInv, Range
<1>2. http[t] \in ConnRec /\ http[t].slot = 0 /\ http[t].peer \in Peers
  BY LookupHolds DEF InsertBy
<1>3. s \in Slots /\ ~ent[s].live /\ Len(lru.list) + 1 <= LruMax - 1 + Cardinality(LruThreads) + lru.lost
  BY <1>2, RoomForOne DEF InsertBy, Insert
<1> HIDE DEF s
<1>4. s # 0 /\ s \notin Range(lru.list) /\ \A u \in LruThreads : http[u].slot # s
  BY <1>3, SlotsFinite, OfThread DEF HttpInv, ListInv
<1>5. /\ lru' \in LruRec /\ Once(lru'.list) /\ Range(lru'.list) = Range(lru.list) \cup {s}
      /\ Len(lru'.list) = Len(lru.list) + 1 /\ lru'.lock = NoThread
      /\ SameSize(lru', lru) /\ lru'.rindex = lru.rindex /\ lru'.epoch = lru.epoch /\ lru'.wrapped = lru.wrapped
  <2>1. /\ Append(lru.list, s) \in Seq(Slots) /\ Once(Append(lru.list, s))
        /\ Range(Append(lru.list, s)) = Range(lru.list) \cup {s} /\ Len(Append(lru.list, s)) = Len(lru.list) + 1
    BY <1>1, <1>3, <1>4, AppendOnce
  <2>2. lru' = [lru EXCEPT !.list = Append(lru.list, s), !.lock = NoThread]
    BY DEF InsertBy, Insert, s
  <2>3. /\ lru' \in LruRec /\ lru'.list = Append(lru.list, s) /\ lru'.lock = NoThread
        /\ SameSize(lru', lru) /\ lru'.rindex = lru.rindex /\ lru'.epoch = lru.epoch /\ lru'.wrapped = lru.wrapped
    BY <1>1, <2>1, <2>2 DEF LruRec, SameSize
  <2> QED
    BY <2>1, <2>3
<1>6. /\ ent' \in [Slots -> EntRec] /\ \A r \in Slots : r # s => ent'[r] = ent[r]
      /\ ent'[s].live = TRUE /\ ent'[s].users = 1 /\ ent'[s].pending = TRUE /\ ent'[s].storage = FALSE
      /\ ent'[s].size = 0 /\ ent'[s].rindex = lru.rindex /\ ent'[s].born = lru.epoch
  <2> DEFINE e == [live |-> TRUE, key |-> http[t].peer, rindex |-> lru.rindex, users |-> 1, pending |-> TRUE,
                   storage |-> FALSE, size |-> 0, born |-> lru.epoch]
  <2>1. lru.rindex \in Indexes /\ lru.epoch \in Nat /\ TRUE \in BOOLEAN /\ 1 \in Int
    BY SMTT(10), <1>1 DEF LruRec
  <2>2. /\ e \in EntRec /\ e.live = TRUE /\ e.users = 1 /\ e.pending = TRUE /\ e.storage = FALSE
        /\ e.size = 0 /\ e.rindex = lru.rindex /\ e.born = lru.epoch
    BY Zenon, <1>2, <2>1, EntryMade
  <2>3. ent' = [ent EXCEPT ![s] = e]
    BY DEF InsertBy, Insert, s
  <2> HIDE DEF e
  <2> QED
    BY <1>1, <1>3, <2>2, <2>3
<1>7. /\ c \in ConnRec /\ c.slot = s /\ c.new = TRUE /\ c.stale = FALSE /\ c.fd = http[t].fd
      /\ c.pc = "handshake"
  BY <1>2, <1>3 DEF InsertBy, Gets, ConnRec, Points, Fills, s
<1>8. http' = [http EXCEPT ![t] = c]
  BY DEF InsertBy
<1>9. http'[t] = c /\ \A u \in LruThreads : u # t => http'[u] = http[u]
  BY <1>1, <1>8
<1>10. SessionsOwned' /\ sessions' \in Int
  <2>1. ASSUME NEW r \in Slots
        PROVE  ent'[r].storage <=> ent[r].storage /\ ent'[r].live
    BY <1>1, <1>3, <1>6 DEF HttpInv, FreeInv, EntRec
  <2> QED
    BY <1>6, <2>1, SessionsMoved DEF InsertBy, SessionsFreed
<1>11. HttpType'
  <2>1. http' \in [LruThreads -> ConnRec]
    BY <1>1, <1>7, <1>8
  <2> QED
    BY <1>1, <1>5, <1>6, <1>10, <2>1 DEF InsertBy, HttpType
<1>12. (ListInv /\ FreeInv)'
  BY <1>3, <1>5, <1>6 DEF HttpInv, ListInv, FreeInv
<1>13. LockInv'
  BY <1>5, LruAssumption DEF LockInv, NoThread
<1>14. ConnInv'
  <2>1. PcOK(c) /\ HoldOK(c.new, c.pc, ent'[s])
    BY <1>4, <1>6, <1>7 DEF PcOK, HoldOK, FillOK, Outside, Fills, Wakes, Leaves
  <2>2. ASSUME NEW u \in LruThreads, u # t, http[u].slot # 0
        PROVE  HoldOK(http[u].new, http[u].pc, ent'[http[u].slot])
    BY <1>4, <1>6, <2>2, OfThread
  <2> QED
    BY <1>7, <1>9, <2>1, <2>2 DEF HttpInv, ConnInv
<1>15. MakerInv'
  BY <1>4, <1>7, <1>9 DEF HttpInv, MakerInv
<1>16. FillerInv'
  <2>1. SUFFICES ASSUME NEW r \in Slots, ent'[r].live, ent'[r].pending \/ ent'[r].size = 0
                 PROVE  \E u \in LruThreads : http'[u].slot = r /\ http'[u].new
    BY DEF FillerInv
  <2>2. CASE r = s
    BY <1>7, <1>9, <2>2
  <2>3. CASE r # s
    <3>1. PICK u \in LruThreads : http[u].slot = r /\ http[u].new
      BY <1>6, <2>1, <2>3 DEF HttpInv, FillerInv
    <3>2. r # 0
      BY SlotsFinite
    <3> QED
      BY <1>2, <1>9, <3>1, <3>2
  <2> QED
    BY <2>2, <2>3
<1>17. EpochInv'
  <2>1. lru.rindex \in Int /\ lru.epoch \in Int
    BY SMTT(10), <1>1, LruAssumption DEF LruRec, Indexes
  <2> QED
    BY SMTT(10), <1>5, <1>6, <2>1 DEF HttpInv, EpochInv
<1>18. (SizeInv /\ SizeBounded)'
  <2>1. Counted' = Counted
    BY SMTT(10), <1>1, <1>4, <1>5, <1>6 DEF Counted
  <2>2. lru.cut = 0 /\ lru.lock # "owner"
    BY DEF InsertBy
  <2> QED
    BY <1>3, <1>5, <2>1, <2>2 DEF HttpInv, SizeInv, CutOK, SizeBounded, SameSize
<1>19. EntriesHeld'
  <2>1. ASSUME NEW r \in Slots
        PROVE  ent'[r].users = ent[r].users - One(http[t].slot, r) + One(c.slot, r)
    <3>1. ent[r].users \in Int /\ r # 0
      BY <1>1, SlotsFinite DEF EntRec
    <3>2. ent[s].users = 0
      <4>1. HeldOK(ent, http) /\ Holding(http, s) = {}
        BY <1>1, <1>4, HeldIs DEF HttpInv, Holding
      <4> QED
        BY <1>3, <4>1, FS_EmptySet DEF HeldOK
    <3> QED
      BY SMTT(10), <1>2, <1>6, <1>7, <3>1, <3>2 DEF One
  <2>2. ASSUME NEW r \in Slots
        PROVE  ent'[r].live \/ (c.slot # r /\ (ent[r].users = 0 \/ ent'[r].live = ent[r].live))
    BY <1>6, <1>7
  <2>3. HeldOK(ent', http')
    BY <1>7, <1>8, <2>1, <2>2, HeldMoved
  <2> QED
    BY <1>11, <2>3, HeldIsNext
<1>20. NotStale'
  BY <1>1, <1>5, <1>7, <1>9, <1>11 DEF HttpInv, NotStale, HttpType
<1>21. HttpFds'
  <2>1. fds' = fds - ConnectCloses(t) + (IF c.fd THEN 1 ELSE 0)
    <3>1. fds \in Int /\ fds' = fds
      BY <1>1 DEF InsertBy, HttpType
    <3> QED
      BY <1>7, <3>1 DEF ConnectCloses
  <2> QED
    BY <1>1, <1>7, <1>8, <2>1, FdsMoved DEF InsertBy, HttpInv, HttpFds
<1> QED
  BY <1>10, <1>11, <1>12, <1>13, <1>14, <1>15, <1>16, <1>17, <1>18, <1>19, <1>20, <1>21 DEF HttpInv

\* An entry without users leaves the cache, evicted or flushed.
UnlinkBy(s, seen, cut) ==
    /\ s \in Range(lru.list) /\ ent[s].users = 0 /\ Unlink(s, seen, cut)
    /\ \/ lru.lock \in LruThreads /\ lru.cut = 0 /\ Full /\ seen = lru.size /\ cut = ent[s].size
       \/ lru.lock = "owner" /\ seen = lru.seen /\ cut = lru.cut
    /\ SessionsFreed /\ UNCHANGED <<http, https, fds, mixed, tries>>

\* Such a step, of cache_lru or lru_flush, keeps the invariant.
LEMMA UnlinkStep ==
  ASSUME HttpInv, NEW s, NEW seen, NEW cut, UnlinkBy(s, seen, cut)
  PROVE  HttpInv'
<1>1. /\ http \in [LruThreads -> ConnRec] /\ ent \in [Slots -> EntRec] /\ lru \in LruRec /\ HttpType
      /\ lru.list \in Seq(Slots) /\ Once(lru.list) /\ Range(lru.list) \subseteq Slots
  BY SMTT(10) DEF HttpInv, HttpType, LruRec, ListInv, Range
<1>2. /\ s \in Range(lru.list) /\ s \in Slots /\ ent[s].live /\ ent[s] \in EntRec /\ http' = http
  BY <1>1 DEF UnlinkBy, HttpInv, ListInv
<1>3. HeldOK(ent, http) /\ Holding(http, s) = {} /\ \A u \in LruThreads : http[u].slot # s
  <2>1. HeldOK(ent, http)
    BY <1>1, HeldIs DEF HttpInv
  <2>2. Cardinality(Holding(http, s)) = 0
    BY <1>2, <2>1 DEF HeldOK, UnlinkBy
  <2>3. IsFiniteSet(Holding(http, s))
    <3>1. Holding(http, s) \in SUBSET LruThreads
      BY DEF Holding
    <3> QED
      BY <3>1, ThreadsFinite, FS_Subset
  <2>4. Holding(http, s) = {}
    BY <2>2, <2>3, FS_EmptySet
  <2> QED
    BY <2>1, <2>4 DEF Holding
<1>4. ent[s].size = 1
  BY <1>2, <1>3 DEF HttpInv, FillerInv, EntRec
<1>5. seen \in Int /\ cut \in {0, 1}
  BY SMTT(10), <1>1, <1>4 DEF UnlinkBy, LruRec
<1>6. /\ lru' \in LruRec /\ Once(lru'.list) /\ Range(lru'.list) = Range(lru.list) \ {s}
      /\ Len(lru'.list) = Len(lru.list) - 1
      /\ lru'.size = lru.size /\ lru'.lost = lru.lost /\ lru'.seen = seen /\ lru'.cut = cut
      /\ lru'.lock = lru.lock /\ lru'.rindex = lru.rindex /\ lru'.epoch = lru.epoch /\ lru'.wrapped = lru.wrapped
  <2> DEFINE w == Without(lru.list, s)
  <2>1. w \in Seq(Slots) /\ Once(w) /\ Range(w) = Range(lru.list) \ {s} /\ Len(w) = Len(lru.list) - 1
    BY <1>1, <1>2, WithoutOnce
  <2>2. lru' = [lru EXCEPT !.list = w, !.seen = seen, !.cut = cut]
    BY DEF UnlinkBy, Unlink
  <2> HIDE DEF w
  <2>3. /\ lru' \in LruRec /\ lru'.list = w
        /\ lru'.size = lru.size /\ lru'.lost = lru.lost /\ lru'.seen = seen /\ lru'.cut = cut
        /\ lru'.lock = lru.lock /\ lru'.rindex = lru.rindex /\ lru'.epoch = lru.epoch /\ lru'.wrapped = lru.wrapped
    BY <1>1, <1>5, <2>1, <2>2 DEF LruRec
  <2> QED
    BY <2>1, <2>3
<1>7. ent' \in [Slots -> EntRec] /\ ent'[s] = Freed /\ \A r \in Slots : r # s => ent'[r] = ent[r]
  BY <1>1, <1>2, FreedEntry DEF UnlinkBy, Unlink
<1>8. /\ Freed.live = FALSE /\ Freed.pending = FALSE /\ Freed.storage = FALSE /\ Freed.users = 0
  BY DEF Freed
<1>9. SessionsOwned' /\ sessions' \in Int
  <2>1. ASSUME NEW r \in Slots
        PROVE  ent'[r].storage <=> ent[r].storage /\ ent'[r].live
    <3>1. CASE r = s
      BY <1>7, <1>8, <3>1
    <3>2. CASE r # s
      BY <1>1, <1>7, <3>2 DEF HttpInv, FreeInv, EntRec
    <3> QED
      BY <3>1, <3>2
  <2> QED
    BY <1>7, <2>1, SessionsMoved DEF UnlinkBy, SessionsFreed
<1>10. HttpType'
  BY <1>1, <1>6, <1>7, <1>9 DEF UnlinkBy, HttpType
<1>11. (ListInv /\ FreeInv)'
  BY <1>6, <1>7, <1>8 DEF HttpInv, ListInv, FreeInv
<1>12. (LockInv /\ MakerInv /\ NotStale /\ HttpFds)'
  BY <1>6 DEF UnlinkBy, HttpInv, LockInv, MakerInv, NotStale, HttpFds
<1>13. ConnInv'
  <2>1. ASSUME NEW u \in LruThreads, http[u].slot # 0
        PROVE  HoldOK(http[u].new, http[u].pc, ent'[http[u].slot])
    BY <1>3, <1>7, <2>1, OfThread
  <2> QED
    BY <1>2, <2>1 DEF HttpInv, ConnInv
<1>14. FillerInv'
  BY <1>2, <1>7, <1>8 DEF HttpInv, FillerInv
<1>15. EpochInv'
  BY <1>6, <1>7, <1>8 DEF HttpInv, EpochInv
<1>16. SizeInv'
  <2>1. lru.size \in Int /\ lru.lost \in Int /\ CutOK(lru)
    BY <1>1 DEF LruRec, HttpInv, SizeInv
  <2>2. Counted' = Counted \ {s} /\ s \in Counted
    BY <1>1, <1>2, <1>4, <1>6, <1>7 DEF Counted
  <2>3. IsFiniteSet(Counted)
    BY <1>1, OnceCounts, FS_Subset DEF Counted
  <2>4. Cardinality(Counted') = Cardinality(Counted) - 1 /\ Cardinality(Counted) \in Nat
    BY <2>2, <2>3, FS_RemoveElement, FS_CardinalityType
  <2>5. CASE lru.lock \in LruThreads /\ lru.cut = 0 /\ Full /\ seen = lru.size /\ cut = ent[s].size
    <3>1. lru.size >= 1 /\ lru.lock # "owner"
      BY <2>1, <2>5, LruAssumption DEF Full
    <3>2. CutOK(lru')
      BY <1>4, <1>6, <2>1, <2>5, <3>1 DEF CutOK
    <3>3. lru.size + lru.lost = Cardinality(Counted) + 0
      BY <2>5, <3>1 DEF HttpInv, SizeInv
    <3>4. lru'.size + lru'.lost = Cardinality(Counted') + lru'.cut
      BY <1>4, <1>6, <2>1, <2>4, <2>5, <3>3
    <3> QED
      BY <3>2, <3>4 DEF SizeInv
  <2>6. CASE lru.lock = "owner" /\ seen = lru.seen /\ cut = lru.cut
    BY <1>6, <2>1, <2>6 DEF SizeInv, CutOK
  <2> QED
    BY <2>5, <2>6 DEF UnlinkBy
<1>17. SizeBounded'
  <2>1. lru.lost \in Int /\ Len(lru.list) \in Nat
    BY <1>1 DEF LruRec
  <2> QED
    BY SMTT(10), <1>6, <2>1, ThreadsFinite, LruAssumption DEF HttpInv, SizeBounded
<1>18. EntriesHeld'
  <2>1. HeldOK(ent', http')
    BY <1>2, <1>3, <1>7, <1>8, FS_EmptySet DEF HeldOK
  <2> QED
    BY <1>10, <2>1, HeldIsNext
<1> QED
  BY <1>9, <1>10, <1>11, <1>12, <1>13, <1>14, <1>15, <1>16, <1>17, <1>18 DEF HttpInv

\* A step that leaves the entries and the threads alone.
LEMMA ListKeptStep ==
  ASSUME HttpInv, lru' \in LruRec, lru'.list = lru.list, UNCHANGED <<ent, http, https, fds, mixed, tries>>,
         SessionsFreed, LockInv', EpochInv', SizeInv', SizeBounded', NotStale'
  PROVE  HttpInv'
<1>1. SessionsOwned' /\ sessions' \in Int
  <2>1. ent' \in [Slots -> EntRec] /\ \A r \in Slots : ent'[r].storage <=> ent[r].storage /\ ent'[r].live
    BY DEF HttpInv, HttpType, FreeInv, EntRec
  <2> QED
    BY <2>1, SessionsMoved DEF SessionsFreed
<1>2. HttpType'
  BY <1>1 DEF HttpInv, HttpType
<1>3. (ListInv /\ FreeInv /\ ConnInv /\ MakerInv /\ FillerInv /\ HttpFds)'
  BY DEF HttpInv, ListInv, FreeInv, ConnInv, MakerInv, FillerInv, HttpFds
<1>4. EntriesHeld'
  BY DEF HttpInv, EntriesHeld, Holders
<1> QED
  BY <1>1, <1>2, <1>3, <1>4 DEF HttpInv

\* Nobody is about to write the size while the mutex is free or the owner's.
LEMMA UncutUnlocked ==
  ASSUME HttpInv, Unlocked \/ lru.lock = "owner"
  PROVE  lru.cut = 0
BY LruAssumption DEF HttpInv, SizeInv, CutOK, Unlocked, NoThread

\* The write of the size: what was added since the read is lost.
LEMMA CutStep ==
  ASSUME HttpInv, NEW t \in LruThreads, lru.lock = t, Evicting, EvictSize,
         SessionsFreed, UNCHANGED <<http, https, fds, mixed, tries>>
  PROVE  HttpInv'
<1> DEFINE size == lru.seen - lru.cut
           lost == lru.lost + (lru.size - lru.seen)
<1>1. lru \in LruRec /\ lru.size \in Int /\ lru.seen \in Int /\ lru.lost \in Int /\ lru.cut = 1
  BY DEF HttpInv, HttpType, LruRec, Evicting
<1>2. size \in Int /\ lost \in Int /\ size >= 0 /\ lost >= lru.lost /\ lost >= 0 /\ size + lost = lru.size + lru.lost - 1
  BY <1>1 DEF HttpInv, SizeInv, CutOK
<1>3. lru' = [lru EXCEPT !.size = size, !.lost = lost, !.seen = 0, !.cut = 0] /\ UNCHANGED ent
  BY DEF EvictSize
<1> HIDE DEF size, lost
<1>4. lru' \in LruRec /\ lru'.size = size /\ lru'.lost = lost /\ lru'.cut = 0
  <2>1. 0 \in Int /\ 0 \in {0, 1}
    OBVIOUS
  <2>2. lru' \in LruRec
    BY <1>1, <1>2, <1>3, <2>1 DEF LruRec
  <2> QED
    BY <1>1, <1>3, <2>2 DEF LruRec
<1>5. /\ lru'.list = lru.list /\ lru'.lock = lru.lock
      /\ lru'.rindex = lru.rindex /\ lru'.epoch = lru.epoch /\ lru'.wrapped = lru.wrapped
  BY SMTT(10), <1>1, <1>3 DEF LruRec
<1>6. (LockInv /\ EpochInv /\ NotStale)'
  BY <1>3, <1>5 DEF HttpInv, LockInv, EpochInv, NotStale
<1>7. Counted' = Counted /\ Cardinality(Counted) \in Nat
  <2>1. Counted' = Counted
    BY <1>3, <1>5 DEF Counted
  <2>2. lru.list \in Seq(Slots) /\ Once(lru.list)
    BY <1>1 DEF LruRec, HttpInv, ListInv
  <2> QED
    BY <2>1, <2>2, OnceCounts, FS_Subset, FS_CardinalityType DEF Counted
<1>8. SizeInv'
  <2>1. CutOK(lru')
    BY <1>2, <1>4 DEF CutOK
  <2>2. lru.size + lru.lost = Cardinality(Counted) + 1
    BY <1>1, LruAssumption DEF HttpInv, SizeInv
  <2>3. lru'.size + lru'.lost = Cardinality(Counted') + lru'.cut
    BY <1>1, <1>2, <1>4, <1>7, <2>2
  <2> QED
    BY <2>1, <2>3 DEF SizeInv
<1>9. SizeBounded'
  <2>1. Len(lru.list) \in Nat /\ Len(lru.list) <= LruMax - 1 + Cardinality(LruThreads) + lru.lost
    BY <1>1 DEF LruRec, HttpInv, SizeBounded
  <2>2. Len(lru.list) <= LruMax - 1 + Cardinality(LruThreads) + lost
    BY <1>1, <1>2, <2>1, ThreadsFinite, LruAssumption
  <2> QED
    BY <1>4, <1>5, <2>2 DEF SizeBounded
<1> QED
  BY <1>3, <1>4, <1>5, <1>6, <1>8, <1>9, ListKeptStep

\* A full cache: the thread keeps the mutex to make room.
LEMMA LockStep ==
  ASSUME HttpInv, NEW t \in LruThreads, http[t].pc = "lookup", Unlocked, lru' = [lru EXCEPT !.lock = t],
         SessionsFreed, UNCHANGED <<ent, http, https, fds, mixed, tries>>
  PROVE  HttpInv'
<1>1. lru \in LruRec
  BY DEF HttpInv, HttpType
<1>2. /\ lru' \in LruRec /\ lru'.list = lru.list /\ lru'.lock = t /\ SameSize(lru', lru)
      /\ lru'.rindex = lru.rindex /\ lru'.epoch = lru.epoch /\ lru'.wrapped = lru.wrapped
  BY <1>1 DEF LruRec, SameSize
<1>3. LockInv'
  BY <1>2 DEF LockInv
<1>4. (EpochInv /\ NotStale)'
  BY <1>2 DEF HttpInv, EpochInv, NotStale
<1>5. (SizeInv /\ SizeBounded)'
  BY <1>2, UncutUnlocked DEF HttpInv, SizeInv, SizeBounded, CutOK, Counted, Unlocked, NoThread, SameSize
<1> QED
  BY <1>2, <1>3, <1>4, <1>5, ListKeptStep

\* Every entry is in use: the thread goes on without one.
NoRoomBy(t, c) ==
    /\ lru.lock = t /\ lru.cut = 0 /\ lru' = [lru EXCEPT !.lock = NoThread] /\ c = Gets(t, "handshake", 0, TRUE)
    /\ http' = [http EXCEPT ![t] = c] /\ SessionsFreed /\ UNCHANGED <<ent, https, fds, mixed, tries>>

\* Such a step of cache_lru keeps the invariant.
LEMMA NoRoomStep ==
  ASSUME HttpInv, NEW t \in LruThreads, NEW c, NoRoomBy(t, c)
  PROVE  HttpInv'
<1>1. http \in [LruThreads -> ConnRec] /\ ent \in [Slots -> EntRec] /\ lru \in LruRec /\ HttpType /\ ent' = ent
  BY DEF HttpInv, HttpType, NoRoomBy
<1>2. http[t].pc = "lookup" /\ http[t] \in ConnRec /\ http[t].slot = 0
  BY LookupHolds DEF NoRoomBy, HttpInv, LockInv
<1>3. /\ lru' \in LruRec /\ lru'.list = lru.list /\ lru'.lock = NoThread /\ SameSize(lru', lru)
      /\ lru'.rindex = lru.rindex /\ lru'.epoch = lru.epoch /\ lru'.wrapped = lru.wrapped
  BY <1>1 DEF NoRoomBy, LruRec, SameSize
<1>4. c \in ConnRec /\ c.slot = 0 /\ c.stale = FALSE /\ c.fd = http[t].fd /\ c.pc = "handshake"
  BY <1>2 DEF NoRoomBy, Gets, ConnRec, Points, Fills
<1>5. http' = [http EXCEPT ![t] = c]
  BY DEF NoRoomBy
<1>6. http'[t] = c /\ \A u \in LruThreads : u # t => http'[u] = http[u]
  BY <1>1, <1>5
<1>7. SessionsOwned' /\ sessions' \in Int
  <2>1. \A r \in Slots : ent'[r].storage <=> ent[r].storage /\ ent'[r].live
    BY <1>1 DEF HttpInv, FreeInv, EntRec
  <2> QED
    BY <1>1, <2>1, SessionsMoved DEF NoRoomBy, SessionsFreed
<1>8. HttpType'
  <2>1. http' \in [LruThreads -> ConnRec]
    BY <1>1, <1>4, <1>5
  <2> QED
    BY <1>1, <1>3, <1>7, <2>1 DEF NoRoomBy, HttpType
<1>9. (ListInv /\ FreeInv /\ EpochInv /\ SizeBounded)'
  BY <1>1, <1>3 DEF HttpInv, ListInv, FreeInv, EpochInv, SizeBounded, SameSize
<1>10. LockInv'
  BY <1>3, LruAssumption DEF LockInv, NoThread
<1>11. ConnInv'
  <2>1. PcOK(c)
    BY <1>4 DEF PcOK, Outside, Wakes, Leaves
  <2> QED
    BY <1>1, <1>4, <1>6, <2>1 DEF HttpInv, ConnInv
<1>12. MakerInv'
  BY <1>4, <1>6 DEF HttpInv, MakerInv
<1>13. FillerInv'
  <2>1. SUFFICES ASSUME NEW r \in Slots, ent[r].live, ent[r].pending \/ ent[r].size = 0
                 PROVE  \E u \in LruThreads : http'[u].slot = r /\ http'[u].new
    BY <1>1 DEF FillerInv
  <2>2. PICK u \in LruThreads : http[u].slot = r /\ http[u].new
    BY <2>1 DEF HttpInv, FillerInv
  <2>3. r # 0
    BY SlotsFinite
  <2> QED
    BY <1>2, <1>6, <2>2, <2>3
<1>14. SizeInv'
  <2>1. lru.lock # "owner" /\ lru.cut = 0
    BY LruAssumption DEF NoRoomBy
  <2> QED
    BY <1>1, <1>3, <2>1 DEF HttpInv, SizeInv, CutOK, Counted, SameSize
<1>15. EntriesHeld'
  <2>1. ASSUME NEW r \in Slots
        PROVE  ent'[r].users = ent[r].users - One(http[t].slot, r) + One(c.slot, r)
    <3>1. ent[r].users \in Int /\ r # 0
      BY <1>1, SlotsFinite DEF EntRec
    <3> QED
      BY <1>1, <1>2, <1>4, <3>1 DEF One
  <2>2. \A r \in Slots : ent'[r].live \/ (c.slot # r /\ (ent[r].users = 0 \/ ent'[r].live = ent[r].live))
    BY <1>1, <1>4, SlotsFinite
  <2>3. HeldOK(ent', http')
    BY <1>4, <1>5, <2>1, <2>2, HeldMoved
  <2> QED
    BY <1>8, <2>3, HeldIsNext
<1>16. NotStale'
  BY <1>1, <1>3, <1>4, <1>6, <1>8 DEF HttpInv, NotStale, HttpType
<1>17. HttpFds'
  <2>1. fds' = fds - ConnectCloses(t) + (IF c.fd THEN 1 ELSE 0)
    <3>1. fds \in Int /\ fds' = fds
      BY <1>1 DEF NoRoomBy, HttpType
    <3> QED
      BY <1>4, <3>1 DEF ConnectCloses
  <2> QED
    BY <1>1, <1>4, <1>5, <2>1, FdsMoved DEF NoRoomBy, HttpInv, HttpFds
<1> QED
  BY <1>7, <1>8, <1>9, <1>10, <1>11, <1>12, <1>13, <1>14, <1>15, <1>16, <1>17 DEF HttpInv

\* cache_lru, whole.
LEMMA LookupStep ==
  ASSUME HttpInv, NEW t \in LruThreads, CacheLru(t)
  PROVE  HttpInv'
<1>1. SessionsFreed /\ UNCHANGED <<https, fds, mixed, tries>> /\ http \in [LruThreads -> ConnRec]
  BY DEF CacheLru, SessionsFreed, HttpInv, HttpType
<1>2. lru.lock = t => http[t].pc = "lookup" /\ lru.lock # "owner"
  BY LruAssumption DEF HttpInv, LockInv
<1>3. Unlocked => lru.lock # "owner" /\ lru.cut = 0
  BY UncutUnlocked DEF Unlocked, NoThread
<1>4. CASE \E s \in Found(http[t].peer) :
             /\ HttpAt(t, "lookup") /\ Unlocked /\ Hit(s)
             /\ http' = [http EXCEPT ![t] = Gets(t, IF ent[s].pending THEN "wait" ELSE "handshake", s, FALSE)]
  <2>1. PICK s \in Found(http[t].peer) :
             HitBy(t, s, Gets(t, IF ent[s].pending THEN "wait" ELSE "handshake", s, FALSE))
    BY <1>1, <1>4 DEF HitBy, HttpAt
  <2> QED
    BY <2>1, HitStep
<1>5. CASE /\ (HttpAt(t, "lookup") /\ Unlocked) \/ (lru.lock = t /\ ~Evicting)
           /\ ~Full /\ Insert(http[t].peer) /\ http' = [http EXCEPT ![t] = Gets(t, "handshake", NewSlot, TRUE)]
  <2>1. InsertBy(t, Gets(t, "handshake", NewSlot, TRUE))
    BY <1>1, <1>2, <1>3, <1>5 DEF InsertBy, HttpAt, Evicting
  <2> QED
    BY <2>1, InsertStep
<1>6. CASE HttpAt(t, "lookup") /\ Unlocked /\ lru' = [lru EXCEPT !.lock = t] /\ UNCHANGED <<ent, http>>
  BY <1>1, <1>6, LockStep DEF HttpAt
<1>7. CASE lru.lock = t /\ ~Evicting /\ Full /\ Evict /\ UNCHANGED http
  <2>1. PICK i \in Idle : Unlink(lru.list[i], lru.size, ent[lru.list[i]].size)
    BY <1>7 DEF Evict
  <2>2. lru.list[i] \in Range(lru.list) /\ ent[lru.list[i]].users = 0
    BY DEF Idle, Range
  <2>3. UnlinkBy(lru.list[i], lru.size, ent[lru.list[i]].size)
    BY <1>1, <1>7, <2>1, <2>2 DEF UnlinkBy, Evicting
  <2> QED
    BY <2>3, UnlinkStep
<1>8. CASE /\ lru.lock = t /\ ~Evicting /\ lru' = [lru EXCEPT !.lock = NoThread] /\ UNCHANGED ent
           /\ http' = [http EXCEPT ![t] = Gets(t, "handshake", 0, TRUE)]
  <2>1. NoRoomBy(t, Gets(t, "handshake", 0, TRUE))
    BY <1>1, <1>8 DEF NoRoomBy, Evicting
  <2> QED
    BY <2>1, NoRoomStep
<1>9. CASE lru.lock = t /\ Evicting /\ EvictSize /\ UNCHANGED http
  BY <1>1, <1>9, CutStep
<1> QED
  BY <1>4, <1>5, <1>6, <1>7, <1>8, <1>9 DEF CacheLru

\* What the owner changes of the cache.
Invalidated(m, l, i, n, w) == m = [l EXCEPT !.rindex = i, !.epoch = n, !.wrapped = w]
Flushed(m, l) == m = [l EXCEPT !.size = 0, !.lost = 0, !.lock = NoThread, !.wrapped = FALSE]

\* lru_invalidate changes nothing else.
LEMMA IndexSet ==
  ASSUME NEW l \in LruRec, NEW i \in Indexes, NEW n \in Nat, NEW w \in BOOLEAN, NEW m, Invalidated(m, l, i, n, w)
  PROVE  /\ m \in LruRec /\ m.rindex = i /\ m.epoch = n /\ m.wrapped = w
         /\ m.list = l.list /\ m.lock = l.lock /\ SameSize(m, l)
<1>1. m \in LruRec
  BY DEF Invalidated, LruRec
<1>2. m.rindex = i /\ m.epoch = n /\ m.wrapped = w
  BY DEF Invalidated, LruRec
<1>3. m.list = l.list /\ m.lock = l.lock /\ SameSize(m, l)
  BY DEF Invalidated, LruRec, SameSize
<1> QED
  BY <1>1, <1>2, <1>3

\* The end of lru_flush changes nothing else.
LEMMA FlushSet ==
  ASSUME NEW l \in LruRec, NEW m, Flushed(m, l)
  PROVE  /\ m \in LruRec /\ m.size = 0 /\ m.lost = 0 /\ m.cut = l.cut /\ m.lock = NoThread /\ m.list = l.list
<1>1. m \in LruRec
  <2>1. 0 \in Int /\ FALSE \in BOOLEAN
    OBVIOUS
  <2> QED
    BY <2>1 DEF Flushed, LruRec
<1> QED
  BY <1>1 DEF Flushed, LruRec

\* The owner invalidates and flushes.
LEMMA OwnerStep ==
  ASSUME HttpInv, HttpOwner
  PROVE  HttpInv'
<1>1. lru \in LruRec /\ SessionsFreed /\ UNCHANGED <<http, https, fds, mixed, tries>>
  BY DEF HttpInv, HttpType, HttpOwner, SessionsFreed
<1>2. CASE LruInvalidate
  <2>1. Unlocked /\ UNCHANGED ent /\ lru.rindex \in 0 .. LruWidth - 1 /\ lru.epoch \in Nat /\ lru.wrapped \in BOOLEAN
    BY <1>1, <1>2 DEF LruInvalidate, LruRec, Indexes
  <2>2. CASE lru.rindex = LruWidth - 1
    <3>1. Invalidated(lru', lru, 0, lru.epoch + 1, TRUE)
      BY <1>2, <2>1, <2>2 DEF LruInvalidate, Invalidated
    <3>2. 0 \in Indexes
      BY LruAssumption DEF Indexes
    <3>3. /\ lru' \in LruRec /\ lru'.list = lru.list /\ lru'.lock = lru.lock /\ SameSize(lru', lru) /\ lru'.wrapped
      <4>1. lru.epoch + 1 \in Nat
        BY <2>1
      <4> QED
        <5>1. PICK i \in Indexes, w \in BOOLEAN : Invalidated(lru', lru, i, lru.epoch + 1, w)
          BY <3>1, <3>2
        <5>2. lru' \in LruRec /\ lru'.list = lru.list /\ lru'.lock = lru.lock /\ SameSize(lru', lru)
          BY SMTT(10), <1>1, <4>1, <5>1, IndexSet
        <5>3. lru'.wrapped
          BY <1>1, <3>1 DEF Invalidated, LruRec
        <5> QED
          BY <5>2, <5>3
    <3>4. (LockInv /\ EpochInv /\ SizeInv /\ SizeBounded /\ NotStale)'
      BY <1>1, <2>1, <3>3 DEF HttpInv, LockInv, EpochInv, SizeInv, SizeBounded, CutOK, Counted, NotStale, SameSize
    <3> QED
      BY <1>1, <2>1, <3>3, <3>4, ListKeptStep
  <2>3. CASE lru.rindex # LruWidth - 1
    <3>1. Invalidated(lru', lru, lru.rindex + 1, lru.epoch + 1, lru.wrapped)
      BY <1>2, <2>1, <2>3 DEF LruInvalidate, Invalidated
    <3>2. lru.rindex + 1 \in Indexes
      BY SMTT(10), <2>1, <2>3, LruAssumption DEF Indexes
    <3>3. /\ lru' \in LruRec /\ lru'.list = lru.list /\ lru'.lock = lru.lock /\ SameSize(lru', lru)
          /\ lru'.wrapped = lru.wrapped /\ lru'.rindex = lru.rindex + 1 /\ lru'.epoch = lru.epoch + 1
      <4>1. lru.epoch + 1 \in Nat
        BY <2>1
      <4> QED
        BY SMTT(10), <1>1, <2>1, <3>1, <3>2, <4>1, IndexSet
    <3>4. (LockInv /\ SizeInv /\ SizeBounded /\ NotStale)'
      BY <1>1, <2>1, <3>3 DEF HttpInv, LockInv, SizeInv, SizeBounded, CutOK, Counted, NotStale, SameSize
    <3>5. EpochInv'
      <4>1. SUFFICES ASSUME ~lru'.wrapped, NEW r \in Slots, ent'[r].live
                     PROVE  lru'.epoch - ent'[r].born = lru'.rindex - ent'[r].rindex
        BY DEF EpochInv
      <4>2. lru.epoch - ent[r].born = lru.rindex - ent[r].rindex /\ ent' = ent
        BY <2>1, <3>3, <4>1 DEF HttpInv, EpochInv
      <4>3. ent[r].born \in Nat /\ ent[r].rindex \in 0 .. LruWidth - 1
        BY DEF HttpInv, HttpType, EntRec, Indexes
      <4>4. ent'[r].born = ent[r].born /\ ent'[r].rindex = ent[r].rindex
        BY <4>2
      <4>5. lru'.epoch = lru.epoch + 1 /\ lru'.rindex = lru.rindex + 1
        BY <3>3
      <4> QED
        BY SMTT(10), <2>1, <4>2, <4>3, <4>4, <4>5, LruAssumption
    <3> QED
      BY <1>1, <2>1, <3>3, <3>4, <3>5, ListKeptStep
  <2> QED
    BY <2>2, <2>3
<1>3. CASE FlushBegin
  <2>1. /\ lru' \in LruRec /\ lru'.list = lru.list /\ lru'.lock = "owner" /\ SameSize(lru', lru)
        /\ lru'.rindex = lru.rindex /\ lru'.epoch = lru.epoch /\ lru'.wrapped = lru.wrapped /\ UNCHANGED ent
    BY <1>1, <1>3 DEF FlushBegin, LruRec, SameSize
  <2>2. lru.cut = 0
    BY <1>3, UncutUnlocked DEF FlushBegin
  <2>3. (LockInv /\ EpochInv /\ SizeInv /\ SizeBounded /\ NotStale)'
    BY <1>1, <2>1, <2>2, LruAssumption DEF HttpInv, LockInv, EpochInv, SizeInv, SizeBounded, CutOK, NotStale, SameSize
  <2> QED
    BY <1>1, <2>1, <2>3, ListKeptStep
<1>4. CASE FlushEntry
  <2>1. lru.list \in Seq(Slots) /\ lru.list # <<>>
    BY <1>1, <1>4 DEF FlushEntry, LruRec
  <2>2. lru.list[1] \in Range(lru.list)
    BY <2>1 DEF Range
  <2>3. UnlinkBy(lru.list[1], lru.seen, lru.cut)
    BY <1>1, <1>4, <2>2 DEF FlushEntry, UnlinkBy
  <2> QED
    BY <2>3, UnlinkStep
<1>5. CASE FlushEnd
  <2>1. /\ lru' \in LruRec /\ lru'.list = lru.list /\ lru.list = <<>> /\ lru'.lock = NoThread /\ lru'.size = 0
        /\ lru'.lost = 0 /\ lru'.cut = lru.cut /\ UNCHANGED ent
    <3>1. Flushed(lru', lru) /\ lru.list = <<>> /\ UNCHANGED ent
      BY <1>5 DEF FlushEnd, Flushed
    <3> QED
      BY <1>1, <3>1, FlushSet
  <2>2. Range(lru.list) = {}
    BY <2>1 DEF Range
  <2>3. \A s \in Slots : ~ent[s].live
    BY <2>2 DEF HttpInv, ListInv
  <2>4. LockInv'
    BY <2>1, LruAssumption DEF LockInv, NoThread
  <2>5. EpochInv'
    BY <2>1, <2>3 DEF EpochInv
  <2>6. (SizeInv /\ SizeBounded)'
    <3>1. Counted' = {} /\ Len(lru.list) = 0
      BY <2>1, <2>2 DEF Counted
    <3>2. lru.cut = 0
      BY <1>5, UncutUnlocked DEF FlushEnd
    <3>3. SizeInv'
      BY <2>1, <3>1, <3>2, FS_EmptySet DEF SizeInv, CutOK
    <3>4. 0 <= LruMax - 1 + Cardinality(LruThreads) + 0
      BY LruAssumption, ThreadsFinite
    <3> QED
      BY <2>1, <3>1, <3>3, <3>4 DEF SizeBounded
  <2>7. NotStale'
    <3>1. ASSUME NEW t \in LruThreads
          PROVE  ~http[t].stale
      BY <2>3, OfThread DEF PcOK
    <3> QED
      BY <1>1, <3>1 DEF NotStale, HttpInv, HttpType
  <2> QED
    BY <1>1, <2>1, <2>4, <2>5, <2>6, <2>7, ListKeptStep
<1> QED
  BY <1>2, <1>3, <1>4, <1>5 DEF HttpOwner, LruOwner

\* Thread t, which holds entry s, has made it e and has become c.
Works(t, s, e, c) ==
    /\ s = http[t].slot /\ s # 0 /\ http[t].pc # "lookup"
    /\ ent' = [ent EXCEPT ![s] = e] /\ http' = [http EXCEPT ![t] = c] /\ UNCHANGED <<https, fds, mixed, tries>>

\* It may add to the entry and leave it, and may not take anything from it.
WorkOK(t, s, e, c) ==
    /\ e \in EntRec /\ c \in ConnRec
    /\ e.live /\ e.rindex = ent[s].rindex /\ e.born = ent[s].born /\ e.users = ent[s].users - 1 + One(c.slot, s)
    /\ c.slot \in {0, s} /\ (c.slot = s => c.new = http[t].new /\ HoldOK(c.new, c.pc, e)) /\ PcOK(c)
    /\ c.fd = http[t].fd /\ (c.stale => http[t].stale)
    /\ e.pending \/ e.size = 0 => c.slot = s /\ c.new
    /\ \A u \in LruThreads : u # t /\ http[u].slot = s => HoldOK(http[u].new, http[u].pc, e)

\* It may add to the size of the cache.
SizeBecomes(n) ==
    /\ lru' \in LruRec /\ lru'.list = lru.list /\ lru'.lock = lru.lock /\ lru'.size = n
    /\ lru'.seen = lru.seen /\ lru'.cut = lru.cut /\ lru'.lost = lru.lost
    /\ lru'.rindex = lru.rindex /\ lru'.epoch = lru.epoch /\ lru'.wrapped = lru.wrapped

\* Such a step keeps the invariant.
LEMMA WorkStep ==
  ASSUME HttpInv, NEW t \in LruThreads, NEW s, NEW e, NEW c, Works(t, s, e, c), WorkOK(t, s, e, c), NEW n \in Int,
         SizeBecomes(n), n = lru.size + (e.size - ent[s].size), e.size = ent[s].size \/ ent[s].size = 0,
         sessions' = sessions + (IF e.storage /\ ~ent[s].storage THEN 1 ELSE 0), ent[s].storage => e.storage
  PROVE  HttpInv'
<1>1. /\ http \in [LruThreads -> ConnRec] /\ ent \in [Slots -> EntRec] /\ lru \in LruRec /\ HttpType
      /\ lru.list \in Seq(Slots) /\ Once(lru.list) /\ Range(lru.list) \subseteq Slots
  BY SMTT(10) DEF HttpInv, HttpType, LruRec, ListInv, Range
<1>2. s \in Slots /\ ent[s].live /\ s \in Range(lru.list) /\ ent[s] \in EntRec /\ s # 0 /\ s = http[t].slot
  BY OfThread DEF Works, HttpInv, ListInv
<1>3. /\ lru' \in LruRec /\ lru'.list = lru.list /\ lru'.lock = lru.lock /\ lru'.size = n
      /\ lru'.seen = lru.seen /\ lru'.cut = lru.cut /\ lru'.lost = lru.lost
      /\ lru'.rindex = lru.rindex /\ lru'.epoch = lru.epoch /\ lru'.wrapped = lru.wrapped
  BY DEF SizeBecomes
<1>4. /\ ent' \in [Slots -> EntRec] /\ ent'[s] = e /\ \A r \in Slots : r # s => ent'[r] = ent[r]
  BY <1>1, <1>2 DEF Works, WorkOK
<1>5. /\ http' = [http EXCEPT ![t] = c] /\ http'[t] = c /\ c \in ConnRec
      /\ \A u \in LruThreads : u # t => http'[u] = http[u]
  BY <1>1 DEF Works, WorkOK
<1>6. SessionsOwned' /\ sessions' \in Int
  <2> DEFINE A == {r \in Slots : ent[r].storage}
             B == {r \in Slots : ent'[r].storage}
  <2>1. sessions = Cardinality(A)
    BY <1>1 DEF HttpInv, SessionsOwned
  <2>2. IsFiniteSet(A) /\ A \ {s} = B \ {s}
    <3>1. A \in SUBSET Slots /\ A \ {s} = B \ {s}
      BY <1>4
    <3> QED
      BY <3>1, SlotsFinite, FS_Subset
  <2>3. (s \in A <=> ent[s].storage) /\ (s \in B <=> e.storage)
    BY <1>2, <1>4
  <2> HIDE DEF A, B
  <2>4. /\ Cardinality(B) = Cardinality(A) - (IF s \in A THEN 1 ELSE 0) + (IF s \in B THEN 1 ELSE 0)
        /\ Cardinality(A) \in Nat /\ Cardinality(B) \in Nat
    BY <2>2, OneMoved
  <2>5. sessions' = Cardinality(B) /\ sessions' \in Int
    BY <2>1, <2>3, <2>4
  <2> QED
    BY <1>4, <2>5 DEF B, SessionsOwned
<1>7. HttpType'
  <2>1. http' \in [LruThreads -> ConnRec]
    BY <1>1, <1>5
  <2> QED
    BY <1>1, <1>3, <1>4, <1>6, <2>1 DEF Works, HttpType
<1>8. e.live /\ e.rindex = ent[s].rindex /\ e.born = ent[s].born
  BY DEF WorkOK
<1>9. (ListInv /\ FreeInv)'
  BY <1>2, <1>3, <1>4, <1>8 DEF HttpInv, ListInv, FreeInv
<1>10. (EpochInv /\ SizeBounded)'
  <2>1. EpochInv'
    BY SMTT(10), <1>2, <1>3, <1>4, <1>8 DEF HttpInv, EpochInv
  <2> QED
    BY <1>3, <2>1 DEF HttpInv, SizeBounded
<1>11. LockInv'
  BY <1>3, <1>5 DEF HttpInv, LockInv, Works
<1>12. ConnInv'
  <2>1. PcOK(c) /\ (c.slot # 0 => HoldOK(c.new, c.pc, ent'[c.slot]))
    BY <1>4 DEF WorkOK
  <2>2. ASSUME NEW u \in LruThreads, u # t, http[u].slot # 0
        PROVE  HoldOK(http[u].new, http[u].pc, ent'[http[u].slot])
    <3>1. CASE http[u].slot = s
      BY <1>4, <2>2, <3>1 DEF WorkOK
    <3>2. CASE http[u].slot # s
      BY <1>4, <2>2, <3>2, OfThread
    <3> QED
      BY <3>1, <3>2
  <2> QED
    BY <1>5, <2>1, <2>2 DEF HttpInv, ConnInv
<1>13. MakerInv'
  <2>1. c.slot # 0 => c.slot = http[t].slot /\ c.new = http[t].new
    BY <1>2 DEF WorkOK
  <2> QED
    BY SMTT(10), <1>5, <2>1 DEF HttpInv, MakerInv
<1>14. FillerInv'
  <2>1. SUFFICES ASSUME NEW r \in Slots, ent'[r].live, ent'[r].pending \/ ent'[r].size = 0
                 PROVE  \E u \in LruThreads : http'[u].slot = r /\ http'[u].new
    BY DEF FillerInv
  <2>2. CASE r = s
    BY <1>4, <1>5, <2>1, <2>2 DEF WorkOK
  <2>3. CASE r # s
    <3>1. PICK u \in LruThreads : http[u].slot = r /\ http[u].new
      BY <1>4, <2>1, <2>3 DEF HttpInv, FillerInv
    <3> QED
      BY <1>2, <1>5, <2>3, <3>1
  <2> QED
    BY <2>2, <2>3
<1>15. SizeInv'
  <2>1. lru.size \in Int /\ lru.seen \in Int /\ lru.lost \in Int /\ lru.cut \in {0, 1} /\ CutOK(lru)
    BY <1>1 DEF LruRec, HttpInv, SizeInv
  <2>2. IsFiniteSet(Counted)
    <3>1. Counted \in SUBSET Range(lru.list) /\ IsFiniteSet(Range(lru.list))
      BY <1>1, OnceCounts DEF Counted
    <3> QED
      BY <3>1, FS_Subset
  <2>3. Counted \ {s} = Counted' \ {s}
    BY <1>1, <1>3, <1>4 DEF Counted
  <2>4. (s \in Counted <=> ent[s].size = 1) /\ (s \in Counted' <=> e.size = 1)
    BY <1>2, <1>3, <1>4 DEF Counted
  <2>5. e.size \in {0, 1} /\ ent[s].size \in {0, 1}
    BY <1>2 DEF WorkOK, EntRec
  <2>6. /\ Cardinality(Counted') = Cardinality(Counted) - (IF s \in Counted THEN 1 ELSE 0) + (IF s \in Counted' THEN 1 ELSE 0)
        /\ Cardinality(Counted) \in Nat
    BY <2>2, <2>3, OneMoved
  <2>7. n >= lru.size
    BY <2>1, <2>5
  <2>8. CutOK(lru')
    <3>1. lru'.size = n /\ lru'.lost = lru.lost /\ lru'.cut = lru.cut /\ lru'.lock = lru.lock /\ lru'.seen = lru.seen
      BY <1>3
    <3> QED
      BY SMTT(10), <2>1, <2>7, <3>1 DEF CutOK
  <2>9. ASSUME lru.lock # "owner"
        PROVE  n + lru.lost = Cardinality(Counted') + lru.cut
    <3>1. lru.size + lru.lost = Cardinality(Counted) + lru.cut
      BY <2>9 DEF HttpInv, SizeInv
    <3> QED
      BY <2>1, <2>4, <2>5, <2>6, <3>1
  <2> QED
    BY <1>3, <2>8, <2>9 DEF SizeInv
<1>16. EntriesHeld'
  <2>1. ASSUME NEW r \in Slots
        PROVE  ent'[r].users = ent[r].users - One(http[t].slot, r) + One(c.slot, r)
    <3>1. ent[r].users \in Int /\ r # 0
      BY <1>1, SlotsFinite DEF EntRec
    <3>2. e.users = ent[s].users - 1 + One(c.slot, s) /\ c.slot \in {0, s}
      BY DEF WorkOK
    <3> QED
      BY SMTT(10), <1>2, <1>4, <3>1, <3>2 DEF One
  <2>2. ASSUME NEW r \in Slots
        PROVE  ent'[r].live \/ (c.slot # r /\ (ent[r].users = 0 \/ ent'[r].live = ent[r].live))
    <3>1. c.slot \in {0, s} /\ r # 0
      BY SlotsFinite DEF WorkOK
    <3> QED
      BY SMTT(10), <1>4, <1>8, <3>1
  <2>3. HeldOK(ent', http')
    BY <1>5, <2>1, <2>2, HeldMoved
  <2> QED
    BY <1>7, <2>3, HeldIsNext
<1>17. NotStale'
  <2>1. c.stale => http[t].stale
    BY DEF WorkOK
  <2> QED
    BY <1>1, <1>3, <1>5, <1>7, <2>1 DEF HttpInv, NotStale, HttpType
<1>18. HttpFds'
  <2>1. fds' = fds - ConnectCloses(t) + (IF c.fd THEN 1 ELSE 0)
    <3>1. fds \in Int /\ fds' = fds /\ c.fd = http[t].fd
      BY <1>1 DEF Works, WorkOK, HttpType
    <3> QED
      BY <3>1 DEF ConnectCloses
  <2> QED
    BY <1>1, <1>5, <2>1, FdsMoved DEF Works, HttpInv, HttpFds
<1> QED
  BY <1>6, <1>7, <1>9, <1>10, <1>11, <1>12, <1>13, <1>14, <1>15, <1>16, <1>17, <1>18 DEF HttpInv

\* What such a step leaves alone in the entry and in the thread.
LEMMA StorageSet ==
  ASSUME NEW e \in EntRec, NEW f, f = [e EXCEPT !.storage = TRUE]
  PROVE  /\ f \in EntRec /\ f.users = e.users /\ f.live = e.live /\ f.pending = e.pending /\ f.storage
         /\ f.size = e.size /\ f.rindex = e.rindex /\ f.born = e.born
<1>1. f \in EntRec
  BY DEF EntRec
<1>2. f.storage
  BY DEF EntRec
<1>3. f.users = e.users /\ f.live = e.live /\ f.pending = e.pending
  BY DEF EntRec
<1>4. f.size = e.size /\ f.rindex = e.rindex /\ f.born = e.born
  BY DEF EntRec
<1> QED
  BY <1>1, <1>2, <1>3, <1>4

\* lru_store tells those who wait.
LEMMA PendingSet ==
  ASSUME NEW e \in EntRec, NEW f, f = [e EXCEPT !.pending = FALSE]
  PROVE  /\ f \in EntRec /\ f.users = e.users /\ f.live = e.live /\ ~f.pending /\ f.storage = e.storage
         /\ f.size = e.size /\ f.rindex = e.rindex /\ f.born = e.born
<1>1. f \in EntRec
  BY DEF EntRec
<1>2. ~f.pending
  BY DEF EntRec
<1>3. f.users = e.users /\ f.live = e.live /\ f.storage = e.storage
  BY DEF EntRec
<1>4. f.size = e.size /\ f.rindex = e.rindex /\ f.born = e.born
  BY DEF EntRec
<1> QED
  BY <1>1, <1>2, <1>3, <1>4

\* lru_store sets the size.
LEMMA SizeSet ==
  ASSUME NEW e \in EntRec, NEW f, f = [e EXCEPT !.size = 1]
  PROVE  /\ f \in EntRec /\ f.users = e.users /\ f.live = e.live /\ f.pending = e.pending /\ f.storage = e.storage
         /\ f.size = 1 /\ f.rindex = e.rindex /\ f.born = e.born
BY SMTT(10) DEF EntRec

\* The thread goes on.
LEMMA PcSet ==
  ASSUME NEW k \in ConnRec, NEW pc \in Points, NEW c, c = [k EXCEPT !.pc = pc]
  PROVE  /\ c \in ConnRec /\ c.pc = pc /\ c.slot = k.slot /\ c.new = k.new /\ c.stale = k.stale /\ c.fd = k.fd
         /\ c.keep = k.keep /\ c.tls = k.tls /\ c.used = k.used
BY SMTT(10) DEF ConnRec

\* A thread after lru_leave.
LeftTo(k, pc) == [k EXCEPT !.pc = pc, !.slot = 0, !.new = FALSE, !.stale = FALSE]

\* It holds nothing.
LEMMA LeftSet ==
  ASSUME NEW k \in ConnRec, NEW pc \in Points
  PROVE  /\ LeftTo(k, pc) \in ConnRec /\ LeftTo(k, pc).pc = pc /\ LeftTo(k, pc).slot = 0 /\ ~LeftTo(k, pc).stale
         /\ LeftTo(k, pc).fd = k.fd
<1>1. LeftTo(k, pc) \in ConnRec
  BY DEF ConnRec, LeftTo
<1>2. LeftTo(k, pc).pc = pc /\ LeftTo(k, pc).slot = 0 /\ LeftTo(k, pc).fd = k.fd
  BY DEF ConnRec, LeftTo
<1>3. ~LeftTo(k, pc).stale
  BY DEF ConnRec, LeftTo
<1> QED
  BY <1>1, <1>2, <1>3

\* What is not pending has been counted.
LEMMA FilledCounted ==
  ASSUME HttpInv, NEW s \in Slots, ent[s].live, ~ent[s].pending
  PROVE  ent[s].size = 1
<1>1. SUFFICES ASSUME ent[s].size = 0
               PROVE  FALSE
  BY DEF HttpInv, HttpType, EntRec
<1>2. PICK u \in LruThreads : http[u].slot = s /\ http[u].new
  BY <1>1 DEF HttpInv, FillerInv
<1>3. s # 0
  BY SlotsFinite
<1>4. HoldOK(http[u].new, http[u].pc, ent[s])
  BY <1>2, <1>3, OfThread
<1>5. ent[s].pending \/ ent[s].size = 1
  BY <1>2, <1>4 DEF HoldOK, FillOK
<1>6. ent[s].size = 1
  BY <1>5
<1>7. 0 # 1
  OBVIOUS
<1> QED
  BY <1>1, <1>6, <1>7

\* The cache as it was.
LEMMA SizeSame ==
  ASSUME HttpInv, UNCHANGED lru
  PROVE  SizeBecomes(lru.size) /\ lru.size \in Int
BY DEF HttpInv, HttpType, SizeBecomes, LruRec

\* The session of a new connection is kept unless another is there.
LEMMA SessionStep ==
  ASSUME HttpInv, NEW t \in LruThreads, StoreSession(t)
  PROVE  HttpInv'
<1> DEFINE s == http[t].slot
           e == [ent[s] EXCEPT !.storage = TRUE]
           pc == IF http[t].new THEN "store" ELSE "leave"
           c == [http[t] EXCEPT !.pc = pc]
<1>1. /\ http[t] \in ConnRec /\ PcOK(http[t]) /\ http[t].pc = "session" /\ s # 0 /\ s \in Slots /\ ent[s].live
      /\ ent[s] \in EntRec /\ HoldOK(http[t].new, "session", ent[s]) /\ UNCHANGED lru
  BY OfThread DEF StoreSession, HttpAt, PcOK
<1>2. http \in [LruThreads -> ConnRec] /\ ent \in [Slots -> EntRec] /\ sessions \in Int
  BY DEF HttpInv, HttpType
<1>3. Works(t, s, e, c)
  BY <1>1, <1>2 DEF Works, StoreSession, HttpGoto
<1>4. /\ ent[s] \in EntRec
      /\ e \in EntRec /\ e.users = ent[s].users /\ e.live = ent[s].live /\ e.pending = ent[s].pending /\ e.storage
      /\ e.size = ent[s].size /\ e.rindex = ent[s].rindex /\ e.born = ent[s].born
  BY <1>1, StorageSet
<1>5. pc \in Points /\ pc = (IF http[t].new THEN "store" ELSE "leave")
  BY DEF Points, Fills, Leaves
<1>6. sessions' = sessions + (IF ent[s].storage THEN 0 ELSE 1)
  BY DEF StoreSession, NewSession
<1>6c. http[t] \in ConnRec /\ c = [http[t] EXCEPT !.pc = pc]
  BY <1>1
<1>6z. ent[s].size \in {0, 1} /\ ent[s].users \in Int
  BY <1>4 DEF EntRec
<1> HIDE DEF c, e, pc
<1>7. /\ c \in ConnRec /\ c.pc = pc /\ c.slot = http[t].slot /\ c.new = http[t].new /\ c.stale = http[t].stale
      /\ c.fd = http[t].fd
  BY SMTT(10), <1>5, <1>6c, PcSet
<1>8. IF http[t].new THEN ent[s].pending /\ ent[s].size = 0 ELSE ~ent[s].pending /\ ent[s].size = 1
  <2>1. CASE http[t].new
    BY <1>1, <2>1 DEF HoldOK, FillOK, Fills, Wakes, Leaves
  <2>2. CASE ~http[t].new
    BY <1>1, <2>2, FilledCounted DEF HoldOK
  <2> QED
    BY <2>1, <2>2
<1>9. HoldOK(c.new, c.pc, e) /\ PcOK(c)
  <2>1. HoldOK(c.new, c.pc, e)
    BY <1>4, <1>5, <1>7, <1>8 DEF HoldOK, FillOK, Fills
  <2>2. PcOK(c)
    BY <1>1, <1>5, <1>7 DEF PcOK, Outside, Wakes, Leaves
  <2> QED
    BY <2>1, <2>2
<1>10. ASSUME NEW u \in LruThreads, u # t, http[u].slot = s
       PROVE  HoldOK(http[u].new, http[u].pc, e)
  <2>1. HoldOK(http[u].new, http[u].pc, ent[s]) /\ (http[t].new => ~http[u].new)
    BY <1>1, <1>10, OfThread DEF HttpInv, MakerInv
  <2>2. CASE http[u].new
    BY <1>4, <1>8, <2>1, <2>2 DEF HoldOK, FillOK
  <2>3. CASE ~http[u].new
    BY <1>4, <2>1, <2>3 DEF HoldOK
  <2> QED
    BY <2>2, <2>3
<1>11. e.users = ent[s].users - 1 + One(c.slot, s)
  <2>1. One(c.slot, s) = 1
    BY <1>7 DEF One
  <2>2. e.users = ent[s].users
    BY <1>4
  <2> QED
    BY <1>6z, <2>1, <2>2
<1>12. WorkOK(t, s, e, c)
  <2>1. 0 # 1
    OBVIOUS
  <2>2. e.pending \/ e.size = 0 => c.slot = s /\ c.new
    BY <1>4, <1>7, <1>8, <2>1
  <2> QED
    BY <1>1, <1>4, <1>7, <1>9, <1>10, <1>11, <2>2 DEF WorkOK
<1>13. lru.size = lru.size + (e.size - ent[s].size) /\ lru.size \in Int
  <2>1. e.size = ent[s].size /\ lru.size \in Int
    BY <1>1, <1>4, SizeSame
  <2> QED
    BY <1>6z, <2>1
<1> HIDE DEF s
<1> QED
  BY <1>1, <1>3, <1>4, <1>6, <1>12, <1>13, SizeSame, WorkStep

\* The maker adds the size of its entry to that of the cache.
LEMMA StoreSizeStep ==
  ASSUME HttpInv, NEW t \in LruThreads, NEW from, NEW pc, <<from, pc>> \in {<<"store", "wake">>, <<"failstore", "failwake">>},
         HttpAt(t, from), StoreSize(http[t].slot), HttpGoto(t, pc), UNCHANGED <<https, fds, sessions, mixed, tries>>
  PROVE  HttpInv'
<1> DEFINE s == http[t].slot
           e == [ent[s] EXCEPT !.size = 1]
           c == [http[t] EXCEPT !.pc = pc]
<1>1. /\ from \in {"store", "failstore"} /\ pc \in Wakes /\ pc \in Points
      /\ from \in Fills /\ from \notin Wakes \cup Leaves /\ from # "lookup" /\ pc \notin Fills \cup Leaves \cup Outside
      /\ pc \notin {"cleanup", "wait"}
  BY DEF Wakes, Points, Fills, Leaves, Outside
<1>2. /\ http[t] \in ConnRec /\ PcOK(http[t]) /\ http[t].pc = from /\ s # 0 /\ s \in Slots /\ ent[s].live
      /\ ent[s] \in EntRec /\ HoldOK(http[t].new, from, ent[s]) /\ http[t].new
  BY <1>1, OfThread DEF HttpAt, PcOK
<1>3. http \in [LruThreads -> ConnRec] /\ ent \in [Slots -> EntRec] /\ sessions \in Int /\ lru \in LruRec
  BY DEF HttpInv, HttpType
<1>4. Works(t, s, e, c)
  BY <1>1, <1>2, <1>3 DEF Works, StoreSize, HttpGoto
<1>5. /\ ent[s] \in EntRec /\ ent[s].users \in Int
      /\ e \in EntRec /\ e.users = ent[s].users /\ e.live = ent[s].live /\ e.pending = ent[s].pending /\ e.storage = ent[s].storage
      /\ e.size = 1 /\ e.rindex = ent[s].rindex /\ e.born = ent[s].born
  <2>1. ent[s].users \in Int
    BY <1>2 DEF EntRec
  <2> QED
    BY <1>2, <2>1, SizeSet
<1>6. http[t] \in ConnRec /\ c = [http[t] EXCEPT !.pc = pc]
  BY <1>2
<1> HIDE DEF c, e
<1>7. /\ c \in ConnRec /\ c.pc = pc /\ c.slot = http[t].slot /\ c.new = http[t].new /\ c.stale = http[t].stale
      /\ c.fd = http[t].fd
  BY SMTT(10), <1>1, <1>6, PcSet
<1>8. ent[s].pending /\ ent[s].size = 0
  BY <1>1, <1>2 DEF HoldOK, FillOK
<1>9. HoldOK(c.new, c.pc, e) /\ PcOK(c)
  <2>1. HoldOK(c.new, c.pc, e)
    BY <1>1, <1>2, <1>5, <1>7, <1>8 DEF HoldOK, FillOK
  <2>2. PcOK(c)
    BY <1>1, <1>2, <1>7 DEF PcOK
  <2> QED
    BY <2>1, <2>2
<1>10. ASSUME NEW u \in LruThreads, u # t, http[u].slot = s
       PROVE  HoldOK(http[u].new, http[u].pc, e)
  <2>1. HoldOK(http[u].new, http[u].pc, ent[s]) /\ ~http[u].new
    BY <1>2, <1>10, OfThread DEF HttpInv, MakerInv
  <2> QED
    BY <1>5, <2>1 DEF HoldOK
<1>11. e.users = ent[s].users - 1 + One(c.slot, s)
  <2>1. One(c.slot, s) = 1
    BY <1>7 DEF One
  <2> QED
    BY <1>5, <2>1
<1>12. WorkOK(t, s, e, c)
  BY <1>2, <1>5, <1>7, <1>9, <1>10, <1>11 DEF WorkOK
<1>13. lru.size \in Int /\ SizeBecomes(lru.size + 1)
  <2>1. lru' = [lru EXCEPT !.size = lru.size + 1] /\ lru.size \in Int
    BY <1>3 DEF StoreSize, LruRec
  <2> QED
    BY SMTT(10), <1>3, <2>1 DEF SizeBecomes, LruRec
<1>14. lru.size + 1 \in Int /\ lru.size + 1 = lru.size + (e.size - ent[s].size)
  BY <1>5, <1>8, <1>13
<1>15. sessions' = sessions + (IF e.storage /\ ~ent[s].storage THEN 1 ELSE 0) /\ (ent[s].storage => e.storage)
  <2>1. (IF e.storage /\ ~ent[s].storage THEN 1 ELSE 0) = 0 /\ (ent[s].storage => e.storage)
    BY <1>5
  <2> QED
    BY <1>3, <2>1
<1> HIDE DEF s
<1> QED
  BY <1>2, <1>4, <1>8, <1>12, <1>13, <1>14, <1>15, WorkStep

\* The maker tells those who wait that the entry is filled.
LEMMA StoreWakeStep ==
  ASSUME HttpInv, NEW t \in LruThreads, NEW from, NEW pc, <<from, pc>> \in {<<"wake", "leave">>, <<"failwake", "failleave">>},
         HttpAt(t, from), StoreWake(http[t].slot), HttpGoto(t, pc), UNCHANGED <<https, fds, sessions, mixed, tries>>
  PROVE  HttpInv'
<1> DEFINE s == http[t].slot
           e == [ent[s] EXCEPT !.pending = FALSE]
           c == [http[t] EXCEPT !.pc = pc]
<1>1. /\ from \in Wakes /\ pc \in Leaves /\ pc \in Points
      /\ from \notin Fills \cup Leaves /\ from # "lookup" /\ pc \notin Fills \cup Wakes \cup Outside
      /\ pc \notin {"cleanup", "wait", "store", "failstore"}
  BY DEF Wakes, Points, Fills, Leaves, Outside
<1>2. /\ http[t] \in ConnRec /\ PcOK(http[t]) /\ http[t].pc = from /\ s # 0 /\ s \in Slots /\ ent[s].live
      /\ ent[s] \in EntRec /\ HoldOK(http[t].new, from, ent[s]) /\ http[t].new
  BY <1>1, OfThread DEF HttpAt, PcOK
<1>3. /\ http \in [LruThreads -> ConnRec] /\ ent \in [Slots -> EntRec] /\ sessions \in Int
      /\ UNCHANGED lru /\ lru.size \in Int /\ SizeBecomes(lru.size)
  BY SizeSame DEF HttpInv, HttpType, StoreWake
<1>4. Works(t, s, e, c)
  BY <1>1, <1>2, <1>3 DEF Works, StoreWake, HttpGoto
<1>5. /\ ent[s] \in EntRec /\ ent[s].users \in Int
      /\ e \in EntRec /\ e.users = ent[s].users /\ e.live = ent[s].live /\ ~e.pending /\ e.storage = ent[s].storage
      /\ e.size = ent[s].size /\ e.rindex = ent[s].rindex /\ e.born = ent[s].born
  <2>1. ent[s].users \in Int
    BY <1>2 DEF EntRec
  <2> QED
    BY <1>2, <2>1, PendingSet
<1>6. http[t] \in ConnRec /\ c = [http[t] EXCEPT !.pc = pc]
  BY <1>2
<1> HIDE DEF c, e
<1>7. /\ c \in ConnRec /\ c.pc = pc /\ c.slot = http[t].slot /\ c.new = http[t].new /\ c.stale = http[t].stale
      /\ c.fd = http[t].fd
  BY SMTT(10), <1>1, <1>6, PcSet
<1>8. ent[s].size = 1
  BY <1>1, <1>2 DEF HoldOK, FillOK
<1>9. HoldOK(c.new, c.pc, e) /\ PcOK(c)
  <2>1. HoldOK(c.new, c.pc, e)
    BY <1>1, <1>2, <1>5, <1>7, <1>8 DEF HoldOK, FillOK
  <2>2. PcOK(c)
    BY <1>1, <1>2, <1>7 DEF PcOK
  <2> QED
    BY <2>1, <2>2
<1>10. ASSUME NEW u \in LruThreads, u # t, http[u].slot = s
       PROVE  HoldOK(http[u].new, http[u].pc, e)
  <2>1. ~http[u].new
    BY <1>2, <1>10, OfThread DEF HttpInv, MakerInv
  <2> QED
    BY <1>5, <2>1 DEF HoldOK
<1>11. e.users = ent[s].users - 1 + One(c.slot, s)
  <2>1. One(c.slot, s) = 1
    BY <1>7 DEF One
  <2> QED
    BY <1>5, <2>1
<1>12. WorkOK(t, s, e, c)
  BY <1>2, <1>5, <1>7, <1>9, <1>10, <1>11 DEF WorkOK
<1>13. lru.size = lru.size + (e.size - ent[s].size)
  BY <1>3, <1>5, <1>8
<1>14. sessions' = sessions + (IF e.storage /\ ~ent[s].storage THEN 1 ELSE 0) /\ (ent[s].storage => e.storage)
  <2>1. (IF e.storage /\ ~ent[s].storage THEN 1 ELSE 0) = 0 /\ (ent[s].storage => e.storage)
    BY <1>5
  <2> QED
    BY <1>3, <2>1
<1> HIDE DEF s
<1> QED
  BY <1>2, <1>3, <1>4, <1>5, <1>12, <1>13, <1>14, WorkStep

\* lru_leave, after which the entry may be evicted: it is filled.
LEMMA LeaveStep ==
  ASSUME HttpInv, NEW t \in LruThreads, HttpLeave(t)
  PROVE  HttpInv'
<1> DEFINE s == http[t].slot
           n == ent[s].users - 1
           pc == IF http[t].pc = "leave" THEN "write" ELSE "connect"
           e == [ent[s] EXCEPT !.users = n]
           c == LeftTo(http[t], pc)
<1>1. /\ http[t].pc \in Leaves /\ http[t].pc \notin Fills \cup Wakes /\ http[t].pc \notin {"lookup", "wait"}
      /\ pc \in {"write", "connect"}
  BY DEF Wakes, Fills, Leaves, HttpLeave
<1>2. /\ http[t] \in ConnRec /\ PcOK(http[t]) /\ s # 0 /\ s \in Slots /\ ent[s].live
      /\ ent[s] \in EntRec /\ HoldOK(http[t].new, http[t].pc, ent[s])
  BY <1>1, OfThread DEF PcOK
<1>3. /\ http \in [LruThreads -> ConnRec] /\ ent \in [Slots -> EntRec] /\ sessions \in Int
      /\ UNCHANGED lru /\ lru.size \in Int /\ SizeBecomes(lru.size) /\ UNCHANGED sessions
  BY SizeSame DEF HttpInv, HttpType, HttpLeave, Leave
<1>4. Works(t, s, e, c)
  BY <1>1, <1>2, <1>3 DEF Works, HttpLeave, Leave, LeftTo
<1>5. n \in Int /\ ent[s].users \in Int /\ n = ent[s].users - 1
  BY SMTT(10), <1>2 DEF EntRec
<1>6. ent[s] \in EntRec /\ e = [ent[s] EXCEPT !.users = n]
  BY <1>2
<1> HIDE DEF n, pc, e
<1>7. /\ e \in EntRec /\ e.users = n /\ e.live = ent[s].live /\ e.pending = ent[s].pending /\ e.storage = ent[s].storage
      /\ e.size = ent[s].size /\ e.rindex = ent[s].rindex /\ e.born = ent[s].born
  BY SMTT(10), <1>5, <1>6, UsersSet
<1>8. pc \in Points /\ pc \in Outside /\ pc # "cleanup"
      /\ pc \notin {"wait", "session", "store", "failstore"} \cup Wakes \cup Leaves
  BY <1>1 DEF Points, Outside, Wakes, Leaves
<1>9. c \in ConnRec /\ c.pc = pc /\ c.slot = 0 /\ ~c.stale /\ c.fd = http[t].fd
  BY <1>2, <1>8, LeftSet
<1> HIDE DEF c
<1>10. ~ent[s].pending
  BY <1>1, <1>2 DEF HoldOK, FillOK
<1>11. ent[s].size = 1
  BY <1>2, <1>10, FilledCounted
<1>12. PcOK(c)
  BY <1>8, <1>9 DEF PcOK
<1>13. ASSUME NEW u \in LruThreads, u # t, http[u].slot = s
       PROVE  HoldOK(http[u].new, http[u].pc, e)
  <2>1. HoldOK(http[u].new, http[u].pc, ent[s])
    BY <1>2, <1>13, OfThread
  <2> QED
    BY <1>7, <2>1 DEF HoldOK, FillOK
<1>14. e.users = ent[s].users - 1 + One(c.slot, s)
  <2>1. One(c.slot, s) = 0
    BY <1>2, <1>9 DEF One
  <2> QED
    BY <1>5, <1>7, <2>1
<1>15. WorkOK(t, s, e, c)
  <2>1. 0 # 1
    OBVIOUS
  <2> QED
    BY <1>2, <1>7, <1>9, <1>10, <1>11, <1>12, <1>13, <1>14, <2>1 DEF WorkOK
<1>16. lru.size = lru.size + (e.size - ent[s].size)
  BY <1>3, <1>7, <1>11
<1>17. sessions' = sessions + (IF e.storage /\ ~ent[s].storage THEN 1 ELSE 0) /\ (ent[s].storage => e.storage)
  <2>1. (IF e.storage /\ ~ent[s].storage THEN 1 ELSE 0) = 0 /\ (ent[s].storage => e.storage)
    BY <1>7
  <2> QED
    BY <1>3, <2>1
<1> HIDE DEF s
<1> QED
  BY <1>2, <1>3, <1>4, <1>7, <1>15, <1>16, <1>17, WorkStep

\* lru_store, whichever way the handshake went.
LEMMA StoreStep ==
  ASSUME HttpInv, NEW t \in LruThreads, HttpStore(t)
  PROVE  HttpInv'
<1>1. UNCHANGED <<https, fds, sessions, mixed, tries>>
  BY DEF HttpStore
<1>2. CASE HttpAt(t, "store") /\ StoreSize(http[t].slot) /\ HttpGoto(t, "wake")
  BY <1>1, <1>2, StoreSizeStep
<1>3. CASE HttpAt(t, "failstore") /\ StoreSize(http[t].slot) /\ HttpGoto(t, "failwake")
  BY <1>1, <1>3, StoreSizeStep
<1>4. CASE HttpAt(t, "wake") /\ StoreWake(http[t].slot) /\ HttpGoto(t, "leave")
  BY <1>1, <1>4, StoreWakeStep
<1>5. CASE HttpAt(t, "failwake") /\ StoreWake(http[t].slot) /\ HttpGoto(t, "failleave")
  BY <1>1, <1>5, StoreWakeStep
<1> QED
  BY <1>2, <1>3, <1>4, <1>5 DEF HttpStore

\* At first nobody has an entry, a session or a connection.
LEMMA HttpFirst ==
  ASSUME HttpInit
  PROVE  HttpInv
<1>1. http = [t \in LruThreads |-> HttpConnInit] /\ ent = [s \in Slots |-> Freed]
  BY DEF HttpInit, LruInit
<1>2. 0 \in Indexes /\ LruMax - 1 + Cardinality(LruThreads) >= 0
  BY LruAssumption, ThreadsFinite DEF Indexes
<1>3. HttpType
  <2>1. lru \in LruRec
    BY <1>2 DEF HttpInit, LruInit, LruNew, LruRec
  <2>2. Freed \in EntRec
    BY <1>2 DEF Freed, EntRec, Peers
  <2>3. HttpConnInit \in ConnRec
    BY DEF HttpConnInit, ConnRec, Peers, Points, Outside
  <2>4. fds \in Int /\ sessions \in Int /\ tries \in Nat
    BY DEF HttpInit
  <2>5. https \in BOOLEAN /\ mixed \in BOOLEAN
    BY DEF HttpInit
  <2> QED
    BY <1>1, <2>1, <2>2, <2>3, <2>4, <2>5 DEF HttpType
<1>4. lru.list = <<>> /\ Range(lru.list) = {} /\ lru.size = 0 /\ lru.lock = NoThread /\ lru.cut = 0 /\ lru.lost = 0
  BY DEF HttpInit, LruInit, LruNew, Range
<1>5. \A s \in Slots : ~ent[s].live /\ ~ent[s].pending /\ ~ent[s].storage /\ ent[s].users = 0
  BY <1>1 DEF Freed
<1>6. \A t \in LruThreads : http[t].pc = "connect" /\ http[t].slot = 0 /\ ~http[t].fd /\ ~http[t].stale
  BY <1>1 DEF HttpConnInit
<1>7. ListInv /\ FreeInv /\ FillerInv /\ EpochInv
  BY <1>4, <1>5 DEF ListInv, Once, FreeInv, FillerInv, EpochInv
<1>8. LockInv
  BY <1>4, LruAssumption DEF LockInv, NoThread
<1>9. ConnInv
  BY <1>6 DEF ConnInv, PcOK, Wakes, Leaves
<1>10. MakerInv
  BY <1>6 DEF MakerInv
<1>11. SizeInv
  <2>1. Counted = {}
    BY <1>4 DEF Counted
  <2> QED
    BY <1>4, <2>1, FS_EmptySet DEF SizeInv, CutOK
<1>12. SizeBounded
  BY <1>2, <1>4, LruAssumption, ThreadsFinite, SMTT(10) DEF SizeBounded
<1>13. EntriesHeld
  <2>1. ASSUME NEW s \in Slots
        PROVE  Holding(http, s) = {}
    BY <1>6, SlotsFinite DEF Holding
  <2>2. HeldOK(ent, http)
    BY <1>5, <2>1, FS_EmptySet DEF HeldOK
  <2> QED
    BY <1>3, <2>2, HeldIs
<1>14. NotStale
  BY <1>3, <1>6 DEF NotStale, HttpType
<1>15. SessionsOwned
  <2>1. {s \in DOMAIN ent : ent[s].storage} = {}
    BY <1>3, <1>5 DEF HttpType
  <2> QED
    BY <2>1, FS_EmptySet DEF SessionsOwned, HttpInit
<1>16. HttpFds
  <2>1. {t \in DOMAIN http : http[t].fd} = {}
    BY <1>3, <1>6 DEF HttpType
  <2> QED
    BY <2>1, FS_EmptySet DEF HttpFds, HttpInit
<1> QED
  BY <1>3, <1>7, <1>8, <1>9, <1>10, <1>11, <1>12, <1>13, <1>14, <1>15, <1>16 DEF HttpInv

\* Every step of a thread and of the owner keeps the invariant.
LEMMA HttpKept ==
  ASSUME HttpInv, [HttpNext]_httpvars
  PROVE  HttpInv'
<1>1. CASE HttpOwner
  BY <1>1, OwnerStep
<1>2. ASSUME NEW t \in LruThreads, HttpStep(t)
      PROVE  HttpInv'
  BY <1>2, ConnectStep, GiveUpStep, OpenStep, LookupStep, WaitStep, HandshakeStep, SessionStep, StoreStep, LeaveStep,
     WriteStep, ParseStep, CleanupStep DEF HttpStep
<1>3. CASE UNCHANGED httpvars
  <2>1. UNCHANGED <<lru, ent, http, https, fds, sessions, mixed, tries>>
    BY <1>3 DEF httpvars, lruvars, hvars
  <2>2. (HttpType /\ ListInv /\ FreeInv /\ LockInv /\ ConnInv /\ MakerInv /\ FillerInv /\ EpochInv)'
    BY <2>1 DEF HttpInv, HttpType, ListInv, FreeInv, LockInv, ConnInv, MakerInv, FillerInv, EpochInv
  <2>3. (SizeInv /\ SizeBounded /\ EntriesHeld /\ NotStale /\ SessionsOwned /\ HttpFds)'
    BY <2>1 DEF HttpInv, SizeInv, CutOK, Counted, SizeBounded, EntriesHeld, Holders, NotStale, SessionsOwned, HttpFds
  <2> QED
    BY <2>2, <2>3 DEF HttpInv
<1> QED
  BY <1>1, <1>2, <1>3 DEF HttpNext

\* The invariant of the cache and of the connections, which says besides what
\* CacheSound and NothingLeaked ask for how far the maker of an entry has come.
THEOREM HttpInductive == HttpSpec => []HttpInv
<1>1. HttpInit => HttpInv
  BY HttpFirst
<1>2. HttpInv /\ [HttpNext]_httpvars => HttpInv'
  BY HttpKept
<1> QED
  BY <1>1, <1>2, PTL DEF HttpSpec

\* An entry that is pending has its maker, who is on the way to lru_store.
LEMMA Filled ==
  ASSUME HttpInv
  PROVE  FillerStores
<1> SUFFICES ASSUME NEW s \in Slots, ent[s].pending
             PROVE  \E t \in Holders(s) :
                       http[t].new /\ http[t].pc \in {"handshake", "session", "store", "wake", "failstore", "failwake"}
  BY DEF FillerStores, HttpInv, HttpType
<1>1. ent[s].live
  BY DEF HttpInv, FreeInv
<1>2. PICK t \in LruThreads : http[t].slot = s /\ http[t].new
  BY <1>1 DEF HttpInv, FillerInv
<1>3. HoldOK(http[t].new, http[t].pc, ent[s])
  BY <1>2, SlotsFinite, OfThread
<1>4. t \in Holders(s)
  BY <1>2 DEF Holders, HttpInv, HttpType
<1>5. http[t].pc \in Fills \cup Wakes
  BY <1>2, <1>3 DEF HoldOK, FillOK
<1> QED
  BY <1>2, <1>4, <1>5 DEF Fills, Wakes

\* The size that the code keeps can be accounted for.
LEMMA Accounted ==
  ASSUME HttpInv
  PROVE  SizeAccounted
<1>1. lru.size \in Int /\ lru.seen \in Int /\ lru.cut \in {0, 1}
  BY DEF HttpInv, HttpType, LruRec
<1>2. lru.size >= lru.cut
  BY <1>1 DEF HttpInv, SizeInv, CutOK
<1> QED
  BY <1>2 DEF HttpInv, SizeInv, CutOK, SizeAccounted

\* CacheSound for every number of threads and every size of the cache: what
\* cache_lru, lru_store, lru_leave, lru_invalidate and lru_flush do to the
\* cache, interleaved between their locks and between the read and the write
\* of c->size in an eviction, makes the size short by the additions that were
\* overwritten and by nothing else, lets the list grow past the bound by no
\* more than these and the entries being filled, frees no entry in use, leaves
\* no thread waiting for an entry nobody fills and gives no entry from before
\* an invalidation.
THEOREM CacheIsSound == HttpSpec => []CacheSound
<1>1. HttpInv => CacheSound
  BY Filled, Accounted DEF CacheSound, HttpInv
<1> QED
  BY <1>1, HttpInductive, PTL

\* NothingLeaked for every number of threads: each TLS session is in one entry
\* or freed and each descriptor is closed or put back once, whichever way out
\* of http_fd_pool_connect, http_fd_pool_send and http_fd_pool_cleanup is taken.
THEOREM NothingIsLeaked == HttpSpec => []NothingLeaked
<1>1. HttpInv => NothingLeaked
  BY DEF NothingLeaked, HttpInv
<1> QED
  BY <1>1, HttpInductive, PTL
=============================================================================
