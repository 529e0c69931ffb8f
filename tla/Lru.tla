-------------------------------- MODULE Lru --------------------------------
(***************************************************************************)
(* util/lib/lru.c: a cache with a bound on its size that threads fill and  *)
(* share.  The operators describe what a call does to the cache; the       *)
(* threads that make the calls are those of HttpPool.  Every entry has     *)
(* size one.  A thread fills one entry at a time, so that the branch of    *)
(* cache_lru for a thread that meets its own pending entry is not taken.   *)
(* size is added to with an atomic operation and without the mutex, and    *)
(* subtracted from with a plain one: a subtraction is two steps here.      *)
(***************************************************************************)
EXTENDS Integers, Sequences, FiniteSets, Functions

CONSTANTS
    LruThreads,  \* the threads that use the cache
    LruMax,      \* max_size
    LruWidth,    \* the number of values of rindex, 2^64 in the code
    LruSlots,    \* bound: addresses of entries
    LruEpochs    \* bound: invalidations

ASSUME LruAssumption ==
    /\ LruMax \in Nat \ {0} /\ LruWidth \in Nat \ {0} /\ LruSlots \in Nat /\ LruEpochs \in Nat
    /\ IsFiniteSet(LruThreads) /\ LruThreads \cap {"none", "owner"} = {}

VARIABLES
    lru,  \* struct lru: size, rindex and the list, oldest first; lock is who has the mutex
    ent   \* struct lru_entry by address

lruvars == <<lru, ent>>

Slots == 1 .. LruSlots

\* The mutex is free.  "owner" is what holds it in lru_flush.
NoThread == "none"

Freed == [live |-> FALSE, key |-> "", rindex |-> 0, users |-> 0, pending |-> FALSE, storage |-> FALSE, size |-> 0, born |-> 0]

\* seen and cut are what an eviction that has not written size yet has read
\* of it and will subtract; no eviction does when cut is 0.  History: epoch
\* counts the invalidations, wrapped tells that lru_invalidate has returned 1
\* and the cache has not been flushed since, lost is what was added to size
\* and overwritten since then.
LruNew ==
    [size |-> 0, rindex |-> 0, list |-> <<>>, lock |-> NoThread, seen |-> 0, cut |-> 0, lost |-> 0, epoch |-> 0,
     wrapped |-> FALSE]

LruInit == lru = LruNew /\ ent = [s \in Slots |-> Freed]

\* Nothing is cached and nobody calls.
LruIdle == lru = LruNew /\ ent = <<>>

Unlocked == lru.lock = NoThread

\* avl_lookup with the combined key
Found(key) == {s \in Range(lru.list) : ent[s].key = key /\ ent[s].rindex = lru.rindex}

\* TAILQ_REMOVE
Without(list, s) ==
    LET i == CHOOSE i \in DOMAIN list : list[i] = s
    IN  SubSeq(list, 1, i - 1) \o SubSeq(list, i + 1, Len(list))

\* A found entry becomes the youngest and has one more user.
Hit(s) ==
    /\ lru' = [lru EXCEPT !.list = Append(Without(@, s), s)]
    /\ ent' = [ent EXCEPT ![s].users = @ + 1]

Full == lru.size >= LruMax

HasRoom == \E s \in Slots : ~ent[s].live

NewSlot == CHOOSE s \in Slots : ~ent[s].live /\ \A r \in Slots : r < s => ent[r].live

\* A new entry, which its maker has to fill.
Insert(key) ==
    /\ HasRoom
    /\ lru' = [lru EXCEPT !.list = Append(@, NewSlot), !.lock = NoThread]
    /\ ent' = [ent EXCEPT ![NewSlot] = [live |-> TRUE, key |-> key, rindex |-> lru.rindex, users |-> 1,
                                        pending |-> TRUE, storage |-> FALSE, size |-> 0, born |-> lru.epoch]]

\* Mutant of Idle: an entry counts as unused once it is filled.
IdleFilled == {i \in DOMAIN lru.list : ~ent[lru.list[i]].pending}

\* The places of entries without users, the oldest first.
Idle == {i \in DOMAIN lru.list : ent[lru.list[i]].users = 0}

\* What Evict and lru_flush do to an entry; the former is about to subtract
\* cut from the size it reads.
Unlink(s, seen, cut) ==
    /\ lru' = [lru EXCEPT !.list = Without(@, s), !.seen = seen, !.cut = cut]
    /\ ent' = [ent EXCEPT ![s] = Freed]

\* One round of the loop that makes room, up to the read of size.
Evict ==
    \E i \in Idle :
        /\ \A j \in Idle : i <= j
        /\ Unlink(lru.list[i], lru.size, ent[lru.list[i]].size)

Evicting == lru.cut # 0

\* The write of size: what lru_store has added since the read is gone.
EvictSize ==
    /\ lru' = [lru EXCEPT !.size = lru.seen - lru.cut, !.lost = @ + (lru.size - lru.seen), !.seen = 0, !.cut = 0]
    /\ UNCHANGED ent

\* lru_store up to the atomic addition; no one reads the size of an entry
\* that is used.
StoreSize(s) == lru' = [lru EXCEPT !.size = @ + 1] /\ ent' = [ent EXCEPT ![s].size = 1]

\* lru_store's last part, with the entry's mutex
StoreWake(s) == ent' = [ent EXCEPT ![s].pending = FALSE] /\ UNCHANGED lru

\* lru_leave
Leave(s) == ent' = [ent EXCEPT ![s].users = @ - 1] /\ UNCHANGED lru

----------------------------------------------------------------------------
\* The owner of the cache

LruInvalidate ==
    LET last == lru.rindex = LruWidth - 1 IN
    /\ Unlocked /\ lru.epoch < LruEpochs
    /\ lru' = [lru EXCEPT !.rindex = IF last THEN 0 ELSE @ + 1, !.epoch = @ + 1, !.wrapped = @ \/ last]
    /\ UNCHANGED ent

\* lru_flush takes the mutex and keeps it while it waits for users.
FlushBegin == Unlocked /\ lru' = [lru EXCEPT !.lock = "owner"] /\ UNCHANGED ent

FlushEntry ==
    /\ lru.lock = "owner" /\ lru.list # <<>> /\ ent[lru.list[1]].users = 0
    /\ Unlink(lru.list[1], lru.seen, lru.cut)

FlushEnd ==
    /\ lru.lock = "owner" /\ lru.list = <<>>
    /\ lru' = [lru EXCEPT !.size = 0, !.lost = 0, !.lock = NoThread, !.wrapped = FALSE]
    /\ UNCHANGED ent

LruOwner == LruInvalidate \/ FlushBegin \/ FlushEntry \/ FlushEnd

----------------------------------------------------------------------------
\* Properties

\* The entries whose size has been added.
Counted == {s \in Range(lru.list) : ent[s].size = 1}

\* size, to which threads add without the mutex that evictions hold, is the
\* sum of the sizes of the entries in the list less the additions that fell
\* between the read and the write of an eviction.  It is never more, so that
\* no subtraction takes it below zero, and lru_flush makes it right again.
SizeAccounted ==
    /\ lru.lock # "owner" => lru.size + lru.lost = Cardinality(Counted) + lru.cut
    /\ lru.size >= lru.cut /\ lru.lost >= 0

\* The cache makes room only before it adds an entry, when the entries being
\* filled are not yet counted.  It may then pass max_size, but by no more
\* than one entry for each other thread and one for each lost addition.
SizeBounded ==
    Len(lru.list) <= LruMax - 1 + Cardinality(LruThreads) + lru.lost

============================================================================
