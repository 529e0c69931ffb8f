------------------------------- MODULE Rcycle -------------------------------
(***************************************************************************)
(* util/lib/rcycle.c: cycles through a range of numbers in an order that   *)
(* depends on a seed.  The 32 bit register that gives the seed of the next *)
(* cycle is any seed.                                                      *)
(***************************************************************************)
EXTENDS Integers, FiniteSets, Bitwise

CONSTANTS
    RcRanges,  \* ranges to ask for, up to 14
    RcSeeds    \* seeds

ASSUME RcAssumption == RcRanges \subseteq 1 .. 14 /\ RcSeeds \subseteq Nat

VARIABLES
    rc,     \* struct rcycle
    rcOut   \* history: what the current cycle has returned

rcvars == <<rc, rcOut>>

\* lfsr_taps
LfsrTaps == [bits \in 2 .. 4 |-> <<0, 3, 5, 9>>[bits]]

\* ffs(round_2(range + 1)) - 1
RcBits(range) == CHOOSE bits \in 2 .. 4 : 2 ^ (bits - 1) <= range + 1 /\ range + 1 < 2 ^ bits

\* What the numbers are flipped with, for less than 16 bits.
RcFlip(range, seed) ==
    LET mask == 2 ^ RcBits(range) - 1
        flip == (seed \div 2 ^ (RcBits(range) + 1)) % (mask + 1) IN
    IF flip < range THEN flip ^^ mask ELSE flip

\* rcycle_reseed
Reseeded(range, count, seed) ==
    LET flip == RcFlip(range, seed)
        start == (seed % range) + 1 IN
    [range |-> range, count |-> count, flip |-> flip,
     lfsr |-> IF (start ^^ flip) > range THEN start ^^ flip ELSE start]

RcInit == rc \in {Reseeded(range, 0, seed) : range \in RcRanges, seed \in RcSeeds} /\ rcOut = {}

RcIdle == rc = [range |-> 0] /\ rcOut = {}

\* lfsr_generate_u32
LfsrNext(state, bits) == (state \div 2) ^^ (IF state % 2 = 1 THEN LfsrTaps[bits] ELSE 0)

\* Mutant of RcFlipped: 0 is not replaced.
RcFlippedZero(state) == state ^^ rc.flip

\* The register never holds 0, so that the flip itself never comes up.
RcFlipped(state) == IF state = rc.flip THEN rc.flip ELSE state ^^ rc.flip

\* The loop of rcycle_generate: the number and the register after it.
RECURSIVE RcDraw(_)
RcDraw(state) ==
    LET ret == RcFlipped(state)
        next == LfsrNext(state, RcBits(rc.range)) IN
    IF ret > rc.range THEN RcDraw(next) ELSE [ret |-> ret, lfsr |-> next]

\* Bound: the count is kept modulo the range, which is all that is asked of
\* it.
RcycleGenerate ==
    \E draw \in {RcDraw(rc.lfsr)} :
        IF rc.count + 1 = rc.range
        THEN rc' \in {Reseeded(rc.range, 0, seed) : seed \in RcSeeds} /\ rcOut' = {}
        ELSE rc' = [rc EXCEPT !.lfsr = draw.lfsr, !.count = @ + 1] /\ rcOut' = rcOut \cup {draw.ret - 1}

RcNext == RcycleGenerate

\* Every cycle returns every number of the range once, whatever the seed,
\* though values outside the range are left out and the value that the flip
\* turns into 0 is replaced (rcycle.h: "returning every integer in the
\* range"): what it has returned are different numbers below the range, and
\* the next one is a new one.
CycleComplete ==
    rc.range # 0 =>
        /\ Cardinality(rcOut) = rc.count
        /\ \E draw \in {RcDraw(rc.lfsr)} : draw.ret - 1 \in (0 .. rc.range - 1) \ rcOut

============================================================================
