------------------------------ MODULE CacheSim ------------------------------
(***************************************************************************)
(* The cache simulator (riscv/cachesim.cc): a set-associative first level  *)
(* over a second one, its miss handler.  The caches hold tags and no data; *)
(* what they are for is the count of misses and write-backs, so what has   *)
(* to be right is which lines are held and which are dirty.                *)
(*                                                                         *)
(* Addresses are line numbers, and both levels have lines of one size.     *)
(***************************************************************************)
EXTENDS Naturals

CONSTANTS
  Lines,         \* line numbers, addr >> idx_shift
  Sets, Ways     \* per level, "L1" and "L2": cache_sim_t's parameters

CacheLevels == {"L1", "L2"}

ASSUME CacheAssumption ==
  /\ Lines \subseteq Nat
  /\ Sets \in [CacheLevels -> Nat \ {0}] /\ Ways \in [CacheLevels -> Nat \ {0}]

VARIABLES
  tags,      \* level -> set -> way -> tag
  newest     \* who has the last store to a line: "L1", "L2", or "memory"

cacheVars == <<tags, newest>>

WaysOf(v) == 1 .. Ways[v]

\* init: a zeroed tag is not VALID.
CacheInit ==
  /\ tags = [v \in CacheLevels |-> [s \in 0 .. Sets[v] - 1 |->
               [w \in WaysOf(v) |-> [line |-> 0, valid |-> FALSE, dirty |-> FALSE]]]]
  /\ newest = [n \in Lines |-> "memory"]

\* check_tag: the ways of the cache c that hold line n.
CheckTag(c, v, n) ==
  {w \in WaysOf(v) : c[n % Sets[v]][w].valid /\ c[n % Sets[v]][w].line = n}

\* Mutant of Filled: a store that misses leaves the line clean.
FilledClean(c, v, n, w, store) ==
  [c EXCEPT ![n % Sets[v]][w] = [line |-> n, valid |-> TRUE, dirty |-> FALSE]]

\* victimize, and the DIRTY bit that access sets at its end.
Filled(c, v, n, w, store) ==
  [c EXCEPT ![n % Sets[v]][w] = [line |-> n, valid |-> TRUE, dirty |-> store]]

\* access(n, store) on the cache c of level v, which lets go of way w if it misses (lfsr
\* picks it): the cache afterwards, the lines it wrote back, and whether it missed.
Accessed(c, v, n, store, w) ==
  LET hit    == CheckTag(c, v, n)
      victim == c[n % Sets[v]][w]
  IN  IF hit # {}
      THEN [cache |-> IF store THEN [c EXCEPT ![n % Sets[v]][CHOOSE h \in hit : TRUE].dirty = TRUE] ELSE c,
            out   |-> {}, miss |-> FALSE]
      ELSE [cache |-> Filled(c, v, n, w, store),
            out   |-> IF victim.valid /\ victim.dirty THEN {victim.line} ELSE {}, miss |-> TRUE]

\* A load or a store of the hart: on a miss the victim goes to the second level before
\* the line comes from there.
CacheAccess(n, store) ==
  \E w \in WaysOf("L1"), w1, w2 \in WaysOf("L2") :
    LET first  == Accessed(tags["L1"], "L1", n, store, w)
        idle   == [cache |-> tags["L2"], out |-> {}]
        second == IF first.out = {} THEN idle
                  ELSE Accessed(tags["L2"], "L2", CHOOSE d \in first.out : TRUE, TRUE, w1)
        third  == IF first.miss THEN Accessed(second.cache, "L2", n, FALSE, w2) ELSE second
        Down(m) == IF m \in first.out \/ newest[m] = "L2"
                   THEN IF m \in second.out \cup third.out THEN "memory" ELSE "L2"
                   ELSE newest[m]
    IN  /\ tags' = [tags EXCEPT !["L1"] = first.cache, !["L2"] = third.cache]
        /\ newest' = [m \in Lines |-> IF m = n /\ store THEN "L1" ELSE Down(m)]

\* The tag of a line after clean_invalidate: DIRTY goes with clean, VALID with inval.
CleanInvalidated(c, v, n, clean, inval) ==
  LET s == n % Sets[v]
  IN  [c EXCEPT ![s] =
         [w \in WaysOf(v) |->
            IF w \in CheckTag(c, v, n)
            THEN [c[s][w] EXCEPT !.dirty = @ /\ ~clean, !.valid = ~inval] ELSE c[s][w]]]

\* clean_invalidate of one line, in both levels; what is invalidated uncleaned is lost,
\* as the instruction asks for.
CleanInvalidate(n, clean, inval) ==
  /\ clean \/ inval
  /\ tags' = [v \in CacheLevels |-> CleanInvalidated(tags[v], v, n, clean, inval)]
  /\ newest' = [newest EXCEPT ![n] = "memory"]

CacheNext ==
  \/ \E n \in Lines, store \in BOOLEAN : CacheAccess(n, store)
  \/ \E n \in Lines, clean, inval \in BOOLEAN : CleanInvalidate(n, clean, inval)

CacheSpec == CacheInit /\ [][CacheNext]_cacheVars

-----------------------------------------------------------------------------
(* Properties.                                                             *)

Holding(v, n) == {w \in WaysOf(v) : tags[v][n % Sets[v]][w].valid /\ tags[v][n % Sets[v]][w].line = n}

\* A line is in at most one way of a cache, so that what is counted as a hit, cleaned
\* or invalidated is all there is of it.
OneWayPerLine ==
  \A v \in CacheLevels, n \in Lines : \A a, b \in Holding(v, n) : a = b

\* No write-back is lost: where the last store to a line has got to, the line is held
\* and dirty, through evictions of either level and through cleaning.
DirtyIsHeld ==
  \A n \in Lines : newest[n] # "memory" =>
    \E w \in Holding(newest[n], n) : tags[newest[n]][n % Sets[newest[n]]][w].dirty

\* Every line has one place in a cache, and its newest contents are not lost.
CachesExact == OneWayPerLine /\ DirtyIsHeld
=============================================================================
