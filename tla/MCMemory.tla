------------------------------ MODULE MCMemory ------------------------------
(***************************************************************************)
(* The paths to memory, side by side: a hart's, through TLB and            *)
(* instruction cache, the same accesses as the cache simulator counts      *)
(* them, and the sync disk's.  The models share no variable, so in each    *)
(* behaviour one of them, path, moves and the others rest.                 *)
(***************************************************************************)
EXTENDS Mmu, SyncDisk, CacheSim, TLC

VARIABLE path

Init ==
  /\ path \in {"mmu", "disk", "cachesim"} /\ MmuInit /\ DiskInit /\ CacheInit
  /\ path # "mmu" => pte = CHOOSE f \in [Pages -> Leaves] : TRUE
  /\ path # "mmu" => pmp = CHOOSE f \in Pmps : TRUE
  /\ path # "disk" => size = 0

MmuMoves   == path = "mmu" /\ MmuNext /\ UNCHANGED <<path, diskVars, cacheVars>>
DiskMoves  == path = "disk" /\ DiskNext /\ UNCHANGED <<path, mmuVars, cacheVars>>
CacheMoves == path = "cachesim" /\ CacheNext /\ UNCHANGED <<path, mmuVars, diskVars>>

MemorySpec ==
  Init /\ [][MmuMoves \/ DiskMoves \/ CacheMoves]_<<path, mmuVars, diskVars, cacheVars>>

-----------------------------------------------------------------------------
(* Leaf entries, PMP settings, mstatus values and caches of the instance.  *)

MmuLeaves ==
  { [ppn |-> 0, perms |-> {"R", "W"}, user |-> TRUE, dirty |-> FALSE],
    [ppn |-> 0, perms |-> {"R", "W"}, user |-> TRUE, dirty |-> TRUE],
    [ppn |-> 1, perms |-> {"X"}, user |-> FALSE, dirty |-> FALSE] }
MmuPmps ==
  LET all == [allow |-> Types, split |-> FALSE, locked |-> FALSE]
  IN  { (0 :> all) @@ (1 :> all),
        (0 :> [all EXCEPT !.split = TRUE, !.locked = TRUE]) @@ (1 :> [all EXCEPT !.allow = {"R"}]) }
MmuMstatuses ==
  { [mprv |-> FALSE, mpp |-> "U", sum |-> FALSE, mxr |-> FALSE],
    [mprv |-> TRUE, mpp |-> "U", sum |-> TRUE, mxr |-> TRUE] }
CacheSets == [v \in CacheLevels |-> IF v = "L1" THEN 1 ELSE 2]
CacheWays == [v \in CacheLevels |-> IF v = "L1" THEN 2 ELSE 1]
MmuTriggered == {{}, Types}
=============================================================================
