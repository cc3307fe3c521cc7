---------------------------- MODULE Checkpoints ----------------------------
(***************************************************************************)
(* The notarised checkpoints of squishy_state (squishy_structs.cpp) and    *)
(* the searches over them.  NPOINTS is the vector in arrival order; the    *)
(* code's index i is NPOINTS[i + 1] here.                                  *)
(*                                                                         *)
(* A notarisation's MoM and MoMdepth are one number: the code stores       *)
(* neither unless both are non-zero, so MoMdepth = 0 stands for "no MoM".  *)
(* The destination txid travels with the hash and is left out.             *)
(***************************************************************************)
EXTENDS Integers, Sequences

CONSTANTS
    Hashes,   \* the block hashes a notarisation can name
    NoHash    \* the null uint256

ASSUME HashAssumption == NoHash \notin Hashes

(* Found in the block at nHeight; notarises block notarized_hash, which is *)
(* at notarized_height.                                                    *)
Checkpoint == [nHeight : Nat, notarized_height : Nat,
               notarized_hash : Hashes \cup {NoHash}, MoMdepth : Nat]

NullCheckpoint == [nHeight |-> 0, notarized_height |-> 0,
                   notarized_hash |-> NoHash, MoMdepth |-> 0]

-----------------------------------------------------------------------------
(* The first index at or above `from' with nHeight >= h, if there is one.  *)
Breaks(NPOINTS, from, h) ==
    {i \in from .. Len(NPOINTS) - 1 :
        /\ NPOINTS[i + 1].nHeight >= h
        /\ \A k \in from .. i - 1 : NPOINTS[k + 1].nHeight < h}

(* Where a loop "from i upwards, stop at the first nHeight >= h" stops.    *)
Stop(NPOINTS, from, h) ==
    LET breaks == Breaks(NPOINTS, from, h)
    IN  IF breaks = {} THEN Len(NPOINTS) ELSE CHOOSE i \in breaks : TRUE

(* Mutant: the cached predecessor is not compared with the height. *)
CacheUsable_AnyHeight(NPOINTS, last_index, h) ==
    0 < last_index /\ last_index < Len(NPOINTS)

(* The cached index is used only if it names an entry with a predecessor   *)
(* and that predecessor is below the height asked for.                     *)
CacheUsable(NPOINTS, last_index, h) ==
    /\ 0 < last_index /\ last_index < Len(NPOINTS)
    /\ NPOINTS[last_index].nHeight < h

(* The entry NotarizedData answers with, as a position in NPOINTS; 0 for   *)
(* none.  A cached walk that runs off the end is repeated from the start.  *)
NotarizedData(NPOINTS, last_index, h) ==
    LET fromCache == Stop(NPOINTS, last_index, h)
    IN  IF CacheUsable(NPOINTS, last_index, h) /\ fromCache < Len(NPOINTS)
        THEN fromCache
        ELSE Stop(NPOINTS, 0, h)

(* NPOINTS_last_index afterwards: the last entry either walk passed over.  *)
NotarizedDataIndex(NPOINTS, last_index, h) ==
    LET fromCache == Stop(NPOINTS, last_index, h)
        cached    == CacheUsable(NPOINTS, last_index, h)
        i         == IF cached /\ fromCache > last_index THEN fromCache - 1
                                                        ELSE last_index
        fromStart == Stop(NPOINTS, 0, h)
    IN  IF (cached /\ fromCache < Len(NPOINTS)) \/ fromStart = 0
        THEN i
        ELSE fromStart - 1

(* The last notarised height that has a MoM: `last' first, then NPOINTS    *)
(* from the back.                                                          *)
PrevMoMHeight(NPOINTS, last) ==
    IF last.MoMdepth # 0
    THEN last.notarized_height
    ELSE LET withMoM == {i \in DOMAIN NPOINTS : NPOINTS[i].MoMdepth # 0}
         IN  IF withMoM = {}
             THEN 0
             ELSE NPOINTS[CHOOSE i \in withMoM :
                            \A k \in withMoM : k <= i].notarized_height

-----------------------------------------------------------------------------
(* The heights of the blocks the checkpoints were found in never fall.     *)
Ascending(NPOINTS) ==
    \A i, k \in DOMAIN NPOINTS :
        i <= k => NPOINTS[i].nHeight <= NPOINTS[k].nHeight
=============================================================================
