---------------------------- MODULE NotaryState ----------------------------
(***************************************************************************)
(* The dPoW state of an asset chain (class squishy_state, squishy.cpp and  *)
(* squishy_events.cpp) and the state file it is rebuilt from: what         *)
(* squishy_connectblock does with the notarisations of each block, the     *)
(* events it appends to the file, and the replay of the file at start-up.  *)
(*                                                                         *)
(* The chain appears only as the height of its tip, which rises by         *)
(* connecting a block and falls by disconnecting one.  A record and its    *)
(* effect in memory are one step: stateupdate writes, applies and flushes, *)
(* and a record lost before the flush loses its effect with it.            *)
(***************************************************************************)
EXTENDS Checkpoints

CONSTANTS
    nHeightOf,     \* the height of the block with a given hash
    Depths,        \* MoM depths a notarisation may carry (0: none)
    MaxHeight,     \* bound: height of the chain
    MaxConnects,   \* bound: calls of squishy_connectblock
    MaxRestarts    \* bound: crashes

ASSUME StateAssumption ==
    /\ nHeightOf \in [Hashes -> Nat \ {0}]
    /\ Depths \subseteq Nat
    /\ MaxHeight \in Nat /\ MaxConnects \in Nat /\ MaxRestarts \in Nat

VARIABLES
    NPOINTS,             \* squishy_state: the checkpoints
    NPOINTS_last_index,  \*   ... the cached position of the last search
    last,                \*   ... the last notarisation
    events,              \*   ... the list of events
    SAVEDHEIGHT, CURRENT_HEIGHT,
    hwmheight,           \* the static of squishy_connectblock
    NotaryPay,           \* ASSETCHAINS_NOTARY_PAY[0] != 0, fixed for a chain
    file,                \* the records of the state file
    pos,                 \* records already read back at start-up
    pc,                  \* "replay", "idle", "vouts" or "paid"
    tip,                 \* height of the active chain
    known,               \* hashes in mapBlockIndex
    ibd,                 \* IsInitialBlockDownload()
    connects, restarts,  \* what the bounds count
    orphaned,            \* history: `last' was ever given up as an orphan
    before,              \* history: memory at the last crash
    MoMheights           \* history: heights notarised with a MoM

memory == <<NPOINTS, NPOINTS_last_index, last, events, SAVEDHEIGHT,
            CURRENT_HEIGHT, hwmheight>>
vars == <<memory, file, pos, pc, tip, known, ibd, connects, restarts,
          orphaned, before, MoMheights, NotaryPay>>

(* What a replay has to bring back.                                        *)
Snapshot == <<NPOINTS, events, SAVEDHEIGHT>>

Init ==
    /\ NPOINTS = <<>> /\ NPOINTS_last_index = 0
    /\ last = NullCheckpoint
    /\ events = <<>>
    /\ SAVEDHEIGHT = 0 /\ CURRENT_HEIGHT = 0 /\ hwmheight = 0
    /\ NotaryPay \in BOOLEAN
    /\ file = <<>> /\ pos = 0
    /\ pc = "idle"
    /\ tip = 0
    /\ known = {}
    /\ ibd = TRUE
    /\ connects = 0 /\ restarts = 0
    /\ orphaned = FALSE
    /\ before = <<>>
    /\ MoMheights = {}

-----------------------------------------------------------------------------
(* The events of the state file and their effects (squishy_events.cpp).    *)

add_event(evs, type, height) ==
    Append(evs, [type |-> type, height |-> height])

(* Pops from the back while the last event is not below `height'.  Every   *)
(* popped event is "undone" by the template's empty body: the list holds   *)
(* pointers to the base class, so the specialisation for event_kmdheight   *)
(* that would lower SAVEDHEIGHT is never the one called.                   *)
squishy_event_rewind(evs, height) ==
    LET back == {i \in DOMAIN evs :
                    /\ evs[i].height < height
                    /\ \A k \in i + 1 .. Len(evs) : evs[k].height >= height}
    IN  IF back = {} THEN <<>> ELSE SubSeq(evs, 1, CHOOSE i \in back : TRUE)

Higher(a, b) == IF a > b THEN a ELSE b

squishy_setkmdheight(kmdheight) ==
    /\ SAVEDHEIGHT' = Higher(SAVEDHEIGHT, kmdheight)
    /\ CURRENT_HEIGHT' = Higher(CURRENT_HEIGHT, kmdheight)

(* A height that is not positive means "rewind": an event of its own that  *)
(* the rewind removes again at once.                                       *)
squishy_eventadd_kmdheight(ev) ==
    IF ev.kheight > 0
    THEN /\ events' = add_event(events, "K", ev.height)
         /\ squishy_setkmdheight(ev.kheight)
    ELSE /\ events' = squishy_event_rewind(add_event(events, "B", ev.height),
                                           ev.height)
         /\ UNCHANGED <<SAVEDHEIGHT, CURRENT_HEIGHT>>

(* Mutant: the new checkpoint does not become `last'. *)
AddCheckpoint_KeepsLast(cp) ==
    /\ NPOINTS' = Append(NPOINTS, cp)
    /\ UNCHANGED last

AddCheckpoint(cp) ==
    /\ NPOINTS' = Append(NPOINTS, cp)
    /\ last' = cp

(* Refuses a notarisation of a block that is not below its own block.      *)
squishy_notarized_update(cp) ==
    IF cp.notarized_height >= cp.nHeight
    THEN UNCHANGED <<NPOINTS, last>>
    ELSE AddCheckpoint(cp)

squishy_eventadd_notarized(ev) ==
    /\ events' = add_event(events, "N", ev.height)
    /\ squishy_notarized_update(
           [nHeight |-> ev.height, notarized_height |-> ev.notarizedheight,
            notarized_hash |-> ev.blockhash, MoMdepth |-> ev.MoMdepth])

-----------------------------------------------------------------------------
(* Mutant: a block at the high-water mark itself does not rewind. *)
ConnectStart_KeepsEqual ==
    /\ pc = "idle"
    /\ tip < MaxHeight /\ connects < MaxConnects
    /\ IF tip + 1 >= hwmheight
       THEN UNCHANGED <<events, file>>
       ELSE /\ file' = Append(file, [type |-> "K", height |-> tip + 1,
                                     kheight |-> -(tip + 1)])
            /\ events' = squishy_event_rewind(events, tip + 1)
    /\ hwmheight' = tip + 1
    /\ CURRENT_HEIGHT' = tip
    /\ connects' = connects + 1
    /\ pc' = "vouts"
    /\ before' = <<>>
    /\ UNCHANGED <<NPOINTS, NPOINTS_last_index, last, SAVEDHEIGHT, pos, tip,
                   known, ibd, restarts, orphaned, MoMheights, NotaryPay>>

(* squishy_connectblock for the block above the tip, up to its outputs.    *)
(* After a restart hwmheight is 0 and the first block never rewinds.       *)
ConnectStart ==
    /\ pc = "idle"
    /\ tip < MaxHeight /\ connects < MaxConnects
    /\ IF tip + 1 > hwmheight
       THEN UNCHANGED <<events, file>>
       ELSE LET ht == tip + 1
                kept == squishy_event_rewind(events, ht)
            IN  /\ file' = Append(file, [type |-> "K", height |-> ht,
                                         kheight |-> -ht])
                /\ events' = squishy_event_rewind(
                                 add_event(kept, "B", ht), ht)
    /\ hwmheight' = tip + 1
    /\ CURRENT_HEIGHT' = tip
    /\ connects' = connects + 1
    /\ pc' = "vouts"
    /\ before' = <<>>
    /\ UNCHANGED <<NPOINTS, NPOINTS_last_index, last, SAVEDHEIGHT, pos, tip,
                   known, ibd, restarts, orphaned, MoMheights, NotaryPay>>

(* The call with fJustCheck that ConnectBlock makes on notary-pay chains:  *)
(* whatever it finds, it has moved hwmheight and CURRENT_HEIGHT.           *)
JustCheck ==
    /\ pc = "idle" /\ NotaryPay
    /\ tip < MaxHeight /\ connects < MaxConnects
    /\ hwmheight' = tip + 1
    /\ CURRENT_HEIGHT' = tip
    /\ connects' = connects + 1
    /\ UNCHANGED <<NPOINTS, NPOINTS_last_index, last, events, SAVEDHEIGHT,
                   file, pos, pc, tip, known, ibd, restarts,
                   orphaned, before, MoMheights, NotaryPay>>

(* Outside the initial download the notarised block must be known, at the  *)
(* height claimed for it; it need not be on the active chain.              *)
squishy_validate_chain(srchash, notarized_height) ==
    ibd \/ (srchash \in known /\ nHeightOf[srchash] = notarized_height)

(* A MoM deeper than the notarised height is dropped.                      *)
ParsedMoM(notarizedheight, depth) ==
    IF depth > notarizedheight THEN 0 ELSE depth

(* Mutant: a notarisation below the last one is accepted. *)
squishy_voutupdate_AnyHeight(srchash, notarizedheight, depth) ==
    LET MoM == ParsedMoM(notarizedheight, depth)
        ev  == [type |-> "N", height |-> tip + 1,
                notarizedheight |-> notarizedheight, blockhash |-> srchash,
                MoMdepth |-> IF MoM > 0 THEN MoM ELSE last.MoMdepth]
    IN  /\ squishy_validate_chain(srchash, notarizedheight)
        /\ notarizedheight # last.notarized_height
        /\ notarizedheight < tip + 1
        /\ file' = Append(file, ev)
        /\ squishy_eventadd_notarized(ev)
        /\ UNCHANGED MoMheights

(* Mutant: the notarisation is applied but not written to the file. *)
squishy_voutupdate_NotWritten(srchash, notarizedheight, depth) ==
    LET MoM == ParsedMoM(notarizedheight, depth)
        ev  == [type |-> "N", height |-> tip + 1,
                notarizedheight |-> notarizedheight, blockhash |-> srchash,
                MoMdepth |-> IF MoM > 0 THEN MoM ELSE last.MoMdepth]
    IN  /\ squishy_validate_chain(srchash, notarizedheight)
        /\ notarizedheight > last.notarized_height
        /\ notarizedheight < tip + 1
        /\ squishy_eventadd_notarized(ev)
        /\ UNCHANGED <<file, MoMheights>>

(* One notarisation output, signed by enough notaries.  A notarisation     *)
(* without a MoM leaves the MoM of the previous one in `last'.             *)
squishy_voutupdate(srchash, notarizedheight, depth) ==
    LET MoM == ParsedMoM(notarizedheight, depth)
        ev  == [type |-> "N", height |-> tip + 1,
                notarizedheight |-> notarizedheight, blockhash |-> srchash,
                MoMdepth |-> IF MoM > 0 THEN MoM ELSE last.MoMdepth]
    IN  /\ squishy_validate_chain(srchash, notarizedheight)
        /\ notarizedheight > last.notarized_height
        /\ notarizedheight < tip + 1
        /\ file' = Append(file, ev)
        /\ squishy_eventadd_notarized(ev)
        /\ MoMheights' = IF MoM > 0 THEN MoMheights \cup {notarizedheight}
                                    ELSE MoMheights

(* The outputs of the block being connected, in any number; a notary-pay   *)
(* chain has refused a block with more than one.  The height an output     *)
(* claims for its hash is its own: during the initial download any height  *)
(* below the block's is taken.                                             *)
Vout ==
    /\ pc = "vouts"
    /\ \E h \in Hashes, notarizedheight \in 1 .. MaxHeight, depth \in Depths :
           squishy_voutupdate(h, notarizedheight, depth)
    /\ pc' = IF NotaryPay THEN "paid" ELSE "vouts"
    /\ UNCHANGED <<NPOINTS_last_index, SAVEDHEIGHT, CURRENT_HEIGHT,
                   hwmheight, pos, tip, known, ibd, connects, restarts,
                   orphaned, before, NotaryPay>>

(* The rest of squishy_connectblock, and of ConnectTip: hwmheight is the   *)
(* height of this block, so the height event is always written.            *)
ConnectEnd ==
    /\ pc \in {"vouts", "paid"}
    /\ LET ev == [type |-> "K", height |-> tip + 1, kheight |-> tip + 1]
       IN  /\ file' = Append(file, ev)
           /\ squishy_eventadd_kmdheight(ev)
    /\ tip' = tip + 1
    /\ pc' = "idle"
    /\ UNCHANGED <<NPOINTS, NPOINTS_last_index, last, hwmheight, pos, known,
                   ibd, connects, restarts, orphaned, before, MoMheights,
                   NotaryPay>>

-----------------------------------------------------------------------------
(* Reading `last' gives it up if its block is not in the block index.      *)
NotarizedHeight ==
    IF last.notarized_hash \in known
    THEN UNCHANGED <<last, orphaned>>
    ELSE /\ last' = [last EXCEPT !.notarized_hash = NoHash,
                                 !.notarized_height = 0]
         /\ orphaned' = (orphaned \/ last.notarized_hash # NoHash)

(* RPC calls and the pruning code ask for the last notarisation.           *)
ReadNotarizedHeight ==
    /\ pc = "idle"
    /\ NotarizedHeight
    /\ UNCHANGED <<NPOINTS, NPOINTS_last_index, events, SAVEDHEIGHT,
                   CURRENT_HEIGHT, hwmheight, file, pos, pc, tip, known, ibd,
                   connects, restarts, before, MoMheights, NotaryPay>>

(* DisconnectTip asks first, and leaves the rest of the dPoW state alone.  *)
DisconnectTip ==
    /\ pc = "idle"
    /\ tip > 0
    /\ NotarizedHeight
    /\ tip' = tip - 1
    /\ UNCHANGED <<NPOINTS, NPOINTS_last_index, events, SAVEDHEIGHT,
                   CURRENT_HEIGHT, hwmheight, file, pos, pc, known, ibd,
                   connects, restarts, before, MoMheights, NotaryPay>>

(* squishy_checkpoint searches below the height of the tip.                *)
ReadNotarizedData ==
    /\ pc = "idle"
    /\ NPOINTS_last_index' =
           NotarizedDataIndex(NPOINTS, NPOINTS_last_index, tip)
    /\ UNCHANGED <<NPOINTS, last, events, SAVEDHEIGHT, CURRENT_HEIGHT,
                   hwmheight, file, pos, pc, tip, known, ibd, connects,
                   restarts, orphaned, before, MoMheights, NotaryPay>>

(* The block index learns a header.                                        *)
LearnBlock ==
    /\ pc = "idle"
    /\ \E h \in Hashes \ known : known' = known \cup {h}
    /\ UNCHANGED <<memory, file, pos, pc, tip, ibd, connects, restarts,
                   orphaned, before, MoMheights, NotaryPay>>

LeaveIBD ==
    /\ pc = "idle" /\ ibd
    /\ ibd' = FALSE
    /\ UNCHANGED <<memory, file, pos, pc, tip, known, connects, restarts,
                   orphaned, before, MoMheights, NotaryPay>>

-----------------------------------------------------------------------------
(* The process dies, and starts again with the records of the file and a   *)
(* block index and a chain state that may be older.                        *)
Crash ==
    /\ pc # "replay" /\ restarts < MaxRestarts
    /\ restarts' = restarts + 1
    /\ before' = Snapshot
    /\ NPOINTS' = <<>> /\ NPOINTS_last_index' = 0
    /\ last' = NullCheckpoint
    /\ events' = <<>>
    /\ SAVEDHEIGHT' = 0 /\ CURRENT_HEIGHT' = 0 /\ hwmheight' = 0
    /\ pos' = 0
    /\ pc' = "replay"
    /\ \E t \in 0 .. tip : tip' = t
    /\ \E k \in SUBSET known : known' = k
    /\ ibd' = TRUE
    /\ UNCHANGED <<file, connects, orphaned, MoMheights, NotaryPay>>

squishy_parsestatefiledata(ev) ==
    IF ev.type = "N"
    THEN /\ squishy_eventadd_notarized(ev)
         /\ UNCHANGED <<SAVEDHEIGHT, CURRENT_HEIGHT>>
    ELSE /\ squishy_eventadd_kmdheight(ev)
         /\ UNCHANGED <<NPOINTS, last>>

(* squishy_init reads the file record by record before anything else runs. *)
Replay ==
    /\ pc = "replay"
    /\ pos < Len(file)
    /\ squishy_parsestatefiledata(file[pos + 1])
    /\ pos' = pos + 1
    /\ UNCHANGED <<NPOINTS_last_index, hwmheight, file, pc, tip, known, ibd,
                   connects, restarts, orphaned, before, MoMheights,
                   NotaryPay>>

ReplayDone ==
    /\ pc = "replay"
    /\ pos = Len(file)
    /\ pc' = "idle"
    /\ pos' = 0
    /\ UNCHANGED <<memory, file, tip, known, ibd, connects, restarts,
                   orphaned, before, MoMheights, NotaryPay>>

Next ==
    \/ ConnectStart \/ JustCheck \/ Vout \/ ConnectEnd
    \/ ReadNotarizedHeight \/ DisconnectTip \/ ReadNotarizedData
    \/ LearnBlock \/ LeaveIBD
    \/ Crash \/ Replay \/ ReplayDone

Spec == Init /\ [][Next]_vars

-----------------------------------------------------------------------------
FileEvent ==
    [type : {"N"}, height : Nat, notarizedheight : Nat,
     blockhash : Hashes, MoMdepth : Nat]
    \cup [type : {"K"}, height : Nat, kheight : Int]

(* Every variable keeps its type; in particular no height is negative.     *)
TypeOK ==
    /\ NPOINTS \in Seq(Checkpoint) /\ last \in Checkpoint
    /\ NPOINTS_last_index \in 0 .. Len(NPOINTS)
    /\ events \in Seq([type : {"N", "K", "B"}, height : Nat])
    /\ SAVEDHEIGHT \in Nat /\ CURRENT_HEIGHT \in Nat /\ hwmheight \in Nat
    /\ file \in Seq(FileEvent) /\ pos \in 0 .. Len(file)
    /\ pc \in {"replay", "idle", "vouts", "paid"}
    /\ tip \in 0 .. MaxHeight
    /\ known \subseteq Hashes
    /\ ibd \in BOOLEAN /\ orphaned \in BOOLEAN /\ NotaryPay \in BOOLEAN
    /\ connects \in 0 .. MaxConnects /\ restarts \in 0 .. MaxRestarts

(* `last', which the reorganisation guard trusts, is the newest entry of   *)
(* NPOINTS, which the header check trusts: through notarisations, reorgs   *)
(* and replay they part only when NotarizedHeight gave `last' up.          *)
LastIsNewest ==
    IF last.notarized_height # 0
    THEN NPOINTS # <<>> /\ last = NPOINTS[Len(NPOINTS)]
    ELSE last.notarized_hash = NoHash /\ (NPOINTS = <<>> \/ orphaned)

(* A later checkpoint notarises a higher block, however the chain was      *)
(* reorganised and however often it was replayed, unless an orphaned       *)
(* notarisation was given up (which reopens the heights below it).         *)
CheckpointsRise ==
    orphaned \/ \A i, k \in DOMAIN NPOINTS :
        i < k => NPOINTS[i].notarized_height < NPOINTS[k].notarized_height

(* Replaying the file brings back the checkpoints, the events and          *)
(* SAVEDHEIGHT exactly as they were when the process died, wherever in     *)
(* squishy_connectblock it died.                                           *)
ReplayExact == (pc = "idle" /\ before # <<>>) => Snapshot = before

(* As long as the process has not restarted, squishy_connectblock never    *)
(* adds to events of blocks that are gone: while a block is connected, the *)
(* events are in height order and none is above it.                        *)
EventsFollowChain ==
    (restarts = 0 /\ pc \in {"vouts", "paid"}) =>
        /\ \A i, k \in DOMAIN events :
               i < k => events[i].height <= events[k].height
        /\ \A i \in DOMAIN events : events[i].height <= tip + 1

(* While no reorganisation has put a checkpoint behind a higher one, the   *)
(* cached search of NotarizedData gives the answer of the plain one.       *)
SearchExact ==
    Ascending(NPOINTS) =>
        \A h \in 0 .. MaxHeight + 1 :
            NotarizedData(NPOINTS, NPOINTS_last_index, h)
                = NotarizedData(NPOINTS, 0, h)

(* "Get the notarization data below a particular height": the answer is    *)
(* the most recent checkpoint found below the tip, if there is one (and no *)
(* orphaned notarisation ever reopened lower heights).                     *)
HighestBelow ==
    LET below == {i \in DOMAIN NPOINTS : NPOINTS[i].nHeight < tip}
        i     == NotarizedData(NPOINTS, NPOINTS_last_index, tip)
    IN  (below # {} /\ ~orphaned) =>
            /\ i # 0
            /\ \A k \in below : NPOINTS[k].nHeight <= NPOINTS[i].nHeight

(* "the last notarized height that has a MoM": the notarisation of the     *)
(* height PrevMoMHeight returns did carry a MoM.                           *)
PrevMoMHasMoM == PrevMoMHeight(NPOINTS, last) \in MoMheights \cup {0}

=============================================================================
