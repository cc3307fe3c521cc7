------------------------- MODULE NotaryStateProofs --------------------------
(***************************************************************************)
(* The dPoW state for chains of any height, any blocks, any number of      *)
(* reorganisations and restarts.                                           *)
(*                                                                         *)
(* LastIsNewest and CheckpointsRise are not inductive: a replay rebuilds   *)
(* `last' and NPOINTS from the file, so they hold afterwards only because  *)
(* of what the file says.  The invariant adds that the records of the file *)
(* are well formed (Records) and rise too, and where `last' stands among   *)
(* them (FileRises): behind them all while blocks are connected, between   *)
(* those read and those to come during a replay.                           *)
(*                                                                         *)
(* Around it: the searches over the checkpoints, the replay of the whole   *)
(* file (ReplayExact), and the order of its events (EventsFollowChain).    *)
(***************************************************************************)
EXTENDS NotaryState, TLAPS

-----------------------------------------------------------------------------
(* The searches over the checkpoints, for vectors of any length.           *)

(* A walk over the checkpoints stops at one of them or at the end.         *)
LEMMA StopRange ==
    ASSUME NEW NP \in Seq(Checkpoint), NEW from \in 0 .. Len(NP), NEW h \in Nat
    PROVE  Stop(NP, from, h) \in from .. Len(NP)
<1> DEFINE breaks == Breaks(NP, from, h)
<1>1. Len(NP) \in from .. Len(NP) /\ breaks \subseteq from .. Len(NP)
  BY DEF Breaks
<1>2. CASE breaks = {}
  BY <1>1, <1>2 DEF Stop
<1>3. CASE breaks # {}
  <2>1. Stop(NP, from, h) \in breaks
    BY <1>3, Zenon DEF Stop
  <2> QED  BY <1>1, <2>1
<1> QED  BY <1>2, <1>3

(* NotarizedData answers with an entry of NPOINTS, or with none, and the   *)
(* index it leaves behind for the next search stays within NPOINTS.        *)
LEMMA SearchRange ==
    ASSUME NEW NP \in Seq(Checkpoint), NEW li \in 0 .. Len(NP), NEW h \in Nat
    PROVE  /\ NotarizedData(NP, li, h) \in 0 .. Len(NP)
           /\ NotarizedDataIndex(NP, li, h) \in 0 .. Len(NP)
<1>1. Len(NP) \in Nat /\ 0 \in 0 .. Len(NP)
  OBVIOUS
<1>2. Stop(NP, 0, h) \in 0 .. Len(NP) /\ Stop(NP, li, h) \in li .. Len(NP)
  BY <1>1, StopRange, Zenon
<1>3. NotarizedData(NP, li, h) \in 0 .. Len(NP)
  BY <1>1, <1>2 DEF NotarizedData
<1>4. NotarizedDataIndex(NP, li, h) \in 0 .. Len(NP)
  BY <1>1, <1>2 DEF NotarizedDataIndex
<1> QED  BY <1>3, <1>4

(* As long as the heights in NPOINTS do not fall, NotarizedData gives the  *)
(* same answer from any cached index as from the start: the predecessor of *)
(* the cached entry is below the height asked for, so nothing before it    *)
(* could have stopped the walk.                                            *)
THEOREM CachedSearchExact ==
    ASSUME NEW NP \in Seq(Checkpoint), NEW li \in 0 .. Len(NP), NEW h \in Nat,
           Ascending(NP)
    PROVE  NotarizedData(NP, li, h) = NotarizedData(NP, 0, h)
<1>1. NotarizedData(NP, 0, h) = Stop(NP, 0, h)
  BY DEF NotarizedData, CacheUsable
<1>2. CASE ~CacheUsable(NP, li, h)
  BY <1>1, <1>2 DEF NotarizedData
<1>3. CASE CacheUsable(NP, li, h)
  <2>1. li \in 1 .. Len(NP) /\ NP[li].nHeight < h
    BY <1>3 DEF CacheUsable
  <2>2. \A k \in 1 .. li : NP[k] \in Checkpoint /\ NP[k].nHeight < h
    <3> SUFFICES ASSUME NEW k \in 1 .. li
                 PROVE  NP[k] \in Checkpoint /\ NP[k].nHeight < h
      OBVIOUS
    <3>1. k \in 1 .. Len(NP) /\ NP[k] \in Checkpoint /\ NP[li] \in Checkpoint
      BY <2>1
    <3>2. NP[k].nHeight <= NP[li].nHeight
      BY <2>1, <3>1 DEF Ascending
    <3>3. NP[k].nHeight \in Nat /\ NP[li].nHeight \in Nat
      BY <3>1, Zenon DEF Checkpoint
    <3> QED  BY <2>1, <3>1, <3>2, <3>3
  <2>3. Breaks(NP, 0, h) \subseteq Breaks(NP, li, h)
    <3> SUFFICES ASSUME NEW i \in Breaks(NP, 0, h) PROVE i \in Breaks(NP, li, h)
      OBVIOUS
    <3>1. i \in 0 .. Len(NP) - 1 /\ NP[i + 1].nHeight >= h
          /\ \A k \in 0 .. i - 1 : NP[k + 1].nHeight < h
      BY DEF Breaks
    <3>2. i >= li
      <4> SUFFICES ASSUME i < li PROVE FALSE
        BY <3>1
      <4>1. i + 1 \in 1 .. li
        BY <2>1, <3>1
      <4>2. NP[i + 1] \in Checkpoint /\ NP[i + 1].nHeight < h /\ NP[i + 1].nHeight >= h
        BY <4>1, <2>2, <3>1
      <4> QED  BY <4>2 DEF Checkpoint
    <3> QED  BY <3>1, <3>2, <2>1 DEF Breaks
  <2>4. Breaks(NP, li, h) \subseteq Breaks(NP, 0, h)
    <3> SUFFICES ASSUME NEW i \in Breaks(NP, li, h) PROVE i \in Breaks(NP, 0, h)
      OBVIOUS
    <3>1. i \in li .. Len(NP) - 1 /\ NP[i + 1].nHeight >= h
          /\ \A k \in li .. i - 1 : NP[k + 1].nHeight < h
      BY DEF Breaks
    <3>2. \A k \in 0 .. i - 1 : NP[k + 1].nHeight < h
      <4> SUFFICES ASSUME NEW k \in 0 .. i - 1 PROVE NP[k + 1].nHeight < h
        OBVIOUS
      <4>1. CASE k >= li
        BY <4>1, <3>1
      <4>2. CASE k < li
        BY <4>2, <2>2, <2>1
      <4> QED  BY <4>1, <4>2, <2>1
    <3>3. i \in 0 .. Len(NP) - 1
      BY <3>1, <2>1
    <3> QED  BY <3>1, <3>2, <3>3 DEF Breaks
  <2>5. Breaks(NP, li, h) = Breaks(NP, 0, h)
    BY <2>3, <2>4, Zenon
  <2>6. Stop(NP, li, h) = Stop(NP, 0, h)
    BY <2>5 DEF Stop
  <2> QED  BY <1>1, <2>6 DEF NotarizedData
<1> QED  BY <1>2, <1>3

-----------------------------------------------------------------------------
(* The invariant.                                                          *)

Event == [type : {"N", "K", "B"}, height : Nat]

IsN(i) == file[i].type = "N"

Records ==
    \A i \in DOMAIN file : IsN(i) =>
        0 < file[i].notarizedheight /\ file[i].notarizedheight < file[i].height

LastNotarises == last.notarized_height # 0 => last.notarized_hash \in Hashes

RecordsRise ==
    \A i, k \in DOMAIN file :
        (i < k /\ IsN(i) /\ IsN(k))
            => file[i].notarizedheight < file[k].notarizedheight

LastAmongRecords ==
    \A i \in DOMAIN file : IsN(i) =>
        IF pc # "replay" \/ i <= pos
        THEN file[i].notarizedheight <= last.notarized_height
        ELSE last.notarized_height < file[i].notarizedheight

FileRises == orphaned \/ (RecordsRise /\ LastAmongRecords)

(* There is room for the block being connected.                            *)
Connecting == pc \in {"vouts", "paid"} => tip < MaxHeight

IInv ==
    /\ TypeOK
    /\ Records
    /\ LastNotarises
    /\ LastIsNewest
    /\ CheckpointsRise
    /\ FileRises
    /\ Connecting

-----------------------------------------------------------------------------
(* Rewinding leaves a list of events.                                      *)
LEMMA RewindType ==
    ASSUME NEW evs \in Seq(Event), NEW h \in Int
    PROVE  squishy_event_rewind(evs, h) \in Seq(Event)
<1> DEFINE back == {i \in DOMAIN evs :
                       /\ evs[i].height < h
                       /\ \A k \in i + 1 .. Len(evs) : evs[k].height >= h}
           n == CHOOSE i \in back : TRUE
<1>1. CASE back = {}
  BY <1>1 DEF squishy_event_rewind
<1>2. CASE back # {}
  <2>1. n \in back
    BY <1>2, Zenon
  <2>2. n \in 1 .. Len(evs)
    BY <2>1
  <2> HIDE DEF n
  <2>3. SubSeq(evs, 1, n) \in Seq(Event)
    BY <2>2
  <2> QED  BY <1>2, <2>3 DEF squishy_event_rewind, n
<1> QED  BY <1>1, <1>2

LEMMA AddEventType ==
    ASSUME NEW evs \in Seq(Event), NEW type \in {"N", "K", "B"}, NEW h \in Nat
    PROVE  add_event(evs, type, h) \in Seq(Event)
BY DEF add_event, Event

(* What appending a record that is not a notarisation does to the file.    *)
LEMMA AppendK ==
    ASSUME IInv, NEW ht \in Nat, NEW k \in Int,
           file' = Append(file, [type |-> "K", height |-> ht, kheight |-> k]),
           UNCHANGED <<NPOINTS, last, orphaned>>,
           pc # "replay", pc' # "replay"
    PROVE  /\ file' \in Seq(FileEvent)
           /\ Len(file') = Len(file) + 1
           /\ Records' /\ LastNotarises' /\ LastIsNewest' /\ CheckpointsRise'
           /\ FileRises'
<1> DEFINE ev == [type |-> "K", height |-> ht, kheight |-> k]
<1>1. ev \in FileEvent
  BY DEF FileEvent
<1>2. file \in Seq(FileEvent)
  BY DEF IInv, TypeOK
<1>3. file' \in Seq(FileEvent) /\ Len(file') = Len(file) + 1
      /\ DOMAIN file' = 1 .. Len(file) + 1 /\ DOMAIN file = 1 .. Len(file)
      /\ Len(file) \in Nat
  BY <1>1, <1>2
<1>4. /\ \A i \in DOMAIN file : file'[i] = file[i]
      /\ file'[Len(file) + 1] = ev
  BY <1>1, <1>2
<1>5. \A i \in DOMAIN file' : IsN(i)' => i \in DOMAIN file /\ IsN(i) /\ file'[i] = file[i]
  BY <1>3, <1>4 DEF IsN
<1>6. Records'
  BY <1>5 DEF IInv, Records, IsN
<1>7. LastNotarises' /\ LastIsNewest' /\ CheckpointsRise'
  BY DEF IInv, LastNotarises, LastIsNewest, CheckpointsRise
<1>8. FileRises'
  BY <1>5 DEF IInv, FileRises, RecordsRise, LastAmongRecords, IsN
<1> QED  BY <1>3, <1>6, <1>7, <1>8

(* A step that leaves the checkpoints and the file alone.                  *)
LEMMA Frame ==
    ASSUME IInv, UNCHANGED <<NPOINTS, last, orphaned, file>>,
           pc # "replay", pc' # "replay"
    PROVE  Records' /\ LastNotarises' /\ LastIsNewest' /\ CheckpointsRise'
           /\ FileRises'
BY DEF IInv, Records, LastNotarises, LastIsNewest, CheckpointsRise, FileRises,
       RecordsRise, LastAmongRecords, IsN

(* A checkpoint above the last one, from a block or from the file.         *)
LEMMA AddedCheckpoint ==
    ASSUME IInv, NEW cp \in Checkpoint,
           cp.notarized_hash \in Hashes, cp.notarized_height # 0,
           orphaned \/ cp.notarized_height > last.notarized_height,
           AddCheckpoint(cp), UNCHANGED orphaned
    PROVE  /\ NPOINTS' \in Seq(Checkpoint) /\ Len(NPOINTS') = Len(NPOINTS) + 1
           /\ last' = cp
           /\ LastNotarises' /\ LastIsNewest' /\ CheckpointsRise'
<1>1. NPOINTS \in Seq(Checkpoint) /\ last \in Checkpoint
  BY DEF IInv, TypeOK
<1>2. NPOINTS' = Append(NPOINTS, cp) /\ last' = cp
  BY DEF AddCheckpoint
<1>3. /\ NPOINTS' \in Seq(Checkpoint) /\ Len(NPOINTS') = Len(NPOINTS) + 1
      /\ NPOINTS'[Len(NPOINTS')] = cp /\ NPOINTS' # <<>>
      /\ DOMAIN NPOINTS' = 1 .. Len(NPOINTS) + 1
      /\ DOMAIN NPOINTS = 1 .. Len(NPOINTS) /\ Len(NPOINTS) \in Nat
      /\ \A i \in DOMAIN NPOINTS : NPOINTS'[i] = NPOINTS[i] /\ NPOINTS[i] \in Checkpoint
  BY <1>1, <1>2
<1>4. LastNotarises' /\ LastIsNewest'
  BY <1>2, <1>3 DEF LastNotarises, LastIsNewest
<1>5. CheckpointsRise'
  <2>1. CASE orphaned
    BY <2>1 DEF CheckpointsRise
  <2>2. CASE ~orphaned
    <3>1. \A i \in DOMAIN NPOINTS :
              NPOINTS[i].notarized_height <= last.notarized_height
      <4> SUFFICES ASSUME NEW i \in DOMAIN NPOINTS
                   PROVE  NPOINTS[i].notarized_height <= last.notarized_height
        OBVIOUS
      <4>1. Len(NPOINTS) \in DOMAIN NPOINTS /\ i <= Len(NPOINTS) /\ NPOINTS # <<>>
        BY <1>3, <1>1
      <4>2. last = NPOINTS[Len(NPOINTS)]
        BY <2>2, <4>1 DEF IInv, LastIsNewest
      <4>3. i < Len(NPOINTS) => NPOINTS[i].notarized_height
                                   < NPOINTS[Len(NPOINTS)].notarized_height
        BY <2>2, <4>1 DEF IInv, CheckpointsRise
      <4>4. NPOINTS[i].notarized_height \in Nat /\ last.notarized_height \in Nat
        BY <1>1, <1>3 DEF Checkpoint
      <4>5. CASE i = Len(NPOINTS)
        BY <4>2, <4>4, <4>5
      <4>6. CASE i < Len(NPOINTS)
        BY <4>2, <4>3, <4>4, <4>6
      <4> QED  BY <4>1, <4>5, <4>6, <1>3
    <3>2. \A i \in DOMAIN NPOINTS :
              NPOINTS[i].notarized_height < cp.notarized_height
      BY <2>2, <3>1, <1>1, <1>3 DEF Checkpoint
    <3>3. \A i, k \in DOMAIN NPOINTS' :
              i < k => NPOINTS'[i].notarized_height < NPOINTS'[k].notarized_height
      <4> SUFFICES ASSUME NEW i \in DOMAIN NPOINTS', NEW k \in DOMAIN NPOINTS', i < k
                   PROVE  NPOINTS'[i].notarized_height < NPOINTS'[k].notarized_height
        OBVIOUS
      <4>1. i \in DOMAIN NPOINTS /\ NPOINTS'[i] = NPOINTS[i]
        BY <1>3
      <4>2. CASE k \in DOMAIN NPOINTS
        BY <4>1, <4>2, <1>3, <2>2 DEF IInv, CheckpointsRise
      <4>3. CASE k = Len(NPOINTS')
        BY <4>1, <4>3, <1>3, <3>2
      <4> QED  BY <4>2, <4>3, <1>3
    <3> QED  BY <3>3 DEF CheckpointsRise
  <2> QED  BY <2>1, <2>2
<1> QED  BY <1>2, <1>3, <1>4, <1>5

(* NotarizedHeight keeps `last', or gives it up for good.                  *)
LEMMA GivenUp ==
    ASSUME IInv, NotarizedHeight, pc = "idle",
           UNCHANGED <<NPOINTS, file, pc, pos>>
    PROVE  /\ last' \in Checkpoint /\ orphaned' \in BOOLEAN
           /\ Records' /\ LastNotarises' /\ LastIsNewest' /\ CheckpointsRise'
           /\ FileRises'
<1>1. last \in Checkpoint /\ orphaned \in BOOLEAN /\ known \subseteq Hashes
  BY DEF IInv, TypeOK
<1>2. Records'
  BY DEF IInv, Records, IsN
<1>3. CASE last.notarized_hash \in known
  <2>1. UNCHANGED <<last, orphaned>>
    BY <1>3 DEF NotarizedHeight
  <2> QED  BY <1>1, <2>1, Frame
<1>4. CASE last.notarized_hash \notin known
  <2>1. /\ last' = [last EXCEPT !.notarized_hash = NoHash, !.notarized_height = 0]
        /\ orphaned' = (orphaned \/ last.notarized_hash # NoHash)
    BY <1>4 DEF NotarizedHeight
  <2>2. last' \in Checkpoint /\ last'.notarized_height = 0 /\ last'.notarized_hash = NoHash
    BY <1>1, <2>1, Zenon DEF Checkpoint
  <2>3. orphaned' \in BOOLEAN /\ (orphaned => orphaned')
    BY <1>1, <2>1
  <2>4. ~orphaned' => ~orphaned /\ last.notarized_height = 0
    <3> SUFFICES ASSUME ~orphaned' PROVE ~orphaned /\ last.notarized_height = 0
      OBVIOUS
    <3>1. ~orphaned /\ last.notarized_hash = NoHash
      BY <2>1, Zenon
    <3> QED  BY <3>1, HashAssumption DEF IInv, LastNotarises
  <2>5. LastNotarises'
    BY <2>2 DEF LastNotarises
  <2>6. LastIsNewest'
    BY <2>2, <2>4 DEF IInv, LastIsNewest
  <2>7. CheckpointsRise'
    BY <2>3 DEF IInv, CheckpointsRise
  <2>8. FileRises'
    <3>1. CASE orphaned'
      BY <3>1 DEF FileRises
    <3>2. CASE ~orphaned'
      <4>1. RecordsRise /\ LastAmongRecords /\ last'.notarized_height = last.notarized_height
        BY <3>2, <2>4, <2>2 DEF IInv, FileRises
      <4>2. RecordsRise'
        BY <4>1 DEF RecordsRise, IsN
      <4>3. LastAmongRecords'
        BY <4>1 DEF LastAmongRecords, IsN
      <4> QED  BY <4>2, <4>3 DEF FileRises
    <3> QED  BY <3>1, <3>2
  <2> QED  BY <2>2, <2>3, <1>2, <2>5, <2>6, <2>7, <2>8
<1> QED  BY <1>3, <1>4

-----------------------------------------------------------------------------
LEMMA InitIInv == Init => IInv
<1> SUFFICES ASSUME Init PROVE IInv
  OBVIOUS
<1>1. TypeOK
  <2>1. NullCheckpoint \in Checkpoint
    BY DEF NullCheckpoint, Checkpoint
  <2>2. <<>> \in Seq(Checkpoint) /\ <<>> \in Seq(FileEvent) /\ Len(<<>>) = 0
        /\ <<>> \in Seq([type : {"N", "K", "B"}, height : Nat])
    OBVIOUS
  <2>3. /\ NPOINTS \in Seq(Checkpoint) /\ last \in Checkpoint
        /\ events \in Seq([type : {"N", "K", "B"}, height : Nat])
        /\ file \in Seq(FileEvent)
        /\ NPOINTS_last_index \in 0 .. Len(NPOINTS) /\ pos \in 0 .. Len(file)
    BY <2>1, <2>2 DEF Init
  <2>4. /\ ibd \in BOOLEAN /\ orphaned \in BOOLEAN /\ NotaryPay \in BOOLEAN
        /\ pc \in {"replay", "idle", "vouts", "paid"} /\ known \subseteq Hashes
    BY Zenon DEF Init
  <2>5. /\ tip \in 0 .. MaxHeight
        /\ connects \in 0 .. MaxConnects /\ restarts \in 0 .. MaxRestarts
        /\ SAVEDHEIGHT \in Nat /\ CURRENT_HEIGHT \in Nat /\ hwmheight \in Nat
    BY StateAssumption DEF Init
  <2> QED  BY <2>3, <2>4, <2>5 DEF TypeOK
<1>2. Connecting
  BY DEF Init, Connecting
<1>3. Records /\ LastNotarises /\ LastIsNewest /\ CheckpointsRise /\ FileRises
  BY DEF Init, Records, LastNotarises, LastIsNewest, CheckpointsRise, FileRises,
         RecordsRise, LastAmongRecords, NullCheckpoint
<1> QED  BY <1>1, <1>2, <1>3 DEF IInv

LEMMA ConnectStartStep == IInv /\ ConnectStart => IInv'
<1> SUFFICES ASSUME IInv, ConnectStart PROVE IInv'
  OBVIOUS
<1> USE StateAssumption
<1>1. TypeOK /\ tip \in Nat /\ events \in Seq(Event)
  BY DEF IInv, TypeOK, Event
<1>0. Connecting'
  BY DEF ConnectStart, Connecting
<1>2. CASE tip + 1 > hwmheight
  <2>1. UNCHANGED <<events, file>>
    BY <1>2 DEF ConnectStart
  <2>2. TypeOK'
    BY <1>1, <2>1 DEF ConnectStart, TypeOK
  <2> QED  BY <1>0, <2>1, <2>2, Frame DEF ConnectStart, IInv
<1>3. CASE ~(tip + 1 > hwmheight)
  <2> DEFINE e1 == squishy_event_rewind(events, tip + 1)
             e2 == add_event(e1, "B", tip + 1)
             e3 == squishy_event_rewind(e2, tip + 1)
  <2>1. /\ file' = Append(file, [type |-> "K", height |-> tip + 1,
                                 kheight |-> -(tip + 1)])
        /\ events' = e3
    BY <1>3 DEF ConnectStart
  <2>2. tip + 1 \in Nat /\ tip + 1 \in Int /\ -(tip + 1) \in Int
    BY <1>1
  <2>3. e1 \in Seq(Event)
    BY <1>1, <2>2, RewindType
  <2> HIDE DEF e1
  <2>4. e2 \in Seq(Event)
    BY <2>2, <2>3, AddEventType
  <2> HIDE DEF e2
  <2>5. e3 \in Seq(Event)
    BY <2>2, <2>4, RewindType
  <2> HIDE DEF e3
  <2>6. /\ file' \in Seq(FileEvent) /\ Len(file') = Len(file) + 1
        /\ Records' /\ LastNotarises' /\ LastIsNewest' /\ CheckpointsRise'
        /\ FileRises'
    BY <2>1, <2>2, AppendK DEF ConnectStart
  <2>7. TypeOK'
    BY <1>1, <2>1, <2>5, <2>6 DEF ConnectStart, TypeOK, Event
  <2> QED  BY <1>0, <2>6, <2>7 DEF IInv
<1> QED  BY <1>2, <1>3

LEMMA ConnectEndStep == IInv /\ ConnectEnd => IInv'
<1> SUFFICES ASSUME IInv, ConnectEnd PROVE IInv'
  OBVIOUS
<1> USE StateAssumption
<1>1. TypeOK /\ tip \in Nat /\ events \in Seq(Event)
  BY DEF IInv, TypeOK, Event
<1> DEFINE ev == [type |-> "K", height |-> tip + 1, kheight |-> tip + 1]
<1>2. file' = Append(file, ev) /\ squishy_eventadd_kmdheight(ev)
  BY DEF ConnectEnd
<1>3. /\ events' = add_event(events, "K", tip + 1)
      /\ SAVEDHEIGHT' = Higher(SAVEDHEIGHT, tip + 1)
      /\ CURRENT_HEIGHT' = Higher(CURRENT_HEIGHT, tip + 1)
  BY <1>1, <1>2 DEF squishy_eventadd_kmdheight, squishy_setkmdheight
<1>4. events' \in Seq(Event)
  BY <1>1, <1>3, AddEventType
<1>5. SAVEDHEIGHT' \in Nat /\ CURRENT_HEIGHT' \in Nat
  BY <1>1, <1>3 DEF Higher, TypeOK
<1>6. /\ file' \in Seq(FileEvent) /\ Len(file') = Len(file) + 1
      /\ Records' /\ LastNotarises' /\ LastIsNewest' /\ CheckpointsRise'
      /\ FileRises'
  BY <1>1, <1>2, AppendK DEF ConnectEnd
<1>7. tip < MaxHeight
  BY DEF ConnectEnd, IInv, Connecting
<1>8. TypeOK'
  BY <1>1, <1>4, <1>5, <1>6, <1>7 DEF ConnectEnd, TypeOK, Event
<1>9. Connecting'
  BY DEF ConnectEnd, Connecting
<1> QED  BY <1>6, <1>8, <1>9 DEF IInv

LEMMA VoutStep == IInv /\ Vout => IInv'
<1> SUFFICES ASSUME IInv, Vout PROVE IInv'
  OBVIOUS
<1> USE StateAssumption
<1>1. TypeOK /\ tip \in Nat /\ events \in Seq(Event) /\ file \in Seq(FileEvent)
      /\ last \in Checkpoint
  BY DEF IInv, TypeOK, Event
<1>2. PICK h \in Hashes, nh \in 1 .. MaxHeight, depth \in Depths :
          squishy_voutupdate(h, nh, depth)
  BY DEF Vout
<1> DEFINE MoM == ParsedMoM(nh, depth)
           d == IF MoM > 0 THEN MoM ELSE last.MoMdepth
           ev == [type |-> "N", height |-> tip + 1, notarizedheight |-> nh,
                  blockhash |-> h, MoMdepth |-> d]
           cp == [nHeight |-> tip + 1, notarized_height |-> nh,
                  notarized_hash |-> h, MoMdepth |-> d]
<1>3. nh \in Nat /\ nh > 0 /\ depth \in Nat
  BY <1>2
<1>4. d \in Nat
  BY <1>1, <1>3 DEF ParsedMoM, Checkpoint
<1>5. /\ nh > last.notarized_height /\ nh < tip + 1
      /\ file' = Append(file, ev) /\ squishy_eventadd_notarized(ev)
  BY <1>2 DEF squishy_voutupdate
<1> HIDE DEF d
<1>6. /\ events' = add_event(events, "N", tip + 1)
      /\ squishy_notarized_update(cp)
  BY <1>5 DEF squishy_eventadd_notarized
<1>7. AddCheckpoint(cp)
  BY <1>1, <1>3, <1>5, <1>6 DEF squishy_notarized_update
<1>8. cp \in Checkpoint /\ ev \in FileEvent
  BY <1>1, <1>3, <1>4 DEF Checkpoint, FileEvent
<1>9. UNCHANGED orphaned /\ pc = "vouts" /\ pc' \in {"vouts", "paid"}
  BY DEF Vout
<1>10. /\ NPOINTS' \in Seq(Checkpoint) /\ Len(NPOINTS') = Len(NPOINTS) + 1
       /\ last' = cp
       /\ LastNotarises' /\ LastIsNewest' /\ CheckpointsRise'
  <2>1. /\ cp.notarized_height = nh /\ cp.nHeight = tip + 1
        /\ cp.notarized_hash = h
    OBVIOUS
  <2> HIDE DEF cp
  <2> QED  BY <1>3, <1>5, <1>7, <1>8, <1>9, <2>1, AddedCheckpoint
<1>11. events' \in Seq(Event)
  BY <1>1, <1>6, AddEventType
<1>12. /\ file' \in Seq(FileEvent) /\ Len(file') = Len(file) + 1
       /\ DOMAIN file' = 1 .. Len(file) + 1 /\ DOMAIN file = 1 .. Len(file)
       /\ Len(file) \in Nat /\ file'[Len(file) + 1] = ev
       /\ \A i \in DOMAIN file : file'[i] = file[i]
  BY <1>1, <1>5, <1>8
<1>13. TypeOK'
  <2>1. UNCHANGED <<NPOINTS_last_index, SAVEDHEIGHT, CURRENT_HEIGHT, hwmheight, pos,
                    tip, known, ibd, connects, restarts, orphaned, NotaryPay>>
    BY DEF Vout
  <2>2. /\ NPOINTS_last_index \in 0 .. Len(NPOINTS) /\ Len(NPOINTS) \in Nat
        /\ pos \in 0 .. Len(file)
    BY <1>1 DEF TypeOK
  <2>3. Len(NPOINTS') = Len(NPOINTS) + 1 /\ Len(file') = Len(file) + 1
        /\ Len(file) \in Nat
    BY <1>10, <1>12
  <2>4. NPOINTS_last_index' \in 0 .. Len(NPOINTS')
    BY <2>1, <2>2, <2>3
  <2>5. pos' \in 0 .. Len(file')
    BY <2>1, <2>2, <2>3
  <2>6. /\ SAVEDHEIGHT' \in Nat /\ CURRENT_HEIGHT' \in Nat /\ hwmheight' \in Nat
        /\ tip' \in 0 .. MaxHeight
        /\ known' \subseteq Hashes
        /\ ibd' \in BOOLEAN /\ orphaned' \in BOOLEAN /\ NotaryPay' \in BOOLEAN
        /\ connects' \in 0 .. MaxConnects /\ restarts' \in 0 .. MaxRestarts
    BY <1>1, <2>1, Zenon DEF TypeOK
  <2>7. last' \in Checkpoint
    BY <1>8, <1>10, Zenon
  <2>8. pc' \in {"replay", "idle", "vouts", "paid"}
    BY <1>9
  <2> QED  BY <1>10, <1>11, <1>12, <2>4, <2>5, <2>6, <2>7, <2>8, Zenon DEF TypeOK, Event
<1>14. Records'
  BY <1>1, <1>3, <1>5, <1>12 DEF IInv, Records, IsN
<1>15. FileRises'
  <2>1. CASE orphaned
    BY <2>1, <1>9 DEF FileRises
  <2>2. CASE ~orphaned
    <3>1. \A i \in DOMAIN file : IsN(i) =>
              file[i].notarizedheight \in Nat
              /\ file[i].notarizedheight <= last.notarized_height
      BY <2>2, <1>1, <1>9 DEF IInv, FileRises, LastAmongRecords, FileEvent, IsN
    <3>2. last.notarized_height \in Nat
      BY <1>1 DEF Checkpoint
    <3>3. \A i \in DOMAIN file : IsN(i) => file[i].notarizedheight < nh
      BY <3>1, <3>2, <1>3, <1>5
    <3>4. RecordsRise'
      <4> SUFFICES ASSUME NEW i \in DOMAIN file', NEW k \in DOMAIN file', i < k,
                          IsN(i)', IsN(k)'
                   PROVE  file'[i].notarizedheight < file'[k].notarizedheight
        BY DEF RecordsRise
      <4>1. i \in DOMAIN file /\ IsN(i) /\ file'[i] = file[i]
        BY <1>12 DEF IsN
      <4>2. CASE k \in DOMAIN file
        BY <4>1, <4>2, <1>12, <2>2 DEF IInv, FileRises, RecordsRise, IsN
      <4>3. CASE k = Len(file) + 1
        BY <4>1, <4>3, <1>12, <3>3
      <4> QED  BY <4>2, <4>3, <1>12
    <3>5. LastAmongRecords'
      <4> SUFFICES ASSUME NEW i \in DOMAIN file', IsN(i)'
                   PROVE  file'[i].notarizedheight <= last'.notarized_height
        BY <1>9 DEF LastAmongRecords
      <4>1. last'.notarized_height = nh
        BY <1>10
      <4>2. CASE i \in DOMAIN file
        BY <4>1, <4>2, <1>3, <1>12, <3>1, <3>3 DEF IsN
      <4>3. CASE i = Len(file) + 1
        BY <4>1, <4>3, <1>3, <1>12
      <4> QED  BY <4>2, <4>3, <1>12
    <3> QED  BY <3>4, <3>5 DEF FileRises
  <2> QED  BY <2>1, <2>2
<1>16. Connecting'
  BY <1>9 DEF Vout, IInv, Connecting
<1> QED  BY <1>10, <1>13, <1>14, <1>15, <1>16 DEF IInv

LEMMA ReplayStep == IInv /\ Replay => IInv'
<1> SUFFICES ASSUME IInv, Replay PROVE IInv'
  OBVIOUS
<1> USE StateAssumption
<1>1. /\ TypeOK /\ events \in Seq(Event) /\ file \in Seq(FileEvent)
      /\ last \in Checkpoint /\ pos \in Nat /\ Len(file) \in Nat
  BY DEF IInv, TypeOK, Event
<1> DEFINE ev == file[pos + 1]
<1>2. /\ pc = "replay" /\ pos < Len(file) /\ pos' = pos + 1
      /\ squishy_parsestatefiledata(ev)
      /\ UNCHANGED <<NPOINTS_last_index, hwmheight, file, pc, tip, known, ibd,
                     connects, restarts, orphaned, NotaryPay>>
  BY DEF Replay
<1>3. pos + 1 \in DOMAIN file /\ ev \in FileEvent /\ DOMAIN file = 1 .. Len(file)
  BY <1>1, <1>2
<1>4. Records' /\ RecordsRise' = RecordsRise
  BY <1>2 DEF IInv, Records, RecordsRise, IsN
<1>5. Connecting'
  BY <1>2 DEF Connecting
<1>6. CASE ev.type = "N"
  <2> DEFINE cp == [nHeight |-> ev.height, notarized_height |-> ev.notarizedheight,
                    notarized_hash |-> ev.blockhash, MoMdepth |-> ev.MoMdepth]
  <2>1. /\ ev.height \in Nat /\ ev.notarizedheight \in Nat
        /\ ev.blockhash \in Hashes /\ ev.MoMdepth \in Nat
    BY <1>3, <1>6 DEF FileEvent
  <2>2. 0 < ev.notarizedheight /\ ev.notarizedheight < ev.height
    BY <1>3, <1>6 DEF IInv, Records, IsN
  <2>3. /\ events' = add_event(events, "N", ev.height)
        /\ squishy_notarized_update(cp)
        /\ UNCHANGED <<SAVEDHEIGHT, CURRENT_HEIGHT>>
    BY <1>2, <1>6 DEF squishy_parsestatefiledata, squishy_eventadd_notarized
  <2>4. AddCheckpoint(cp)
    BY <2>1, <2>2, <2>3 DEF squishy_notarized_update
  <2>5. cp \in Checkpoint
    BY <2>1 DEF Checkpoint
  <2>6. orphaned \/ ev.notarizedheight > last.notarized_height
    <3> SUFFICES ASSUME ~orphaned PROVE ev.notarizedheight > last.notarized_height
      OBVIOUS
    <3>1. ~(pos + 1 <= pos) /\ LastAmongRecords
      BY <1>1 DEF IInv, FileRises
    <3>2. last.notarized_height < ev.notarizedheight
      BY <3>1, <1>2, <1>3, <1>6 DEF LastAmongRecords, IsN
    <3>3. last.notarized_height \in Nat
      BY <1>1 DEF Checkpoint
    <3> QED  BY <3>2, <3>3, <2>1
  <2>7. /\ NPOINTS' \in Seq(Checkpoint) /\ Len(NPOINTS') = Len(NPOINTS) + 1
        /\ last' = cp
        /\ LastNotarises' /\ LastIsNewest' /\ CheckpointsRise'
    <3>1. cp.notarized_hash \in Hashes /\ cp.notarized_height # 0
      BY <2>1, <2>2
    <3>2. orphaned \/ cp.notarized_height > last.notarized_height
      BY <2>6
    <3>3. UNCHANGED orphaned
      BY <1>2
    <3> HIDE DEF cp
    <3> QED  BY <2>4, <2>5, <3>1, <3>2, <3>3, AddedCheckpoint
  <2>8. events' \in Seq(Event)
    BY <1>1, <2>1, <2>3, AddEventType, Zenon
  <2>9. TypeOK'
    <3>1. /\ NPOINTS_last_index \in 0 .. Len(NPOINTS) /\ Len(NPOINTS) \in Nat
          /\ Len(NPOINTS') = Len(NPOINTS) + 1
      BY <1>1, <2>7 DEF TypeOK
    <3>2. NPOINTS_last_index' \in 0 .. Len(NPOINTS')
      BY <1>2, <3>1
    <3>3. pos' \in 0 .. Len(file')
      BY <1>1, <1>2
    <3> QED  BY <1>1, <1>2, <2>3, <2>5, <2>7, <2>8, <3>2, <3>3 DEF TypeOK, Event
  <2>10. FileRises'
    <3>1. CASE orphaned
      BY <3>1, <1>2 DEF FileRises
    <3>2. CASE ~orphaned
      <4>1. RecordsRise /\ LastAmongRecords
        BY <3>2 DEF IInv, FileRises
      <4>2. LastAmongRecords'
        <5> SUFFICES ASSUME NEW i \in DOMAIN file, IsN(i)
                     PROVE  IF i <= pos + 1
                            THEN file[i].notarizedheight <= cp.notarized_height
                            ELSE cp.notarized_height < file[i].notarizedheight
          BY <1>2, <2>7, Zenon DEF LastAmongRecords, IsN
        <5>1. file[i].notarizedheight \in Nat /\ IsN(pos + 1) /\ i \in Nat
          BY <1>1, <1>3, <1>6 DEF FileEvent, IsN
        <5>2. CASE i <= pos
          <6>1. i < pos + 1
            BY <5>1, <5>2, <1>1
          <6>2. file[i].notarizedheight < file[pos + 1].notarizedheight
            BY <5>1, <6>1, <4>1, <1>3 DEF RecordsRise
          <6> QED  BY <5>1, <5>2, <6>1, <6>2, <2>1, <1>1
        <5>3. CASE i = pos + 1
          BY <5>1, <5>3, <1>1, <2>1
        <5>4. CASE i > pos + 1
          <6>1. file[pos + 1].notarizedheight < file[i].notarizedheight
            BY <5>1, <5>4, <4>1, <1>3 DEF RecordsRise
          <6>2. ~(i <= pos + 1)
            BY <5>1, <5>4, <1>1
          <6> QED  BY <6>1, <6>2
        <5>5. i <= pos \/ i = pos + 1 \/ i > pos + 1
          BY <5>1, <1>1
        <5> QED  BY <5>2, <5>3, <5>4, <5>5
      <4> QED  BY <4>1, <4>2, <1>4 DEF FileRises
    <3> QED  BY <3>1, <3>2
  <2> QED  BY <1>4, <1>5, <2>7, <2>9, <2>10 DEF IInv
<1>7. CASE ev.type # "N"
  <2>1. ev.type = "K" /\ ev.height \in Nat /\ ev.kheight \in Int
    BY <1>3, <1>7 DEF FileEvent
  <2>2. squishy_eventadd_kmdheight(ev) /\ UNCHANGED <<NPOINTS, last>>
    BY <1>2, <1>7 DEF squishy_parsestatefiledata
  <2>3. events' \in Seq(Event) /\ SAVEDHEIGHT' \in Nat /\ CURRENT_HEIGHT' \in Nat
    <3>0. SAVEDHEIGHT \in Nat /\ CURRENT_HEIGHT \in Nat
      BY <1>1 DEF TypeOK
    <3>1. CASE ev.kheight > 0
      <4>1. /\ events' = add_event(events, "K", ev.height)
            /\ SAVEDHEIGHT' = Higher(SAVEDHEIGHT, ev.kheight)
            /\ CURRENT_HEIGHT' = Higher(CURRENT_HEIGHT, ev.kheight)
        BY <2>2, <3>1 DEF squishy_eventadd_kmdheight, squishy_setkmdheight
      <4>2. events' \in Seq(Event)
        BY <4>1, <1>1, <2>1, AddEventType, Zenon
      <4> QED  BY <4>1, <4>2, <3>0, <3>1, <2>1 DEF Higher
    <3>2. CASE ~(ev.kheight > 0)
      <4> DEFINE e2 == add_event(events, "B", ev.height)
      <4>1. /\ events' = squishy_event_rewind(e2, ev.height)
            /\ UNCHANGED <<SAVEDHEIGHT, CURRENT_HEIGHT>>
        BY <2>2, <3>2 DEF squishy_eventadd_kmdheight
      <4>2. e2 \in Seq(Event)
        BY <1>1, <2>1, AddEventType, Zenon
      <4>3. ev.height \in Int
        BY <2>1
      <4> HIDE DEF e2
      <4>4. events' \in Seq(Event)
        BY <4>1, <4>2, <4>3, RewindType, Zenon
      <4> QED  BY <4>1, <4>4, <3>0
    <3> QED  BY <3>1, <3>2
  <2>4. TypeOK'
    BY <1>1, <1>2, <2>2, <2>3 DEF TypeOK, Event
  <2>5. LastNotarises' /\ LastIsNewest' /\ CheckpointsRise'
    BY <1>2, <2>2 DEF IInv, LastNotarises, LastIsNewest, CheckpointsRise
  <2>6. FileRises'
    <3>1. CASE orphaned
      BY <3>1, <1>2 DEF FileRises
    <3>2. CASE ~orphaned
      <4>1. RecordsRise /\ LastAmongRecords
        BY <3>2 DEF IInv, FileRises
      <4>2. LastAmongRecords'
        <5> SUFFICES ASSUME NEW i \in DOMAIN file, IsN(i)
                     PROVE  IF i <= pos + 1
                            THEN file[i].notarizedheight <= last.notarized_height
                            ELSE last.notarized_height < file[i].notarizedheight
          BY <1>2, <2>2 DEF LastAmongRecords, IsN
        <5>1. i # pos + 1 /\ i \in Nat
          BY <1>3, <2>1 DEF IsN
        <5>2. i <= pos + 1 <=> i <= pos
          BY <5>1, <1>1
        <5> QED  BY <5>2, <4>1, <1>2 DEF LastAmongRecords
      <4> QED  BY <4>1, <4>2, <1>4 DEF FileRises
    <3> QED  BY <3>1, <3>2
  <2> QED  BY <1>4, <1>5, <2>4, <2>5, <2>6 DEF IInv
<1> QED  BY <1>6, <1>7

LEMMA CrashStep == IInv /\ Crash => IInv'
<1> SUFFICES ASSUME IInv, Crash PROVE IInv'
  OBVIOUS
<1>1. /\ NPOINTS' = <<>> /\ last' = NullCheckpoint /\ pos' = 0 /\ pc' = "replay"
      /\ UNCHANGED <<file, orphaned>>
  BY DEF Crash
<1>2. TypeOK'
  <2>1. NullCheckpoint \in Checkpoint
    BY DEF NullCheckpoint, Checkpoint
  <2>2. <<>> \in Seq(Checkpoint) /\ Len(<<>>) = 0
        /\ <<>> \in Seq([type : {"N", "K", "B"}, height : Nat])
    OBVIOUS
  <2>3. /\ NPOINTS' \in Seq(Checkpoint) /\ last' \in Checkpoint
        /\ events' \in Seq([type : {"N", "K", "B"}, height : Nat])
        /\ NPOINTS_last_index' \in 0 .. Len(NPOINTS')
    BY <2>1, <2>2 DEF Crash
  <2>4. /\ file' \in Seq(FileEvent) /\ pos' \in 0 .. Len(file')
        /\ tip' \in 0 .. MaxHeight /\ known' \subseteq Hashes
        /\ ibd' \in BOOLEAN /\ orphaned' \in BOOLEAN /\ NotaryPay' \in BOOLEAN
        /\ connects' \in 0 .. MaxConnects /\ restarts' \in 0 .. MaxRestarts
    BY StateAssumption DEF Crash, IInv, TypeOK
  <2>5. /\ SAVEDHEIGHT' \in Nat /\ CURRENT_HEIGHT' \in Nat /\ hwmheight' \in Nat
        /\ pc' \in {"replay", "idle", "vouts", "paid"}
    BY DEF Crash
  <2> QED  BY <2>3, <2>4, <2>5 DEF TypeOK
<1>3. Records' /\ Connecting'
  BY <1>1 DEF IInv, Records, IsN, Connecting
<1>4. LastNotarises' /\ LastIsNewest' /\ CheckpointsRise'
  BY <1>1 DEF LastNotarises, LastIsNewest, CheckpointsRise, NullCheckpoint
<1>5. FileRises'
  <2>1. RecordsRise' = RecordsRise
    BY <1>1 DEF RecordsRise, IsN
  <2>2. LastAmongRecords'
    BY <1>1 DEF IInv, TypeOK, Records, LastAmongRecords, IsN, NullCheckpoint
  <2> QED  BY <1>1, <2>1, <2>2 DEF IInv, FileRises
<1> QED  BY <1>2, <1>3, <1>4, <1>5 DEF IInv

LEMMA ReplayDoneStep == IInv /\ ReplayDone => IInv'
<1> SUFFICES ASSUME IInv, ReplayDone PROVE IInv'
  OBVIOUS
<1>1. /\ pc = "replay" /\ pc' = "idle" /\ pos = Len(file) /\ pos' = 0
      /\ UNCHANGED <<memory, file, tip, known, ibd, connects, restarts, orphaned,
                     NotaryPay>>
  BY DEF ReplayDone
<1>2. TypeOK'
  BY <1>1 DEF IInv, TypeOK, memory
<1>3. Records' /\ Connecting' /\ LastNotarises' /\ LastIsNewest' /\ CheckpointsRise'
  BY <1>1 DEF IInv, Records, Connecting, LastNotarises, LastIsNewest,
              CheckpointsRise, IsN, memory
<1>4. FileRises'
  <2>1. \A i \in DOMAIN file : i <= pos
    BY <1>1 DEF IInv, TypeOK
  <2> QED  BY <1>1, <2>1 DEF IInv, FileRises, RecordsRise, LastAmongRecords, IsN,
                             memory
<1> QED  BY <1>2, <1>3, <1>4 DEF IInv

(* Reading `last', alone or before disconnecting a block.                  *)
LEMMA ReadStep == IInv /\ (ReadNotarizedHeight \/ DisconnectTip) => IInv'
<1> SUFFICES ASSUME IInv, ReadNotarizedHeight \/ DisconnectTip PROVE IInv'
  OBVIOUS
<1>1. /\ NotarizedHeight /\ pc = "idle"
      /\ UNCHANGED <<NPOINTS, NPOINTS_last_index, events, SAVEDHEIGHT,
                     CURRENT_HEIGHT, hwmheight, file, pos, pc, known, ibd,
                     connects, restarts, NotaryPay>>
      /\ tip' = tip \/ (tip > 0 /\ tip' = tip - 1)
  BY DEF ReadNotarizedHeight, DisconnectTip
<1>2. /\ last' \in Checkpoint /\ orphaned' \in BOOLEAN
      /\ Records' /\ LastNotarises' /\ LastIsNewest' /\ CheckpointsRise'
      /\ FileRises'
  BY <1>1, GivenUp
<1>3. TypeOK'
  BY <1>1, <1>2, StateAssumption DEF IInv, TypeOK
<1>4. Connecting'
  BY <1>1 DEF Connecting
<1> QED  BY <1>2, <1>3, <1>4 DEF IInv

(* Steps that leave the checkpoints, `last' and the file alone.            *)
LEMMA OtherStep ==
    IInv /\ (JustCheck \/ ReadNotarizedData \/ LearnBlock \/ LeaveIBD) => IInv'
<1> SUFFICES ASSUME IInv, JustCheck \/ ReadNotarizedData \/ LearnBlock \/ LeaveIBD
             PROVE  IInv'
  OBVIOUS
<1>1. pc = "idle" /\ UNCHANGED <<NPOINTS, last, orphaned, file, pc, tip, pos>>
  BY DEF JustCheck, ReadNotarizedData, LearnBlock, LeaveIBD, memory
<1>2. Records' /\ LastNotarises' /\ LastIsNewest' /\ CheckpointsRise' /\ FileRises'
  BY <1>1, Frame
<1>3. Connecting'
  BY <1>1 DEF Connecting
<1>4. TypeOK'
  <2>1. CASE JustCheck
    BY <2>1, StateAssumption DEF JustCheck, IInv, TypeOK
  <2>2. CASE ReadNotarizedData
    <3>1. NPOINTS_last_index' \in 0 .. Len(NPOINTS)
      BY <2>2, SearchRange, StateAssumption DEF ReadNotarizedData, IInv, TypeOK
    <3> QED  BY <2>2, <3>1 DEF ReadNotarizedData, IInv, TypeOK
  <2>3. CASE LearnBlock
    BY <2>3 DEF LearnBlock, memory, IInv, TypeOK
  <2>4. CASE LeaveIBD
    BY <2>4, Zenon DEF LeaveIBD, memory, IInv, TypeOK
  <2> QED  BY <2>1, <2>2, <2>3, <2>4
<1> QED  BY <1>2, <1>3, <1>4 DEF IInv

(* The inductive invariant holds through every block, notarisation, read,  *)
(* disconnection, crash and replay.                                        *)
THEOREM NotaryInvariant == Spec => []IInv
<1>1. Init => IInv
  BY InitIInv
<1>2. IInv /\ [Next]_vars => IInv'
  <2> SUFFICES ASSUME IInv, [Next]_vars PROVE IInv'
    OBVIOUS
  <2>1. CASE UNCHANGED vars
    BY <2>1 DEF vars, memory, IInv, TypeOK, Records, LastNotarises, LastIsNewest,
                CheckpointsRise, FileRises, RecordsRise, LastAmongRecords, IsN,
                Connecting
  <2> QED  BY <2>1, ConnectStartStep, VoutStep, ConnectEndStep, ReadStep,
              OtherStep, CrashStep, ReplayStep, ReplayDoneStep DEF Next
<1> QED  BY <1>1, <1>2, PTL DEF Spec

(* Every variable of squishy_state and of its file keeps its type.         *)
THEOREM NotaryTypeOK == Spec => []TypeOK
<1>1. IInv => TypeOK
  BY DEF IInv
<1> QED  BY <1>1, NotaryInvariant, PTL

(* `last' and the newest entry of NPOINTS part only when NotarizedHeight   *)
(* has given `last' up: AddCheckpoint, reorganisations and the replay of   *)
(* the state file keep them together.                                      *)
THEOREM NotaryLastIsNewest == Spec => []LastIsNewest
<1>1. IInv => LastIsNewest
  BY DEF IInv
<1> QED  BY <1>1, NotaryInvariant, PTL

(* The notarised heights in NPOINTS rise, through reorganisations and      *)
(* replays, until a notarisation is given up as an orphan.                 *)
THEOREM NotaryCheckpointsRise == Spec => []CheckpointsRise
<1>1. IInv => CheckpointsRise
  BY DEF IInv
<1> QED  BY <1>1, NotaryInvariant, PTL

(* The cached search of NotarizedData is exact in every reachable state    *)
(* whose checkpoints are in height order.                                  *)
THEOREM NotarySearchExact == Spec => []SearchExact
<1>1. IInv => SearchExact
  <2> SUFFICES ASSUME IInv, Ascending(NPOINTS), NEW h \in 0 .. MaxHeight + 1
               PROVE  NotarizedData(NPOINTS, NPOINTS_last_index, h)
                          = NotarizedData(NPOINTS, 0, h)
    BY DEF SearchExact
  <2>1. NPOINTS \in Seq(Checkpoint) /\ NPOINTS_last_index \in 0 .. Len(NPOINTS)
    BY DEF IInv, TypeOK
  <2>2. h \in Nat
    BY StateAssumption
  <2> QED  BY <2>1, <2>2, CachedSearchExact
<1> QED  BY <1>1, NotaryInvariant, PTL

-----------------------------------------------------------------------------
(* The replay of the file, and the events.                                 *)

(* A rewind keeps a beginning of the list: nothing, or all up to the last  *)
(* event below the height.                                                 *)
LEMMA RewindPrefix ==
    ASSUME NEW evs \in Seq(Event), NEW h \in Int
    PROVE  \/ /\ squishy_event_rewind(evs, h) = <<>>
              /\ \A i \in DOMAIN evs : ~(evs[i].height < h /\
                     \A k \in i + 1 .. Len(evs) : evs[k].height >= h)
           \/ \E n \in DOMAIN evs :
                  /\ squishy_event_rewind(evs, h) = SubSeq(evs, 1, n)
                  /\ evs[n].height < h
                  /\ \A k \in n + 1 .. Len(evs) : evs[k].height >= h
<1> DEFINE back == {i \in DOMAIN evs :
                       /\ evs[i].height < h
                       /\ \A k \in i + 1 .. Len(evs) : evs[k].height >= h}
           n == CHOOSE i \in back : TRUE
<1>1. CASE back = {}
  BY <1>1 DEF squishy_event_rewind
<1>2. CASE back # {}
  <2>1. n \in back
    BY <1>2, Zenon
  <2>2. squishy_event_rewind(evs, h) = SubSeq(evs, 1, n)
    BY <1>2 DEF squishy_event_rewind
  <2> HIDE DEF n
  <2> QED  BY <2>1, <2>2, Zenon
<1> QED  BY <1>1, <1>2, Zenon

(* ... which is the only such beginning.                                   *)
LEMMA RewindTo ==
    ASSUME NEW evs \in Seq(Event), NEW h \in Int, NEW n \in DOMAIN evs,
           evs[n].height < h, \A k \in n + 1 .. Len(evs) : evs[k].height >= h
    PROVE  squishy_event_rewind(evs, h) = SubSeq(evs, 1, n)
<1>1. PICK m \in DOMAIN evs :
          /\ squishy_event_rewind(evs, h) = SubSeq(evs, 1, m)
          /\ evs[m].height < h
          /\ \A k \in m + 1 .. Len(evs) : evs[k].height >= h
  BY RewindPrefix
<1>2. n \in 1 .. Len(evs) /\ m \in 1 .. Len(evs) /\ Len(evs) \in Nat
  OBVIOUS
<1>3. evs[m].height \in Nat /\ evs[n].height \in Nat
  <2>1. evs[m] \in Event /\ evs[n] \in Event
    BY <1>2
  <2> QED  BY <2>1 DEF Event
<1>4. ~(m < n) /\ ~(n < m)
  <2>1. ASSUME m < n PROVE FALSE
    <3>1. n \in m + 1 .. Len(evs)
      BY <1>2, <2>1
    <3> QED  BY <3>1, <1>1, <1>3
  <2>2. ASSUME n < m PROVE FALSE
    <3>1. m \in n + 1 .. Len(evs)
      BY <1>2, <2>2
    <3> QED  BY <3>1, <1>1, <1>3
  <2> QED  BY <2>1, <2>2
<1> QED  BY <1>1, <1>2, <1>4

(* The event that announces a rewind, and a rewind before it, leave no     *)
(* trace: squishy_connectblock, which rewinds twice, and the replay of its *)
(* record, which rewinds once, keep the same events.                       *)
LEMMA RewindAdded ==
    ASSUME NEW evs \in Seq(Event), NEW h \in Nat
    PROVE  squishy_event_rewind(add_event(evs, "B", h), h)
               = squishy_event_rewind(evs, h)
<1> DEFINE x == [type |-> "B", height |-> h]
           all == Append(evs, x)
<1>1. /\ add_event(evs, "B", h) = all /\ x \in Event /\ h \in Int
      /\ Len(evs) \in Nat /\ DOMAIN evs = 1 .. Len(evs)
  BY DEF add_event, Event
<1>2. /\ all \in Seq(Event) /\ Len(all) = Len(evs) + 1
      /\ DOMAIN all = 1 .. Len(evs) + 1
      /\ \A i \in DOMAIN evs : all[i] = evs[i]
      /\ all[Len(evs) + 1].height = h
  BY <1>1
<1> HIDE DEF x, all
<1>3. CASE \E n \in DOMAIN evs :
               /\ squishy_event_rewind(evs, h) = SubSeq(evs, 1, n)
               /\ evs[n].height < h
               /\ \A k \in n + 1 .. Len(evs) : evs[k].height >= h
  <2>1. PICK n \in DOMAIN evs :
            /\ squishy_event_rewind(evs, h) = SubSeq(evs, 1, n)
            /\ evs[n].height < h
            /\ \A k \in n + 1 .. Len(evs) : evs[k].height >= h
    BY <1>3
  <2>2. /\ n \in DOMAIN all /\ all[n].height < h
        /\ \A k \in n + 1 .. Len(all) : all[k].height >= h
    <3>1. n \in 1 .. Len(evs) /\ n \in DOMAIN all /\ all[n].height < h
      BY <1>1, <1>2, <2>1
    <3>2. \A k \in n + 1 .. Len(evs) + 1 : k \in n + 1 .. Len(evs) \/ k = Len(evs) + 1
      BY <1>1, <3>1
    <3>3. \A k \in n + 1 .. Len(evs) : k \in DOMAIN evs /\ all[k].height >= h
      BY <1>1, <1>2, <2>1, <3>1
    <3> QED  BY <1>2, <3>1, <3>2, <3>3
  <2>3. squishy_event_rewind(all, h) = SubSeq(all, 1, n)
    BY <1>1, <1>2, <2>2, RewindTo, Zenon
  <2>4. SubSeq(all, 1, n) = SubSeq(evs, 1, n)
    BY <1>1, <1>2
  <2> QED  BY <1>1, <2>1, <2>3, <2>4
<1>4. CASE /\ squishy_event_rewind(evs, h) = <<>>
           /\ \A i \in DOMAIN evs : ~(evs[i].height < h /\
                  \A k \in i + 1 .. Len(evs) : evs[k].height >= h)
  <2>1. squishy_event_rewind(all, h) = <<>>
    <3> SUFFICES ASSUME NEW n \in DOMAIN all, all[n].height < h,
                        \A k \in n + 1 .. Len(all) : all[k].height >= h
                 PROVE  FALSE
      BY <1>1, <1>2, RewindPrefix, Zenon
    <3>1. n \in DOMAIN evs
      BY <1>1, <1>2
    <3>2. \A k \in n + 1 .. Len(evs) : evs[k].height >= h
      BY <1>1, <1>2, <3>1
    <3> QED  BY <1>2, <1>4, <3>1, <3>2
  <2> QED  BY <1>1, <1>4, <2>1
<1> QED  BY <1>1, <1>3, <1>4, RewindPrefix, Zenon

LEMMA RewindTwice ==
    ASSUME NEW evs \in Seq(Event), NEW h \in Int
    PROVE  squishy_event_rewind(squishy_event_rewind(evs, h), h)
               = squishy_event_rewind(evs, h)
<1>1. CASE squishy_event_rewind(evs, h) = <<>>
  <2>1. squishy_event_rewind(<<>>, h) = <<>>
    BY DEF squishy_event_rewind
  <2> QED  BY <1>1, <2>1
<1>2. CASE \E n \in DOMAIN evs :
               /\ squishy_event_rewind(evs, h) = SubSeq(evs, 1, n)
               /\ evs[n].height < h
               /\ \A k \in n + 1 .. Len(evs) : evs[k].height >= h
  <2>1. PICK n \in DOMAIN evs :
            /\ squishy_event_rewind(evs, h) = SubSeq(evs, 1, n)
            /\ evs[n].height < h
    BY <1>2
  <2> DEFINE kept == SubSeq(evs, 1, n)
  <2>2. n \in 1 .. Len(evs) /\ Len(evs) \in Nat
    OBVIOUS
  <2>3. /\ kept \in Seq(Event) /\ Len(kept) = n /\ n \in DOMAIN kept
        /\ kept[n] = evs[n]
    BY <2>2
  <2>4. SubSeq(kept, 1, n) = kept
    BY <2>2, <2>3
  <2> HIDE DEF kept
  <2>5. \A k \in n + 1 .. Len(kept) : kept[k].height >= h
    BY <2>2, <2>3
  <2>6. squishy_event_rewind(kept, h) = SubSeq(kept, 1, n)
    BY <2>1, <2>3, <2>5, RewindTo
  <2> QED  BY <2>1, <2>4, <2>6 DEF kept
<1> QED  BY <1>1, <1>2, RewindPrefix

-----------------------------------------------------------------------------
(* Memory is what the file says.                                           *)

States == Seq(Checkpoint) \X Seq(Event) \X Nat

(* What squishy_parsestatefiledata makes of the snapshot s.                *)
Applied(s, ev) ==
    IF ev.type = "N"
    THEN << IF ev.notarizedheight >= ev.height
            THEN s[1]
            ELSE Append(s[1], [nHeight |-> ev.height,
                               notarized_height |-> ev.notarizedheight,
                               notarized_hash |-> ev.blockhash,
                               MoMdepth |-> ev.MoMdepth]),
            add_event(s[2], "N", ev.height), s[3] >>
    ELSE IF ev.kheight > 0
         THEN << s[1], add_event(s[2], "K", ev.height), Higher(s[3], ev.kheight) >>
         ELSE << s[1],
                 squishy_event_rewind(add_event(s[2], "B", ev.height), ev.height),
                 s[3] >>

(* h[i] is the snapshot after the first i records of f.                    *)
IsHistory(h, f) ==
    /\ h \in [Nat -> States]
    /\ h[0] = << <<>>, <<>>, 0 >>
    /\ \A i \in 1 .. Len(f) : h[i] = Applied(h[i - 1], f[i])

Replayed ==
    \E h \in [Nat -> States] :
        /\ IsHistory(h, file)
        /\ Snapshot = h[IF pc = "replay" THEN pos ELSE Len(file)]
        /\ pc = "replay" => before = h[Len(file)]

(* A crash is remembered until the next block is connected.                *)
Remembered == pc \in {"vouts", "paid"} => before = <<>>

RInv == Replayed /\ Remembered /\ ReplayExact

LEMMA SnapshotType ==
    ASSUME TypeOK
    PROVE  Snapshot \in States
BY DEF TypeOK, Snapshot, States, Event

(* A record that is written while its effect is applied in memory.         *)
LEMMA Extended ==
    ASSUME IInv, IInv', Replayed, pc # "replay", pc' # "replay", NEW ev \in FileEvent,
           file' = Append(file, ev), Snapshot' = Applied(Snapshot, ev)
    PROVE  Replayed'
<1>1. PICK h \in [Nat -> States] : IsHistory(h, file) /\ Snapshot = h[Len(file)]
  BY DEF Replayed
<1>2. /\ file \in Seq(FileEvent) /\ Len(file) \in Nat
      /\ Len(file') = Len(file) + 1
      /\ \A i \in 1 .. Len(file) : file'[i] = file[i]
      /\ file'[Len(file) + 1] = ev
  <2>1. file \in Seq(FileEvent)
    BY DEF IInv, TypeOK
  <2> QED  BY <2>1
<1>3. Snapshot' \in States
  BY SnapshotType DEF IInv, TypeOK, Snapshot, States, Event
<1> DEFINE g == [n \in Nat |-> IF n = Len(file) + 1 THEN Snapshot' ELSE h[n]]
<1>4. g \in [Nat -> States]
  BY <1>1, <1>3
<1>5. /\ g[0] = h[0] /\ g[Len(file) + 1] = Snapshot'
      /\ \A i \in 0 .. Len(file) : g[i] = h[i]
  BY <1>2
<1> HIDE DEF g
<1>6. \A i \in 1 .. Len(file') : g[i] = Applied(g[i - 1], file'[i])
  <2> SUFFICES ASSUME NEW i \in 1 .. Len(file) + 1
               PROVE  g[i] = Applied(g[i - 1], file'[i])
    BY <1>2
  <2>1. CASE i = Len(file) + 1
    <3>1. g[i] = Applied(Snapshot, ev) /\ file'[i] = ev
      BY <1>2, <1>5, <2>1
    <3>2. g[i - 1] = Snapshot
      BY <1>1, <1>2, <1>5, <2>1
    <3> QED  BY <3>1, <3>2
  <2>2. CASE i \in 1 .. Len(file)
    <3>1. i - 1 \in 0 .. Len(file) /\ i \in 0 .. Len(file)
      BY <1>2, <2>2
    <3>2. g[i] = h[i] /\ g[i - 1] = h[i - 1] /\ file'[i] = file[i]
      BY <1>2, <1>5, <2>2, <3>1
    <3> QED  BY <1>1, <2>2, <3>2 DEF IsHistory
  <2> QED  BY <1>2, <2>1, <2>2
<1>7. IsHistory(g, file')
  BY <1>1, <1>4, <1>5, <1>6 DEF IsHistory
<1>8. Snapshot' = g[Len(file')]
  BY <1>2, <1>5
<1> QED  BY <1>4, <1>7, <1>8 DEF Replayed

(* A step that changes neither the file nor what it holds.                 *)
LEMMA Unwritten ==
    ASSUME Replayed, UNCHANGED <<file, NPOINTS, events, SAVEDHEIGHT>>,
           pc # "replay", pc' # "replay"
    PROVE  Replayed'
<1>1. PICK h \in [Nat -> States] : IsHistory(h, file) /\ Snapshot = h[Len(file)]
  BY DEF Replayed
<1>2. IsHistory(h, file') /\ Snapshot' = h[Len(file')]
  BY <1>1 DEF Snapshot
<1> QED  BY <1>1, <1>2 DEF Replayed

LEMMA ReplayInit ==
    ASSUME Init
    PROVE  RInv
<1> DEFINE h == [n \in Nat |-> << <<>>, <<>>, 0 >>]
<1>1. << <<>>, <<>>, 0 >> \in States
  <2>1. <<>> \in Seq(Checkpoint) /\ <<>> \in Seq(Event) /\ 0 \in Nat
    OBVIOUS
  <2> QED  BY <2>1, Zenon DEF States
<1>2. h \in [Nat -> States] /\ h[0] = << <<>>, <<>>, 0 >>
  BY <1>1
<1> HIDE DEF h
<1>3. IsHistory(h, file) /\ Len(file) = 0 /\ Snapshot = h[0]
  BY <1>2 DEF Init, IsHistory, Snapshot
<1> QED  BY <1>2, <1>3 DEF Init, RInv, Replayed, Remembered, ReplayExact

LEMMA ReplayConnectStart ==
    ASSUME IInv, IInv', RInv, ConnectStart
    PROVE  RInv'
<1>1. /\ pc = "idle" /\ pc' = "vouts" /\ before' = <<>>
      /\ UNCHANGED <<NPOINTS, SAVEDHEIGHT>>
  BY DEF ConnectStart
<1>2. CASE tip + 1 > hwmheight
  BY <1>1, <1>2, Unwritten DEF ConnectStart, RInv, Remembered, ReplayExact
<1>3. CASE ~(tip + 1 > hwmheight)
  <2> DEFINE ht == tip + 1
             ev == [type |-> "K", height |-> ht, kheight |-> -ht]
             kept == squishy_event_rewind(events, ht)
             added == add_event(events, "B", ht)
  <2>1. ht \in Nat /\ ht \in Int /\ ~(-ht > 0) /\ events \in Seq(Event)
    BY StateAssumption DEF IInv, TypeOK, Event
  <2>2. /\ file' = Append(file, ev)
        /\ events' = squishy_event_rewind(add_event(kept, "B", ht), ht)
    BY <1>3 DEF ConnectStart
  <2>3. kept \in Seq(Event)
    BY <2>1, RewindType
  <2> HIDE DEF ht
  <2>4. events' = kept
    <3>1. squishy_event_rewind(add_event(kept, "B", ht), ht)
              = squishy_event_rewind(kept, ht)
      BY <2>1, <2>3, RewindAdded
    <3>2. squishy_event_rewind(kept, ht) = kept
      BY <2>1, RewindTwice
    <3> QED  BY <2>2, <3>1, <3>2
  <2>5. kept = squishy_event_rewind(added, ht)
    BY <2>1, RewindAdded
  <2>6. ev \in FileEvent /\ ev.type # "N" /\ ~(ev.kheight > 0) /\ ev.height = ht
    BY <2>1 DEF FileEvent
  <2>7. Applied(Snapshot, ev) = << NPOINTS, squishy_event_rewind(added, ht), SAVEDHEIGHT >>
    BY <2>6, Zenon DEF Applied, Snapshot
  <2>8. Snapshot' = << NPOINTS, squishy_event_rewind(added, ht), SAVEDHEIGHT >>
    BY <1>1, <2>4, <2>5 DEF Snapshot
  <2> HIDE DEF ev, kept, added
  <2>9. Replayed'
    BY <1>1, <2>2, <2>6, <2>7, <2>8, Extended DEF RInv
  <2> QED  BY <1>1, <2>9 DEF RInv, Remembered, ReplayExact
<1> QED  BY <1>2, <1>3

LEMMA ReplayConnectEnd ==
    ASSUME IInv, IInv', RInv, ConnectEnd
    PROVE  RInv'
<1> DEFINE ev == [type |-> "K", height |-> tip + 1, kheight |-> tip + 1]
<1>1. /\ pc \in {"vouts", "paid"} /\ pc' = "idle" /\ before' = before
      /\ NPOINTS' = NPOINTS /\ file' = Append(file, ev)
      /\ squishy_eventadd_kmdheight(ev)
  BY DEF ConnectEnd
<1>2. tip + 1 \in Nat /\ tip + 1 > 0
  BY StateAssumption DEF IInv, TypeOK
<1>3. ev \in FileEvent /\ ev.type # "N" /\ ev.kheight > 0
  BY <1>2 DEF FileEvent
<1>4. Snapshot' = Applied(Snapshot, ev)
  BY <1>1, <1>3, Zenon DEF Applied, Snapshot, squishy_eventadd_kmdheight,
                    squishy_setkmdheight
<1> HIDE DEF ev
<1>5. Replayed'
  BY <1>1, <1>3, <1>4, Extended DEF RInv
<1> QED  BY <1>1, <1>5 DEF RInv, Remembered, ReplayExact

LEMMA ReplayVout ==
    ASSUME IInv, IInv', RInv, Vout
    PROVE  RInv'
<1>1. /\ pc = "vouts" /\ pc' \in {"vouts", "paid"}
      /\ UNCHANGED <<before, SAVEDHEIGHT>>
  BY DEF Vout
<1>2. PICK h \in Hashes, nh \in 1 .. MaxHeight, depth \in Depths :
          squishy_voutupdate(h, nh, depth)
  BY DEF Vout
<1> DEFINE d == IF ParsedMoM(nh, depth) > 0
                THEN ParsedMoM(nh, depth) ELSE last.MoMdepth
           ev == [type |-> "N", height |-> tip + 1, notarizedheight |-> nh,
                  blockhash |-> h, MoMdepth |-> d]
<1>3. file' = Append(file, ev) /\ squishy_eventadd_notarized(ev)
  BY <1>2 DEF squishy_voutupdate
<1>4. d \in Nat /\ tip + 1 \in Nat /\ nh \in Nat
  <2>1. /\ last.MoMdepth \in Nat /\ depth \in Nat /\ tip + 1 \in Nat
        /\ nh \in Nat
    BY <1>2, StateAssumption DEF IInv, TypeOK, Checkpoint
  <2> QED  BY <2>1 DEF ParsedMoM
<1> HIDE DEF d
<1>5. ev \in FileEvent /\ ev.type = "N"
  BY <1>4 DEF FileEvent
<1>6. Snapshot' = Applied(Snapshot, ev)
  BY <1>1, <1>3, <1>5, Zenon DEF Applied, Snapshot, squishy_eventadd_notarized,
                          squishy_notarized_update, AddCheckpoint
<1> HIDE DEF ev
<1>7. Replayed'
  BY <1>1, <1>3, <1>5, <1>6, Extended DEF RInv
<1> QED  BY <1>1, <1>7 DEF RInv, Remembered, ReplayExact

LEMMA ReplayCrash ==
    ASSUME IInv, RInv, Crash
    PROVE  RInv'
<1>1. /\ pc # "replay" /\ pc' = "replay" /\ pos' = 0 /\ file' = file
      /\ before' = Snapshot /\ Snapshot' = << <<>>, <<>>, 0 >>
  BY DEF Crash, Snapshot
<1>2. PICK h \in [Nat -> States] : IsHistory(h, file) /\ Snapshot = h[Len(file)]
  BY <1>1 DEF RInv, Replayed
<1>3. IsHistory(h, file') /\ Snapshot' = h[pos'] /\ before' = h[Len(file')]
  BY <1>1, <1>2 DEF IsHistory
<1>4. Replayed'
  BY <1>1, <1>2, <1>3 DEF Replayed
<1> QED  BY <1>1, <1>4 DEF RInv, Remembered, ReplayExact

LEMMA ReplayReplay ==
    ASSUME IInv, RInv, Replay
    PROVE  RInv'
<1> DEFINE ev == file[pos + 1]
<1>1. /\ pc = "replay" /\ pos < Len(file) /\ pos' = pos + 1
      /\ squishy_parsestatefiledata(ev) /\ UNCHANGED <<file, pc, before>>
  BY DEF Replay
<1>2. PICK h \in [Nat -> States] :
          IsHistory(h, file) /\ Snapshot = h[pos] /\ before = h[Len(file)]
  BY <1>1 DEF RInv, Replayed
<1>3. pos \in Nat /\ Len(file) \in Nat /\ ev \in FileEvent
  <2>1. file \in Seq(FileEvent) /\ pos \in 0 .. Len(file)
    BY DEF IInv, TypeOK
  <2> QED  BY <1>1, <2>1
<1>4. h[pos + 1] = Applied(Snapshot, ev)
  <2>1. pos + 1 \in 1 .. Len(file) /\ (pos + 1) - 1 = pos
    BY <1>1, <1>3
  <2> QED  BY <1>2, <2>1 DEF IsHistory
<1>5. Snapshot' = Applied(Snapshot, ev)
  <2>1. CASE ev.type = "N"
    BY <1>1, <2>1, Zenon DEF Applied, Snapshot, squishy_parsestatefiledata,
       squishy_eventadd_notarized, squishy_notarized_update, AddCheckpoint
  <2>2. CASE ev.type # "N"
    BY <1>1, <2>2, Zenon DEF Applied, Snapshot, squishy_parsestatefiledata,
       squishy_eventadd_kmdheight, squishy_setkmdheight
  <2> QED  BY <2>1, <2>2
<1>6. Replayed'
  BY <1>1, <1>2, <1>4, <1>5 DEF Replayed
<1> QED  BY <1>1, <1>6 DEF RInv, Remembered, ReplayExact

LEMMA ReplayReplayDone ==
    ASSUME RInv, ReplayDone
    PROVE  RInv'
<1>1. /\ pc = "replay" /\ pos = Len(file) /\ pc' = "idle"
      /\ UNCHANGED <<file, before>> /\ Snapshot' = Snapshot
  BY DEF ReplayDone, Snapshot, memory
<1>2. PICK h \in [Nat -> States] :
          IsHistory(h, file) /\ Snapshot = h[pos] /\ before = h[Len(file)]
  BY <1>1 DEF RInv, Replayed
<1>3. Replayed'
  BY <1>1, <1>2 DEF Replayed
<1> QED  BY <1>1, <1>2, <1>3 DEF RInv, Remembered, ReplayExact

(* Steps that touch neither the snapshot nor the file.                     *)
LEMMA ReplayOther ==
    ASSUME RInv, \/ JustCheck \/ ReadNotarizedData \/ LearnBlock \/ LeaveIBD
                 \/ ReadNotarizedHeight \/ DisconnectTip
    PROVE  RInv'
<1>1. /\ pc = "idle"
      /\ UNCHANGED <<file, NPOINTS, events, SAVEDHEIGHT, pc, before>>
  BY DEF JustCheck, ReadNotarizedData, LearnBlock, LeaveIBD, ReadNotarizedHeight,
         DisconnectTip, memory
<1>2. Replayed'
  BY <1>1, Unwritten DEF RInv
<1> QED  BY <1>1, <1>2 DEF RInv, Remembered, ReplayExact, Snapshot

(* The state file is enough: wherever the process dies, replaying it gives *)
(* the checkpoints, the events and SAVEDHEIGHT that were in memory.        *)
THEOREM NotaryReplayExact == Spec => []ReplayExact
<1>1. Init => RInv
  BY ReplayInit
<1>2. IInv /\ IInv' /\ RInv /\ [Next]_vars => RInv'
  <2> SUFFICES ASSUME IInv, IInv', RInv, [Next]_vars PROVE RInv'
    OBVIOUS
  <2>1. CASE UNCHANGED vars
    BY <2>1 DEF vars, memory, RInv, Replayed, Remembered, ReplayExact, Snapshot
  <2> QED  BY <2>1, ReplayConnectStart, ReplayVout, ReplayConnectEnd, ReplayCrash,
              ReplayReplay, ReplayReplayDone, ReplayOther DEF Next
<1>3. RInv => ReplayExact
  BY DEF RInv
<1> QED  BY <1>1, <1>2, <1>3, NotaryInvariant, PTL DEF Spec

-----------------------------------------------------------------------------
(* The events follow the chain.                                            *)

Rising(evs) == \A i, k \in DOMAIN evs : i < k => evs[i].height <= evs[k].height

UpTo(evs, h) == \A i \in DOMAIN evs : evs[i].height <= h

(* Disconnecting blocks leaves their events in the list, and a JustCheck   *)
(* lowers hwmheight without rewinding; but then the next block starts at   *)
(* hwmheight or below, and rewinds.                                        *)
Follows ==
    restarts = 0 =>
        /\ pc # "replay" /\ tip <= hwmheight /\ Rising(events)
        /\ (pc = "idle" /\ tip = hwmheight) => UpTo(events, tip)
        /\ pc \in {"vouts", "paid"} => /\ hwmheight = tip + 1
                                       /\ UpTo(events, tip + 1)

LEMMA RewindFollows ==
    ASSUME NEW evs \in Seq(Event), NEW h \in Nat, Rising(evs)
    PROVE  /\ Rising(squishy_event_rewind(evs, h))
           /\ UpTo(squishy_event_rewind(evs, h), h)
<1>1. CASE squishy_event_rewind(evs, h) = <<>>
  BY <1>1 DEF Rising, UpTo
<1>2. CASE \E n \in DOMAIN evs : /\ squishy_event_rewind(evs, h) = SubSeq(evs, 1, n)
                                 /\ evs[n].height < h
  <2>1. PICK n \in DOMAIN evs : /\ squishy_event_rewind(evs, h) = SubSeq(evs, 1, n)
                                /\ evs[n].height < h
    BY <1>2
  <2> DEFINE kept == SubSeq(evs, 1, n)
  <2>2. n \in 1 .. Len(evs) /\ Len(evs) \in Nat
        /\ \A i \in 1 .. Len(evs) : evs[i] \in Event
    OBVIOUS
  <2>3. /\ DOMAIN kept = 1 .. n
        /\ \A i \in 1 .. n : /\ kept[i] = evs[i] /\ i \in DOMAIN evs
                             /\ evs[i].height \in Nat
    BY <2>2 DEF Event
  <2> HIDE DEF kept
  <2>4. Rising(kept)
    BY <2>3 DEF Rising
  <2>5. UpTo(kept, h)
    <3> SUFFICES ASSUME NEW i \in 1 .. n PROVE evs[i].height <= h
      BY <2>3 DEF UpTo
    <3>1. i < n => evs[i].height <= evs[n].height
      BY <2>3 DEF Rising
    <3>2. evs[i].height \in Nat /\ evs[n].height \in Nat /\ (i < n \/ i = n)
      BY <2>2, <2>3
    <3>3. evs[n].height < h /\ h \in Nat
      BY <2>1
    <3> QED  BY <3>1, <3>2, <3>3
  <2> QED  BY <2>1, <2>4, <2>5 DEF kept
<1>3. h \in Int
  OBVIOUS
<1>4. \/ squishy_event_rewind(evs, h) = <<>>
      \/ \E n \in DOMAIN evs : /\ squishy_event_rewind(evs, h) = SubSeq(evs, 1, n)
                               /\ evs[n].height < h
  BY <1>3, RewindPrefix, Zenon
<1> QED  BY <1>1, <1>2, <1>4, Zenon

LEMMA AddFollows ==
    ASSUME NEW evs \in Seq(Event), NEW type \in {"N", "K", "B"}, NEW h \in Nat,
           Rising(evs), UpTo(evs, h)
    PROVE  Rising(add_event(evs, type, h)) /\ UpTo(add_event(evs, type, h), h)
<1> DEFINE x == [type |-> type, height |-> h]
           all == Append(evs, x)
<1>1. /\ DOMAIN all = 1 .. Len(evs) + 1 /\ DOMAIN evs = 1 .. Len(evs)
      /\ \A i \in 1 .. Len(evs) : all[i] = evs[i]
      /\ all[Len(evs) + 1] = x /\ Len(evs) \in Nat
  OBVIOUS
<1>2. x.height = h /\ add_event(evs, type, h) = all
  BY DEF add_event
<1> HIDE DEF x, all
<1>3. \A i \in 1 .. Len(evs) + 1 : i \in 1 .. Len(evs) \/ i = Len(evs) + 1
  BY <1>1
<1>4. UpTo(all, h)
  BY <1>1, <1>2, <1>3 DEF UpTo
<1>5. Rising(all)
  BY <1>1, <1>2, <1>3 DEF Rising, UpTo
<1> QED  BY <1>2, <1>4, <1>5

LEMMA FollowsConnectStart ==
    ASSUME IInv, Follows, ConnectStart
    PROVE  Follows'
<1> SUFFICES ASSUME restarts = 0
             PROVE  /\ Rising(events') /\ UpTo(events', tip + 1)
  <2>1. /\ hwmheight' = tip + 1 /\ pc' = "vouts" /\ UNCHANGED <<tip, restarts>>
    BY DEF ConnectStart
  <2>2. tip \in Nat
    BY StateAssumption DEF IInv, TypeOK
  <2> QED  BY <2>1, <2>2 DEF Follows
<1>1. tip \in Nat /\ hwmheight \in Nat /\ events \in Seq(Event)
  BY StateAssumption DEF IInv, TypeOK, Event
<1>2. pc = "idle" /\ tip <= hwmheight /\ Rising(events)
  BY DEF ConnectStart, Follows
<1>3. CASE tip + 1 > hwmheight
  <2>1. tip = hwmheight /\ events' = events
    BY <1>1, <1>2, <1>3 DEF ConnectStart
  <2>2. \A i \in DOMAIN events : events[i] \in Event
    BY <1>1
  <2>3. UpTo(events, tip)
    BY <1>2, <2>1 DEF Follows
  <2>4. UpTo(events, tip + 1)
    BY <1>1, <2>2, <2>3 DEF UpTo, Event
  <2> QED  BY <1>2, <2>1, <2>4
<1>4. CASE ~(tip + 1 > hwmheight)
  <2> DEFINE ht == tip + 1
             kept == squishy_event_rewind(events, ht)
             added == add_event(kept, "B", ht)
  <2>1. events' = squishy_event_rewind(added, ht) /\ ht \in Nat /\ ht \in Int
    BY <1>1, <1>4 DEF ConnectStart
  <2> HIDE DEF ht
  <2>2. kept \in Seq(Event) /\ Rising(kept) /\ UpTo(kept, ht)
    BY <1>1, <1>2, <2>1, RewindType, RewindFollows
  <2> HIDE DEF kept
  <2>3. added \in Seq(Event) /\ Rising(added)
    BY <2>1, <2>2, AddEventType, AddFollows
  <2> HIDE DEF added
  <2>4. Rising(events') /\ UpTo(events', ht)
    BY <2>1, <2>3, RewindFollows
  <2> QED  BY <2>4 DEF ht
<1> QED  BY <1>3, <1>4

LEMMA FollowsVout ==
    ASSUME IInv, Follows, Vout \/ ConnectEnd
    PROVE  Follows'
<1> SUFFICES ASSUME restarts = 0, restarts' = 0 PROVE Follows'
  BY Zenon DEF Vout, ConnectEnd, Follows
<1>1. tip \in Nat /\ hwmheight \in Nat /\ events \in Seq(Event) /\ tip + 1 \in Nat
  BY StateAssumption DEF IInv, TypeOK, Event
<1>2. /\ hwmheight = tip + 1 /\ Rising(events) /\ UpTo(events, tip + 1)
      /\ hwmheight' = hwmheight
  BY DEF Follows, Vout, ConnectEnd
<1>3. \E type \in {"N", "K"} : events' = add_event(events, type, tip + 1)
  <2>1. CASE Vout
    <3>1. PICK h \in Hashes, nh \in 1 .. MaxHeight, depth \in Depths :
              squishy_voutupdate(h, nh, depth)
      BY <2>1, Zenon DEF Vout
    <3> QED  BY <3>1, Zenon DEF squishy_voutupdate, squishy_eventadd_notarized
  <2>2. CASE ConnectEnd
    <3> DEFINE ev == [type |-> "K", height |-> tip + 1, kheight |-> tip + 1]
    <3>1. squishy_eventadd_kmdheight(ev)
      BY <2>2, Zenon DEF ConnectEnd
    <3>2. ev.kheight > 0 /\ ev.height = tip + 1
      BY <1>1
    <3> QED  BY <3>1, <3>2, Zenon DEF squishy_eventadd_kmdheight
  <2> QED  BY <2>1, <2>2
<1>4. Rising(events') /\ UpTo(events', tip + 1)
  BY <1>1, <1>2, <1>3, AddFollows
<1>5. CASE Vout
  <2>1. tip' = tip /\ pc' \in {"vouts", "paid"}
    BY <1>5 DEF Vout
  <2> QED  BY <1>1, <1>2, <1>4, <2>1 DEF Follows
<1>6. CASE ConnectEnd
  <2>1. tip' = tip + 1 /\ pc' = "idle"
    BY <1>6 DEF ConnectEnd
  <2> QED  BY <1>1, <1>2, <1>4, <2>1 DEF Follows
<1> QED  BY <1>5, <1>6

LEMMA FollowsOther ==
    ASSUME IInv, Follows,
           \/ JustCheck \/ ReadNotarizedData \/ LearnBlock \/ LeaveIBD
           \/ ReadNotarizedHeight \/ DisconnectTip
    PROVE  Follows'
<1>1. /\ pc = "idle" /\ UNCHANGED <<events, pc, restarts>>
      /\ tip \in Nat /\ hwmheight \in Nat
  <2>1. tip \in Nat /\ hwmheight \in Nat
    BY StateAssumption DEF IInv, TypeOK
  <2>2. pc = "idle" /\ UNCHANGED <<events, pc, restarts>>
    BY Zenon DEF JustCheck, ReadNotarizedData, LearnBlock, LeaveIBD,
       ReadNotarizedHeight, DisconnectTip, memory
  <2> QED  BY <2>1, <2>2
<1>2. \/ UNCHANGED <<tip, hwmheight>>
      \/ tip' = tip /\ hwmheight' = tip + 1
      \/ tip' = tip - 1 /\ hwmheight' = hwmheight
  BY Zenon DEF JustCheck, ReadNotarizedData, LearnBlock, LeaveIBD, ReadNotarizedHeight,
         DisconnectTip, memory
<1> QED  BY <1>1, <1>2 DEF Follows

(* Until the first restart, squishy_connectblock never adds to the events  *)
(* of blocks that a reorganisation has taken off the chain.                *)
THEOREM NotaryEventsFollowChain == Spec => []EventsFollowChain
<1>1. Init => Follows
  BY DEF Init, Follows, Rising, UpTo
<1>2. IInv /\ Follows /\ [Next]_vars => Follows'
  <2> SUFFICES ASSUME IInv, Follows, [Next]_vars PROVE Follows'
    OBVIOUS
  <2>1. CASE UNCHANGED vars
    BY <2>1 DEF vars, memory, Follows
  <2>2. CASE Crash
    <3>1. restarts \in Nat /\ restarts' = restarts + 1
      BY <2>2, StateAssumption DEF Crash, IInv, TypeOK
    <3> QED  BY <3>1 DEF Follows
  <2>3. CASE Replay \/ ReplayDone
    BY <2>3 DEF Replay, ReplayDone, Follows
  <2> QED  BY <2>1, <2>2, <2>3, FollowsConnectStart, FollowsVout, FollowsOther DEF Next
<1>3. Follows => EventsFollowChain
  BY DEF Follows, EventsFollowChain, Rising, UpTo
<1> QED  BY <1>1, <1>2, <1>3, NotaryInvariant, PTL DEF Spec

=============================================================================
