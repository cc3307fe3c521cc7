----------------------------- MODULE ChainFlags -----------------------------
(***************************************************************************)
(* The rest of GInv: the heights in the notarisations and the course of a  *)
(* step, and so what the notarisations keep on the active chain.  Then the *)
(* failure flags: why a block has one, in memory and on disk, which stored *)
(* blocks are linked, and which blocks come to be marked.  Nothing about   *)
(* the flags holds once an -ac_cc chain or reconsiderblock has cleared     *)
(* one, and linking not once invalidateblock has set one on a block that   *)
(* waits for its parent.                                                   *)
(***************************************************************************)
EXTENDS ChainStateProofs

-----------------------------------------------------------------------------
(* Notarisations and reorganisations.                                      *)

LEMMA LastReadNamed ==
    ASSUME IInv, Named(last)
    PROVE  /\ Named(LastRead) /\ LastRead.notarized_height \in Nat
           /\ LastRead = last \/ LastRead.notarized_height = 0
<1>1. last \in Checkpoint /\ NoHash \notin Blocks
  BY Types, HashAssumption, ChainAssumption
<1>2. CASE last.notarized_hash \in index
  BY <1>1, <1>2 DEF LastRead, Checkpoint
<1>3. CASE last.notarized_hash \notin index
  <2>1. LastRead.notarized_hash = NoHash /\ LastRead.notarized_height = 0
    BY <1>1, <1>3 DEF LastRead, Checkpoint
  <2> QED  BY <1>1, <2>1 DEF Named
<1> QED  BY <1>2, <1>3

(* What becomes of the notarisations: they are read, a block brings a new  *)
(* one, or a restart finds the last of the state file.                     *)
NotaryKept == NPOINTS' = NPOINTS /\ (last' = last \/ last' = LastRead)

NotaryAdded == NPOINTS' = Append(NPOINTS, last') /\ Named(last')

NotaryLoaded ==
    /\ NPOINTS' = NPOINTS
    /\ last' = IF NPOINTS = <<>> THEN NullCheckpoint ELSE NPOINTS[Len(NPOINTS)]

LEMMA NotaryMoves ==
    ASSUME GInv, Next
    PROVE  NotaryKept \/ NotaryAdded \/ NotaryLoaded
<1>1. CASE Network
  BY <1>1 DEF Network, ProcessNewHeader, HeaderRefused, ProcessNewBlock, NotaryKept
<1>2. CASE Connect
  <2>1. PICK b \in Blocks : squishy_connectblock(b)
    <3>1. act.target \in Blocks
      BY <1>2, Types, ActTypes, Zenon DEF Connect, GInv
    <3> QED  BY <1>2, <3>1, Connecting, Tree, Zenon
  <2>2. CASE UNCHANGED <<NPOINTS, last>>
    BY <2>2 DEF NotaryKept
  <2>3. CASE ~UNCHANGED <<NPOINTS, last>>
    <3> DEFINE cp == [nHeight |-> nHeight[b], notarized_height |-> nHeight[Ntz[b]],
                      notarized_hash |-> Ntz[b], MoMdepth |-> 0]
    <3>1. NPOINTS' = Append(NPOINTS, cp) /\ last' = cp
      BY <2>1, <2>3, Zenon DEF squishy_connectblock
    <3>2. Named(cp)
      BY Zenon DEF Named
    <3> HIDE DEF cp
    <3> QED  BY <3>1, <3>2, Zenon DEF NotaryAdded
  <2> QED  BY <2>2, <2>3
<1>3. CASE Activation /\ ~Connect
  BY <1>3, Zenon DEF Activation, ActivateBestChainDone, ActivateBestChainIgnores,
     ActivateBestChainShutdown, ActivateBestChainStep, Disconnect,
     DisconnectRefused, ConnectFails, notary, NotaryKept
<1>4. CASE RPC
  BY <1>4, Zenon DEF RPC, InvalidateBlock, ReconsiderBlock, InvalidateDisconnect,
     InvalidateDone, notary, NotaryKept
<1>5. CASE Crash \/ StopAndRestart
  BY <1>5, Zenon DEF Crash, StopAndRestart, LoadBlockIndexDB, NotaryLoaded
<1>6. CASE LeaveIBD \/ Halted
  BY <1>6 DEF LeaveIBD, Halted, vars, notary, NotaryKept
<1> QED  BY <1>1, <1>2, <1>3, <1>4, <1>5, <1>6 DEF Next

LEMMA HeightsStep ==
    ASSUME GInv, Next
    PROVE  Heights'
<1>1. IInv /\ Heights /\ Named(last) /\ NPOINTS \in Seq(Checkpoint)
  BY Types DEF GInv, Heights
<1>2. CASE NotaryKept
  BY <1>1, <1>2, LastReadNamed DEF Heights, Named, NotaryKept
<1>3. CASE NotaryAdded
  <2>1. NPOINTS' = Append(NPOINTS, last') /\ Named(last')
    BY <1>3 DEF NotaryAdded
  <2>2. \A i \in 1 .. Len(NPOINTS') :
            NPOINTS'[i] = last' \/ (i \in 1 .. Len(NPOINTS) /\ NPOINTS'[i] = NPOINTS[i])
    BY <1>1, <2>1
  <2>3. \A i \in 1 .. Len(NPOINTS') : Named(NPOINTS'[i])
    BY <1>1, <2>1, <2>2 DEF Heights
  <2> QED  BY <2>1, <2>3, Zenon DEF Heights, Named
<1>4. CASE NotaryLoaded
  <2>1. NPOINTS' = NPOINTS
    BY <1>4 DEF NotaryLoaded
  <2>2. CASE NPOINTS = <<>>
    <3>1. last' = NullCheckpoint
      BY <1>4, <2>2 DEF NotaryLoaded
    <3>2. NullCheckpoint.notarized_hash \notin Blocks
      BY HashAssumption, ChainAssumption DEF NullCheckpoint
    <3> QED  BY <1>1, <2>1, <3>1, <3>2 DEF Heights, Named
  <2>3. CASE NPOINTS # <<>>
    <3>1. Len(NPOINTS) \in 1 .. Len(NPOINTS)
      BY <1>1, <2>3
    <3>2. last' = NPOINTS[Len(NPOINTS)]
      BY <1>4, <2>3, Zenon DEF NotaryLoaded
    <3> QED  BY <1>1, <2>1, <3>1, <3>2, Zenon DEF Heights, Named
  <2> QED  BY <2>2, <2>3
<1> QED  BY <1>2, <1>3, <1>4, NotaryMoves

LEMMA SteppingBegins ==
    ASSUME GInv, NEW kind \in {"dpow", "skip", "init"}, ActivateBestChainStep(kind)
    PROVE  Stepping'
<1>1. IInv /\ Ordered /\ Heights /\ tip \in Blocks /\ tip \in chainTx
  BY Types DEF GInv, Ordered
<1>2. PICK m \in MostWork \ {tip} :
          /\ kind # "dpow" \/ ~BelowNotarized(m)
          /\ ReorgLength(m) <= MAX_REORG_LENGTH
          /\ act' = [op |-> "step", target |-> m, kind |-> kind, oldTip |-> tip]
  BY DEF ActivateBestChainStep
<1>3. /\ act'.target = m /\ act'.kind = kind /\ act'.oldTip = tip
  BY <1>2
<1>4. /\ mode = "run" /\ kind \in abc /\ candidates' = candidates \ Erased
      /\ failedChild' = failedChild \cup (Erased \ Failed) /\ last' = LastRead
      /\ UNCHANGED <<mode, abc, chainTx, nSequenceId, address, tip, failedValid>>
  BY DEF ActivateBestChainStep, FindMostWorkChain
<1>5. /\ m \in Blocks /\ m \in candidates /\ m \notin Erased /\ Usable(m)
      /\ W(tip, m) /\ m \notin Path[tip]
  BY <1>1, <1>2, Chosen, Zenon
<1>6. (Path[m] \ Path[tip]) \cap Failed' = {}
  <2>1. Failed' \subseteq Failed \cup Erased
    BY <1>4 DEF Failed
  <2>2. ASSUME NEW x \in Path[m] \ Path[tip], NEW c \in Rejected, x \in FailedSegment(c)
        PROVE  FALSE
    <3>1. c \in Blocks /\ ~Usable(c)
      BY <1>1, Types, Zenon DEF Rejected
    <3>2. PICK y \in Path[c] \ Path[tip] : y \in Failed
      BY <3>1, Zenon DEF Usable
    <3>3. y \in Path[x]
      BY <2>2, <3>2 DEF FailedSegment
    <3>4. y \in Path[m]
      BY <1>5, <3>3, Ancestors
    <3> QED  BY <1>5, <3>2, <3>4, Zenon DEF Usable
  <2>3. (Path[m] \ Path[tip]) \cap Failed = {}
    BY <1>5 DEF Usable
  <2>4. \A x \in Path[m] \ Path[tip] : x \notin Erased
    BY <2>2 DEF Erased
  <2> QED  BY <2>1, <2>3, <2>4, Zenon
<1>7. Forks'
  <2> DEFINE f == FindFork(tip, m)
  <2>1. f \in Path[tip] \cap Path[m]
    BY <1>1, <1>5, Fork, Zenon
  <2>2. nHeight[tip] - nHeight[f] <= MAX_REORG_LENGTH
    BY <1>2 DEF ReorgLength
  <2>3. (kind = "dpow" /\ nHeight[tip] > LastRead.notarized_height)
            => nHeight[f] >= LastRead.notarized_height
    <3>1. LastRead.notarized_height \in Nat /\ nHeight[f] \in Nat
      BY <1>1, <2>1, LastReadNamed, Tree, Zenon DEF Heights
    <3> QED  BY <1>2, <3>1 DEF BelowNotarized
  <2> HIDE DEF f
  <2> QED  BY <1>3, <1>4, <2>1, <2>2, <2>3, Zenon DEF Forks
<1>8. W(tip, m)'
  BY <1>4, <1>5, Zenon DEF W
<1>9. tip \in Path[tip]
  BY <1>1, Tree
<1> QED  BY <1>1, <1>3, <1>4, <1>5, <1>6, <1>7, <1>8, <1>9, Zenon DEF Stepping, W

LEMMA SteppingDown ==
    ASSUME GInv, Disconnect
    PROVE  Stepping'
<1>1. /\ act.op = "step" /\ tip \in Path[act.oldTip] /\ tip \notin Path[act.target]
      /\ tip' \in Path[act.oldTip] /\ Path[tip] = Path[tip'] \cup {tip}
      /\ act.oldTip \in Blocks /\ act.target \in Blocks
  BY Disconnecting
<1>2. /\ last' = LastRead
      /\ UNCHANGED <<act, mode, abc, candidates, chainTx, nSequenceId, address,
                     failedValid, failedChild>>
  BY DEF Disconnect
<1>3. PICK f \in Path[act.oldTip] \cap Path[act.target] :
        /\ nHeight[act.oldTip] - nHeight[f] <= MAX_REORG_LENGTH
        /\ (/\ act.kind = "dpow" /\ tip \notin Path[act.target]
            /\ nHeight[act.oldTip] > last.notarized_height)
               => nHeight[f] >= last.notarized_height
  BY <1>1, Zenon DEF GInv, Stepping, Forks
<1>4. nHeight[f] \in Nat
  BY <1>1, <1>3, Tree, Zenon
<1>5. last' = last \/ last'.notarized_height = 0
  BY <1>2, LastReadNamed DEF GInv, Heights
<1>6. Forks'
  BY <1>1, <1>2, <1>3, <1>4, <1>5 DEF Forks
<1>7. Path[act.oldTip] \cap Path[act.target] \subseteq Path[tip']
  BY <1>1, Zenon DEF GInv, Stepping
<1> QED  BY <1>1, <1>2, <1>6, <1>7, Zenon DEF GInv, Stepping, W, Failed

LEMMA SteppingUp ==
    ASSUME GInv, Connect
    PROVE  Stepping'
<1>1. PICK b \in Path[act.target] :
          /\ tip' = b /\ Path[b] = Path[tip] \cup {b}
          /\ act.target \in candidates'
          /\ act' = IF b = act.target \/ nChainWork[b] > nChainWork[act.oldTip]
                    THEN idle ELSE act
          /\ IF b = act.target
             THEN abc' = abc \ {act.kind} /\ stalled' = FALSE
             ELSE abc' = abc /\ stalled' = stalled
          /\ mode' = mode
          /\ UNCHANGED <<chainTx, failedValid, failedChild, nSequenceId, address>>
  BY Connecting, Zenon
<1>2. act.op = "step"
  BY Zenon DEF Connect
<1>3. CASE act' = idle
  BY <1>3, Zenon DEF Stepping, idle
<1>4. CASE act' # idle
  <2>1. act' = act /\ abc' = abc
    BY <1>1, <1>4, Zenon
  <2>2. Forks'
    BY <1>1, <1>2, <2>1, Zenon DEF GInv, Stepping, Forks
  <2> QED  BY <1>1, <1>2, <2>1, <2>2, Zenon DEF GInv, Stepping, W, Failed
<1> QED  BY <1>3, <1>4

LEMMA SteppingStep ==
    ASSUME GInv, Next
    PROVE  Stepping'
<1>1. IInv /\ act \in Act
  BY Types DEF GInv
<1>2. ASSUME act' = idle \/ act'.op # "step" PROVE Stepping'
  <2>1. CASE act' = idle
    BY <2>1, Zenon DEF Stepping, idle
  <2>2. CASE act'.op # "step"
    BY <2>2, Zenon DEF Stepping
  <2> QED  BY <1>2, <2>1, <2>2
<1>3. CASE Network
  BY <1>2, <1>3, Zenon DEF Network, ProcessNewHeader, HeaderRefused, ProcessNewBlock, Serving
<1>4. ASSUME NEW kind \in {"dpow", "skip", "init"},
             \/ ActivateBestChainDone(kind) \/ ActivateBestChainIgnores(kind)
             \/ ActivateBestChainShutdown(kind) \/ ActivateBestChainStep(kind)
      PROVE  Stepping'
  BY <1>2, <1>4, SteppingBegins, Zenon DEF ActivateBestChainDone, ActivateBestChainIgnores,
     ActivateBestChainShutdown
<1>5. CASE Disconnect \/ DisconnectRefused \/ ConnectFails \/ Connect
  BY <1>2, <1>5, SteppingDown, SteppingUp, Zenon DEF DisconnectRefused, ConnectFails
<1>6. CASE RPC
  <2>1. CASE \E b \in Blocks : InvalidateBlock(b)
    <3>1. act'.op = "invalidate"
      BY <2>1 DEF InvalidateBlock
    <3> QED  BY <1>2, <3>1
  <2>2. CASE \E b \in Blocks : ReconsiderBlock(b)
    BY <1>2, <2>2, Zenon DEF ReconsiderBlock, Serving
  <2>3. CASE InvalidateDisconnect
    <3>1. act.op = "invalidate" /\ (act' = idle \/ act' = act)
      BY <2>3, Zenon DEF InvalidateDisconnect
    <3> QED  BY <1>2, <3>1
  <2>4. CASE InvalidateDone
    BY <1>2, <2>4 DEF InvalidateDone
  <2> QED  BY <1>6, <2>1, <2>2, <2>3, <2>4 DEF RPC
<1>7. CASE Crash \/ StopAndRestart
  BY <1>2, <1>7, Zenon DEF Crash, StopAndRestart, LoadBlockIndexDB
<1>8. CASE LeaveIBD \/ Halted
  <2>1. UNCHANGED <<chainTx, failedValid, failedChild, nSequenceId, address,
                    candidates, tip, last, act, abc, mode>>
    BY <1>8, Zenon DEF LeaveIBD, Halted, vars, chain, notary
  <2> QED  BY <2>1, Zenon DEF GInv, Stepping, Forks, W, Failed
<1> QED  BY <1>3, <1>4, <1>5, <1>6, <1>7, <1>8 DEF Next, Activation

LEMMA GStart ==
    ASSUME Init
    PROVE  GInv
<1>1. IInv
  BY Initially
<1>2. Ordered
  <2>1. ~W(Genesis, Genesis)
    BY <1>1, Tree, WOrder, Zenon
  <2> QED  BY <2>1, TreeAssumption, Zenon DEF Init, Ordered
<1>3. Heights
  <2>1. last.notarized_hash = NoHash /\ NoHash \notin Blocks
    BY HashAssumption, ChainAssumption, Zenon DEF Init, NullCheckpoint
  <2>2. Len(NPOINTS) = 0
    BY DEF Init
  <2> QED  BY <2>1, <2>2 DEF Heights, Named
<1>4. Stepping
  BY Zenon DEF Init, Stepping, idle
<1> QED  BY <1>1, <1>2, <1>3, <1>4 DEF GInv

LEMMA GNext ==
    ASSUME GInv, [Next]_vars
    PROVE  GInv'
<1>1. CASE Next
  BY <1>1, NextStep, OrderStep, HeightsStep, SteppingStep DEF GInv
<1>2. CASE UNCHANGED vars
  <2>1. IInv'
    BY <1>2, Stutter DEF GInv
  <2> QED  BY <1>2, <2>1, Zenon DEF vars, chain, notary, GInv, Ordered, Heights, Named,
                             Stepping, Forks, W, Failed
<1> QED  BY <1>1, <1>2

(* The candidates, the reorganisation under way and the notarisations stay *)
(* in step with the active chain, whatever the handlers of main.cpp do.    *)
THEOREM ChainOrdered == Spec => []GInv
BY GStart, GNext, PTL DEF Spec


-----------------------------------------------------------------------------
(* No counter goes back.                                                   *)
LEMMA CountersGrow ==
    ASSUME IInv, Next
    PROVE  /\ restarts' = 0 => restarts = 0
           /\ invalidates' = 0 => invalidates = 0
           /\ reconsiders' = 0 => reconsiders = 0
           /\ restarts' = restarts \/ (restarts' # 0 /\ (Crash \/ StopAndRestart))
<1>1. restarts \in Nat /\ invalidates \in Nat /\ reconsiders \in Nat
  BY DEF IInv, TypeOK
<1>2. /\ \/ restarts' = restarts
         \/ restarts' = restarts + 1 /\ (Crash \/ StopAndRestart)
      /\ invalidates' \in {invalidates, invalidates + 1}
      /\ reconsiders' \in {reconsiders, reconsiders + 1}
  <2>1. CASE Network
    BY <2>1, Zenon DEF Network, ProcessNewHeader, HeaderRefused, ProcessNewBlock, counts
  <2>2. CASE Activation
    BY <2>2, Zenon DEF Activation, ActivateBestChainDone, ActivateBestChainIgnores,
       ActivateBestChainShutdown, ActivateBestChainStep, Disconnect,
       DisconnectRefused, ConnectFails, Connect, ConnectTip, counts
  <2>3. CASE RPC
    BY <2>3, Zenon DEF RPC, InvalidateBlock, ReconsiderBlock, InvalidateDisconnect,
       InvalidateDone, counts
  <2>4. CASE Crash \/ StopAndRestart
    BY <2>4, Zenon DEF Crash, StopAndRestart, LoadBlockIndexDB
  <2>5. CASE LeaveIBD \/ Halted
    BY <2>5, Zenon DEF LeaveIBD, Halted, vars, counts
  <2> QED  BY <2>1, <2>2, <2>3, <2>4, <2>5, Zenon DEF Next
<1> QED  BY <1>1, <1>2

-----------------------------------------------------------------------------
(* Notarisations.                                                          *)

(* A reorganisation that a notarisation stops is stopped before it has     *)
(* disconnected anything, if it comes from the network.                    *)
LEMMA RefusedAtOnce ==
    ASSUME GInv, DisconnectRefused, act.kind = "dpow"
    PROVE  tip = act.oldTip
<1>1. /\ act.op = "step" /\ tip \notin Path[act.target] /\ LastRead.notarized_hash = tip
  BY DEF DisconnectRefused, Refuses
<1>2. /\ act.oldTip \in Blocks /\ act.target \in Blocks /\ tip \in Blocks
      /\ tip \in Path[act.oldTip] /\ NoHash \notin Blocks
  BY <1>1, Types, ActTypes, HashAssumption, ChainAssumption, Zenon DEF GInv, Stepping
<1>3. last.notarized_hash = tip /\ last.notarized_height = nHeight[tip]
  <2>1. last \in Checkpoint
    BY Types DEF GInv
  <2>2. CASE last.notarized_hash \in index
    BY <1>1, <1>2, <2>2 DEF LastRead, GInv, Heights, Named
  <2>3. CASE last.notarized_hash \notin index
    BY <1>1, <1>2, <2>1, <2>3 DEF LastRead, Checkpoint
  <2> QED  BY <2>2, <2>3, Zenon
<1>4. SUFFICES ASSUME tip # act.oldTip PROVE FALSE
  OBVIOUS
<1>5. nHeight[act.oldTip] > nHeight[tip]
  BY <1>2, <1>4, Ancestors
<1>6. PICK f \in Path[act.oldTip] \cap Path[act.target] : nHeight[f] >= nHeight[tip]
  BY <1>1, <1>3, <1>5 DEF GInv, Stepping, Forks
<1>7. f \in Path[tip] /\ f \in Blocks /\ nHeight[f] \in Nat /\ nHeight[tip] \in Nat
  BY <1>1, <1>2, <1>6, Tree DEF GInv, Stepping
<1>8. f = tip
  BY <1>2, <1>6, <1>7, Ancestors
<1> QED  BY <1>1, <1>6, <1>8

(* Where no RPC call and no restart asks for the best chain, all requests  *)
(* come from the network.                                                  *)
NetworkOnly == abc \subseteq {"dpow"} /\ act.op # "invalidate"

(* Every call of ActivateBestChain that looks for a chain finds the node   *)
(* idle, and leaves the tip and the files alone.                           *)
LEMMA Activating ==
    ASSUME NEW kind \in {"dpow", "skip", "init"},
           \/ ActivateBestChainDone(kind) \/ ActivateBestChainIgnores(kind)
           \/ ActivateBestChainShutdown(kind) \/ ActivateBestChainStep(kind)
    PROVE  /\ act = idle /\ mode = "run" /\ mode' \in {"run", "down"}
           /\ UNCHANGED <<tip, disk, nSequenceId, address>>
           /\ act' = idle \/ (act'.op = "step" /\ act'.oldTip = tip)
           /\ abc' \subseteq abc
<1>1. CASE ActivateBestChainDone(kind)
  BY <1>1, Zenon DEF ActivateBestChainDone, Return
<1>2. CASE ActivateBestChainIgnores(kind)
  BY <1>2, Zenon DEF ActivateBestChainIgnores, Fail
<1>3. CASE ActivateBestChainShutdown(kind)
  BY <1>3, Zenon DEF ActivateBestChainShutdown
<1>4. CASE ActivateBestChainStep(kind)
  BY <1>4 DEF ActivateBestChainStep
<1> QED  BY <1>1, <1>2, <1>3, <1>4, Zenon

LEMMA NetworkOnlyStep ==
    ASSUME IInv, NetworkOnly, [Next]_vars,
           MaxRestarts = 0, MaxInvalidate = 0, MaxReconsider = 0
    PROVE  NetworkOnly'
<1>1. restarts \in Nat /\ invalidates \in Nat /\ reconsiders \in Nat
  BY DEF IInv, TypeOK
<1>2. /\ ~(restarts < MaxRestarts) /\ ~(invalidates < MaxInvalidate)
      /\ ~(reconsiders < MaxReconsider)
  BY <1>1
<1>3. CASE Network
  BY <1>3, Zenon DEF Network, ProcessNewHeader, HeaderRefused, ProcessNewBlock, NetworkOnly
<1>4. ASSUME NEW kind \in {"dpow", "skip", "init"},
             \/ ActivateBestChainDone(kind) \/ ActivateBestChainIgnores(kind)
             \/ ActivateBestChainShutdown(kind) \/ ActivateBestChainStep(kind)
      PROVE  NetworkOnly'
  <2>1. abc' \subseteq abc /\ (act' = act \/ act'.op = "step")
    BY <1>4, Activating, Zenon
  <2> QED  BY <2>1 DEF NetworkOnly
<1>5. CASE Disconnect \/ DisconnectRefused \/ ConnectFails \/ Connect
  <2>1. abc' \subseteq abc
    BY <1>5, Zenon DEF Disconnect, DisconnectRefused, ConnectFails, Connect, Fail
  <2>2. act' = act \/ act' = idle
    BY <1>5, Zenon DEF Disconnect, DisconnectRefused, ConnectFails, Connect
  <2> QED  BY <2>1, <2>2 DEF NetworkOnly, idle
<1>6. CASE RPC
  BY <1>2, <1>6, Zenon DEF RPC, InvalidateBlock, ReconsiderBlock, InvalidateDisconnect,
                    InvalidateDone, NetworkOnly
<1>7. CASE Crash \/ StopAndRestart
  BY <1>2, <1>7, Zenon DEF Crash, StopAndRestart, LoadBlockIndexDB
<1>8. CASE LeaveIBD \/ Halted \/ UNCHANGED vars
  BY <1>8, Zenon DEF LeaveIBD, Halted, vars, NetworkOnly
<1> QED  BY <1>3, <1>4, <1>5, <1>6, <1>7, <1>8 DEF Next, Activation

(* "stay on the same chain tip!": when the notarisation stops              *)
(* ActivateBestChainStep, the tip is the one it started from.  This takes  *)
(* BelowNotarized, which calls by an RPC or by AppInit2 skip.              *)
THEOREM ChainRefusedInPlace ==
    ASSUME MaxRestarts = 0, MaxInvalidate = 0, MaxReconsider = 0
    PROVE  Spec => RefusedInPlace
<1>1. Init => NetworkOnly
  BY DEF Init, NetworkOnly, idle
<1>2. GInv /\ NetworkOnly /\ [Next]_vars => NetworkOnly'
  BY NetworkOnlyStep DEF GInv
<1>3. GInv /\ NetworkOnly => [DisconnectRefused => tip = act.oldTip]_vars
  <2> SUFFICES ASSUME GInv, NetworkOnly, DisconnectRefused
               PROVE  tip = act.oldTip
    OBVIOUS
  <2>1. act.kind = "dpow"
    BY Zenon DEF DisconnectRefused, GInv, Stepping, NetworkOnly
  <2> QED  BY <2>1, RefusedAtOnce
<1> QED  BY <1>1, <1>2, <1>3, ChainOrdered, PTL DEF Spec, RefusedInPlace

(* Only a restart finds no candidate: Connect leaves its target in the set *)
(* it prunes.                                                              *)
LEMMA ModeMoves ==
    ASSUME GInv, Next
    PROVE  \/ mode' = mode \/ mode' = "down"
           \/ \E d \in {disk, IndexWritten, Flushed(dirty, failedChild, tip)} :
                  LoadBlockIndexDB(d)
<1>1. CASE Network
  BY <1>1 DEF Network, ProcessNewHeader, HeaderRefused, ProcessNewBlock
<1>2. ASSUME NEW kind \in {"dpow", "skip", "init"},
             \/ ActivateBestChainDone(kind) \/ ActivateBestChainIgnores(kind)
             \/ ActivateBestChainShutdown(kind) \/ ActivateBestChainStep(kind)
      PROVE  mode' = mode \/ mode' = "down"
  BY <1>2, Zenon DEF ActivateBestChainDone, ActivateBestChainIgnores, Return, Fail,
     ActivateBestChainShutdown, ActivateBestChainStep
<1>3. CASE Disconnect \/ DisconnectRefused \/ ConnectFails
  BY <1>3, Zenon DEF Disconnect, DisconnectRefused, ConnectFails, Fail
<1>4. CASE Connect
  BY <1>4, Connecting, Zenon
<1>5. CASE RPC
  BY <1>5, Zenon DEF RPC, InvalidateBlock, ReconsiderBlock, InvalidateDisconnect,
     InvalidateDone
<1>6. CASE Crash \/ StopAndRestart
  BY <1>6, Zenon DEF Crash, StopAndRestart
<1>7. CASE LeaveIBD \/ Halted
  BY <1>7 DEF LeaveIBD, Halted, vars
<1> QED  BY <1>1, <1>2, <1>3, <1>4, <1>5, <1>6, <1>7, Zenon DEF Next, Activation

(* While the process runs, PruneBlockIndexCandidates never empties its     *)
(* set: the target of the reorganisation is in it.                         *)
THEOREM ChainAliveUntilRestart == Spec => [](restarts = 0 => NeverAborts)
<1> DEFINE I == restarts = 0 => NeverAborts
<1>1. Init => I
  BY DEF Init, NeverAborts
<1>2. ASSUME GInv, I, [Next]_vars PROVE I'
  <2>1. CASE Next
    <3>1. restarts' = 0 => restarts = 0
      BY <1>2, <2>1, CountersGrow DEF GInv
    <3>2. CASE mode' = mode \/ mode' = "down"
      BY <1>2, <3>1, <3>2 DEF NeverAborts
    <3>3. ASSUME NEW d, LoadBlockIndexDB(d) PROVE restarts' # 0
      <4>1. restarts' = restarts + 1 /\ restarts \in Nat
        BY <1>2, <3>3, Zenon DEF LoadBlockIndexDB, GInv, IInv, TypeOK
      <4> QED  BY <4>1
    <3> QED  BY <1>2, <2>1, <3>2, <3>3, ModeMoves
  <2>2. CASE UNCHANGED vars
    BY <1>2, <2>2 DEF vars, counts, NeverAborts
  <2> QED  BY <1>2, <2>1, <2>2
<1> QED  BY <1>1, <1>2, ChainOrdered, PTL DEF Spec

(* The tip of the coins database is a candidate unless it has failed.      *)
LEMMA LoadAborts ==
    ASSUME NEW d \in Disk, LoadBlockIndexDB(d), Path[d.tip] \subseteq d.data,
           mode' = "aborted"
    PROVE  tip' \in Failed' /\ act' = idle
<1>1. /\ tip' = d.tip /\ failedValid' = d.failedValid /\ failedChild' = d.failedChild
      /\ candidates' = LoadedCandidates(d, address') /\ address' \in Layouts
      /\ mode' = (IF candidates' = {} THEN "aborted" ELSE "run") /\ act' = idle
  BY Zenon DEF LoadBlockIndexDB
<1>2. candidates' = {}
  BY <1>1
<1>3. d.tip \in Blocks /\ d.tip \in Path[d.tip]
  BY Tree, Zenon DEF Disk
<1>4. ~Worse([x \in Blocks |-> 0], address', d.tip, d.tip)
  BY <1>1, <1>3, WorseOrder, Zenon
<1>5. d.tip \in d.failedValid \cup d.failedChild
  BY <1>1, <1>2, <1>3, <1>4, Zenon DEF LoadedCandidates, LoadedUnlinked
<1> QED  BY <1>1, <1>5, Zenon DEF Failed

(* A process that was aborted takes no step.                               *)
LEMMA AbortedStays ==
    ASSUME mode = "aborted", act = idle, Next
    PROVE  UNCHANGED <<chain, act, mode>>
<1>1. act.op # "step" /\ act.op # "invalidate" /\ mode # "run" /\ mode # "down"
  BY DEF idle
<1>2. ~Network
  BY <1>1, Zenon DEF Network, ProcessNewHeader, HeaderRefused, ProcessNewBlock, Serving
<1>3. ~Activation
  BY <1>1, Zenon DEF Activation, ActivateBestChainDone, ActivateBestChainIgnores,
     ActivateBestChainShutdown, ActivateBestChainStep, Disconnect, DisconnectRefused,
     ConnectFails, Connect
<1>4. ~RPC
  BY <1>1, Zenon DEF RPC, InvalidateBlock, ReconsiderBlock, InvalidateDisconnect,
     InvalidateDone, Serving
<1>5. ~Crash /\ ~StopAndRestart /\ ~LeaveIBD
  BY <1>1, Zenon DEF Crash, StopAndRestart, LeaveIBD
<1> QED  BY <1>2, <1>3, <1>4, <1>5, Zenon DEF Next, Halted, vars

(* The assertion of PruneBlockIndexCandidates fails only at a start, and   *)
(* only when the index that was written says that the tip of the coins     *)
(* database has failed: wherever the process died, whatever invalidateblock*)
(* and reconsiderblock were asked for and whatever ConnectBlock refused.   *)
THEOREM ChainAbortsOnlyFailed == Spec => []AbortsOnlyFailed
<1> DEFINE I == mode = "aborted" => tip \in Failed /\ act = idle
<1>1. Init => I
  BY DEF Init
<1>2. ASSUME GInv, I, [Next]_vars PROVE I'
  <2>1. ASSUME UNCHANGED <<chain, act, mode>> PROVE I'
    BY <1>2, <2>1 DEF chain, Failed
  <2>2. CASE Next /\ mode = "aborted"
    BY <1>2, <2>1, <2>2, AbortedStays
  <2>3. CASE Next /\ mode # "aborted"
    <3> SUFFICES ASSUME mode' = "aborted" PROVE (tip \in Failed)' /\ act' = idle
      OBVIOUS
    <3>1. PICK d \in {disk, IndexWritten, Flushed(dirty, failedChild, tip)} :
              LoadBlockIndexDB(d)
      BY <1>2, <2>3, ModeMoves
    <3>2. d \in Disk /\ Path[d.tip] \subseteq d.data
      <4>1. CASE d = disk
        BY <1>2, <4>1, Types, Zenon DEF GInv, IInv, OnDisk, DiskConsistent
      <4>2. CASE d = IndexWritten
        BY <1>2, <4>2, IndexWrittenDisk, Zenon DEF GInv
      <4>3. CASE d = Flushed(dirty, failedChild, tip)
        <5>1. /\ TypeOK /\ OnDisk /\ dirty \in SUBSET Blocks /\ failedChild \in SUBSET Blocks
              /\ tip \in Blocks /\ Path[tip] \subseteq data
          BY <1>2, Zenon DEF GInv, IInv, TypeOK, Downloaded
        <5>2. d \in Disk /\ data \subseteq d.data /\ d.tip = tip
          BY <4>3, <5>1, FlushedDisk, Zenon
        <5> QED  BY <5>1, <5>2
      <4> QED  BY <3>1, <4>1, <4>2, <4>3
    <3> QED  BY <3>1, <3>2, LoadAborts
  <2>4. CASE UNCHANGED vars
    BY <2>1, <2>4 DEF vars
  <2> QED  BY <1>2, <2>2, <2>3, <2>4
<1>3. I => AbortsOnlyFailed
  BY DEF AbortsOnlyFailed
<1> QED  BY <1>1, <1>2, <1>3, ChainOrdered, PTL DEF Spec

-----------------------------------------------------------------------------
(* What notarisations have named stays named, and the last of them is one. *)
Recorded ==
    last.notarized_hash \in Blocks => Path[last.notarized_hash] \subseteq Protected

LEMMA NamedProtected ==
    ASSUME NEW i \in DOMAIN NPOINTS, NPOINTS[i].notarized_hash \in Blocks
    PROVE  Path[NPOINTS[i].notarized_hash] \subseteq Protected
BY Zenon DEF Protected

LEMMA RecordedStep ==
    ASSUME GInv, Recorded, Next
    PROVE  Recorded' /\ Protected \subseteq Protected'
<1>1. NPOINTS \in Seq(Checkpoint) /\ NoHash \notin Blocks /\ last \in Checkpoint
  BY Types, HashAssumption, ChainAssumption DEF GInv
<1>2. ASSUME NPOINTS' = NPOINTS PROVE Protected' = Protected
  BY <1>2 DEF Protected
<1>3. CASE NotaryKept
  <2>1. last' = last \/ last'.notarized_hash = NoHash
    BY <1>1, <1>3 DEF NotaryKept, LastRead, Checkpoint
  <2> QED  BY <1>1, <1>2, <1>3, <2>1, Zenon DEF NotaryKept, Recorded
<1>4. CASE NotaryAdded
  <2>1. NPOINTS' = Append(NPOINTS, last')
    BY <1>4 DEF NotaryAdded
  <2>2. /\ Len(NPOINTS) + 1 \in DOMAIN NPOINTS' /\ NPOINTS'[Len(NPOINTS) + 1] = last'
        /\ \A i \in DOMAIN NPOINTS : i \in DOMAIN NPOINTS' /\ NPOINTS'[i] = NPOINTS[i]
    BY <1>1, <2>1
  <2>3. Protected \subseteq Protected'
    BY <2>2, Zenon DEF Protected
  <2>4. Recorded'
    <3>1. SUFFICES ASSUME last'.notarized_hash \in Blocks
                   PROVE  Path[last'.notarized_hash] \subseteq Protected'
      BY DEF Recorded
    <3>2. last'.notarized_hash
              \in {NPOINTS'[i].notarized_hash : i \in DOMAIN NPOINTS'} \cap Blocks
      BY <2>2, <3>1, Zenon
    <3> QED  BY <3>2, Zenon DEF Protected
  <2> QED  BY <2>3, <2>4
<1>5. CASE NotaryLoaded
  <2>1. NPOINTS' = NPOINTS
    BY <1>5 DEF NotaryLoaded
  <2>2. CASE NPOINTS = <<>>
    <3>1. last'.notarized_hash = NoHash
      BY <1>5, <2>2 DEF NotaryLoaded, NullCheckpoint
    <3> QED  BY <1>1, <1>2, <2>1, <3>1, Zenon DEF Recorded
  <2>3. CASE NPOINTS # <<>>
    <3>1. Len(NPOINTS) \in DOMAIN NPOINTS
      BY <1>1, <2>3
    <3>2. last' = NPOINTS[Len(NPOINTS)]
      BY <1>5, <2>3, Zenon DEF NotaryLoaded
    <3> QED  BY <1>2, <2>1, <3>1, <3>2, NamedProtected, Zenon DEF Recorded
  <2> QED  BY <2>2, <2>3
<1> QED  BY <1>3, <1>4, <1>5, NotaryMoves

(* An invalid block on the active chain is the one that invalidateblock is *)
(* working on, or is held there by a notarised one.                        *)
Survives ==
    \A b \in Path[tip] \cap failedValid :
        (act.op = "invalidate" /\ b = act.target) \/ b \in Protected

(* No block of the chain comes to be invalid.                              *)
LEMMA SurvivesStill ==
    ASSUME Survives, Protected \subseteq Protected',
           Path[tip'] \cap failedValid' \subseteq Path[tip] \cap failedValid,
           act.op # "invalidate" \/ act' = act \/ act.target \notin Path[tip]
    PROVE  Survives'
BY DEF Survives

LEMMA SurvivesInvalidate ==
    ASSUME GInv, Recorded, Survives, Protected \subseteq Protected', InvalidateDisconnect
    PROVE  Survives'
<1>1. /\ act.op = "invalidate" /\ act.target \in Path[tip] /\ failedValid' = failedValid
      /\ act.target # Genesis /\ tip \in Blocks /\ last \in Checkpoint
      /\ NoHash \notin Blocks
  BY Types, HashAssumption, ChainAssumption, Zenon
     DEF InvalidateDisconnect, GInv, IInv, Aims
<1>2. CASE Refuses
  <2>1. tip' = tip /\ LastRead.notarized_hash = tip
    BY <1>2, Zenon DEF InvalidateDisconnect, Refuses
  <2>2. last.notarized_hash = tip
    BY <1>1, <2>1 DEF LastRead, Checkpoint
  <2>3. Path[tip'] \subseteq Protected'
    BY <1>1, <2>1, <2>2, Zenon DEF Recorded
  <2> QED  BY <2>3, Zenon DEF Survives
<1>3. CASE ~Refuses
  <2>1. tip' = pprev[tip] /\ act' = act
    BY <1>3 DEF InvalidateDisconnect
  <2>2. tip # Genesis
    BY <1>1, Tree
  <2>3. Path[tip'] \subseteq Path[tip]
    BY <1>1, <2>1, <2>2, Tree
  <2> QED  BY <1>1, <2>1, <2>3, SurvivesStill
<1> QED  BY <1>2, <1>3

LEMMA SurvivesStep ==
    ASSUME GInv, Recorded, Survives, Next, restarts' = restarts
    PROVE  Survives'
<1>1. IInv /\ tip \in Blocks /\ Path[tip] \subseteq data /\ act \in Act
  BY Types, Zenon DEF GInv, IInv, Downloaded
<1>2. Protected \subseteq Protected'
  BY RecordedStep
<1>3. ASSUME tip' = tip, Path[tip] \cap failedValid' \subseteq failedValid,
             act.op # "invalidate" \/ act' = act \/ act.target \notin Path[tip]
      PROVE  Survives'
  BY <1>2, <1>3, SurvivesStill
<1>4. CASE Network
  <2>1. tip' = tip /\ act' = act
    BY <1>4, Zenon DEF Network, ProcessNewHeader, HeaderRefused, ProcessNewBlock, chain
  <2>2. Path[tip] \cap failedValid' \subseteq failedValid
    BY <1>1, <1>4, Zenon DEF Network, ProcessNewHeader, HeaderRefused, ProcessNewBlock, chain,
                      Stores
  <2> QED  BY <1>3, <2>1, <2>2
<1>5. ASSUME NEW kind \in {"dpow", "skip", "init"},
             \/ ActivateBestChainDone(kind) \/ ActivateBestChainShutdown(kind)
             \/ ActivateBestChainStep(kind) \/ ActivateBestChainIgnores(kind)
      PROVE  Survives'
  <2>1. act = idle /\ tip' = tip
    BY <1>5, Zenon DEF ActivateBestChainDone, ActivateBestChainShutdown,
       ActivateBestChainStep, ActivateBestChainIgnores
  <2>2. act.op # "invalidate"
    BY <2>1 DEF idle
  <2>3. \E m \in MostWork \cup {tip} :
            failedValid' = failedValid \/ (m # tip /\ failedValid' = failedValid \cup {m})
    BY <1>5, Zenon DEF ActivateBestChainDone, ActivateBestChainShutdown,
                ActivateBestChainStep, ActivateBestChainIgnores
  <2>4. Path[tip] \cap failedValid' \subseteq failedValid
    BY <2>3, Chosen, Zenon DEF GInv
  <2> QED  BY <1>3, <2>1, <2>2, <2>4, Zenon
<1>6. CASE Disconnect
  <2>1. Path[tip'] \subseteq Path[tip]
    BY <1>6, Disconnecting, Zenon
  <2> QED  BY <1>2, <1>6, <2>1, SurvivesStill DEF Disconnect
<1>7. CASE DisconnectRefused
  BY <1>3, <1>7 DEF DisconnectRefused, chain
<1>8. CASE ConnectFails
  <2>1. PICK b \in Blocks \ {Genesis} : pprev[b] = tip /\ failedValid' = failedValid \cup {b}
    BY <1>8, TreeAssumption, Zenon DEF ConnectFails
  <2>2. b \notin Path[tip]
    BY <2>1, TreeAssumption
  <2> QED  BY <1>3, <1>8, <2>1, <2>2 DEF ConnectFails
<1>9. CASE Connect
  <2>1. /\ \E b \in Blocks : b \notin Failed /\ tip' = b /\ Path[b] = Path[tip] \cup {b}
        /\ failedValid' = failedValid /\ act.op # "invalidate"
    <3>1. act.op = "step" /\ act.target \in Blocks
      BY <1>1, <1>9, ActTypes, Zenon DEF Connect
    <3> QED  BY <1>9, <3>1, Connecting, Tree, Zenon
  <2>2. Path[tip'] \cap failedValid' \subseteq Path[tip] \cap failedValid
    BY <2>1, Zenon DEF Failed
  <2> QED  BY <1>2, <2>1, <2>2, SurvivesStill
<1>10. ASSUME NEW b \in Blocks, InvalidateBlock(b) PROVE Survives'
  <2>1. /\ act'.op = "invalidate" /\ act'.target = b /\ act.op # "invalidate"
        /\ failedValid' = failedValid \cup {b} /\ tip' = tip
    BY <1>10 DEF InvalidateBlock, Serving, idle
  <2> QED  BY <1>2, <2>1 DEF Survives
<1>11. ASSUME NEW b \in Blocks, ReconsiderBlock(b) PROVE Survives'
  <2>1. failedValid' \subseteq failedValid /\ UNCHANGED <<tip, act>>
    BY <1>11, Zenon DEF ReconsiderBlock
  <2> QED  BY <1>3, <2>1
<1>12. CASE InvalidateDone
  BY <1>3, <1>12, Zenon DEF InvalidateDone
<1>13. CASE LeaveIBD \/ Halted
  BY <1>3, <1>13, Zenon DEF LeaveIBD, Halted, vars, chain
<1>14. CASE Crash \/ StopAndRestart
  <2>1. restarts' = restarts + 1 /\ restarts \in Nat
    BY <1>1, <1>14, Zenon DEF Crash, StopAndRestart, LoadBlockIndexDB, IInv, TypeOK
  <2> QED  BY <2>1
<1> QED  BY <1>2, <1>4, <1>5, <1>6, <1>7, <1>8, <1>9, <1>10, <1>11, <1>12, <1>13, <1>14,
            SurvivesInvalidate DEF Next, Activation, RPC

LEMMA SurvivesStart ==
    ASSUME Init
    PROVE  Recorded /\ Survives
<1>1. last.notarized_hash = NoHash /\ NoHash \notin Blocks /\ failedValid = {}
  BY HashAssumption, ChainAssumption, Zenon DEF Init, NullCheckpoint
<1> QED  BY <1>1, Zenon DEF Recorded, Survives

(* Within one life of the process, invalidateblock removes the block and   *)
(* its descendants from the chain unless a notarised block is one of them, *)
(* whatever is called and whatever arrives in between, and wherever the    *)
(* notarisations point to.                                                 *)
THEOREM ChainOnlyNotarizedSurvives ==
    Spec => [](restarts = 0 => OnlyNotarizedSurvives)
<1> DEFINE I == Recorded /\ (restarts = 0 => Survives)
<1>1. Init => I
  BY SurvivesStart
<1>2. ASSUME GInv, I, [Next]_vars PROVE I'
  <2>1. CASE Next
    <3>1. restarts' = 0 => restarts = 0 /\ restarts' = restarts
      BY <1>2, <2>1, CountersGrow DEF GInv
    <3> QED  BY <1>2, <2>1, <3>1, SurvivesStep, RecordedStep
  <2>2. CASE UNCHANGED vars
    <3>1. UNCHANGED <<NPOINTS, last, tip, failedValid, act, restarts>>
      BY <2>2, Zenon DEF vars, chain, notary, counts
    <3> QED  BY <1>2, <3>1 DEF Survives, Recorded, Protected
  <2> QED  BY <1>2, <2>1, <2>2
<1>3. I => (restarts = 0 => OnlyNotarizedSurvives)
  BY Zenon DEF Survives, OnlyNotarizedSurvives
<1> QED  BY <1>1, <1>2, <1>3, ChainOrdered, PTL DEF Spec

-----------------------------------------------------------------------------
(* Why blocks have failed, in memory and on disk.                          *)
Unsound(b) == Path[b] \cap failedValid # {}

Causes ==
    /\ Failed \subseteq index
    /\ \A b \in failedChild : Unsound(b)
    /\ act.op = "invalidate" => act.target \in failedValid

(* FindMostWorkChain marks dirty nothing, so the disk may lack             *)
(* BLOCK_FAILED_CHILD flags, but never the BLOCK_FAILED_VALID one that is  *)
(* their cause.                                                            *)
CausesOnDisk ==
    /\ disk.failedValid \subseteq failedValid
    /\ failedValid \subseteq disk.failedValid \cup dirty
    /\ disk.failedChild \subseteq failedChild
    /\ disk.failedValid \cup disk.failedChild \subseteq disk.index
    /\ index \subseteq disk.index \cup dirty
    /\ \A b \in disk.failedChild : Path[b] \cap disk.failedValid # {}

FInv == Causes /\ CausesOnDisk

(* Soundness is inherited.                                                 *)
LEMMA UnsoundAbove ==
    ASSUME IInv, Causes, NEW b \in Blocks, NEW a \in Path[b], a \in Failed
    PROVE  Unsound(b)
<1>1. a \in Blocks /\ a \in Path[a] /\ Path[a] \subseteq Path[b]
  BY Tree, Ancestors
<1>2. Unsound(a)
  BY <1>1 DEF Causes, Failed, Unsound
<1> QED  BY <1>1, <1>2 DEF Unsound

LEMMA ErasedUnsound ==
    ASSUME GInv, Causes, NEW x \in Erased
    PROVE  /\ x \in chainTx /\ x \in index /\ x \notin Path[tip]
           /\ Unsound(x) /\ \E y \in Path[x] : y \in Failed
<1>1. PICK c \in Rejected : x \in FailedSegment(c)
  BY Zenon DEF Erased
<1>2. IInv /\ c \in Blocks /\ ~Usable(c) /\ Path[c] \subseteq data /\ Path[c] \subseteq chainTx
  BY Types DEF Rejected, GInv, IInv, Downloaded, Ordered
<1>3. x \in Path[c] \ Path[tip] /\ (Path[c] \ Path[x]) \cap Failed = {}
  BY <1>1 DEF FailedSegment
<1>4. PICK y \in Path[c] \ Path[tip] : y \in Failed
  BY <1>2 DEF Usable
<1>5. y \in Path[x] /\ x \in Blocks /\ x \in chainTx /\ x \in index
  BY <1>2, <1>3, <1>4, Tree DEF IInv, Downloaded
<1>6. Unsound(x)
  BY <1>2, <1>4, <1>5, UnsoundAbove
<1> QED  BY <1>3, <1>4, <1>5, <1>6

(* Without -ac_cc an accepted header clears no flag.                       *)
LEMMA NothingCleared ==
    ASSUME ~ASSETCHAINS_CC, Causes, NEW b, HeaderAccepted(b)
    PROVE  b \notin Failed /\ failedChild' = failedChild /\ index' = index \cup {b}
<1>1. b \notin Failed
  BY DEF HeaderAccepted, AcceptBlockHeader, Causes
<1> QED  BY <1>1 DEF HeaderAccepted, Failed

(* What a flush of the entries d writes.                                   *)
CausesWritten(f, d, fc) ==
    /\ f.failedValid = failedValid /\ f.failedChild \subseteq fc
    /\ f.index = disk.index \cup d /\ index \subseteq f.index
    /\ failedValid \subseteq f.index /\ f.failedChild \subseteq f.index

LEMMA FlushedCauses ==
    ASSUME FInv, NEW d \in SUBSET Blocks, dirty \subseteq d,
           NEW fc \in SUBSET Blocks, failedChild \subseteq fc, NEW t
    PROVE  CausesWritten(Flushed(d, fc, t), d, fc)
<1> DEFINE f == Flushed(d, fc, t)
<1>1. /\ f.failedValid = Written(disk.failedValid, failedValid, d)
      /\ f.failedChild = Written(disk.failedChild, fc, d)
      /\ f.index = disk.index \cup d
  BY DEF Flushed
<1>2. Written(disk.failedValid, failedValid, d) = failedValid
  BY DEF Written, FInv, CausesOnDisk
<1>3. /\ Written(disk.failedChild, fc, d) \subseteq fc
      /\ Written(disk.failedChild, fc, d) \subseteq disk.failedChild \cup d
  BY DEF Written, FInv, CausesOnDisk
<1> HIDE DEF f
<1>4. CausesWritten(f, d, fc)
  BY <1>1, <1>2, <1>3 DEF FInv, CausesOnDisk, CausesWritten
<1> QED  BY <1>4, Zenon DEF f

LEMMA CausesFlush ==
    ASSUME IInv, FInv, NEW d \in SUBSET Blocks, dirty \subseteq d,
           NEW fc \in SUBSET Blocks, failedChild \subseteq fc, NEW t,
           NEW indexOnly \in BOOLEAN, FlushStateToDisk(d, fc, t, indexOnly),
           failedChild' = fc, \A b \in fc : Unsound(b), UNCHANGED <<failedValid, index>>
    PROVE  CausesOnDisk'
<1>1. CASE dirty' = d /\ disk' = disk
  BY <1>1, Zenon DEF FInv, CausesOnDisk
<1>2. CASE dirty' = {} /\ \E best : disk' = Flushed(d, fc, best)
  <2>1. PICK best : disk' = Flushed(d, fc, best)
    BY <1>2
  <2> DEFINE f == Flushed(d, fc, best)
  <2>2. CausesWritten(f, d, fc)
    BY FlushedCauses, Zenon
  <2>3. disk' = f
    BY <2>1
  <2> HIDE DEF f
  <2> QED  BY <1>2, <2>2, <2>3 DEF CausesOnDisk, Unsound, CausesWritten
<1> QED  BY <1>1, <1>2, Zenon DEF FlushStateToDisk

(* What a flush that stops half-way leaves.                                *)
LEMMA IndexWrittenCauses ==
    ASSUME IInv, FInv
    PROVE  /\ IndexWritten.failedValid = failedValid
           /\ IndexWritten.failedChild \subseteq failedChild \cup Marking
           /\ IndexWritten.failedValid \cup IndexWritten.failedChild \subseteq IndexWritten.index
           /\ \A b \in IndexWritten.failedChild : Path[b] \cap IndexWritten.failedValid # {}
<1>1. dirty \subseteq Blocks /\ failedChild \subseteq Blocks /\ Marking \subseteq Blocks
  BY DEF IInv, TypeOK, Marking
<1>2. \A b \in failedChild \cup Marking : Unsound(b)
  BY DEF FInv, Causes, Marking, Unsound
<1> DEFINE d  == dirty \cup Marking
           fc == failedChild \cup Marking
<1>3. /\ d \in SUBSET Blocks /\ fc \in SUBSET Blocks
      /\ dirty \subseteq d /\ failedChild \subseteq fc
  BY <1>1
<1> HIDE DEF d, fc
<1>4. CausesWritten(Flushed(d, fc, disk.tip), d, fc)
  BY <1>3, FlushedCauses, Zenon
<1>5. CausesWritten(IndexWritten, d, failedChild \cup Marking)
  BY <1>4, Zenon DEF IndexWritten, d, fc
<1> QED  BY <1>2, <1>5 DEF CausesWritten, Unsound

(* A restart takes the causes from the disk.                               *)
LEMMA CausesLoad ==
    ASSUME NEW d, LoadBlockIndexDB(d),
           d.failedValid \cup d.failedChild \subseteq d.index,
           \A b \in d.failedChild : Path[b] \cap d.failedValid # {}
    PROVE  FInv'
<1>1. /\ disk' = d /\ index' = d.index /\ dirty' = {} /\ act' = idle
      /\ failedValid' = d.failedValid /\ failedChild' = d.failedChild
  BY Zenon DEF LoadBlockIndexDB
<1>2. Causes'
  BY <1>1 DEF Causes, Failed, Unsound, idle
<1>3. CausesOnDisk'
  BY <1>1 DEF CausesOnDisk
<1> QED  BY <1>2, <1>3 DEF FInv

(* A step that writes nothing, and marks blocks of the index.              *)
LEMMA CausesKept ==
    ASSUME FInv, disk' = disk, dirty \subseteq dirty',
           index \subseteq index', index' \subseteq index \cup dirty',
           failedValid \subseteq failedValid',
           failedValid' \subseteq failedValid \cup (dirty' \cap index'),
           failedChild \subseteq failedChild', failedChild' \subseteq index',
           \A b \in failedChild' : Unsound(b),
           act'.op = "invalidate" => act'.target \in failedValid'
    PROVE  FInv'
<1>1. Causes'
  BY DEF FInv, Causes, Failed, Unsound
<1>2. CausesOnDisk'
  BY DEF FInv, CausesOnDisk
<1> QED  BY <1>1, <1>2 DEF FInv

LEMMA CausesStep ==
    ASSUME GInv, FInv, Next, ~ASSETCHAINS_CC, reconsiders' = 0
    PROVE  FInv'
<1>1. /\ IInv /\ tip \in Blocks /\ act \in Act /\ candidates \subseteq data
      /\ chainTx \subseteq data /\ data \subseteq index /\ index \subseteq Blocks
      /\ Path[tip] \subseteq data
      /\ dirty \in SUBSET Blocks /\ failedChild \in SUBSET Blocks
  <2>1. \A x \in chainTx : x \in Path[x] /\ Path[x] \subseteq data
    BY Tree, Types DEF GInv, IInv, Downloaded
  <2> QED  BY <2>1, Types DEF GInv, IInv, TypeOK, Downloaded
<1>2. Causes /\ failedChild \subseteq index /\ \A b \in failedChild : Unsound(b)
  BY DEF FInv, Causes, Failed
<1>3. ASSUME NEW b \in Blocks \ {Genesis}, ProcessNewHeader(b) PROVE FInv'
  <2>1. b \notin Failed /\ failedChild' = failedChild /\ index' = index \cup {b}
    BY <1>2, <1>3, NothingCleared DEF ProcessNewHeader
  <2>2. /\ failedValid' = failedValid /\ dirty \subseteq dirty' /\ act' = act
        /\ index' \subseteq index \cup dirty' /\ disk' = disk
    BY <1>3, <2>1 DEF ProcessNewHeader, Failed
  <2> QED  BY <1>2, <2>1, <2>2, CausesKept DEF Causes
<1>4. ASSUME NEW b \in Blocks \ {Genesis}, NEW fRequested \in BOOLEAN,
             ProcessNewBlock(b, fRequested)
      PROVE  FInv'
  <2>1. b \notin Failed /\ failedChild' = failedChild /\ index' = index \cup {b}
    BY <1>2, <1>4, NothingCleared DEF ProcessNewBlock
  <2>2. /\ failedValid' = failedValid \/ (failedValid' = failedValid \cup {b} /\ b \in dirty')
        /\ dirty \subseteq dirty' /\ act' = act
        /\ index' \subseteq index \cup dirty' /\ disk' = disk
    BY <1>4, <2>1, Zenon DEF ProcessNewBlock, Failed
  <2> QED  BY <1>2, <2>1, <2>2, CausesKept DEF Causes
<1>5. ASSUME NEW kind \in {"dpow", "skip", "init"},
             \/ ActivateBestChainDone(kind) \/ ActivateBestChainIgnores(kind)
             \/ ActivateBestChainShutdown(kind) \/ ActivateBestChainStep(kind)
      PROVE  FInv'
  <2>1. failedChild' = failedChild \cup (Erased \ Failed) /\ index' = index /\ disk' = disk
    BY <1>5, Zenon DEF ActivateBestChainDone, ActivateBestChainIgnores, FindMostWorkChain,
       ActivateBestChainShutdown, ActivateBestChainStep
  <2>2. \/ failedValid' = failedValid /\ dirty' = dirty
        \/ \E m \in candidates : /\ failedValid' = failedValid \cup {m}
                                 /\ dirty' = dirty \cup {m}
    BY <1>5, Zenon DEF ActivateBestChainDone, ActivateBestChainIgnores, MostWork,
       ActivateBestChainShutdown, ActivateBestChainStep
  <2>3. \A x \in Erased : Unsound(x) /\ x \in index
    BY <1>2, ErasedUnsound
  <2>4. act'.op # "invalidate"
    <3>1. act' = idle \/ act'.op = "step"
      BY <1>5, Activating, Zenon
    <3> QED  BY <3>1 DEF idle
  <2> QED  BY <1>1, <1>2, <2>1, <2>2, <2>3, <2>4, CausesKept
<1>6. CASE Disconnect
  <2>1. /\ FlushStateToDisk(dirty, failedChild, pprev[tip], FALSE)
        /\ UNCHANGED <<failedValid, failedChild, index, act>>
    BY <1>6, Zenon DEF Disconnect
  <2>2. CausesOnDisk'
    BY <1>1, <1>2, <2>1, CausesFlush, Zenon
  <2> QED  BY <2>1, <2>2 DEF FInv, Causes, Failed, Unsound
<1>7. CASE Connect
  <2>1. PICK b \in Path[act.target] \ (BadConnect \cup {Genesis}) :
            /\ b \in chainTx
            /\ FlushStateToDisk(dirty \cup {b}, failedChild, b, b = act.target)
            /\ UNCHANGED <<failedValid, failedChild, index>>
            /\ act' = act \/ act' = idle
    BY <1>7, Connecting, Zenon
  <2>2. dirty \cup {b} \in SUBSET Blocks /\ dirty \subseteq dirty \cup {b}
        /\ (b = act.target) \in BOOLEAN
    BY <1>1, <2>1
  <2>3. CausesOnDisk'
    BY <1>1, <1>2, <2>1, <2>2, CausesFlush, Zenon
  <2>4. act'.op # "invalidate"
    BY <1>7, <2>1 DEF Connect, idle
  <2> QED  BY <2>1, <2>3, <2>4 DEF FInv, Causes, Failed, Unsound
<1>8. CASE ConnectFails
  <2>1. PICK b \in Path[act.target] :
            failedValid' = failedValid \cup {b} /\ dirty' = dirty \cup {b}
    BY <1>8, Zenon DEF ConnectFails
  <2>2. act' = idle /\ UNCHANGED <<index, failedChild, disk>> /\ act.op = "step"
    BY <1>8 DEF ConnectFails
  <2>3. b \in index
    BY <1>1, <2>1, <2>2 DEF IInv, Aims
  <2>4. act'.op # "invalidate"
    BY <2>2 DEF idle
  <2> QED  BY <1>2, <2>1, <2>2, <2>3, <2>4, CausesKept
<1>9. CASE InvalidateDisconnect
  <2>1. /\ act.op = "invalidate" /\ act.target \in Path[tip]
        /\ failedChild' = failedChild \cup {tip}
        /\ UNCHANGED <<failedValid, index>>
        /\ act' = act \/ act' = idle
    BY <1>9, Zenon DEF InvalidateDisconnect
  <2>2. act'.op = "invalidate" => act'.target \in failedValid
    BY <1>2, <2>1 DEF Causes, idle
  <2>3. tip \in index /\ \A b \in failedChild \cup {tip} : Unsound(b)
    <3>1. Unsound(tip)
      BY <1>2, <2>1 DEF Causes, Unsound
    <3>2. tip \in Path[tip]
      BY <1>1, Tree
    <3> QED  BY <1>1, <1>2, <3>1, <3>2
  <2>4. CASE Refuses
    <3>1. dirty' = dirty \cup {tip} /\ disk' = disk
      BY <1>9, <2>4 DEF InvalidateDisconnect
    <3> QED  BY <1>2, <2>1, <2>2, <2>3, <3>1, CausesKept, Zenon
  <2>5. CASE ~Refuses
    <3>1. FlushStateToDisk(dirty \cup {tip}, failedChild \cup {tip}, pprev[tip], FALSE)
      BY <1>9, <2>5, Zenon DEF InvalidateDisconnect
    <3>2. /\ dirty \cup {tip} \in SUBSET Blocks /\ dirty \subseteq dirty \cup {tip}
          /\ failedChild \cup {tip} \in SUBSET Blocks
          /\ failedChild \subseteq failedChild \cup {tip}
      BY <1>1
    <3>3. CausesOnDisk'
      BY <1>1, <2>1, <2>3, <3>1, <3>2, CausesFlush, Zenon
    <3>4. Causes'
      BY <1>2, <2>1, <2>2, <2>3 DEF Causes, Failed, Unsound
    <3> QED  BY <3>3, <3>4 DEF FInv
  <2> QED  BY <2>4, <2>5
<1>10. ASSUME NEW b \in Blocks, InvalidateBlock(b) PROVE FInv'
  <2>1. /\ failedValid' = failedValid \cup {b} /\ dirty' = dirty \cup {b} /\ b \in index
        /\ UNCHANGED <<index, failedChild, disk>>
    BY <1>10, Zenon DEF InvalidateBlock
  <2>2. act'.target = b
    BY <1>10 DEF InvalidateBlock
  <2> QED  BY <1>2, <2>1, <2>2, CausesKept
<1>11. ASSUME NEW b \in Blocks, ReconsiderBlock(b) PROVE FALSE
  <2>1. reconsiders \in Nat /\ reconsiders' = reconsiders + 1
    BY <1>1, <1>11, Zenon DEF ReconsiderBlock, IInv, TypeOK
  <2> QED  BY <2>1
<1>12. ASSUME UNCHANGED <<index, failedValid, failedChild, dirty, disk>>,
              act' = act \/ act' = idle
       PROVE  FInv'
  <2>1. act'.op = "invalidate" => act'.target \in failedValid
    BY <1>2, <1>12 DEF Causes, idle
  <2> QED  BY <1>2, <1>12, <2>1, CausesKept
<1>13. CASE DisconnectRefused \/ InvalidateDone \/ LeaveIBD \/ Halted
            \/ \E b \in Blocks : HeaderRefused(b)
  BY <1>12, <1>13, Zenon DEF DisconnectRefused, InvalidateDone, LeaveIBD, Halted,
     HeaderRefused, chain, vars
<1>14. CASE Crash
  <2>1. LoadBlockIndexDB(disk) \/ LoadBlockIndexDB(IndexWritten)
    BY <1>14 DEF Crash
  <2>2. CASE LoadBlockIndexDB(disk)
    BY <2>2, CausesLoad, Zenon DEF FInv, CausesOnDisk
  <2>3. CASE LoadBlockIndexDB(IndexWritten)
    <3>1. /\ IndexWritten.failedValid \cup IndexWritten.failedChild \subseteq IndexWritten.index
          /\ \A b \in IndexWritten.failedChild : Path[b] \cap IndexWritten.failedValid # {}
      BY <1>1, IndexWrittenCauses, Zenon
    <3> QED  BY <2>3, <3>1, CausesLoad, Zenon
  <2> QED  BY <2>1, <2>2, <2>3
<1>15. CASE StopAndRestart
  <2> DEFINE d == Flushed(dirty, failedChild, tip)
  <2>1. CausesWritten(d, dirty, failedChild)
    BY <1>1, FlushedCauses, Zenon
  <2>2. LoadBlockIndexDB(d)
    BY <1>15, Zenon DEF StopAndRestart
  <2>3. \A b \in d.failedChild : Path[b] \cap d.failedValid # {}
    BY <1>2, <2>1 DEF Unsound, CausesWritten
  <2> HIDE DEF d
  <2> QED  BY <2>1, <2>2, <2>3, CausesLoad DEF CausesWritten
<1> QED  BY <1>3, <1>4, <1>5, <1>6, <1>7, <1>8, <1>9, <1>10, <1>11, <1>13, <1>14, <1>15,
            Zenon DEF Next, Network, Activation, RPC

(* "The failed mask cannot be set for blocks without invalid parents"      *)
(* (CheckBlockIndex), across crashes too, although FindMostWorkChain does  *)
(* not mark dirty the entries it flags.  (-ac_cc chains clear the flags of *)
(* a block whose header comes again, and reconsiderblock those of the      *)
(* ancestors, without looking at the other descendants.)                   *)
THEOREM ChainFailedHaveCause ==
    Spec => []((~ASSETCHAINS_CC /\ reconsiders = 0) => FailedHaveCause)
<1> DEFINE I == (~ASSETCHAINS_CC /\ reconsiders = 0) => FInv
<1>1. Init => I
  BY Tree DEF Init, FInv, Causes, CausesOnDisk, Failed, idle
<1>2. ASSUME GInv, I, [Next]_vars PROVE I'
  <2>1. CASE Next
    BY <1>2, <2>1, CountersGrow, CausesStep, Zenon DEF GInv
  <2>2. CASE UNCHANGED vars
    BY <1>2, <2>2 DEF vars, chain, counts, FInv, Causes, CausesOnDisk, Failed, Unsound
  <2> QED  BY <1>2, <2>1, <2>2
<1>3. GInv /\ I => ((~ASSETCHAINS_CC /\ reconsiders = 0) => FailedHaveCause)
  <2> SUFFICES ASSUME GInv, FInv, NEW b \in index, b \in Failed PROVE ~Sound(b)
    BY Zenon DEF FailedHaveCause
  <2>1. b \in Blocks /\ b \in Path[b]
    BY Tree DEF GInv, IInv, TypeOK
  <2> QED  BY <2>1, UnsoundAbove DEF Unsound, Sound, FInv, GInv
<1> QED  BY <1>1, <1>2, <1>3, ChainOrdered, PTL DEF Spec

-----------------------------------------------------------------------------
(* Linking.                                                                *)

Links ==
    /\ act.op # "invalidate"
    /\ Failed \cap data \subseteq chainTx /\ failedChild \subseteq chainTx
    /\ \A b \in data : Path[b] \subseteq data => b \in chainTx
    /\ \A b \in data : b \in chainTx \/ b \in unlinked
                       \/ \E w \in Path[b] : w \in failedValid /\ w \notin data

LinksOnDisk ==
    /\ disk.failedChild \subseteq disk.data
    /\ \A b \in disk.data :
           b \in disk.failedValid \cup disk.failedChild => Path[b] \subseteq disk.data

LInv == Links /\ LinksOnDisk

LEMMA LinksKept ==
    ASSUME LInv, UNCHANGED <<data, chainTx, unlinked, disk>>,
           failedValid \subseteq failedValid',
           \A b \in failedValid' \ failedValid : b \in data => b \in chainTx,
           failedChild' \subseteq chainTx, act'.op # "invalidate"
    PROVE  LInv'
<1>1. Links'
  BY DEF LInv, Links, Failed
<1> QED  BY <1>1 DEF LInv, LinksOnDisk

(* A block is stored next to its parent: it and those that waited for it   *)
(* are linked.                                                             *)
LEMMA LinksNext ==
    ASSUME GInv, Links, NEW b \in Blocks \ {Genesis}, b \notin data, b \notin Failed,
           pprev[b] \in chainTx, data' = data \cup {b},
           chainTx' = chainTx \cup Linkable(b), unlinked' = unlinked \ Linkable(b),
           UNCHANGED <<failedValid, failedChild, act>>
    PROVE  Links'
<1>1. /\ b \in Linkable(b)
      /\ data \subseteq Blocks /\ \A x \in chainTx : Path[x] \subseteq data
  BY Linking DEF GInv, IInv, TypeOK, Downloaded
<1>2. ASSUME NEW x \in data', Path[x] \subseteq data' PROVE x \in chainTx'
  <2>1. CASE b \notin Path[x]
    <3>1. x \in Path[x]
      BY <1>1, <1>2, Tree
    <3> QED  BY <1>2, <2>1, <3>1, Zenon DEF Links
  <2>2. CASE b \in Path[x]
    <3>1. x \in Blocks /\ x \in Path[x]
      BY <1>1, <1>2, Tree, Zenon
    <3>2. ASSUME NEW v \in Path[x] \ Path[b] PROVE v \in unlinked
      <4>1. b \in Path[v] /\ Path[v] \subseteq data'
        BY <1>2, <2>2, <3>1, <3>2, Linear, Ancestors, Zenon
      <4>2. v # b
        BY <3>2, Tree
      <4>3. v \in data /\ v \notin chainTx
        BY <1>1, <1>2, <4>1, <4>2, Zenon
      <4> QED  BY <4>1, <4>3, Zenon DEF Links, Failed
    <3>3. x \in Path[b] => x = b
      <4>1. nHeight[x] \in Nat /\ nHeight[b] \in Nat
        BY <3>1, Tree
      <4>2. x # b => nHeight[b] < nHeight[x]
        BY <2>2, <3>1, Ancestors, Zenon
      <4>3. x \in Path[b] /\ x # b => nHeight[x] < nHeight[b]
        BY Ancestors
      <4> QED  BY <4>1, <4>2, <4>3
    <3>4. x \in Linkable(b)
      BY <2>2, <3>1, <3>2, <3>3, Zenon DEF Linkable
    <3> QED  BY <3>4, Zenon
  <2> QED  BY <2>1, <2>2
<1>3. \A x \in data' : x \in chainTx' \/ x \in unlinked'
                       \/ \E w \in Path[x] : w \in failedValid' /\ w \notin data'
  BY <1>1 DEF Links, Failed
<1>4. (Failed \cap data)' \subseteq chainTx' /\ failedChild' \subseteq chainTx'
      /\ act'.op # "invalidate"
  BY DEF Links, Failed
<1> QED  BY <1>2, <1>3, <1>4, Zenon DEF Links

(* ... or waits itself, unless its parent has failed: then no data will    *)
(* ever come for that one.                                                 *)
LEMMA LinksWait ==
    ASSUME GInv, Links, NEW b \in Blocks \ {Genesis}, b \notin data, b \notin Failed,
           pprev[b] \notin chainTx, data' = data \cup {b},
           unlinked' = IF pprev[b] \in Failed THEN unlinked ELSE unlinked \cup {b},
           UNCHANGED <<failedValid, failedChild, act, chainTx>>
    PROVE  Links'
<1>1. /\ pprev[b] \in Path[b] /\ Path[pprev[b]] \subseteq Path[b]
      /\ b \notin Path[pprev[b]] /\ pprev[b] \in Path[pprev[b]]
      /\ data \subseteq Blocks
  <2>1. /\ pprev[b] \in Blocks /\ Path[b] = Path[pprev[b]] \cup {b}
        /\ b \notin Path[pprev[b]] /\ pprev[b] \in Path[pprev[b]]
    BY TreeAssumption
  <2> QED  BY <2>1, Zenon DEF GInv, IInv, TypeOK
<1>2. ASSUME NEW x \in data', Path[x] \subseteq data' PROVE x \in chainTx'
  <2>1. x \in Blocks /\ x \in Path[x]
    <3>1. x \in data \cup {b}
      BY <1>2
    <3>2. x \in Blocks
      BY <1>1, <3>1
    <3> QED  BY <3>2, Tree, Zenon
  <2>2. b \notin Path[x]
    <3>1. SUFFICES ASSUME b \in Path[x] PROVE FALSE
      OBVIOUS
    <3>2. Path[b] \subseteq data'
      BY <1>2, <2>1, <3>1, Ancestors, Zenon
    <3>3. Path[pprev[b]] \subseteq data /\ pprev[b] \in data
      BY <1>1, <3>2
    <3> QED  BY <3>3 DEF Links
  <2> QED  BY <1>2, <2>1, <2>2, Zenon DEF Links
<1>3. ASSUME NEW x \in data', x \notin chainTx', x \notin unlinked'
      PROVE  \E w \in Path[x] : w \in failedValid' /\ w \notin data'
  <2>1. CASE x = b
    <3>1. pprev[b] \in Failed /\ pprev[b] # b
      BY <1>3, <2>1, Zenon
    <3>2. pprev[b] \in failedValid /\ pprev[b] \notin data
      BY <3>1 DEF Links, Failed
    <3> QED  BY <1>1, <2>1, <3>1, <3>2, Zenon
  <2>2. CASE x # b
    BY <1>3, <2>2 DEF Links, Failed
  <2> QED  BY <2>1, <2>2, Zenon
<1>4. (Failed \cap data)' \subseteq chainTx' /\ failedChild' \subseteq chainTx'
      /\ act'.op # "invalidate"
  BY DEF Links, Failed
<1> QED  BY <1>2, <1>3, <1>4, Zenon DEF Links

LEMMA LinksDelivery ==
    ASSUME GInv, FInv, LInv, ~ASSETCHAINS_CC, NEW b \in Blocks \ {Genesis},
           NEW fRequested \in BOOLEAN, ProcessNewBlock(b, fRequested)
    PROVE  LInv'
<1>1. b \notin Failed /\ failedChild' = failedChild
  BY NothingCleared DEF ProcessNewBlock, FInv
<1>2. disk' = disk /\ act' = act
  BY DEF ProcessNewBlock
<1>3. CASE Stores(b, fRequested) /\ b \notin BadContext
  <2>1. b \notin data /\ ReceivedBlockTransactions(b)
    BY <1>3, Zenon DEF Stores, ProcessNewBlock
  <2>2. failedValid' = failedValid
    BY <1>1, <1>3 DEF ProcessNewBlock, Failed
  <2>3. data' = data \cup {b}
    BY <2>1, Zenon DEF ReceivedBlockTransactions
  <2>4. CASE pprev[b] \in chainTx
    <3>1. chainTx' = chainTx \cup Linkable(b) /\ unlinked' = unlinked \ Linkable(b)
      BY <2>1, <2>4, Zenon DEF ReceivedBlockTransactions
    <3>2. Links'
      BY <1>1, <1>2, <2>1, <2>2, <2>3, <2>4, <3>1, LinksNext, Zenon DEF LInv
    <3> QED  BY <1>2, <3>2 DEF LInv, LinksOnDisk
  <2>5. CASE pprev[b] \notin chainTx
    <3>1. /\ unlinked' = IF pprev[b] \in Failed THEN unlinked ELSE unlinked \cup {b}
          /\ chainTx' = chainTx
      BY <2>1, <2>5, Zenon DEF ReceivedBlockTransactions
    <3>2. Links'
      BY <1>1, <1>2, <2>1, <2>2, <2>3, <2>5, <3>1, LinksWait, Zenon DEF LInv
    <3> QED  BY <1>2, <3>2 DEF LInv, LinksOnDisk
  <2> QED  BY <2>4, <2>5
<1>4. CASE ~(Stores(b, fRequested) /\ b \notin BadContext)
  <2>1. UNCHANGED <<data, chainTx, unlinked>>
    BY <1>4, Zenon DEF ProcessNewBlock
  <2>2. \/ failedValid' = failedValid
        \/ failedValid' = failedValid \cup {b} /\ b \notin data
    <3>1. \/ failedValid' = failedValid \ {b}
          \/ failedValid' = failedValid \cup {b} /\ Stores(b, fRequested)
      BY Zenon DEF ProcessNewBlock
    <3> QED  BY <1>1, <3>1 DEF Stores, Failed
  <2>3. act'.op # "invalidate" /\ failedChild' \subseteq chainTx
    BY <1>1, <1>2, Zenon DEF LInv, Links
  <2> QED  BY <1>2, <2>1, <2>2, <2>3, LinksKept
<1> QED  BY <1>3, <1>4

(* What a flush writes of them.                                            *)
LEMMA LinksFlushed ==
    ASSUME GInv, FInv, LInv, NEW d \in SUBSET Blocks, dirty \subseteq d,
           NEW t \in Blocks, Path[t] \subseteq data,
           NEW f, f = Flushed(d, failedChild, t)
    PROVE  /\ f.failedChild \subseteq f.data
           /\ \A b \in f.data : b \in f.failedValid \cup f.failedChild => Path[b] \subseteq f.data
<1>1. /\ failedChild \in SUBSET Blocks
      /\ \A b \in chainTx : b \in data /\ Path[b] \subseteq data
  BY Tree DEF GInv, IInv, TypeOK, Downloaded
<1>2. f.failedValid = failedValid /\ f.failedChild \subseteq failedChild
  <2>1. CausesWritten(f, d, failedChild)
    BY <1>1, FlushedCauses, Zenon
  <2> QED  BY <2>1 DEF CausesWritten
<1>3. f.data = data
  <2>1. f.data \subseteq data /\ data \subseteq f.data
    BY <1>1, FlushedDisk, Zenon DEF GInv, IInv
  <2> QED  BY <2>1
<1> QED  BY <1>1, <1>2, <1>3, Zenon DEF LInv, Links, Failed

LEMMA LinksFlush ==
    ASSUME GInv, FInv, LInv, NEW d \in SUBSET Blocks, dirty \subseteq d,
           NEW t \in Blocks, Path[t] \subseteq data,
           NEW indexOnly \in BOOLEAN, FlushStateToDisk(d, failedChild, t, indexOnly),
           UNCHANGED <<data, chainTx, unlinked, failedValid, failedChild>>,
           act'.op # "invalidate"
    PROVE  LInv'
<1>1. Links'
  BY Zenon DEF LInv, Links, Failed
<1>2. CASE disk' = disk
  BY <1>1, <1>2 DEF LInv, LinksOnDisk
<1>3. CASE disk' # disk
  <2>1. PICK best \in {t, disk.tip} : disk' = Flushed(d, failedChild, best)
    BY <1>3, Zenon DEF FlushStateToDisk
  <2>2. best \in Blocks /\ Path[best] \subseteq data
    BY <2>1, Types DEF GInv, IInv, OnDisk, DiskConsistent
  <2>3. LinksOnDisk'
    BY <2>1, <2>2, LinksFlushed, Zenon DEF LinksOnDisk
  <2> QED  BY <1>1, <2>3 DEF LInv
<1> QED  BY <1>2, <1>3, Zenon

LEMMA LinksLoad ==
    ASSUME NEW d \in Disk, LoadBlockIndexDB(d), d.failedChild \subseteq d.data,
           \A b \in d.data : b \in d.failedValid \cup d.failedChild => Path[b] \subseteq d.data
    PROVE  LInv'
<1>1. /\ disk' = d /\ data' = d.data /\ act' = idle
      /\ failedValid' = d.failedValid /\ failedChild' = d.failedChild
      /\ chainTx' = d.data \ LoadedUnlinked(d) /\ unlinked' = LoadedUnlinked(d)
  BY Zenon DEF LoadBlockIndexDB
<1>2. \A b \in d.data : b \in chainTx' <=> Path[b] \subseteq d.data
  BY <1>1, Zenon DEF LoadedUnlinked
<1>3. (Failed \cap data)' \subseteq chainTx' /\ failedChild' \subseteq chainTx'
  BY <1>1, <1>2, Zenon DEF Failed
<1>4. Links'
  BY <1>1, <1>2, <1>3 DEF Links, idle
<1> QED  BY <1>1, <1>4 DEF LInv, LinksOnDisk

LEMMA LinksStep ==
    ASSUME GInv, FInv, LInv, Next, ~ASSETCHAINS_CC, reconsiders' = 0, invalidates' = 0
    PROVE  LInv'
<1>1. /\ IInv /\ Causes /\ Links /\ failedChild \subseteq chainTx
      /\ act.op # "invalidate" /\ idle.op # "invalidate"
      /\ \A b \in chainTx : Path[b] \subseteq chainTx
      /\ dirty \in SUBSET Blocks /\ tip \in Blocks /\ Path[tip] \subseteq data
      /\ \A b \in chainTx : Path[b] \subseteq data
  BY Zenon DEF GInv, Ordered, FInv, LInv, Links, idle, IInv, TypeOK, Downloaded
<1>2. ASSUME NEW b \in Blocks \ {Genesis}, ProcessNewHeader(b) PROVE LInv'
  <2>1. b \notin Failed /\ failedChild' = failedChild
    BY <1>1, <1>2, NothingCleared, Zenon DEF ProcessNewHeader
  <2>2. failedValid' = failedValid
    BY <1>2, <2>1 DEF ProcessNewHeader, Failed
  <2>3. UNCHANGED <<data, chainTx, unlinked, disk, act>>
    BY <1>2 DEF ProcessNewHeader
  <2> QED  BY <1>1, <2>1, <2>2, <2>3, LinksKept
<1>3. ASSUME NEW kind \in {"dpow", "skip", "init"},
             \/ ActivateBestChainDone(kind) \/ ActivateBestChainIgnores(kind)
             \/ ActivateBestChainShutdown(kind) \/ ActivateBestChainStep(kind)
      PROVE  LInv'
  <2>1. /\ failedChild' = failedChild \cup (Erased \ Failed)
        /\ UNCHANGED <<data, chainTx, unlinked, disk>>
    BY <1>3, Zenon DEF ActivateBestChainDone, ActivateBestChainIgnores, FindMostWorkChain,
       ActivateBestChainShutdown, ActivateBestChainStep
  <2>2. failedValid' = failedValid \/ \E m \in MostWork : failedValid' = failedValid \cup {m}
    BY <1>3, Zenon DEF ActivateBestChainDone, ActivateBestChainIgnores,
       ActivateBestChainShutdown, ActivateBestChainStep
  <2>3. MostWork \subseteq chainTx
    BY <1>1, Found DEF IInv, Downloaded
  <2>4. act'.op # "invalidate"
    <3>1. act' = idle \/ act'.op = "step"
      BY <1>3, Activating, Zenon
    <3> QED  BY <3>1 DEF idle
  <2>5. failedChild' \subseteq chainTx
    BY <1>1, <2>1, ErasedUnsound
  <2> QED  BY <2>1, <2>2, <2>3, <2>4, <2>5, LinksKept
<1>4. CASE Disconnect
  <2>1. /\ pprev[tip] \in Blocks /\ Path[pprev[tip]] \subseteq data
    BY <1>1, <1>4, Disconnecting, Zenon
  <2>2. UNCHANGED <<data, chainTx, unlinked, failedValid, failedChild, act>>
    BY <1>4 DEF Disconnect
  <2>3. FlushStateToDisk(dirty, failedChild, pprev[tip], FALSE)
    BY <1>4, Zenon DEF Disconnect
  <2> QED  BY <1>1, <2>1, <2>2, <2>3, LinksFlush, Zenon
<1>5. CASE Connect
  <2>1. PICK b \in Path[act.target] \ (BadConnect \cup {Genesis}) :
            /\ b \in chainTx
            /\ FlushStateToDisk(dirty \cup {b}, failedChild, b, b = act.target)
            /\ UNCHANGED <<data, chainTx, unlinked, failedValid, failedChild>>
            /\ act' = act \/ act' = idle
    BY <1>5, Connecting, Zenon
  <2>2. /\ b \in Blocks /\ dirty \cup {b} \in SUBSET Blocks /\ dirty \subseteq dirty \cup {b}
        /\ (b = act.target) \in BOOLEAN /\ Path[b] \subseteq data
    BY <1>1, <2>1, Zenon DEF IInv, TypeOK
  <2>3. act'.op # "invalidate"
    BY <1>1, <2>1, Zenon
  <2> QED  BY <2>1, <2>2, <2>3, LinksFlush, Zenon
<1>6. CASE ConnectFails
  <2>1. PICK b \in Path[act.target] : failedValid' = failedValid \cup {b}
    BY <1>6, Zenon DEF ConnectFails
  <2>2. /\ act' = idle /\ act.op = "step"
        /\ UNCHANGED <<data, chainTx, unlinked, failedChild, disk>>
    BY <1>6, Zenon DEF ConnectFails
  <2>3. b \in chainTx
    BY <1>1, <2>1, <2>2 DEF GInv, Stepping, IInv, Downloaded
  <2> QED  BY <1>1, <2>1, <2>2, <2>3, LinksKept
<1>7. CASE InvalidateDisconnect \/ InvalidateDone
  BY <1>1, <1>7, Zenon DEF InvalidateDisconnect, InvalidateDone
<1>8. ASSUME NEW b \in Blocks, InvalidateBlock(b) \/ ReconsiderBlock(b) PROVE FALSE
  <2>1. /\ reconsiders \in Nat /\ invalidates \in Nat
        /\ reconsiders' = reconsiders + 1 \/ invalidates' = invalidates + 1
    BY <1>1, <1>8, Zenon DEF ReconsiderBlock, InvalidateBlock, IInv, TypeOK
  <2> QED  BY <2>1
<1>9. ASSUME UNCHANGED <<data, chainTx, unlinked, failedValid, failedChild, disk>>,
             act' = act \/ act' = idle
      PROVE  LInv'
  BY <1>1, <1>9, LinksKept, Zenon
<1>10. CASE DisconnectRefused \/ LeaveIBD \/ Halted \/ \E b \in Blocks : HeaderRefused(b)
  BY <1>9, <1>10, Zenon DEF DisconnectRefused, LeaveIBD, Halted, HeaderRefused, chain, vars
<1>11. CASE Crash
  <2>1. LoadBlockIndexDB(disk) \/ LoadBlockIndexDB(IndexWritten)
    BY <1>11 DEF Crash
  <2>2. CASE LoadBlockIndexDB(disk)
    BY <1>1, <2>2, Types, LinksLoad, Zenon DEF LInv, LinksOnDisk
  <2>3. CASE LoadBlockIndexDB(IndexWritten)
    <3>1. act.op # "invalidate"
      BY DEF LInv, Links
    <3>2. IndexWritten = Flushed(dirty, failedChild, disk.tip)
      <4>1. dirty \cup Marking = dirty /\ failedChild \cup Marking = failedChild
        BY <3>1 DEF Marking
      <4> QED  BY <4>1 DEF IndexWritten
    <3>3. /\ IndexWritten \in Disk /\ disk.tip \in Blocks /\ Path[disk.tip] \subseteq data
          /\ dirty \in SUBSET Blocks
      BY <1>1, IndexWrittenDisk, Types, Zenon DEF IInv, TypeOK
    <3>4. /\ IndexWritten.failedChild \subseteq IndexWritten.data
          /\ \A b \in IndexWritten.data : b \in IndexWritten.failedValid \cup IndexWritten.failedChild
                                          => Path[b] \subseteq IndexWritten.data
      BY <3>2, <3>3, LinksFlushed, Zenon
    <3> QED  BY <2>3, <3>3, <3>4, LinksLoad
  <2> QED  BY <2>1, <2>2, <2>3
<1>12. CASE StopAndRestart
  <2> DEFINE d == Flushed(dirty, failedChild, tip)
  <2>1. d \in Disk
    BY <1>1, FlushedDisk, Zenon DEF IInv, TypeOK
  <2>2. LoadBlockIndexDB(d)
    BY <1>12 DEF StopAndRestart
  <2>3. /\ d.failedChild \subseteq d.data
        /\ \A b \in d.data : b \in d.failedValid \cup d.failedChild => Path[b] \subseteq d.data
    BY <1>1, LinksFlushed, Zenon
  <2> HIDE DEF d
  <2> QED  BY <2>1, <2>2, <2>3, LinksLoad
<1> QED  BY <1>2, <1>3, <1>4, <1>5, <1>6, <1>7, <1>8, <1>10, <1>11, <1>12, LinksDelivery,
            Zenon DEF Next, Network, Activation, RPC

(* The flags can only be cleared by a header of an -ac_cc chain or by      *)
(* reconsiderblock, and invalidateblock may mark a block that waits.       *)
Untouched == ~ASSETCHAINS_CC /\ reconsiders = 0 /\ invalidates = 0

LEMMA LinksStart ==
    ASSUME Init
    PROVE  FInv /\ LInv
BY Tree, Zenon DEF Init, FInv, Causes, CausesOnDisk, Failed, idle, LInv, Links, LinksOnDisk

(* Every failed block has its reason, and every stored block with all its  *)
(* ancestors stored has nChainTx, in memory and on disk, until -ac_cc or   *)
(* an RPC call changes a flag.                                             *)
THEOREM ChainLinked == Spec => [](Untouched => FInv /\ LInv)
<1> DEFINE I == Untouched => FInv /\ LInv
<1>1. Init => I
  BY LinksStart
<1>2. ASSUME GInv, I, [Next]_vars PROVE I'
  <2>1. CASE Next
    <3>1. Untouched' => Untouched
      BY <1>2, <2>1, CountersGrow DEF GInv, Untouched
    <3> QED  BY <1>2, <2>1, <3>1, CausesStep, LinksStep DEF Untouched
  <2>2. CASE UNCHANGED vars
    BY <1>2, <2>2, Zenon DEF vars, chain, counts, FInv, Causes, CausesOnDisk, Failed, Unsound,
       Untouched, LInv, Links, LinksOnDisk
  <2> QED  BY <1>2, <2>1, <2>2
<1> QED  BY <1>1, <1>2, ChainOrdered, PTL DEF Spec

(* mapBlocksUnlinked holds every stored block that waits for data and has  *)
(* no invalid ancestor, and nChainTx is set where no data is missing       *)
(* (CheckBlockIndex): whatever order the blocks and their verdicts come in *)
(* and wherever the node is stopped.                                       *)
THEOREM ChainUnlinkedExact == Spec => [](Untouched => UnlinkedExact)
<1>1. GInv /\ (Untouched => FInv /\ LInv) => (Untouched => UnlinkedExact)
  BY DEF GInv, IInv, Downloaded, Ordered, LInv, Links, UnlinkedExact, Sound
<1> QED  BY <1>1, ChainOrdered, ChainLinked, PTL

-----------------------------------------------------------------------------
(* What is marked, and what becomes of the active chain.                   *)

Clean == Path[tip] \cap Failed = {}

(* The blocks that come to be marked while the process lives: one that is  *)
(* not stored, one above a failed block, the last of a chain with more     *)
(* work that the notarisations stop, one that ConnectBlock refuses.        *)
Marked(x) ==
    /\ x \notin Path[tip]
    /\ \/ x \notin data
       \/ \E y \in Path[x] : y \in Failed
       \/ act = idle /\ mode = "run" /\ W(tip, x)
       \/ x \in BadConnect

LEMMA MarkedOnly ==
    ASSUME GInv, Causes, act.op # "invalidate", Next, ~ASSETCHAINS_CC,
           reconsiders' = 0, invalidates' = 0, restarts' = restarts
    PROVE  \A x \in Failed' : x \in Failed \/ Marked(x)
<1>1. IInv /\ Ordered /\ Path[tip] \subseteq data
  BY DEF GInv, IInv, Downloaded
<1>2. ASSUME NEW b \in Blocks \ {Genesis}, ProcessNewHeader(b)
      PROVE  \A x \in Failed' : x \in Failed
  BY <1>2, Zenon DEF ProcessNewHeader, HeaderAccepted, Failed
<1>3. ASSUME NEW b \in Blocks \ {Genesis}, NEW fRequested \in BOOLEAN,
             ProcessNewBlock(b, fRequested)
      PROVE  \A x \in Failed' : x \in Failed \/ Marked(x)
  <2>1. /\ failedChild' = failedChild \ {b}
        /\ \/ failedValid' = failedValid \ {b}
           \/ failedValid' = failedValid \cup {b} /\ b \notin data
    BY <1>3, Zenon DEF ProcessNewBlock, HeaderAccepted, Stores
  <2> QED  BY <1>1, <2>1 DEF Failed, Marked
<1>4. ASSUME NEW kind \in {"dpow", "skip", "init"},
             \/ ActivateBestChainDone(kind) \/ ActivateBestChainIgnores(kind)
             \/ ActivateBestChainShutdown(kind) \/ ActivateBestChainStep(kind)
      PROVE  \A x \in Failed' : x \in Failed \/ Marked(x)
  <2>1. /\ failedChild' = failedChild \cup (Erased \ Failed)
        /\ act = idle /\ mode = "run"
    BY <1>4, Zenon DEF ActivateBestChainDone, ActivateBestChainIgnores, FindMostWorkChain,
       ActivateBestChainShutdown, ActivateBestChainStep
  <2>2. \/ failedValid' = failedValid
        \/ \E m \in MostWork \ {tip} : failedValid' = failedValid \cup {m}
    BY <1>4, Zenon DEF ActivateBestChainDone, ActivateBestChainIgnores,
       ActivateBestChainShutdown, ActivateBestChainStep
  <2>3. \A m \in MostWork \ {tip} : Marked(m)
    BY <1>1, <2>1, Chosen, Zenon DEF Marked
  <2>4. \A x \in Erased : Marked(x)
    BY ErasedUnsound, Zenon DEF Marked
  <2> QED  BY <2>1, <2>2, <2>3, <2>4 DEF Failed
<1>5. CASE ConnectFails
  <2>1. PICK b \in Path[act.target] \cap BadConnect :
            pprev[b] = tip /\ failedValid' = failedValid \cup {b}
    BY <1>5, Zenon DEF ConnectFails
  <2>2. failedChild' = failedChild /\ act.op = "step"
    BY <1>5, Zenon DEF ConnectFails
  <2>3. b \in Blocks \ {Genesis}
    BY <2>1, TreeAssumption, Zenon
  <2>4. b \notin Path[tip]
    BY <2>1, <2>3, TreeAssumption
  <2> QED  BY <2>1, <2>2, <2>4 DEF Failed, Marked
<1>6. CASE Connect
  BY <1>6, Connecting, Zenon DEF Failed
<1>7. CASE Disconnect \/ DisconnectRefused \/ LeaveIBD \/ Halted
           \/ \E b \in Blocks : HeaderRefused(b)
  BY <1>7, Zenon DEF Disconnect, DisconnectRefused, LeaveIBD, Halted, HeaderRefused, chain, vars,
     Failed
<1>8. ASSUME NEW b \in Blocks, InvalidateBlock(b) \/ ReconsiderBlock(b) PROVE FALSE
  <2>1. /\ reconsiders \in Nat /\ invalidates \in Nat
        /\ reconsiders' = reconsiders + 1 \/ invalidates' = invalidates + 1
    BY <1>1, <1>8, Zenon DEF ReconsiderBlock, InvalidateBlock, IInv, TypeOK
  <2> QED  BY <2>1
<1>9. CASE InvalidateDisconnect \/ InvalidateDone
  BY <1>9, Zenon DEF InvalidateDisconnect, InvalidateDone
<1>10. CASE Crash \/ StopAndRestart
  <2>1. restarts \in Nat /\ restarts' = restarts + 1
    BY <1>1, <1>10, Zenon DEF Crash, StopAndRestart, LoadBlockIndexDB, IInv, TypeOK
  <2> QED  BY <2>1
<1> QED  BY <1>2, <1>3, <1>4, <1>5, <1>6, <1>7, <1>8, <1>9, <1>10, Zenon
            DEF Next, Network, Activation, RPC

(* How the active chain changes while the process lives.                   *)
LEMMA TipMoves ==
    ASSUME IInv, act.op # "invalidate", Next, restarts' = restarts
    PROVE  tip' = tip \/ Disconnect \/ Connect
<1>1. CASE Network
  BY <1>1, Zenon DEF Network, ProcessNewHeader, HeaderRefused, ProcessNewBlock, chain
<1>2. CASE Activation
  BY <1>2, Zenon DEF Activation, ActivateBestChainDone, ActivateBestChainIgnores,
       ActivateBestChainShutdown, ActivateBestChainStep, DisconnectRefused, ConnectFails,
       chain
<1>3. CASE RPC \/ LeaveIBD \/ Halted
  BY <1>3, Zenon DEF RPC, InvalidateBlock, ReconsiderBlock, InvalidateDisconnect, InvalidateDone,
     LeaveIBD, Halted, vars, chain
<1>4. CASE Crash \/ StopAndRestart
  <2>1. restarts \in Nat /\ restarts' = restarts + 1
    BY <1>4, Zenon DEF Crash, StopAndRestart, LoadBlockIndexDB, IInv, TypeOK
  <2> QED  BY <2>1
<1> QED  BY <1>1, <1>2, <1>3, <1>4 DEF Next

LEMMA CleanStep ==
    ASSUME GInv, Causes, Clean, act.op # "invalidate", Next, ~ASSETCHAINS_CC,
           reconsiders' = 0, invalidates' = 0, restarts' = restarts
    PROVE  Clean'
<1>1. CASE tip' = tip
  BY <1>1, MarkedOnly, Zenon DEF Clean, Marked
<1>2. CASE Disconnect
  <2>1. Path[tip'] \subseteq Path[tip]
    BY <1>2, Disconnecting, Zenon
  <2>2. Failed' = Failed
    BY <1>2 DEF Disconnect, Failed
  <2> QED  BY <2>1, <2>2, Zenon DEF Clean
<1>3. CASE Connect
  BY <1>3, Connecting, Zenon DEF Clean, Failed
<1> QED  BY <1>1, <1>2, <1>3, TipMoves, Zenon DEF GInv

(* A restart finds a clean chain if what is on the disk has not failed.    *)
LEMMA CleanLoad ==
    ASSUME NEW d \in Disk, LoadBlockIndexDB(d), Path[d.tip] \subseteq d.data,
           Path[d.tip] \cap (d.failedValid \cup d.failedChild) = {}
    PROVE  Clean' /\ mode' # "aborted" /\ tip' \in candidates'
<1>1. /\ tip' = d.tip /\ failedValid' = d.failedValid /\ failedChild' = d.failedChild
      /\ candidates' = LoadedCandidates(d, address') /\ address' \in Layouts
      /\ mode' = IF candidates' = {} THEN "aborted" ELSE "run"
  BY Zenon DEF LoadBlockIndexDB
<1>2. Clean'
  BY <1>1, Zenon DEF Clean, Failed
<1>3. d.tip \in Blocks /\ d.tip \in Path[d.tip]
  BY Tree, Zenon DEF Disk
<1>4. ~Worse([x \in Blocks |-> 0], address', d.tip, d.tip)
  BY <1>1, <1>3, WorseOrder, Zenon
<1>5. d.tip \in candidates'
  BY <1>1, <1>3, <1>4, Zenon DEF LoadedCandidates, LoadedUnlinked
<1> QED  BY <1>1, <1>2, <1>5, Zenon

=============================================================================
