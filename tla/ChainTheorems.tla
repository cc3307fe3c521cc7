---------------------------- MODULE ChainTheorems ---------------------------
(***************************************************************************)
(* What ChainState promises of the best chain, for every finite block      *)
(* tree: a step aims at the best candidate, ChainFlags and ChainBest put   *)
(* together, and the bounds that need sets to be counted.                  *)
(***************************************************************************)
EXTENDS ChainBest, FiniteSetTheorems

-----------------------------------------------------------------------------
(* A node that is not at work sits on the best of the sound blocks.        *)
LEMMA BestAimedStep ==
    ASSUME GInv, FInv, BestAimed, Next
    PROVE  BestAimed'
<1> SUFFICES ASSUME act'.op = "step" PROVE BestAimed'
  BY DEF BestAimed
<1>1. ASSUME UNCHANGED <<act, nSequenceId, address, failedValid>>,
             candidates' \subseteq candidates
      PROVE  BestAimed'
  BY <1>1 DEF BestAimed, Sound, W
<1>2. ASSUME NEW kind \in {"dpow", "skip", "init"}, ActivateBestChainStep(kind)
      PROVE  BestAimed'
  <2>1. PICK m \in MostWork : act'.target = m
    BY <1>2 DEF ActivateBestChainStep
  <2>2. /\ candidates' \subseteq candidates
        /\ UNCHANGED <<nSequenceId, address, failedValid>>
    BY <1>2 DEF ActivateBestChainStep
  <2>3. \A c \in candidates : Sound(c) => c = m \/ W(c, m)
    BY <2>1, SoundUsable DEF MostWork, W, FInv
  <2> QED  BY <2>1, <2>2, <2>3, Zenon DEF BestAimed, Sound, W
<1>3. CASE Disconnect
  BY <1>1, <1>3 DEF Disconnect
<1>4. CASE Connect
  <2>1. act' = act \/ act' = idle
    BY <1>4, Zenon DEF Connect
  <2>2. act' = act
    BY <2>1 DEF idle
  <2> QED  BY <1>1, <1>4, <2>2, Zenon DEF Connect, ConnectTip, NotWorse
<1>5. CASE LeaveIBD \/ Halted
  <2>1. UNCHANGED <<chain, act>>
    BY <1>5, Zenon DEF LeaveIBD, Halted, vars
  <2> QED  BY <1>1, <2>1 DEF chain
<1>6. CASE Network
  <2>1. act' = idle
    BY <1>6, Zenon DEF Network, ProcessNewHeader, HeaderRefused, ProcessNewBlock, Serving
  <2> QED  BY <2>1 DEF idle
<1>7. ASSUME NEW kind \in {"dpow", "skip", "init"},
             \/ ActivateBestChainDone(kind) \/ ActivateBestChainIgnores(kind)
             \/ ActivateBestChainShutdown(kind)
      PROVE  FALSE
  <2>1. act' = idle
    BY <1>7, Zenon DEF ActivateBestChainDone, ActivateBestChainIgnores,
       ActivateBestChainShutdown
  <2> QED  BY <2>1 DEF idle
<1>8. CASE DisconnectRefused \/ ConnectFails
  <2>1. act' = idle
    BY <1>8, Zenon DEF DisconnectRefused, ConnectFails
  <2> QED  BY <2>1 DEF idle
<1>9. CASE RPC
  <2>1. ASSUME NEW b \in Blocks, InvalidateBlock(b) PROVE FALSE
    BY <2>1 DEF InvalidateBlock
  <2>2. ASSUME NEW b \in Blocks, ReconsiderBlock(b) PROVE FALSE
    <3>1. act' = idle
      BY <2>2, Zenon DEF ReconsiderBlock, Serving
    <3> QED  BY <3>1 DEF idle
  <2>3. CASE InvalidateDisconnect
    <3>1. act.op = "invalidate" /\ (act' = act \/ act' = idle)
      BY <2>3, Zenon DEF InvalidateDisconnect
    <3> QED  BY <3>1 DEF idle
  <2>4. CASE InvalidateDone
    BY <2>4 DEF InvalidateDone, idle
  <2> QED  BY <1>9, <2>1, <2>2, <2>3, <2>4, Zenon DEF RPC
<1>10. CASE Crash \/ StopAndRestart
  <2>1. act' = idle
    BY <1>10, Zenon DEF Crash, StopAndRestart, LoadBlockIndexDB
  <2> QED  BY <2>1 DEF idle
<1> QED  BY <1>2, <1>3, <1>4, <1>5, <1>6, <1>7, <1>8, <1>9, <1>10, Zenon
            DEF Next, Activation

BestInv == ((Clean /\ act.op # "invalidate") => Mark) /\ TipOnly /\ BestAimed

LEMMA BestStart ==
    ASSUME Init
    PROVE  BestInv
<1>1. GInv
  BY GStart
<1>2. /\ tip = Genesis /\ chainTx = {Genesis} /\ candidates = {Genesis}
      /\ failedValid = {} /\ act = idle
  BY DEF Init
<1>3. ~W(tip, tip)
  BY <1>1, Types, WOrder, Zenon DEF GInv
<1>4. Path[tip] \cap BadConnect = {}
  BY <1>1 DEF GInv, Ordered
<1>5. Reference(tip)
  BY <1>2, <1>3, <1>4 DEF Reference, Sound
<1> QED  BY <1>2, <1>5 DEF BestInv, Mark, TipOnly, BestAimed, idle

LEMMA BestStep ==
    ASSUME HasBest, GInv, GInv', FInv, FInv', BestInv, Next, ~ASSETCHAINS_CC,
           reconsiders' = 0, CleanBefore
    PROVE  BestInv'
<1>1. TipOnly' /\ BestAimed'
  BY TipOnlyStep, BestAimedStep DEF BestInv
<1>2. (Clean' /\ act'.op # "invalidate") => Mark'
  BY MarkStep DEF BestInv
<1> QED  BY <1>1, <1>2 DEF BestInv

LEMMA BestStutter ==
    ASSUME BestInv, UNCHANGED vars
    PROVE  BestInv'
<1>1. UNCHANGED <<chain, act, abc, stalled, mode>>
  BY DEF vars
<1>2. Mark' <=> Mark
  BY <1>1, Zenon DEF chain, Mark, Reference, Sound, W
<1>3. Clean' <=> Clean
  BY <1>1 DEF chain, Clean, Failed
<1>4. TipOnly'
  BY <1>1 DEF chain, BestInv, TipOnly, Resting, Sound
<1>5. BestAimed'
  BY <1>1, Zenon DEF chain, BestInv, BestAimed, Sound, W
<1> QED  BY <1>1, <1>2, <1>3, <1>4, <1>5, Zenon DEF BestInv

LEMMA SettledBest ==
    ASSUME GInv, BestInv, Clean
    PROVE  TipIsBest /\ CandidatesExact
<1> SUFFICES ASSUME Settled
             PROVE  /\ \A b \in chainTx : Sound(b) => nChainWork[b] <= nChainWork[tip]
                    /\ \A b \in NotWorse(chainTx, tip) : Sound(b) => b \in candidates
                    /\ candidates \subseteq NotWorse(chainTx, tip)
  BY DEF TipIsBest, CandidatesExact
<1>1. act = idle /\ abc = {} /\ ~stalled /\ mode = "run"
  BY DEF Settled
<1>2. act.op # "invalidate" /\ act.op # "step"
  BY <1>1 DEF idle
<1>3. \A c \in candidates : Sound(c) => c = tip
  BY <1>1, <1>2 DEF BestInv, TipOnly, Resting
<1>4. PICK R : Reference(R)
  BY <1>2 DEF BestInv, Mark
<1>5. R \in Blocks /\ chainTx \subseteq Blocks /\ tip \in Blocks /\ candidates \subseteq chainTx
  BY <1>4, Types DEF GInv, Reference
<1>6. R = tip
  <2>1. ~W(R, R)
    BY <1>5, WOrder DEF GInv
  <2> QED  BY <1>3, <1>4, <2>1 DEF Reference
<1>7. \A b \in chainTx : (Sound(b) /\ ~W(b, tip)) => b \in candidates
  BY <1>4, <1>6 DEF Reference
<1>8. ASSUME NEW b \in chainTx, Sound(b) PROVE nChainWork[b] <= nChainWork[tip]
  <2>1. nChainWork[b] \in Nat /\ nChainWork[tip] \in Nat
    BY <1>5, Tree, Zenon
  <2>2. W(b, tip) => (nChainWork[b] < nChainWork[tip] \/ nChainWork[b] = nChainWork[tip])
    BY Zenon DEF W, Worse
  <2>3. ~W(b, tip) => b = tip
    BY <1>3, <1>7, <1>8
  <2> QED  BY <2>1, <2>2, <2>3
<1>9. candidates \subseteq NotWorse(chainTx, tip)
  BY <1>5 DEF GInv, Ordered, NotWorse, W
<1> QED  BY <1>7, <1>8, <1>9 DEF NotWorse, W

-----------------------------------------------------------------------------
(* Induction over finite sets.  A property is given by the set of those    *)
(* that have it, so that the provers can be told of it.                    *)
LEMMA LeastNumber ==
    ASSUME NEW S \in SUBSET Nat, S # {}
    PROVE  \E n \in S : \A m \in S : n <= m
<1>1. PICK n \in S : \A m \in S : ~(<<m, n>> \in OpToRel(<, Nat))
  BY NatLessThanWellFounded, WFMin
<1>2. \A m \in S : ~(m < n)
  BY <1>1 DEF OpToRel
<1> QED  BY <1>2

LEMMA FiniteInduction ==
    ASSUME NEW S, IsFiniteSet(S), NEW C, {} \in C,
           \A T \in C, x \in S : T \cup {x} \in C
    PROVE  S \in C
<1> DEFINE N == {Cardinality(S \ T) : T \in C \cap SUBSET S}
<1>1. \A T \in SUBSET S : IsFiniteSet(S \ T) /\ Cardinality(S \ T) \in Nat
  <2> TAKE T \in SUBSET S
  <2>1. S \ T \in SUBSET S
    OBVIOUS
  <2> QED  BY <2>1, FS_Subset, FS_CardinalityType
<1>2. N \in SUBSET Nat /\ N # {}
  BY <1>1
<1>3. PICK n \in N : \A m \in N : n <= m
  BY <1>2, LeastNumber
<1>4. PICK T \in C \cap SUBSET S : n = Cardinality(S \ T)
  BY <1>3
<1>5. CASE S \ T = {}
  <2>1. S = T
    BY <1>4, <1>5
  <2> QED  BY <1>4, <2>1
<1>6. CASE S \ T # {}
  <2>1. PICK x : x \in S \ T
    BY <1>6
  <2>2. T \cup {x} \in C \cap SUBSET S
    BY <1>4, <2>1
  <2>3. S \ (T \cup {x}) = (S \ T) \ {x}
    OBVIOUS
  <2>4. Cardinality(S \ (T \cup {x})) = Cardinality(S \ T) - 1
    <3>1. IsFiniteSet(S \ T)
      BY <1>1, <1>4
    <3>2. Cardinality((S \ T) \ {x}) = Cardinality(S \ T) - 1
      BY <2>1, <3>1, FS_RemoveElement
    <3> QED  BY <2>3, <3>2
  <2>5. Cardinality(S \ (T \cup {x})) \in N
    BY <2>2
  <2>6. n \in Nat
    BY <1>2
  <2>7. n <= n - 1
    <3> HIDE DEF N
    <3> QED  BY <1>3, <1>4, <2>4, <2>5
  <2> QED  BY <2>6, <2>7
<1> QED  BY <1>5, <1>6

(* A chain has as many blocks as its height says.                          *)
LEMMA PathSize ==
    ASSUME NEW b \in Blocks
    PROVE  IsFiniteSet(Path[b]) /\ Cardinality(Path[b]) = nHeight[b] + 1
<1> DEFINE G == {x \in Blocks : IsFiniteSet(Path[x]) /\ Cardinality(Path[x]) = nHeight[x] + 1}
<1>1. Genesis \in G
  <2>1. IsFiniteSet({Genesis}) /\ Cardinality({Genesis}) = 1
    BY FS_Singleton
  <2>2. Path[Genesis] = {Genesis} /\ nHeight[Genesis] = 0 /\ Genesis \in Blocks
    BY TreeAssumption
  <2> QED  BY <2>1, <2>2
<1>2. ASSUME NEW x \in Blocks \ {Genesis}, pprev[x] \in G
      PROVE  x \in G
  <2>1. /\ Path[x] = Path[pprev[x]] \cup {x} /\ x \notin Path[pprev[x]]
        /\ nHeight[x] = nHeight[pprev[x]] + 1
    BY TreeAssumption, Zenon
  <2>2. /\ IsFiniteSet(Path[pprev[x]])
        /\ Cardinality(Path[pprev[x]]) = nHeight[pprev[x]] + 1
    BY <1>2
  <2>3. /\ IsFiniteSet(Path[pprev[x]] \cup {x})
        /\ Cardinality(Path[pprev[x]] \cup {x}) = Cardinality(Path[pprev[x]]) + 1
    BY <2>1, <2>2, FS_AddElement
  <2> QED  BY <2>1, <2>2, <2>3
<1>3. G = Blocks
  <2>1. G \in SUBSET Blocks
    OBVIOUS
  <2> HIDE DEF G
  <2> QED  BY <1>1, <1>2, <2>1, TreeAssumption, Zenon
<1> QED  BY <1>3

(* What a reorganisation down to f gives up.                               *)
LEMMA GivenUp ==
    ASSUME NEW b \in Blocks, NEW f \in Path[b]
    PROVE  /\ IsFiniteSet(Path[b] \ Path[f])
           /\ Cardinality(Path[b] \ Path[f]) = nHeight[b] - nHeight[f]
<1>1. f \in Blocks /\ Path[f] \subseteq Path[b]
  BY Tree, Ancestors, Zenon
<1>2. /\ IsFiniteSet(Path[b]) /\ Cardinality(Path[b]) = nHeight[b] + 1
      /\ IsFiniteSet(Path[f]) /\ Cardinality(Path[f]) = nHeight[f] + 1
      /\ nHeight[b] \in Nat /\ nHeight[f] \in Nat
  BY <1>1, PathSize, Tree, Zenon
<1>3. IsFiniteSet(Path[b] \ Path[f]) /\ Cardinality(Path[b] \ Path[f]) \in Nat
  <2>1. Path[b] \ Path[f] \in SUBSET Path[b]
    OBVIOUS
  <2> QED  BY <1>2, <2>1, FS_Subset, FS_CardinalityType, Zenon
<1>4. /\ Path[f] \cup (Path[b] \ Path[f]) = Path[b]
      /\ Path[f] \cap (Path[b] \ Path[f]) = {}
  BY <1>1, Zenon
<1>5. Cardinality(Path[b]) = Cardinality(Path[f]) + Cardinality(Path[b] \ Path[f]) - 0
  BY <1>2, <1>3, <1>4, FS_Union, FS_EmptySet, Zenon
<1> QED  BY <1>2, <1>3, <1>5

(* A reorganisation never gives up more than MAX_REORG_LENGTH blocks: the  *)
(* fork that ActivateBestChainStep measured stays on the chain.            *)
THEOREM ChainReorgBounded == Spec => []ReorgBounded
<1>1. ASSUME GInv PROVE ReorgBounded
  <2>1. SUFFICES ASSUME act.op = "step"
                 PROVE  Cardinality(Path[act.oldTip] \ Path[tip]) <= MAX_REORG_LENGTH
    BY DEF ReorgBounded
  <2>2. act.oldTip \in Blocks /\ tip \in Blocks
    BY <1>1, <2>1, Types, ActTypes, Zenon DEF GInv
  <2>3. PICK f \in Path[act.oldTip] \cap Path[act.target] :
            nHeight[act.oldTip] - nHeight[f] <= MAX_REORG_LENGTH
    BY <1>1, <2>1, Zenon DEF GInv, Stepping, Forks
  <2>4. Path[act.oldTip] \ Path[tip] \in SUBSET (Path[act.oldTip] \ Path[f])
    <3>1. f \in Path[tip]
      BY <1>1, <2>1, <2>3, Zenon DEF GInv, Stepping
    <3> QED  BY <2>2, <3>1, Ancestors, Zenon
  <2>5. /\ IsFiniteSet(Path[act.oldTip] \ Path[f])
        /\ Cardinality(Path[act.oldTip] \ Path[f]) = nHeight[act.oldTip] - nHeight[f]
    BY <2>2, <2>3, GivenUp, Zenon
  <2>6. /\ Cardinality(Path[act.oldTip] \ Path[tip])
               <= Cardinality(Path[act.oldTip] \ Path[f])
        /\ Cardinality(Path[act.oldTip] \ Path[tip]) \in Nat
    BY <2>4, <2>5, FS_Subset, FS_CardinalityType, Zenon
  <2>7. nHeight[act.oldTip] - nHeight[f] \in Int /\ MAX_REORG_LENGTH \in Nat
    <3>1. nHeight[act.oldTip] \in Nat /\ nHeight[f] \in Nat
      BY <2>2, <2>3, Tree
    <3> QED  BY <3>1, ChainAssumption
  <2> QED  BY <2>3, <2>5, <2>6, <2>7
<1> QED  BY <1>1, ChainOrdered, PTL

(* Finitely many blocks have a best one.                                   *)
LEMMA BestExists ==
    HasBest
<1> SUFFICES ASSUME NEW q \in [Blocks -> Nat], NEW p \in Layouts,
                    NEW S \in SUBSET Blocks, S # {}
             PROVE  \E m \in S : \A d \in S \ {m} : Worse(q, p, d, m)
  BY DEF HasBest
<1> DEFINE Has(T) == \E m \in T : \A d \in T \ {m} : Worse(q, p, d, m)
           C == {T \in SUBSET S : T = {} \/ Has(T)}
<1>1. {} \in C
  OBVIOUS
<1>2. ASSUME NEW T \in C, NEW x \in S
      PROVE  T \cup {x} \in C
  <2>1. CASE T = {}
    BY <2>1
  <2>2. CASE x \in T
    <3>1. T \cup {x} = T
      BY <2>2
    <3> QED  BY <1>2, <3>1
  <2>3. CASE T # {} /\ x \notin T
    <3>1. PICK m \in T : \A d \in T \ {m} : Worse(q, p, d, m)
      BY <2>3
    <3>2. Worse(q, p, m, x) \/ Worse(q, p, x, m)
      BY <2>3, WorseOrder, Zenon
    <3>3. CASE Worse(q, p, x, m)
      BY <3>1, <3>3, Zenon
    <3>4. CASE Worse(q, p, m, x)
      <4>1. \A d \in T : Worse(q, p, d, x)
        BY <3>1, <3>4, WorseOrder, Zenon
      <4> QED  BY <4>1
    <3> QED  BY <3>2, <3>3, <3>4, Zenon
  <2> QED  BY <2>1, <2>2, <2>3
<1>3. S \in C
  <2>1. IsFiniteSet(S)
    BY ChainAssumption, FS_Subset
  <2> HIDE DEF C
  <2> QED  BY <1>1, <1>2, <2>1, FiniteInduction
<1> QED  BY <1>3

-----------------------------------------------------------------------------
(* Without the RPC calls no failed block gets onto the active chain or the *)
(* chain of the files, and the candidates hold what the tip must be chosen *)
(* from: the invariant behind the three theorems that follow.              *)
THEOREM ChainCalm == Spec => [](Undisturbed => Calm /\ BestInv)
<1> DEFINE I == Undisturbed => Calm /\ BestInv
<1>1. Init => I
  <2> SUFFICES ASSUME Init PROVE Calm
    BY BestStart
  <2>1. FInv /\ LInv /\ GInv
    BY LinksStart, GStart, Zenon
  <2>2. /\ tip = Genesis /\ failedValid = {} /\ failedChild = {} /\ abc = {}
        /\ disk.tip = tip /\ mode = "run" /\ act = idle
    BY DEF Init
  <2>3. ~W(tip, tip)
    BY <2>1, Types, WOrder, Zenon DEF GInv
  <2>4. Clean /\ Behind
    BY <2>2, <2>3, Zenon DEF Clean, Behind, Failed, idle
  <2> QED  BY <2>1, <2>2, <2>4, Zenon DEF Calm
<1>2. ASSUME GInv, I, [Next]_vars PROVE I'
  <2>1. GInv'
    BY <1>2, GNext, Zenon
  <2>2. ASSUME Next, Undisturbed' PROVE Calm' /\ BestInv'
    <3>1. Undisturbed /\ ~ASSETCHAINS_CC /\ reconsiders' = 0
      BY <1>2, <2>2, CountersGrow, Zenon DEF Undisturbed, Untouched, GInv
    <3>2. Calm /\ BestInv /\ FInv /\ Clean
      BY <1>2, <3>1, Zenon DEF Calm
    <3>3. Calm' /\ FInv'
      BY <1>2, <2>2, <3>2, CalmStep, Zenon DEF Calm
    <3>4. CleanBefore
      BY <3>2 DEF CleanBefore
    <3>5. BestInv'
      BY <1>2, <2>1, <2>2, <3>1, <3>2, <3>3, <3>4, BestStep, BestExists, Zenon
    <3> QED  BY <3>3, <3>5, Zenon
  <2>3. CASE UNCHANGED vars
    <3>1. Undisturbed' <=> Undisturbed
      BY <2>3 DEF vars, counts, Undisturbed, Untouched
    <3>2. Calm => Calm'
      <4>1. UNCHANGED <<chain, act, abc, mode, disk>>
        BY <2>3, Zenon DEF vars
      <4>2. FInv => FInv'
        BY <4>1, Zenon DEF chain, FInv, Causes, CausesOnDisk, Failed, Unsound
      <4>3. LInv => LInv'
        BY <4>1, Zenon DEF chain, LInv, Links, LinksOnDisk, Failed
      <4>4. (Clean => Clean') /\ (Behind => Behind')
        BY <4>1 DEF chain, Clean, Behind, Failed, W
      <4> QED  BY <4>1, <4>2, <4>3, <4>4, Zenon DEF Calm
    <3> QED  BY <1>2, <2>3, <3>1, <3>2, BestStutter, Zenon
  <2> QED  BY <1>2, <2>2, <2>3, Zenon
<1> QED  BY <1>1, <1>2, ChainOrdered, PTL DEF Spec

(* The point of it all: whenever no activation is pending and the last one *)
(* succeeded, no chain that the node has in full and whose blocks it has   *)
(* not found invalid has more work than the active one, in whatever order  *)
(* headers and blocks came and whatever was refused, and across restarts   *)
(* where ConnectBlock refuses nothing.                                     *)
THEOREM ChainTipIsBest == Spec => [](Undisturbed => TipIsBest)
<1>1. GInv /\ (Undisturbed => Calm /\ BestInv) => (Undisturbed => TipIsBest)
  BY SettledBest DEF Calm
<1> QED  BY <1>1, ChainCalm, ChainOrdered, PTL

(* setBlockIndexCandidates and mapBlocksUnlinked hold exactly what         *)
(* CheckBlockIndex says they hold.                                         *)
THEOREM ChainSetsExact == Spec => [](Undisturbed => SetsExact)
<1>1. GInv /\ (Undisturbed => Calm /\ BestInv) => (Undisturbed => CandidatesExact)
  BY SettledBest DEF Calm
<1>2. (Untouched => UnlinkedExact) /\ (Undisturbed => CandidatesExact)
          => (Undisturbed => SetsExact)
  BY DEF Undisturbed, SetsExact
<1> QED  BY <1>1, <1>2, ChainCalm, ChainUnlinkedExact, ChainOrdered, PTL

-----------------------------------------------------------------------------
(* With invalidateblock, within one life of the process.                   *)

(* While no block below a notarised one is invalid, the chain has no       *)
(* failed block when invalidateblock is not at work.                       *)
LEMMA NothingHeld ==
    ASSUME GInv, FInv, Survives, Protected \cap failedValid = {}, act.op # "invalidate"
    PROVE  Clean
<1>1. tip \in Blocks /\ IInv
  BY Types DEF GInv
<1>2. SUFFICES ASSUME NEW a \in Path[tip], a \in Failed
               PROVE  FALSE
  BY DEF Clean
<1>3. PICK b \in Path[tip] : b \in failedValid
  BY <1>1, <1>2, UnsoundAbove, Zenon DEF Unsound, FInv
<1> QED  BY <1>3 DEF Survives

(* What invalidateblock leaves behind is a best chain again, unless a      *)
(* block below a notarised one is invalid, wherever the notarisations      *)
(* point to.                                                               *)
THEOREM ChainBestUnlessRefused ==
    Spec => []((~ASSETCHAINS_CC /\ restarts = 0) => BestUnlessRefused)
<1> DEFINE P == ~ASSETCHAINS_CC /\ restarts = 0 /\ reconsiders = 0
           Q == Protected \cap failedValid = {}
           I == Recorded /\ (P => FInv /\ Survives /\ (Q => BestInv))
<1>1. Init => I
  BY BestStart, LinksStart, SurvivesStart
<1>2. ASSUME GInv, I, [Next]_vars PROVE I'
  <2>1. GInv'
    BY <1>2, GNext
  <2>2. CASE Next
    <3>1. Recorded' /\ Protected \subseteq Protected'
      BY <1>2, <2>2, RecordedStep
    <3>2. ASSUME P' PROVE FInv' /\ Survives' /\ (Q' => BestInv')
      <4>1. P /\ restarts' = restarts /\ reconsiders' = 0
        BY <1>2, <2>2, <3>2, CountersGrow, Zenon DEF GInv
      <4>2. FInv /\ Survives /\ (Q => BestInv)
        BY <1>2, <4>1, Zenon
      <4>3. FInv' /\ Survives'
        BY <1>2, <2>2, <4>1, <4>2, CausesStep, SurvivesStep, Zenon
      <4>4. ASSUME Q' PROVE BestInv'
        <5>1. failedValid \subseteq failedValid'
          BY <1>2, <2>2, <4>1, <4>2, FlagsGrow, Zenon DEF FInv
        <5>2. Q
          BY <3>1, <4>4, <5>1
        <5>3. CleanBefore
          BY <1>2, <4>2, <5>2, NothingHeld DEF CleanBefore
        <5> QED  BY <1>2, <2>1, <2>2, <4>1, <4>2, <4>3, <5>2, <5>3, BestStep, BestExists,
                    Zenon
      <4> QED  BY <4>3, <4>4
    <3> QED  BY <3>1, <3>2
  <2>3. CASE UNCHANGED vars
    <3>1. UNCHANGED <<chain, notary, act, disk, counts>>
      BY <2>3, Zenon DEF vars
    <3>2. UNCHANGED <<NPOINTS, last, tip, failedValid, restarts, reconsiders>>
      BY <3>1, Zenon DEF chain, notary, counts
    <3>3. FInv => FInv'
      BY <3>1, Zenon DEF chain, FInv, Causes, CausesOnDisk, Failed, Unsound
    <3>4. /\ Protected' = Protected /\ (P' <=> P) /\ (Q' <=> Q)
          /\ (Recorded => Recorded') /\ (Survives => Survives')
      BY <3>1, <3>2 DEF Protected, Recorded, Survives
    <3> QED  BY <1>2, <2>3, <3>3, <3>4, BestStutter, Zenon
  <2> QED  BY <1>2, <2>2, <2>3
<1>3. GInv /\ I => ((~ASSETCHAINS_CC /\ restarts = 0) => BestUnlessRefused)
  <2> SUFFICES ASSUME GInv, I, P, Q PROVE TipIsBest
    BY DEF BestUnlessRefused
  <2>1. CASE act.op = "invalidate"
    BY <2>1 DEF TipIsBest, Settled, idle
  <2>2. CASE act.op # "invalidate"
    BY <2>2, NothingHeld, SettledBest
  <2> QED  BY <2>1, <2>2
<1> QED  BY <1>1, <1>2, <1>3, ChainOrdered, PTL DEF Spec

=============================================================================
