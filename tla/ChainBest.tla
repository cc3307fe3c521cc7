----------------------------- MODULE ChainBest ------------------------------
(***************************************************************************)
(* Why a node that has settled is on a best chain: no block of the active  *)
(* chain, in memory or on disk, is marked (Calm), the candidates hold      *)
(* every sound block that is no worse than some block the tip has been     *)
(* (Mark), a step aims at the best of them (BestAimed), and when no call   *)
(* is pending the tip is the only one left (TipOnly).                      *)
(***************************************************************************)
EXTENDS ChainFlags

-----------------------------------------------------------------------------
(* What the coins database stands for is never better than the chain that  *)
(* the node has settled on, so nothing of it can be marked; this needs     *)
(* that no connection fails half way, which would leave the node on a      *)
(* lower chain than the one on the disk.                                   *)

Behind ==
    /\ Path[disk.tip] \cap Failed = {}
    /\ mode # "aborted"
    /\ (mode = "run" /\ act = idle) => ~W(tip, disk.tip)
    /\ (mode = "run" /\ act.op = "step") =>
           \/ ~W(act.oldTip, disk.tip)
           \/ tip \in Path[act.target] /\ disk.tip \in Path[tip]

LEMMA DiskTip ==
    ASSUME GInv, Links
    PROVE  /\ disk.tip \in Blocks /\ disk.tip \in chainTx
           /\ Path[disk.tip] \subseteq data /\ disk.tip \in Path[disk.tip]
<1>1. disk.tip \in Blocks /\ Path[disk.tip] \subseteq data
  BY Types DEF GInv, IInv, OnDisk, DiskConsistent
<1> QED  BY <1>1, Tree DEF Links

LEMMA DiskUnmarked ==
    ASSUME GInv, Links, Behind, NEW x, Marked(x)
    PROVE  x \notin Path[disk.tip]
<1> SUFFICES ASSUME x \in Path[disk.tip] PROVE FALSE
  OBVIOUS
<1>1. /\ disk.tip \in Blocks /\ x \in Blocks /\ x \in data /\ x \notin BadConnect
      /\ tip \in Blocks /\ x \in Path[x]
  <2>1. disk.tip \in Blocks /\ tip \in Blocks /\ x \in data
    BY DiskTip, Types DEF GInv
  <2>2. x \in Blocks /\ x \in Path[x]
    BY <2>1, Tree
  <2> QED  BY <2>1, <2>2 DEF GInv, Ordered
<1>2. PICK y \in Path[x] : y \in Failed \/ (act = idle /\ mode = "run" /\ W(tip, x))
  BY <1>1 DEF Marked
<1>3. CASE y \in Failed
  BY <1>1, <1>2, <1>3, Ancestors DEF Behind
<1>4. CASE act = idle /\ mode = "run" /\ W(tip, x)
  <2>1. x = disk.tip \/ W(x, disk.tip)
    BY <1>1, WOrder DEF GInv
  <2>2. W(tip, disk.tip)
    BY <1>1, <1>4, <2>1, WOrder DEF GInv
  <2> QED  BY <1>4, <2>2 DEF Behind
<1> QED  BY <1>2, <1>3, <1>4

LEMMA BehindKept ==
    ASSUME GInv, Links, Behind, \A x \in Failed' : x \in Failed \/ Marked(x),
           UNCHANGED <<tip, disk>>, W(tip, disk.tip)' = W(tip, disk.tip),
           act = idle, mode = "run", mode' \in {"run", "down"},
           act' = idle \/ (act'.op = "step" /\ act'.oldTip = tip)
    PROVE  Behind'
<1>1. Path[disk.tip'] \cap Failed' = {}
  BY DiskUnmarked DEF Behind
<1>2. ~W(tip, disk.tip)'
  BY DEF Behind
<1>3. act' = idle => act'.op = "idle"
  BY DEF idle
<1>4. act'.op = "step" => ~W(act.oldTip, disk.tip)'
  BY <1>2, <1>3 DEF W
<1> QED  BY <1>1, <1>2, <1>4, Zenon DEF Behind

(* A new block is worse or better than before only if it had not been      *)
(* linked.                                                                 *)
LEMMA OrderStays ==
    ASSUME GInv, NEW b \in Blocks \ {Genesis}, NEW fRequested \in BOOLEAN,
           ProcessNewBlock(b, fRequested), NEW x \in chainTx, NEW y \in chainTx
    PROVE  W(x, y)' = W(x, y)
<1>1. address' = address
  BY DEF ProcessNewBlock
<1>2. nSequenceId'[x] = nSequenceId[x] /\ nSequenceId'[y] = nSequenceId[y]
  <2>1. CASE nSequenceId' = nSequenceId
    BY <2>1
  <2>2. CASE nSequenceId' # nSequenceId
    <3>1. /\ b \notin data /\ pprev[b] \in chainTx
          /\ \A z \in Blocks \ Linkable(b) : nSequenceId'[z] = nSequenceId[z]
      BY <2>2, Delivery, Zenon DEF GInv
    <3>2. x \notin Linkable(b) /\ y \notin Linkable(b) /\ x \in Blocks /\ y \in Blocks
      BY <3>1, Linking, Types DEF GInv
    <3> QED  BY <3>1, <3>2
  <2> QED  BY <2>1, <2>2
<1> QED  BY <1>1, <1>2 DEF W, Worse

LEMMA BehindDown ==
    ASSUME GInv, Clean, Behind, Disconnect
    PROVE  Behind'
<1>1. /\ act.op = "step" /\ tip \in Path[act.oldTip] /\ tip \notin Path[act.target]
      /\ act.oldTip \in Blocks /\ tip' \in Path[act.oldTip] /\ tip' \in Blocks
      /\ Path[tip'] \subseteq Path[act.oldTip] /\ Path[tip'] \subseteq Path[tip]
      /\ disk'.tip \in {disk.tip, tip'}
  BY Disconnecting, Ancestors, Zenon
<1>2. UNCHANGED <<act, mode, failedValid, failedChild, nSequenceId, address>>
  BY Zenon DEF Disconnect
<1>3. mode = "run" /\ ~W(act.oldTip, disk.tip)
  BY <1>1, Zenon DEF Behind, GInv, Stepping
<1>4. ~W(act.oldTip, tip')
  BY <1>1, WOrder DEF GInv
<1>5. ~W(act.oldTip, disk.tip)'
  BY <1>1, <1>2, <1>3, <1>4, Zenon DEF W
<1>6. Path[disk'.tip] \cap Failed' = {}
  BY <1>1, <1>2, Zenon DEF Behind, Clean, Failed
<1>7. act'.op = "step" /\ mode' = "run"
  BY <1>1, <1>2, <1>3, Zenon
<1>8. act' # idle
  BY <1>7 DEF idle
<1> QED  BY <1>3, <1>5, <1>6, <1>7, <1>8, Zenon DEF Behind

LEMMA BehindUp ==
    ASSUME GInv, Clean, Behind, Connect
    PROVE  Behind'
<1>1. PICK b \in Path[act.target] \ (BadConnect \cup {Genesis}) :
          /\ b \in chainTx /\ b \notin Failed
          /\ tip' = b /\ Path[b] = Path[tip] \cup {b}
          /\ disk'.tip \in {disk.tip, b}
          /\ act' = IF b = act.target \/ nChainWork[b] > nChainWork[act.oldTip]
                    THEN idle ELSE act
          /\ mode' = mode
          /\ UNCHANGED <<failedValid, failedChild, nSequenceId, address>>
  BY Connecting, Zenon
<1>2. /\ act.op = "step" /\ act.oldTip \in Blocks /\ b \in Blocks /\ tip \in Blocks
      /\ disk.tip \in Blocks /\ mode = "run" /\ b \in Path[b]
  <2>1. act.op = "step"
    BY Zenon DEF Connect
  <2>2. b \in Blocks /\ tip \in Blocks /\ disk.tip \in Blocks /\ act.oldTip \in Blocks
    BY <1>1, <2>1, Types, ActTypes, Zenon DEF GInv
  <2> QED  BY <2>1, <2>2, Tree, Zenon DEF GInv, Stepping
<1>3. Path[disk'.tip] \cap Failed' = {}
  BY <1>1 DEF Behind, Clean, Failed
<1>4. ~W(act.oldTip, disk.tip) \/ disk.tip \in Path[tip]
  BY <1>2 DEF Behind
<1>5. ASSUME act' = idle PROVE ~W(b, disk'.tip)
  <2>1. CASE disk'.tip \in Path[b]
    BY <1>2, <2>1, WOrder DEF GInv
  <2>2. CASE disk'.tip \notin Path[b]
    <3>1. disk'.tip = disk.tip /\ ~W(act.oldTip, disk.tip)
      BY <1>1, <1>2, <1>4, <2>2
    <3>2. W(act.oldTip, b)
      <4>1. b = act.target \/ nChainWork[b] > nChainWork[act.oldTip]
        BY <1>1, <1>2, <1>5 DEF idle
      <4>2. nChainWork[b] \in Nat /\ nChainWork[act.oldTip] \in Nat
        BY <1>2, Tree
      <4>3. b = act.target => W(act.oldTip, b)
        BY <1>2 DEF GInv, Stepping
      <4>4. nChainWork[b] > nChainWork[act.oldTip] => W(act.oldTip, b)
        BY <4>2 DEF W, Worse
      <4> QED  BY <4>1, <4>3, <4>4
    <3> QED  BY <1>2, <3>1, <3>2, WOrder DEF GInv
  <2> QED  BY <2>1, <2>2
<1>6. act' = idle => ~W(tip, disk.tip)'
  BY <1>1, <1>5, Zenon DEF W
<1>7. act'.op = "step" => \/ ~W(act.oldTip, disk.tip)'
                          \/ tip' \in Path[act'.target] /\ disk'.tip \in Path[tip']
  <2>1. SUFFICES ASSUME act'.op = "step", ~(disk'.tip \in Path[tip'])
                 PROVE  ~W(act.oldTip, disk.tip)'
    <3>1. act'.op = "step" => act' = act
      BY <1>1 DEF idle
    <3> QED  BY <1>1, <3>1, Zenon
  <2>2. act' = act /\ disk'.tip = disk.tip /\ disk.tip \notin Path[tip]
    BY <1>1, <1>2, <2>1 DEF idle
  <2> QED  BY <1>1, <1>4, <2>2 DEF W
<1> QED  BY <1>1, <1>2, <1>3, <1>6, <1>7, Zenon DEF Behind

LEMMA BehindLoad ==
    ASSUME NEW d \in Disk, LoadBlockIndexDB(d), Path[d.tip] \subseteq d.data,
           Path[d.tip] \cap (d.failedValid \cup d.failedChild) = {}
    PROVE  Clean' /\ Behind'
<1>1. /\ tip' = d.tip /\ disk' = d /\ failedValid' = d.failedValid
      /\ failedChild' = d.failedChild /\ address' \in Layouts
      /\ nSequenceId' = [b \in Blocks |-> 0] /\ act' = idle
  BY Zenon DEF LoadBlockIndexDB
<1>2. Clean' /\ mode' # "aborted"
  BY CleanLoad
<1>3. ~W(tip, disk.tip)'
  <2>1. d.tip \in Blocks
    BY DEF Disk
  <2>2. ~Worse(nSequenceId', address', d.tip, d.tip)
    <3>1. [b \in Blocks |-> 0] \in [Blocks -> Nat]
      OBVIOUS
    <3> QED  BY <1>1, <2>1, <3>1, WorseOrder, Zenon
  <2> QED  BY <1>1, <2>2, Zenon DEF W
<1>4. act'.op # "step"
  BY <1>1 DEF idle
<1>5. Path[disk'.tip] \cap Failed' = {}
  BY <1>1, Zenon DEF Failed
<1> QED  BY <1>2, <1>3, <1>4, <1>5 DEF Behind

(* Only the RPC calls ask for a reorganisation below the notarised height. *)
LEMMA NoSkip ==
    ASSUME IInv, "skip" \notin abc, act.op # "invalidate", Next,
           reconsiders' = 0, invalidates' = 0
    PROVE  "skip" \notin abc'
<1>1. CASE Network
  <2>1. abc' = abc \/ abc' = abc \cup {"dpow"}
    BY <1>1, Zenon DEF Network, ProcessNewHeader, HeaderRefused, ProcessNewBlock
  <2> QED  BY <2>1
<1>2. ASSUME NEW kind \in {"dpow", "skip", "init"},
             \/ ActivateBestChainDone(kind) \/ ActivateBestChainIgnores(kind)
             \/ ActivateBestChainShutdown(kind) \/ ActivateBestChainStep(kind)
      PROVE  "skip" \notin abc'
  BY <1>2, Activating, Zenon
<1>3. CASE Disconnect \/ DisconnectRefused \/ ConnectFails \/ Connect
  BY <1>3, Zenon DEF Disconnect, DisconnectRefused, ConnectFails, Connect, Fail
<1>4. CASE RPC
  <2>1. reconsiders \in Nat /\ invalidates \in Nat
    BY DEF IInv, TypeOK
  <2>2. reconsiders' = reconsiders + 1 \/ invalidates' = invalidates + 1
    BY <1>4, Zenon DEF RPC, InvalidateBlock, ReconsiderBlock, InvalidateDisconnect,
       InvalidateDone
  <2> QED  BY <2>1, <2>2
<1>5. CASE Crash \/ StopAndRestart
  <2>1. abc' = {"init"}
    BY <1>5, Zenon DEF Crash, StopAndRestart, LoadBlockIndexDB
  <2> QED  BY <2>1
<1>6. CASE LeaveIBD \/ Halted
  BY <1>6 DEF LeaveIBD, Halted, vars
<1> QED  BY <1>1, <1>2, <1>3, <1>4, <1>5, <1>6, Zenon DEF Next, Activation

-----------------------------------------------------------------------------
(* The active chain and the chain on disk stay free of failed blocks.      *)
LEMMA BehindStep ==
    ASSUME GInv, FInv, LInv, Clean, Behind, "skip" \notin abc, Next, ~ASSETCHAINS_CC,
           reconsiders' = 0, invalidates' = 0, restarts' = restarts, BadConnect = {}
    PROVE  Behind'
<1>1. /\ IInv /\ Links /\ act.op # "invalidate"
      /\ \A x \in Failed' : x \in Failed \/ Marked(x)
      /\ mode # "aborted" /\ tip \in chainTx /\ disk.tip \in chainTx
  BY MarkedOnly, DiskTip, Zenon DEF GInv, Ordered, LInv, Links, FInv, Behind
<1>2. ASSUME NEW b \in Blocks \ {Genesis}, NEW fRequested \in BOOLEAN,
             ProcessNewBlock(b, fRequested)
      PROVE  Behind'
  <2>1. /\ act = idle /\ mode = "run" /\ act' = idle /\ mode' = "run"
        /\ UNCHANGED <<tip, disk>>
    BY <1>2 DEF ProcessNewBlock, Serving
  <2>2. W(tip, disk.tip)' = W(tip, disk.tip)
    <3>1. W(tip, disk.tip)' = Worse(nSequenceId', address', tip, disk.tip)
      BY <2>1 DEF W
    <3>2. \A x, y \in chainTx : Worse(nSequenceId', address', x, y) = W(x, y)
      BY <1>2, OrderStays, Zenon DEF W
    <3> QED  BY <1>1, <3>1, <3>2
  <2> QED  BY <1>1, <2>1, <2>2, BehindKept, Zenon
<1>3. ASSUME NEW kind \in {"dpow", "skip", "init"},
             \/ ActivateBestChainDone(kind) \/ ActivateBestChainIgnores(kind)
             \/ ActivateBestChainShutdown(kind) \/ ActivateBestChainStep(kind)
      PROVE  Behind'
  <2>1. /\ act = idle /\ mode = "run" /\ mode' \in {"run", "down"}
        /\ UNCHANGED <<tip, disk, nSequenceId, address>>
    BY <1>3, Activating, Zenon
  <2>2. act' = idle \/ (act'.op = "step" /\ act'.oldTip = tip)
    BY <1>3, Activating, Zenon
  <2>3. W(tip, disk.tip)' = W(tip, disk.tip)
    BY <2>1 DEF W
  <2> QED  BY <1>1, <2>1, <2>2, <2>3, BehindKept
<1>4. ASSUME NEW b \in Blocks, ProcessNewHeader(b) \/ HeaderRefused(b) PROVE Behind'
  <2>1. /\ act = idle /\ mode = "run" /\ act' = idle /\ mode' = "run"
        /\ UNCHANGED <<tip, disk, nSequenceId, address>>
    BY <1>4 DEF ProcessNewHeader, HeaderRefused, Serving, chain
  <2>2. W(tip, disk.tip)' = W(tip, disk.tip)
    BY <2>1 DEF W
  <2> QED  BY <1>1, <2>1, <2>2, BehindKept, Zenon
<1>5. CASE DisconnectRefused
  <2>1. /\ act.op = "step" /\ tip \notin Path[act.target] /\ act' = idle
        /\ mode' = IF act.kind = "init" THEN "down" ELSE mode
        /\ UNCHANGED <<tip, disk, nSequenceId, address, failedValid, failedChild>>
    BY <1>5, Zenon DEF DisconnectRefused, Fail, chain
  <2>2. act.kind \in {"dpow", "init"} /\ mode = "run"
    <3>1. act.kind \in {"dpow", "skip", "init"}
      BY <1>1, <2>1, ActTypes DEF IInv, TypeOK
    <3> QED  BY <2>1, <3>1 DEF GInv, Stepping
  <2>3. ~W(act.oldTip, disk.tip)
    BY <2>1, <2>2, Zenon DEF Behind
  <2>4. mode' = "run" => ~W(tip, disk.tip)'
    <3>1. mode' = "run" => tip = act.oldTip
      BY <1>5, <2>1, <2>2, RefusedAtOnce
    <3> QED  BY <2>1, <2>3, <3>1, Zenon DEF W
  <2>5. Path[disk'.tip] \cap Failed' = {} /\ mode' # "aborted"
    BY <1>1, <2>1, Zenon DEF Behind, Failed
  <2>6. act'.op # "step"
    BY <2>1 DEF idle
  <2> QED  BY <2>4, <2>5, <2>6, Zenon DEF Behind
<1>6. CASE ConnectFails
  BY <1>6 DEF ConnectFails
<1>7. CASE LeaveIBD \/ Halted
  <2>1. UNCHANGED <<chain, act, mode, disk>>
    BY <1>7, Zenon DEF LeaveIBD, Halted, vars
  <2> QED  BY <2>1, Zenon DEF chain, Behind, Failed, W
<1>8. CASE RPC
  <2>1. reconsiders \in Nat /\ invalidates \in Nat
    BY <1>1 DEF IInv, TypeOK
  <2>2. reconsiders' = reconsiders + 1 \/ invalidates' = invalidates + 1
    BY <1>1, <1>8, Zenon DEF RPC, InvalidateBlock, ReconsiderBlock, InvalidateDisconnect,
       InvalidateDone
  <2> QED  BY <2>1, <2>2
<1>9. CASE Crash \/ StopAndRestart
  <2>1. restarts \in Nat /\ restarts' = restarts + 1
    BY <1>1, <1>9, Zenon DEF Crash, StopAndRestart, LoadBlockIndexDB, IInv, TypeOK
  <2> QED  BY <2>1
<1> QED  BY <1>2, <1>3, <1>4, <1>5, <1>6, <1>7, <1>8, <1>9, BehindDown, BehindUp, Zenon
            DEF Next, Network, Activation

LEMMA RestartClean ==
    ASSUME GInv, FInv, Clean, Behind, act.op # "invalidate", Crash \/ StopAndRestart
    PROVE  Clean' /\ Behind'
<1>1. CASE Crash
  <2>1. LoadBlockIndexDB(disk) \/ LoadBlockIndexDB(IndexWritten)
    BY <1>1 DEF Crash
  <2>2. CASE LoadBlockIndexDB(disk)
    <3>1. disk \in Disk /\ Path[disk.tip] \subseteq disk.data
      BY Types, Zenon DEF GInv, IInv, OnDisk, DiskConsistent
    <3>2. Path[disk.tip] \cap (disk.failedValid \cup disk.failedChild) = {}
      BY Zenon DEF FInv, CausesOnDisk, Behind, Failed
    <3> QED  BY <2>2, <3>1, <3>2, BehindLoad
  <2>3. CASE LoadBlockIndexDB(IndexWritten)
    <3>1. /\ IndexWritten \in Disk /\ IndexWritten.tip = disk.tip
          /\ Path[IndexWritten.tip] \subseteq IndexWritten.data
      BY IndexWrittenDisk, Zenon DEF GInv
    <3>2. /\ IndexWritten.failedValid = failedValid
          /\ IndexWritten.failedChild \subseteq failedChild \cup Marking
      BY IndexWrittenCauses, Zenon DEF GInv
    <3>3. Marking = {}
      BY DEF Marking
    <3>4. Path[IndexWritten.tip] \cap (IndexWritten.failedValid \cup IndexWritten.failedChild) = {}
      BY <3>1, <3>2, <3>3 DEF Behind, Failed
    <3> QED  BY <2>3, <3>1, <3>4, BehindLoad
  <2> QED  BY <2>1, <2>2, <2>3
<1>2. CASE StopAndRestart
  <2> DEFINE d == Flushed(dirty, failedChild, tip)
  <2>1. /\ TypeOK /\ OnDisk /\ dirty \in SUBSET Blocks /\ failedChild \in SUBSET Blocks
        /\ tip \in Blocks /\ Path[tip] \subseteq data
    BY Zenon DEF GInv, IInv, TypeOK, Downloaded
  <2>2. d \in Disk /\ data \subseteq d.data /\ d.tip = tip
    BY <2>1, FlushedDisk, Zenon
  <2>3. CausesWritten(d, dirty, failedChild)
    BY <2>1, FlushedCauses, Zenon
  <2>4. LoadBlockIndexDB(d)
    BY <1>2 DEF StopAndRestart
  <2> HIDE DEF d
  <2>5. Path[d.tip] \cap (d.failedValid \cup d.failedChild) = {}
    BY <2>2, <2>3 DEF CausesWritten, Clean, Failed
  <2>6. Path[d.tip] \subseteq d.data
    BY <2>1, <2>2
  <2> QED  BY <2>2, <2>4, <2>5, <2>6, BehindLoad
<1> QED  BY <1>1, <1>2

(* The network and restarts alone; after a restart a block that            *)
(* ConnectBlock refuses can leave the node on a chain with an invalid      *)
(* block: see README.                                                      *)
Undisturbed == Untouched /\ (restarts = 0 \/ BadConnect = {})

(* No block of the active chain is marked, nor, where ConnectBlock refuses *)
(* nothing, one of the chain on disk.                                      *)
Calm == /\ FInv /\ LInv /\ Clean /\ "skip" \notin abc
        /\ BadConnect = {} => Behind

LEMMA CalmStep ==
    ASSUME GInv, Calm, Next, Undisturbed'
    PROVE  Calm'
<1>1. /\ IInv /\ FInv /\ LInv /\ Causes /\ Clean /\ act.op # "invalidate"
      /\ ~ASSETCHAINS_CC /\ reconsiders' = 0 /\ invalidates' = 0
  BY DEF GInv, Calm, FInv, LInv, Links, Undisturbed, Untouched
<1>2. FInv' /\ LInv'
  BY <1>1, CausesStep, LinksStep
<1>3. "skip" \notin abc'
  BY <1>1, NoSkip DEF Calm
<1>4. CASE restarts' = restarts
  <2>1. Clean'
    BY <1>1, <1>4, CleanStep
  <2>2. BadConnect = {} => Behind'
    BY <1>1, <1>4, BehindStep DEF Calm
  <2> QED  BY <1>2, <1>3, <2>1, <2>2 DEF Calm
<1>5. CASE restarts' # restarts
  <2>1. restarts' # 0 /\ (Crash \/ StopAndRestart)
    BY <1>1, <1>5, CountersGrow
  <2>2. BadConnect = {}
    BY <2>1 DEF Undisturbed
  <2> QED  BY <1>1, <1>2, <1>3, <2>1, <2>2, RestartClean, Zenon DEF Calm
<1> QED  BY <1>4, <1>5

-----------------------------------------------------------------------------
(* Every sound block that is no worse than some sound and connectable      *)
(* block R is a candidate.  R is a tip that the active chain has had: it   *)
(* may have fallen back since, when the blocks it was to take turned out   *)
(* to be invalid.                                                          *)
Reference(R) ==
    /\ R \in chainTx /\ Sound(R) /\ Path[R] \cap BadConnect = {} /\ ~W(R, tip)
    /\ \A b \in chainTx : (Sound(b) /\ ~W(b, R)) => b \in candidates

Mark == \E R : Reference(R)

LEMMA MarkKept ==
    ASSUME GInv, Mark, UNCHANGED <<chainTx, nSequenceId, address>>,
           tip' \in Path[tip], failedValid \subseteq failedValid',
           \A b \in failedValid' \ failedValid : b \notin data \/ b \in BadConnect,
           \A c \in candidates : Path[c] \cap failedValid' = {} => c \in candidates'
    PROVE  Mark'
<1>1. PICK R : Reference(R)
  BY Zenon DEF Mark
<1>2. R \in Blocks /\ tip \in Blocks /\ tip' \in Blocks /\ Path[R] \subseteq data
  BY <1>1, Types, Tree DEF GInv, IInv, Downloaded, Reference
<1>3. Sound(R)'
  BY <1>1, <1>2 DEF Sound, Reference
<1>4. ~W(R, tip')
  BY <1>1, <1>2, WOrder DEF GInv, Reference
<1>5. ~W(R, tip)'
  BY <1>4 DEF W
<1>6. ASSUME NEW b \in chainTx', Sound(b)', ~W(b, R)' PROVE b \in candidates'
  BY <1>1, <1>6 DEF Sound, W, Reference
<1>7. Reference(R)'
  BY <1>1, <1>3, <1>5, <1>6 DEF Reference
<1> QED  BY <1>7 DEF Mark

(* Afresh, with the tip.                                                   *)
LEMMA MarkTip ==
    ASSUME GInv', Clean',
           \A b \in chainTx' : (Sound(b)' /\ ~W(b, tip)') => b \in candidates'
    PROVE  Mark'
<1>1. /\ tip' \in Blocks /\ nSequenceId' \in [Blocks -> Nat] /\ address' \in Layouts
      /\ tip' \in chainTx' /\ Path[tip'] \cap BadConnect = {}
  BY DEF GInv, IInv, TypeOK, Ordered
<1>2. ~W(tip, tip)'
  BY <1>1, WorseOrder DEF W
<1>3. Sound(tip)'
  BY DEF Clean, Failed, Sound
<1>4. Reference(tip)'
  BY <1>1, <1>2, <1>3, Zenon DEF Reference
<1> QED  BY <1>4, Zenon DEF Mark

(* A block is linked, with those that waited for it.                       *)
LEMMA MarkLinked ==
    ASSUME GInv, GInv', Mark, NEW b \in Blocks \ {Genesis}, NEW fRequested \in BOOLEAN,
           ProcessNewBlock(b, fRequested), b \notin data, pprev[b] \in chainTx,
           chainTx' = chainTx \cup Linkable(b), failedValid' = failedValid,
           candidates' = candidates \cup
               {x \in Linkable(b) : ~Worse(nSequenceId', address, x, tip)}
    PROVE  Mark'
<1>1. PICK R : Reference(R)
  BY Zenon DEF Mark
<1>2. /\ tip' = tip /\ address' = address /\ tip \in chainTx /\ R \in chainTx
      /\ tip \in Blocks /\ R \in Blocks /\ chainTx' \subseteq Blocks
      /\ nSequenceId' \in [Blocks -> Nat] /\ address \in Layouts
  <2>1. tip' = tip /\ address' = address
    BY DEF ProcessNewBlock
  <2>2. /\ tip \in chainTx /\ tip \in Blocks /\ chainTx \subseteq Blocks
        /\ chainTx' \subseteq Blocks /\ nSequenceId' \in [Blocks -> Nat]
        /\ address \in Layouts
    BY Zenon DEF GInv, IInv, TypeOK, Ordered
  <2> QED  BY <1>1, <2>1, <2>2 DEF Reference
<1>3. \A x, y \in chainTx : Worse(nSequenceId', address, x, y) = W(x, y)
  BY <1>2, OrderStays, Zenon DEF W
<1>4. ~Worse(nSequenceId', address, R, tip)
  BY <1>1, <1>2, <1>3 DEF Reference
<1>5. ASSUME NEW x \in chainTx', Sound(x), ~Worse(nSequenceId', address, x, R)
      PROVE  x \in candidates'
  <2>1. CASE x \in chainTx
    BY <1>1, <1>2, <1>3, <1>5, <2>1, Zenon DEF Reference
  <2>2. CASE x \in Linkable(b)
    <3>1. ~Worse(nSequenceId', address, x, tip)
      BY <1>2, <1>4, <1>5, WorseOrder, Zenon
    <3> QED  BY <2>2, <3>1, Zenon
  <2> QED  BY <2>1, <2>2, Zenon
<1>6. Sound(R)' /\ \A x : Sound(x)' => Sound(x)
  BY <1>1 DEF Sound, Reference
<1>7. Reference(R)'
  BY <1>1, <1>2, <1>4, <1>5, <1>6, Zenon DEF Reference, W
<1> QED  BY <1>7 DEF Mark

LEMMA MarkUp ==
    ASSUME GInv, GInv', Clean', Mark, Connect
    PROVE  Mark'
<1>1. PICK b \in Path[act.target] \ (BadConnect \cup {Genesis}) :
          /\ b \in chainTx /\ tip' = b
          /\ candidates' = NotWorse(candidates, b)
          /\ UNCHANGED <<chainTx, failedValid, nSequenceId, address>>
  BY Connecting, Zenon
<1>2. PICK R : Reference(R)
  BY Zenon DEF Mark
<1>3. b \in Blocks /\ R \in Blocks /\ R \in chainTx /\ chainTx \subseteq Blocks
  BY <1>1, <1>2, Types DEF GInv, Reference
<1>4. CASE W(R, b)
  <2>1. ASSUME NEW x \in chainTx, Sound(x), ~W(x, b) PROVE x \in candidates'
    <3>1. ~W(x, R)
      BY <1>3, <1>4, <2>1, WOrder, Zenon DEF GInv
    <3> QED  BY <1>1, <1>2, <2>1, <3>1, Zenon DEF Reference, NotWorse, W
  <2>2. \A x \in chainTx' : (Sound(x)' /\ ~W(x, tip)') => x \in candidates'
    BY <1>1, <2>1 DEF Sound, W
  <2> QED  BY <2>2, MarkTip
<1>5. CASE ~W(R, b)
  <2>1. ASSUME NEW x \in chainTx, Sound(x), ~W(x, R) PROVE x \in candidates'
    <3>1. ~W(x, b)
      BY <1>3, <1>5, <2>1, WOrder, Zenon DEF GInv
    <3> QED  BY <1>1, <1>2, <2>1, <3>1, Zenon DEF Reference, NotWorse, W
  <2>2. \A x : Sound(x)' = Sound(x) /\ W(x, R)' = W(x, R)
    BY <1>1 DEF Sound, W
  <2>3. ~W(R, tip)'
    BY <1>1, <1>5, Zenon DEF W
  <2>4. Reference(R)'
    BY <1>1, <1>2, <2>1, <2>2, <2>3 DEF Reference
  <2> QED  BY <2>4, Zenon DEF Mark
<1> QED  BY <1>4, <1>5

(* No flag is cleared while the process lives.                             *)
LEMMA FlagsGrow ==
    ASSUME GInv, Causes, Next, ~ASSETCHAINS_CC, reconsiders' = 0, restarts' = restarts
    PROVE  failedValid \subseteq failedValid' /\ failedChild \subseteq failedChild'
<1>1. ASSUME NEW b \in Blocks \ {Genesis},
             ProcessNewHeader(b) \/ \E r \in BOOLEAN : ProcessNewBlock(b, r)
      PROVE  failedValid \subseteq failedValid' /\ failedChild \subseteq failedChild'
  <2>1. HeaderAccepted(b)
    BY <1>1, Zenon DEF ProcessNewHeader, ProcessNewBlock
  <2>2. b \notin Failed /\ failedChild' = failedChild
    BY <2>1, NothingCleared, Zenon
  <2>3. failedValid' = failedValid \cup {b} \/ failedValid' = failedValid \ {b}
    BY <1>1, Zenon DEF ProcessNewHeader, ProcessNewBlock
  <2> QED  BY <2>2, <2>3 DEF Failed
<1>2. CASE Activation
  BY <1>2, Zenon DEF Activation, ActivateBestChainDone, ActivateBestChainIgnores,
       ActivateBestChainShutdown, ActivateBestChainStep, Disconnect, FindMostWorkChain,
       DisconnectRefused, ConnectFails, Connect, ConnectTip, chain
<1>3. ASSUME NEW b \in Blocks, ReconsiderBlock(b) PROVE FALSE
  <2>1. reconsiders \in Nat /\ reconsiders' = reconsiders + 1
    BY <1>3, Zenon DEF ReconsiderBlock, GInv, IInv, TypeOK
  <2> QED  BY <2>1
<1>4. CASE InvalidateDisconnect \/ InvalidateDone \/ LeaveIBD \/ Halted
           \/ \E b \in Blocks : InvalidateBlock(b) \/ HeaderRefused(b)
  BY <1>4, Zenon DEF InvalidateDisconnect, InvalidateDone, LeaveIBD, Halted, InvalidateBlock,
     HeaderRefused, vars, chain
<1>5. CASE Crash \/ StopAndRestart
  <2>1. restarts \in Nat /\ restarts' = restarts + 1
    BY <1>5, Zenon DEF Crash, StopAndRestart, LoadBlockIndexDB, GInv, IInv, TypeOK
  <2> QED  BY <2>1
<1> QED  BY <1>1, <1>2, <1>3, <1>4, <1>5, Zenon DEF Next, Network, RPC

(* A clean chain was clean before the step.                                *)
CleanBefore == (restarts' = restarts /\ act.op # "invalidate" /\ Clean') => Clean

LEMMA MarkStep ==
    ASSUME GInv, GInv', FInv, FInv', Next, ~ASSETCHAINS_CC, reconsiders' = 0, CleanBefore,
           (Clean /\ act.op # "invalidate") => Mark, Clean', act'.op # "invalidate"
    PROVE  Mark'
<1>1. /\ IInv /\ Causes /\ tip \in Blocks /\ tip \in Path[tip]
      /\ candidates \subseteq chainTx /\ chainTx \subseteq data /\ chainTx \subseteq Blocks
  BY Types, Tree, Zenon DEF GInv, FInv, IInv, Downloaded
<1>2. /\ \A b \in chainTx' : Sound(b)' => b \notin Failed'
      /\ chainTx' \subseteq data'
  <2>1. chainTx' \subseteq Blocks /\ \A b \in chainTx' : Path[b] \subseteq data'
    BY Zenon DEF GInv, IInv, TypeOK, Downloaded
  <2>2. \A b \in failedChild' : Path[b] \cap failedValid' # {}
    BY DEF FInv, Causes, Unsound
  <2> QED  BY <2>1, <2>2, Tree, Zenon DEF Failed, Sound
<1>3. ASSUME restarts' = restarts, act.op # "invalidate" PROVE Mark
  BY <1>3, Zenon DEF CleanBefore
<1>4. ASSUME NEW b \in Blocks \ {Genesis}, ProcessNewHeader(b) PROVE Mark'
  <2>1. /\ UNCHANGED <<chainTx, nSequenceId, address, tip, candidates, restarts>>
        /\ failedValid' \subseteq failedValid /\ act.op = "idle"
    BY <1>4 DEF ProcessNewHeader, Serving, counts, idle
  <2>2. failedValid \subseteq failedValid'
    BY <1>1, <2>1, FlagsGrow
  <2> QED  BY <1>1, <1>3, <2>1, <2>2, MarkKept, Zenon
<1>5. ASSUME NEW b \in Blocks \ {Genesis}, NEW fRequested \in BOOLEAN,
             ProcessNewBlock(b, fRequested)
      PROVE  Mark'
  <2>1. /\ UNCHANGED <<address, tip, restarts>> /\ act.op = "idle"
        /\ \/ failedValid' \subseteq failedValid
           \/ /\ failedValid' = failedValid \cup {b} /\ b \notin data
              /\ UNCHANGED <<chainTx, nSequenceId, candidates>>
    BY <1>5, Zenon DEF ProcessNewBlock, Stores, Serving, counts, idle
  <2>2. failedValid \subseteq failedValid'
    BY <1>1, <2>1, FlagsGrow, Zenon
  <2>3. CASE UNCHANGED <<chainTx, nSequenceId, candidates>>
    BY <1>1, <1>3, <2>1, <2>2, <2>3, MarkKept, Zenon
  <2>4. CASE ~UNCHANGED <<chainTx, nSequenceId, candidates>>
    <3>1. failedValid' = failedValid
      BY <2>1, <2>2, <2>4
    <3>2. /\ b \notin data /\ pprev[b] \in chainTx
          /\ chainTx' = chainTx \cup Linkable(b)
          /\ candidates' = candidates \cup
                 {x \in Linkable(b) : ~Worse(nSequenceId', address, x, tip)}
      BY <1>5, <2>4, Delivery, Zenon DEF GInv
    <3> QED  BY <1>3, <1>5, <2>1, <3>1, <3>2, MarkLinked, Zenon
  <2> QED  BY <2>3, <2>4, Zenon
<1>6. ASSUME NEW kind \in {"dpow", "skip", "init"},
             \/ ActivateBestChainDone(kind) \/ ActivateBestChainShutdown(kind)
             \/ ActivateBestChainStep(kind)
      PROVE  Mark'
  <2>1. /\ UNCHANGED <<chainTx, nSequenceId, address, tip, failedValid, restarts>>
        /\ candidates' = candidates \ Erased /\ act = idle
    BY <1>6, Zenon DEF ActivateBestChainDone, ActivateBestChainShutdown,
       ActivateBestChainStep, counts
  <2>2. \A x \in Erased : Path[x] \cap failedValid # {}
    BY <1>1, ErasedUnsound DEF Unsound
  <2>3. act.op # "invalidate"
    BY <2>1 DEF idle
  <2> QED  BY <1>1, <1>3, <2>1, <2>2, <2>3, MarkKept
<1>7. ASSUME NEW kind \in {"dpow", "skip", "init"}, ActivateBestChainIgnores(kind)
      PROVE  Mark'
  <2>1. PICK m \in MostWork :
            /\ failedValid' = failedValid \cup {m}
            /\ candidates' = ((candidates \ Erased) \ {m}) \cup
                   NotWorse(Eligible \ (Erased \cup {m}), tip)
    BY <1>7, Zenon DEF ActivateBestChainIgnores
  <2>2. /\ UNCHANGED <<chainTx, data, nSequenceId, address, tip>>
        /\ failedChild \subseteq failedChild'
    BY <1>7 DEF ActivateBestChainIgnores, FindMostWorkChain
  <2>3. ASSUME NEW b \in chainTx, Sound(b)', ~W(b, tip)' PROVE b \in candidates'
    <3>1. b \in data /\ b \notin Failed' /\ b \notin Failed /\ b # m
      BY <1>1, <1>2, <2>1, <2>2, <2>3, Zenon DEF Failed
    <3>2. b \notin Erased
      BY <1>1, <2>1, <2>3, ErasedUnsound, Zenon DEF Unsound, Sound
    <3>3. ~Worse(nSequenceId, address, b, tip)
      BY <2>2, <2>3, Zenon DEF W
    <3> QED  BY <2>1, <3>1, <3>2, <3>3, Zenon DEF Eligible, NotWorse
  <2> QED  BY <2>2, <2>3, MarkTip
<1>8. CASE Disconnect
  <2>1. /\ UNCHANGED <<chainTx, nSequenceId, address, failedValid, candidates, restarts>>
        /\ act.op = "step"
    BY <1>8, Zenon DEF Disconnect, counts
  <2>2. tip' \in Path[tip]
    BY <1>8, Disconnecting, Tree, Zenon
  <2> QED  BY <1>3, <2>1, <2>2, MarkKept, Zenon
<1>9. CASE ConnectFails
  <2>1. PICK b \in BadConnect :
            failedValid' = failedValid \cup {b} /\ candidates' = candidates \ {b}
    BY <1>9, Zenon DEF ConnectFails
  <2>2. UNCHANGED <<chainTx, nSequenceId, address, tip, restarts>> /\ act.op = "step"
    BY <1>9, Zenon DEF ConnectFails, counts
  <2>3. b \in Path[b]
    BY <2>1, TreeAssumption
  <2> QED  BY <1>1, <1>3, <2>1, <2>2, <2>3, MarkKept, Zenon
<1>10. CASE Connect
  <2>1. restarts' = restarts /\ act.op = "step"
    BY <1>10, Zenon DEF Connect, ConnectTip, counts
  <2> QED  BY <1>3, <1>10, <2>1, MarkUp
<1>11. ASSUME UNCHANGED <<chainTx, nSequenceId, address, failedValid, candidates, tip, restarts>>,
              act.op # "invalidate"
       PROVE  Mark'
  BY <1>1, <1>3, <1>11, MarkKept, Zenon
<1>12. CASE DisconnectRefused \/ \E b \in Blocks : HeaderRefused(b)
  BY <1>11, <1>12 DEF DisconnectRefused, HeaderRefused, chain, counts, Serving, idle
<1>13. CASE LeaveIBD \/ Halted
  <2>1. UNCHANGED <<chainTx, nSequenceId, address, failedValid, candidates, tip, restarts, act>>
    BY <1>13, Zenon DEF LeaveIBD, Halted, vars, chain, counts
  <2> QED  BY <1>11, <2>1
<1>14. ASSUME NEW b \in Blocks, InvalidateBlock(b) \/ ReconsiderBlock(b) PROVE FALSE
  <2>1. reconsiders \in Nat
    BY <1>1 DEF IInv, TypeOK
  <2>2. reconsiders' = reconsiders + 1 \/ act'.op = "invalidate"
    <3>1. CASE InvalidateBlock(b)
      BY <3>1 DEF InvalidateBlock
    <3>2. CASE ReconsiderBlock(b)
      BY <3>2, Zenon DEF ReconsiderBlock
    <3> QED  BY <1>14, <3>1, <3>2, Zenon
  <2> QED  BY <2>1, <2>2
<1>15. CASE InvalidateDisconnect
  <2>1. act' = act \/ (tip' = tip /\ tip \in failedChild')
    BY <1>15, Zenon DEF InvalidateDisconnect
  <2>2. act' # act
    BY <1>15, Zenon DEF InvalidateDisconnect
  <2> QED  BY <1>1, <2>1, <2>2 DEF Clean, Failed
<1>16. CASE InvalidateDone
  <2>1. /\ candidates' = candidates \cup NotWorse(Eligible, tip)
        /\ UNCHANGED <<chainTx, data, nSequenceId, address, tip, failedValid, failedChild>>
    BY <1>16, Zenon DEF InvalidateDone
  <2>2. ASSUME NEW b \in chainTx, Sound(b)', ~W(b, tip)' PROVE b \in candidates'
    <3>1. b \in data /\ b \notin Failed
      BY <1>1, <1>2, <2>1, <2>2, Zenon DEF Failed
    <3>2. ~Worse(nSequenceId, address, b, tip)
      BY <2>1, <2>2 DEF W
    <3> QED  BY <2>1, <3>1, <3>2, Zenon DEF Eligible, NotWorse
  <2> QED  BY <2>1, <2>2, MarkTip
<1>17. ASSUME NEW d, LoadBlockIndexDB(d) PROVE Mark'
  <2>1. /\ chainTx' = d.data \ LoadedUnlinked(d) /\ nSequenceId' = [b \in Blocks |-> 0]
        /\ candidates' = LoadedCandidates(d, address') /\ tip' = d.tip
        /\ failedValid' = d.failedValid /\ failedChild' = d.failedChild
    BY <1>17, Zenon DEF LoadBlockIndexDB
  <2>2. ASSUME NEW b \in chainTx', Sound(b)', ~W(b, tip)' PROVE b \in candidates'
    <3>1. b \notin d.failedValid \cup d.failedChild
      BY <1>2, <2>1, <2>2, Zenon DEF Failed
    <3>2. ~Worse([x \in Blocks |-> 0], address', b, d.tip)
      BY <2>1, <2>2 DEF W
    <3> QED  BY <2>1, <2>2, <3>1, <3>2, Zenon DEF LoadedCandidates
  <2> QED  BY <2>2, MarkTip
<1>18. CASE Crash \/ StopAndRestart
  BY <1>17, <1>18, Zenon DEF Crash, StopAndRestart
<1> QED  BY <1>4, <1>5, <1>6, <1>7, <1>8, <1>9, <1>10, <1>12, <1>13, <1>14, <1>15, <1>16,
            <1>18, Zenon DEF Next, Network, Activation, RPC

-----------------------------------------------------------------------------
(* FindMostWorkChain finds the best of the candidates, and a settled node  *)
(* has no other candidate than its tip.                                    *)

HasBest ==
    \A q \in [Blocks -> Nat], p \in Layouts : \A S \in SUBSET Blocks :
        S # {} => \E m \in S : \A d \in S \ {m} : Worse(q, p, d, m)

Resting == act.op # "step" /\ abc = {} /\ ~stalled /\ mode = "run"

TipOnly == Resting => \A c \in candidates : Sound(c) => c = tip

BestAimed ==
    act.op = "step" => \A c \in candidates : Sound(c) => c = act.target \/ W(c, act.target)

LEMMA SoundUsable ==
    ASSUME GInv, Causes, NEW c \in candidates, Sound(c)
    PROVE  Usable(c)
<1>1. c \in Blocks
  BY Types, Zenon DEF GInv
<1> QED  BY <1>1, UnsoundAbove DEF GInv, Usable, Sound, Unsound

LEMMA BestFound ==
    ASSUME HasBest, GInv, MostWork \subseteq {tip}, NEW c \in candidates, Usable(c)
    PROVE  c = tip
<1> DEFINE S == {d \in candidates : Usable(d)}
<1>1. S \in SUBSET Blocks /\ c \in S /\ nSequenceId \in [Blocks -> Nat] /\ address \in Layouts
  BY Types DEF GInv
<1>2. PICK m \in S : \A d \in S \ {m} : Worse(nSequenceId, address, d, m)
  <2> HIDE DEF S
  <2> QED  BY <1>1 DEF HasBest
<1>3. m \in MostWork
  BY <1>2 DEF MostWork
<1> QED  BY <1>1, <1>2, <1>3 DEF GInv, Ordered, W

LEMMA TipOnlyStep ==
    ASSUME HasBest, GInv, FInv, TipOnly, BestAimed, Next, ~ASSETCHAINS_CC,
           reconsiders' = 0
    PROVE  TipOnly'
<1> SUFFICES ASSUME Resting', NEW c \in candidates', Path[c] \cap failedValid' = {}
             PROVE  c = tip'
  BY DEF TipOnly, Sound
<1>1. IInv /\ Causes /\ act'.op # "step" /\ abc' = {} /\ ~stalled' /\ mode' = "run"
  BY DEF GInv, FInv, Resting
<1>2. restarts' = restarts => failedValid \subseteq failedValid'
  BY <1>1, FlagsGrow
<1>3. ASSUME UNCHANGED <<tip, abc, stalled, mode, restarts>>, act.op # "step",
             candidates' \subseteq candidates
      PROVE  c = tip'
  BY <1>1, <1>2, <1>3, Zenon DEF TipOnly, Resting, Sound
<1>4. ASSUME NEW b \in Blocks \ {Genesis}, NEW fRequested \in BOOLEAN,
             ProcessNewBlock(b, fRequested)
      PROVE  c = tip'
  <2>1. UNCHANGED <<tip, stalled, mode, restarts>> /\ act.op # "step"
    BY <1>4, Zenon DEF ProcessNewBlock, Serving, counts, idle
  <2>2. abc' = abc /\ candidates' = candidates
    BY <1>1, <1>4, Zenon DEF ProcessNewBlock
  <2> QED  BY <1>3, <2>1, <2>2
<1>5. ASSUME NEW b \in Blocks,
             ProcessNewHeader(b) \/ HeaderRefused(b) \/ InvalidateBlock(b)
      PROVE  c = tip'
  <2>1. UNCHANGED <<tip, stalled, abc, mode, restarts>> /\ act.op # "step"
    <3>1. UNCHANGED <<tip, stalled, abc, mode, restarts>> /\ act = idle
      BY <1>5, Zenon DEF ProcessNewHeader, HeaderRefused, InvalidateBlock, Serving, counts,
         chain
    <3> QED  BY <3>1 DEF idle
  <2>2. candidates' \subseteq candidates
    BY <1>5, Zenon DEF ProcessNewHeader, HeaderRefused, InvalidateBlock, chain
  <2> QED  BY <1>3, <2>1, <2>2, Zenon
<1>6. ASSUME NEW kind \in {"dpow", "skip", "init"}, ActivateBestChainDone(kind)
      PROVE  c = tip'
  <2>1. /\ tip' = tip /\ candidates' = candidates \ Erased /\ failedValid' = failedValid
        /\ MostWork \subseteq {tip}
    BY <1>6, Zenon DEF ActivateBestChainDone
  <2>2. c \in candidates /\ Sound(c)
    BY <2>1 DEF Sound
  <2> QED  BY <1>1, <2>1, <2>2, SoundUsable, BestFound
<1>7. ASSUME NEW kind \in {"dpow", "skip", "init"},
             \/ ActivateBestChainIgnores(kind) \/ ActivateBestChainShutdown(kind)
             \/ ActivateBestChainStep(kind)
      PROVE  FALSE
  BY <1>1, <1>7, Zenon DEF ActivateBestChainIgnores, ActivateBestChainShutdown,
     ActivateBestChainStep, Fail
<1>8. CASE Disconnect \/ DisconnectRefused
  BY <1>1, <1>8, Zenon DEF Disconnect, DisconnectRefused, Fail
<1>9. CASE ConnectFails
  BY <1>1, <1>9, Zenon DEF ConnectFails, GInv, Stepping
<1>10. CASE Connect
  <2>1. PICK b \in Path[act.target] :
            /\ tip' = b /\ candidates' = NotWorse(candidates, b)
            /\ failedValid' = failedValid
            /\ b # act.target => abc' = abc
    BY <1>10, Connecting, Zenon
  <2>2. act.op = "step" /\ act.kind \in abc
    BY <1>10, Zenon DEF Connect, GInv, Stepping
  <2>3. b = act.target
    BY <1>1, <2>1, <2>2
  <2> QED  BY <2>1, <2>2, <2>3 DEF BestAimed, Sound, NotWorse, W
<1>11. CASE InvalidateDisconnect
  <2>1. /\ UNCHANGED <<abc, stalled, mode, restarts, failedValid>>
        /\ act.op = "invalidate" /\ candidates' = candidates \ {tip}
    BY <1>11, Zenon DEF InvalidateDisconnect, counts
  <2> QED  BY <1>1, <2>1 DEF TipOnly, Resting, Sound
<1>12. CASE InvalidateDone
  BY <1>1, <1>12 DEF InvalidateDone
<1>13. ASSUME NEW b \in Blocks, ReconsiderBlock(b) PROVE FALSE
  BY <1>1, <1>13, Zenon DEF ReconsiderBlock
<1>14. CASE Crash \/ StopAndRestart
  <2>1. abc' = {"init"}
    BY <1>14, Zenon DEF Crash, StopAndRestart, LoadBlockIndexDB
  <2> QED  BY <1>1, <2>1
<1>15. CASE LeaveIBD \/ Halted
  <2>1. UNCHANGED <<chain, act, abc, stalled, mode, restarts>>
    BY <1>15, Zenon DEF LeaveIBD, Halted, vars, counts
  <2> QED  BY <1>1, <1>3, <2>1 DEF chain
<1> QED  BY <1>4, <1>5, <1>6, <1>7, <1>8, <1>9, <1>10, <1>11, <1>12, <1>13, <1>14, <1>15,
            Zenon DEF Next, Network, Activation, RPC

=============================================================================
