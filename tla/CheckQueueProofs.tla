-------------------------- MODULE CheckQueueProofs --------------------------
(***************************************************************************)
(* The safety of CheckQueue for any number of workers, any blocks of       *)
(* checks and any batch size.                                              *)
(*                                                                         *)
(* The invariants a caller cares about (WaitVerdict, NoStragglers) are not *)
(* inductive: they need nTodo to count exactly the pending checks          *)
(* (TodoExact), which needs the batches to be disjoint, and they need the  *)
(* partial verdicts - fAllOk, and fOk of every thread holding a batch - to *)
(* be right about the checks no longer pending.                            *)
(***************************************************************************)
EXTENDS CheckQueue, FiniteSetTheorems, TLAPS

InLoopPCs == {"run", "ran", "wait", "woken"}
WaitPCs == {"wait", "woken"}

(* Threads other than t in Loop, and those of them waiting.                *)
InLoopBut(t) == {u \in Threads : u # t /\ pc[u] \in InLoopPCs}
WaitingBut(t) == {u \in Threads : u # t /\ pc[u] \in WaitPCs}
InLoop == {u \in Threads : pc[u] \in InLoopPCs}
Waiting == {u \in Threads : pc[u] \in WaitPCs}

(* The pending checks, leaving out the batch of t.                         *)
PendingBut(t) ==
    {c \in Checks : c \in queue \/ \E u \in Threads : u # t /\ c \in vChecks[u]}

(* A check is pending in one place only, and only threads between taking   *)
(* and cleaning up a batch hold one.                                       *)
Batches ==
    /\ \A t \in Threads : \A c \in vChecks[t] : c \notin queue
    /\ \A t, u \in Threads : t # u => \A c \in vChecks[t] : c \notin vChecks[u]
    /\ \A t \in Threads : vChecks[t] # {} <=> pc[t] \in {"run", "ran"}

Roles ==
    /\ pc[Master] # "dead"
    /\ \A t \in Workers : pc[t] \notin {"out", "add", "left"}

Counters ==
    /\ nIdle >= Cardinality(Waiting)
    /\ nTotal >= Cardinality(InLoop)

(* fAllOk speaks for the checks added and no longer pending, fOk[t] for    *)
(* those of t's batch once it has been executed.                           *)
PartialVerdicts ==
    /\ Pending \subseteq added
    /\ fAllOk /\ pc[Master] \notin {"out", "left"} =>
          \A c \in added : c \notin Pending => c \in Good
    /\ ~fAllOk => ~(added \subseteq Good)
    /\ \A t \in Threads : pc[t] \in {"run", "ran"} /\ ~fOk[t] =>
          ~(added \subseteq Good)
    /\ \A t \in Threads : pc[t] = "ran" /\ fOk[t] => vChecks[t] \subseteq Good

Quiet == pc[Master] \in {"left", "out"} => Pending = {} /\ fAllOk

IInv ==
    /\ TypeOK
    /\ Batches
    /\ Roles
    /\ TodoExact
    /\ Counters
    /\ PartialVerdicts
    /\ Quiet
    /\ WaitVerdict

-----------------------------------------------------------------------------
LEMMA ThreadsFinite == IsFiniteSet(Threads)
  BY ConstantsAssumption, FS_AddElement DEF Threads

(* Every set of checks or of threads the invariant counts is finite.       *)
LEMMA CountedSetsFinite ==
  /\ \A S : S \subseteq Checks => IsFiniteSet(S) /\ Cardinality(S) \in Nat
  /\ \A S : S \subseteq Threads => IsFiniteSet(S) /\ Cardinality(S) \in Nat
  <1>1. \A S : S \subseteq Checks => IsFiniteSet(S)
    BY ConstantsAssumption, FS_Subset
  <1>2. \A S : S \subseteq Threads => IsFiniteSet(S)
    BY ThreadsFinite, FS_Subset
  <1> QED
    BY <1>1, <1>2, FS_CardinalityType

(* The part of Loop after the clean-up keeps the invariant, provided the   *)
(* values handed to it account for everything but t's own batch.           *)
LEMMA LoopBodyStep ==
  ASSUME IInv,
         NEW t \in Threads, pc[t] \in {"start", "ran", "woken"},
         NEW p \in [Threads -> PCs],
         \A u \in Threads : u # t =>
            p[u] = pc[u] \/ (pc[u] = "wait" /\ p[u] = "woken"),
         NEW idle \in Nat, idle >= Cardinality(WaitingBut(t)),
         NEW total \in Nat, total >= Cardinality(InLoopBut(t)) + 1,
         NEW todo \in Nat, todo = Cardinality(PendingBut(t)),
         NEW ok \in BOOLEAN,
         ok /\ pc[Master] \notin {"out", "left"} =>
            \A c \in added : c \notin PendingBut(t) => c \in Good,
         ~ok => ~(added \subseteq Good),
         pc[Master] \in {"out", "left"} => ok,
         LoopBody(t, p, idle, total, todo, ok)
  PROVE  IInv'
  <1> USE DEF IInv, TypeOK
  <1>fin. /\ Cardinality(WaitingBut(t)) \in Nat
          /\ Cardinality(InLoopBut(t)) \in Nat
          /\ IsFiniteSet(WaitingBut(t))
          /\ IsFiniteSet(InLoopBut(t))
          /\ IsFiniteSet(PendingBut(t))
    BY CountedSetsFinite DEF WaitingBut, InLoopBut, PendingBut
  <1>same. \A u \in Threads : u # t => p[u] \in WaitPCs <=> pc[u] \in WaitPCs
    BY DEF WaitPCs
  <1>1. CASE Done(t, todo) /\ Return(t, p, idle, total, ok)
    <2>1. PendingBut(t) = {}
      BY <1>1, <1>fin, FS_EmptySet, Zenon DEF Done
    <2>2. Pending' = {}
      BY <1>1, <2>1 DEF Pending, PendingBut, Return, Done
    <2>3. t = Master /\ pc'[Master] = "left"
      BY <1>1 DEF Done, Return, Threads
    <2>4. Waiting' = WaitingBut(t) /\ InLoop' = InLoopBut(t)
      BY <1>1, <1>same DEF Waiting, WaitingBut, InLoop, InLoopBut, WaitPCs,
         InLoopPCs, Return
    <2>5a. TypeOK'
      BY <1>1, <1>fin DEF LoopBody, Return, PCs
    <2>5. Roles'
      BY <1>1, ConstantsAssumption DEF Return, Done, Roles, Threads
    <2>6. Batches'
      BY <1>1 DEF Batches, Return
    <2>7. TodoExact' /\ Quiet'
      BY <1>1, <2>2, FS_EmptySet DEF TodoExact, Quiet, LoopBody, Return, Done
    <2>8. Counters'
      BY <1>1, <1>fin, <2>4 DEF Counters, Return
    <2>9. WaitVerdict'
      BY <1>1, <2>1, <2>3 DEF WaitVerdict, Return, LoopBody, Done
    <2>10. PartialVerdicts'
      BY <1>1, <2>2, <2>3 DEF PartialVerdicts, Return, LoopBody
    <2> QED
      BY <2>5a, <2>5, <2>6, <2>7, <2>8, <2>9, <2>10
  <1>2. CASE queue = {} /\ ~Done(t, todo) /\ Sleep(t, p, idle, total, ok)
    <2>1. Pending' = PendingBut(t)
      BY <1>2 DEF Pending, PendingBut, Sleep
    <2>2. Waiting' = WaitingBut(t) \cup {t} /\ InLoop' = InLoopBut(t) \cup {t}
      BY <1>2, <1>same DEF Waiting, WaitingBut, InLoop, InLoopBut, WaitPCs,
         InLoopPCs, Sleep
    <2>3a. TypeOK'
      BY <1>2 DEF LoopBody, Sleep, PCs
    <2>3. Roles'
      BY <1>2, ConstantsAssumption DEF Sleep, Roles, Threads
    <2>4. Batches'
      BY <1>2 DEF Batches, Sleep
    <2>5. TodoExact'
      BY <1>2, <2>1 DEF TodoExact, LoopBody
    <2>6. Counters'
      <3>1. t \notin WaitingBut(t) /\ t \notin InLoopBut(t)
        BY DEF WaitingBut, InLoopBut
      <3>2. /\ Cardinality(Waiting') = Cardinality(WaitingBut(t)) + 1
            /\ Cardinality(InLoop') = Cardinality(InLoopBut(t)) + 1
        BY <2>2, <3>1, <1>fin, FS_AddElement, Zenon
      <3> QED
        BY <1>2, <1>fin, <3>2 DEF Counters, Sleep
    <2>7. pc'[Master] \in {"left", "out"} <=>
             t # Master /\ pc[Master] \in {"left", "out"}
      BY <1>2 DEF Sleep, Threads
    <2>8. Quiet' /\ WaitVerdict'
      <3>1. Pending' \subseteq Pending
        BY <2>1 DEF Pending, PendingBut
      <3>2. Quiet'
        BY <1>2, <2>7, <3>1 DEF Quiet, Sleep
      <3>3. pc'[Master] = "left" => pc[Master] = "left"
        BY <1>2 DEF Sleep, Threads
      <3> QED
        BY <1>2, <3>2, <3>3 DEF WaitVerdict, Sleep, LoopBody
    <2>9. PartialVerdicts'
      <3>1. Pending' \subseteq Pending
        BY <2>1 DEF Pending, PendingBut
      <3> QED
        BY <1>2, <2>1, <2>7, <3>1 DEF PartialVerdicts, Sleep, LoopBody
    <2> QED
      BY <2>3a, <2>3, <2>4, <2>5, <2>6, <2>8, <2>9
  <1>3. CASE queue # {} /\ TakeBatch(t, p, idle, total, ok)
    <2>1. PICK batch \in SUBSET queue :
             /\ Cardinality(batch) = nNow(total, idle)
             /\ vChecks' = [vChecks EXCEPT ![t] = batch]
             /\ queue' = queue \ batch
      BY <1>3, Zenon DEF TakeBatch
    <2>1a. batch # {}
      <3>1. Cardinality(queue) \in Nat
        BY CountedSetsFinite
      <3>2. nNow(total, idle) # 0
        BY <3>1, ConstantsAssumption DEF nNow
      <3> QED
        BY <2>1, <3>2, FS_EmptySet
    <2>2. Pending' = PendingBut(t)
      BY <2>1 DEF Pending, PendingBut
    <2>3. Waiting' = WaitingBut(t) /\ InLoop' = InLoopBut(t) \cup {t}
      BY <1>3, <1>same DEF Waiting, WaitingBut, InLoop, InLoopBut, WaitPCs,
         InLoopPCs, TakeBatch
    <2>4a. TypeOK'
      BY <1>3, <2>1 DEF LoopBody, TakeBatch, PCs
    <2>4. Roles'
      BY <1>3, ConstantsAssumption DEF TakeBatch, Roles, Threads
    <2>5. Batches'
      BY <1>3, <2>1, <2>1a DEF Batches, TakeBatch
    <2>6. TodoExact'
      BY <2>2 DEF TodoExact, LoopBody
    <2>7. Counters'
      <3>1. t \notin InLoopBut(t)
        BY DEF InLoopBut
      <3>2. Cardinality(InLoop') = Cardinality(InLoopBut(t)) + 1
        BY <2>3, <3>1, <1>fin, FS_AddElement, Zenon
      <3> QED
        BY <1>3, <1>fin, <2>3, <3>2 DEF Counters, TakeBatch
    <2>8. pc[Master] \notin {"left", "out"} /\ pc'[Master] \notin {"left", "out"}
      <3>1. Pending # {}
        BY <1>3 DEF Pending
      <3> QED
        BY <1>3, <3>1 DEF Quiet, TakeBatch, Threads
    <2>9. Quiet' /\ WaitVerdict'
      BY <2>8 DEF Quiet, WaitVerdict
    <2>10. PartialVerdicts'
      <3>1. Pending' \subseteq Pending
        BY <2>2 DEF Pending, PendingBut
      <3> QED
        BY <1>3, <2>1, <2>2, <2>8, <3>1 DEF PartialVerdicts, TakeBatch, LoopBody
    <2> QED
      BY <2>4a, <2>4, <2>5, <2>6, <2>7, <2>9, <2>10
  <1> QED
    BY <1>1, <1>2, <1>3 DEF LoopBody

-----------------------------------------------------------------------------
(* What t's own batch and waiting contribute to the counters.              *)
LEMMA OwnShare ==
  ASSUME IInv, NEW t \in Threads
  PROVE  /\ pc[t] \in WaitPCs =>
               Cardinality(Waiting) = Cardinality(WaitingBut(t)) + 1
         /\ pc[t] \notin WaitPCs => Waiting = WaitingBut(t)
         /\ pc[t] \in InLoopPCs =>
               Cardinality(InLoop) = Cardinality(InLoopBut(t)) + 1
         /\ pc[t] \notin InLoopPCs => InLoop = InLoopBut(t)
         /\ Cardinality(Pending) = Cardinality(PendingBut(t)) + Cardinality(vChecks[t])
         /\ Cardinality(WaitingBut(t)) \in Nat
         /\ Cardinality(InLoopBut(t)) \in Nat
         /\ Cardinality(PendingBut(t)) \in Nat
         /\ Cardinality(vChecks[t]) \in Nat
  <1>1. /\ WaitingBut(t) \subseteq Threads
        /\ InLoopBut(t) \subseteq Threads
        /\ PendingBut(t) \subseteq Checks
        /\ vChecks[t] \subseteq Checks
    BY DEF WaitingBut, InLoopBut, PendingBut, IInv, TypeOK
  <1>2. /\ IsFiniteSet(WaitingBut(t)) /\ Cardinality(WaitingBut(t)) \in Nat
        /\ IsFiniteSet(InLoopBut(t)) /\ Cardinality(InLoopBut(t)) \in Nat
        /\ IsFiniteSet(PendingBut(t)) /\ Cardinality(PendingBut(t)) \in Nat
        /\ IsFiniteSet(vChecks[t]) /\ Cardinality(vChecks[t]) \in Nat
    BY <1>1, CountedSetsFinite
  <1>3. pc[t] \in WaitPCs => Waiting = WaitingBut(t) \cup {t}
    BY DEF Waiting, WaitingBut
  <1>4. pc[t] \notin WaitPCs => Waiting = WaitingBut(t)
    BY DEF Waiting, WaitingBut
  <1>5. pc[t] \in InLoopPCs => InLoop = InLoopBut(t) \cup {t}
    BY DEF InLoop, InLoopBut
  <1>6. pc[t] \notin InLoopPCs => InLoop = InLoopBut(t)
    BY DEF InLoop, InLoopBut
  <1>7. t \notin WaitingBut(t) /\ t \notin InLoopBut(t)
    BY DEF WaitingBut, InLoopBut
  <1>8. Pending = PendingBut(t) \cup vChecks[t] /\ PendingBut(t) \cap vChecks[t] = {}
    BY DEF Pending, PendingBut, IInv, TypeOK, Batches
  <1>9. Cardinality(Pending) = Cardinality(PendingBut(t)) + Cardinality(vChecks[t])
    <2>1. Cardinality(PendingBut(t) \cap vChecks[t]) = 0
      BY <1>8, FS_EmptySet
    <2>2. Cardinality(PendingBut(t) \cup vChecks[t]) =
            Cardinality(PendingBut(t)) + Cardinality(vChecks[t])
            - Cardinality(PendingBut(t) \cap vChecks[t])
      BY <1>2, FS_Union
    <2> QED
      BY <1>2, <1>8, <2>1, <2>2
  <1> QED
    BY <1>2, <1>3, <1>4, <1>5, <1>6, <1>7, <1>9, FS_AddElement, Zenon

(* A thread without a batch leaves the pending checks as they are.         *)
LEMMA NoBatch ==
  ASSUME IInv, NEW t \in Threads, pc[t] \notin {"run", "ran"}
  PROVE  vChecks[t] = {} /\ PendingBut(t) = Pending
  BY DEF IInv, Batches, Pending, PendingBut, TypeOK

LEMMA FirstIterationStep ==
  ASSUME IInv, NEW t \in Threads, FirstIteration(t)
  PROVE  IInv'
  <1>1. /\ WaitingBut(t) = Waiting
        /\ InLoopBut(t) = InLoop
        /\ PendingBut(t) = Pending
    BY OwnShare, NoBatch DEF FirstIteration, WaitPCs, InLoopPCs
  <1>2. LoopBody(t, pc, nIdle, nTotal + 1, nTodo, fAllOk)
    BY DEF FirstIteration
  <1>3. /\ pc \in [Threads -> PCs] /\ fAllOk \in BOOLEAN
        /\ nIdle \in Nat /\ nIdle >= Cardinality(WaitingBut(t))
        /\ nTotal + 1 \in Nat /\ nTotal + 1 >= Cardinality(InLoopBut(t)) + 1
        /\ nTodo \in Nat /\ nTodo = Cardinality(PendingBut(t))
    BY <1>1, OwnShare DEF IInv, TypeOK, Counters, TodoExact
  <1>4. /\ fAllOk /\ pc[Master] \notin {"out", "left"} =>
              \A c \in added : c \notin PendingBut(t) => c \in Good
        /\ ~fAllOk => ~(added \subseteq Good)
        /\ pc[Master] \in {"out", "left"} => fAllOk
    BY <1>1 DEF IInv, PartialVerdicts, Quiet
  <1>5. pc[t] \in {"start", "ran", "woken"}
    BY DEF FirstIteration
  <1> HIDE DEF IInv
  <1> QED
    BY <1>2, <1>3, <1>4, <1>5, LoopBodyStep

LEMMA WakeUpStep ==
  ASSUME IInv, NEW t \in Threads, WakeUp(t)
  PROVE  IInv'
  <1>1. /\ Cardinality(Waiting) = Cardinality(WaitingBut(t)) + 1
        /\ Cardinality(InLoop) = Cardinality(InLoopBut(t)) + 1
        /\ PendingBut(t) = Pending
    BY OwnShare, NoBatch DEF WakeUp, WaitPCs, InLoopPCs
  <1>2. LoopBody(t, pc, nIdle - 1, nTotal, nTodo, fAllOk)
    BY DEF WakeUp
  <1>3. /\ pc \in [Threads -> PCs] /\ fAllOk \in BOOLEAN
        /\ nIdle - 1 \in Nat /\ nIdle - 1 >= Cardinality(WaitingBut(t))
        /\ nTotal \in Nat /\ nTotal >= Cardinality(InLoopBut(t)) + 1
        /\ nTodo \in Nat /\ nTodo = Cardinality(PendingBut(t))
    BY <1>1, OwnShare DEF IInv, TypeOK, Counters, TodoExact
  <1>4. /\ fAllOk /\ pc[Master] \notin {"out", "left"} =>
              \A c \in added : c \notin PendingBut(t) => c \in Good
        /\ ~fAllOk => ~(added \subseteq Good)
        /\ pc[Master] \in {"out", "left"} => fAllOk
    BY <1>1 DEF IInv, PartialVerdicts, Quiet
  <1>5. pc[t] \in {"start", "ran", "woken"}
    BY DEF WakeUp
  <1> QED
    BY <1>2, <1>3, <1>4, <1>5, LoopBodyStep

LEMMA CleanUpStep ==
  ASSUME IInv, NEW t \in Threads, CleanUp(t)
  PROVE  IInv'
  <1> DEFINE todo == nTodo - Cardinality(vChecks[t])
             p == IF todo = 0 /\ t # Master THEN NotifyMaster(pc) ELSE pc
             ok == fAllOk /\ fOk[t]
  <1>1. /\ Cardinality(InLoop) = Cardinality(InLoopBut(t)) + 1
        /\ Waiting = WaitingBut(t)
    BY OwnShare DEF CleanUp, WaitPCs, InLoopPCs
  <1>2. LoopBody(t, p, nIdle, nTotal, todo, ok)
    BY DEF CleanUp
  <1>3. /\ p \in [Threads -> PCs]
        /\ \A u \in Threads : u # t =>
              p[u] = pc[u] \/ (pc[u] = "wait" /\ p[u] = "woken")
    BY Zenon DEF IInv, TypeOK, NotifyMaster, PCs
  <1>4. /\ nIdle \in Nat /\ nIdle >= Cardinality(WaitingBut(t))
        /\ nTotal \in Nat /\ nTotal >= Cardinality(InLoopBut(t)) + 1
        /\ todo \in Nat /\ todo = Cardinality(PendingBut(t))
    BY <1>1, OwnShare DEF IInv, TypeOK, Counters, TodoExact
  <1>5. \A c \in Checks : c \in Pending => c \in PendingBut(t) \/ c \in vChecks[t]
    BY DEF Pending, PendingBut
  <1>6. pc[t] = "ran"
    BY DEF CleanUp
  <1>7. /\ ok /\ pc[Master] \notin {"out", "left"} =>
              \A c \in added : c \notin PendingBut(t) => c \in Good
        /\ ~ok => ~(added \subseteq Good)
    BY <1>5, <1>6 DEF IInv, TypeOK, PartialVerdicts
  <1>8. pc[Master] \in {"out", "left"} => ok
    <2> SUFFICES ASSUME pc[Master] \in {"out", "left"} PROVE ok
      OBVIOUS
    <2>1. Pending = {} /\ fAllOk
      BY DEF IInv, Quiet
    <2>2. CASE fOk[t]
      BY <2>1, <2>2
    <2>3. CASE ~fOk[t]
      BY <2>1, <1>5, <1>6 DEF IInv, TypeOK, Batches, Pending
    <2> QED
      BY <2>2, <2>3
  <1>9. ok \in BOOLEAN
    BY DEF IInv, TypeOK
  <1> HIDE DEF p, todo, ok
  <1> QED
    BY <1>2, <1>3, <1>4, <1>6, <1>7, <1>8, <1>9, LoopBodyStep

LEMMA ExecuteStep ==
  ASSUME IInv, NEW t \in Threads, Execute(t)
  PROVE  IInv'
  <1> USE DEF IInv, Execute
  <1>1. TypeOK' /\ Roles'
    BY DEF TypeOK, Roles, PCs
  <1>2. Pending' = Pending /\ Waiting' = Waiting /\ InLoop' = InLoop
    BY DEF TypeOK, Pending, Waiting, InLoop, WaitPCs, InLoopPCs
  <1>3. Batches' /\ TodoExact' /\ Counters'
    BY <1>2 DEF TypeOK, Batches, TodoExact, Counters
  <1>4. pc[Master] \in {"left", "out"} <=> pc'[Master] \in {"left", "out"}
    BY DEF TypeOK, Threads
  <1>5. Quiet' /\ WaitVerdict'
    BY <1>2, <1>4 DEF TypeOK, Quiet, WaitVerdict, Threads
  <1>6. ~(vChecks[t] \subseteq Good) => ~(added \subseteq Good)
    BY DEF TypeOK, PartialVerdicts, Pending
  <1>7. PartialVerdicts'
    BY <1>2, <1>4, <1>6, Zenon DEF TypeOK, PartialVerdicts
  <1> QED
    BY <1>1, <1>3, <1>5, <1>7

(* Add: the new checks are queued, counted and become pending.             *)
LEMMA AddStep ==
  ASSUME IInv, NEW new \in SUBSET (Checks \ added), Add(new)
  PROVE  IInv'
  <1> USE DEF IInv
  <1>1. /\ pc' \in [Threads -> PCs]
        /\ \A t \in Threads :
              pc'[t] = pc[t] \/ (t \in Workers /\ pc[t] = "wait" /\ pc'[t] = "woken")
    BY DEF Add, NotifyOneWorker, NotifyWorkers, TypeOK, PCs, Threads
  <1>2. Cardinality(new) \in Nat /\ IsFiniteSet(new)
    BY CountedSetsFinite
  <1>3. TypeOK' /\ Roles'
    BY <1>1, <1>2, ConstantsAssumption DEF Add, TypeOK, Roles, Threads
  <1>4. Pending' = Pending \cup new /\ Pending \cap new = {}
    BY DEF Add, TypeOK, Pending, PartialVerdicts
  <1>5. Waiting' = Waiting /\ InLoop' = InLoop
    BY <1>1 DEF Waiting, InLoop, WaitPCs, InLoopPCs
  <1>6. Batches' /\ Counters'
    BY <1>1, <1>5 DEF Add, TypeOK, Batches, Counters, PartialVerdicts, Pending
  <1>7. TodoExact'
    <2>1. IsFiniteSet(Pending) /\ Cardinality(Pending) \in Nat
      BY CountedSetsFinite DEF Pending
    <2>2. Cardinality(Pending \cap new) = 0
      BY <1>4, FS_EmptySet
    <2>3. Cardinality(Pending \cup new) =
             Cardinality(Pending) + Cardinality(new) - Cardinality(Pending \cap new)
      BY <1>2, <2>1, FS_Union
    <2> QED
      BY <1>2, <1>4, <2>1, <2>2, <2>3 DEF TodoExact, Add
  <1>8. pc[Master] = "add" /\ pc'[Master] = "add"
    BY <1>1 DEF Add, Threads
  <1>9. Quiet' /\ WaitVerdict'
    BY <1>8 DEF Quiet, WaitVerdict
  <1>10. PartialVerdicts'
    BY <1>1, <1>4, <1>8 DEF PartialVerdicts, Add, TypeOK
  <1> QED
    BY <1>3, <1>6, <1>7, <1>9, <1>10

(* Steps that move threads between phases in which they hold no batch.     *)
LEMMA OtherSteps ==
  ASSUME IInv,
         \/ Control \/ Wait \/ Destroy \/ InterruptAll
         \/ \E t \in Threads : Interrupted(t) \/ SpuriousWakeUp(t)
  PROVE  IInv'
  <1> USE DEF IInv, TypeOK
  <1>1. CASE Control
    <2>1. Pending' = Pending /\ Waiting' = Waiting /\ InLoop' = InLoop
      BY <1>1 DEF Control, Pending, Waiting, InLoop, WaitPCs, InLoopPCs
    <2>2. TypeOK' /\ Roles' /\ Batches' /\ TodoExact' /\ Counters'
      BY <1>1, <2>1, ConstantsAssumption
         DEF Control, Roles, Batches, TodoExact, Counters, PCs, Threads
    <2>3. Pending = {} /\ fAllOk /\ pc'[Master] = "add"
      BY <1>1 DEF Control, Quiet, Threads
    <2>4. \A t \in Threads : pc'[t] \notin {"run", "ran"}
      BY <1>1, <2>3 DEF Control, Pending, Batches
    <2>5. Quiet' /\ WaitVerdict' /\ PartialVerdicts'
      BY <1>1, <2>1, <2>3, <2>4 DEF Control, Quiet, WaitVerdict, PartialVerdicts
    <2> QED
      BY <2>2, <2>5
  <1>2. CASE Wait
    <2>1. Pending' = Pending /\ Waiting' = Waiting /\ InLoop' = InLoop
      BY <1>2 DEF Wait, Pending, Waiting, InLoop, WaitPCs, InLoopPCs
    <2>2. TypeOK' /\ Roles' /\ Batches' /\ TodoExact' /\ Counters'
      BY <1>2, <2>1, ConstantsAssumption
         DEF Wait, Roles, Batches, TodoExact, Counters, PCs, Threads
    <2>3. Quiet' /\ WaitVerdict' /\ PartialVerdicts'
      BY <1>2, <2>1 DEF Wait, Quiet, WaitVerdict, PartialVerdicts, Threads
    <2> QED
      BY <2>2, <2>3
  <1>3. CASE Destroy
    <2>1. Pending' = Pending /\ Waiting' = Waiting /\ InLoop' = InLoop
      BY <1>3 DEF Destroy, Pending, Waiting, InLoop, WaitPCs, InLoopPCs
    <2>2. TypeOK' /\ Roles' /\ Batches' /\ TodoExact' /\ Counters'
      BY <1>3, <2>1, ConstantsAssumption
         DEF Destroy, Roles, Batches, TodoExact, Counters, PCs, Threads
    <2>3. Quiet' /\ WaitVerdict' /\ PartialVerdicts'
      BY <1>3, <2>1 DEF Destroy, Quiet, WaitVerdict, PartialVerdicts, Threads
    <2> QED
      BY <2>2, <2>3
  <1>4. CASE InterruptAll
    <2>1. Pending' = Pending /\ Waiting' = Waiting /\ InLoop' = InLoop
      BY <1>4 DEF InterruptAll, Pending, Waiting, InLoop
    <2> QED
      BY <1>4, <2>1 DEF InterruptAll, Roles, Batches, TodoExact, Counters,
         Quiet, WaitVerdict, PartialVerdicts, Threads
  <1>5. ASSUME NEW t \in Threads, SpuriousWakeUp(t) PROVE IInv'
    <2>1. Pending' = Pending /\ Waiting' = Waiting /\ InLoop' = InLoop
      BY <1>5 DEF SpuriousWakeUp, Pending, Waiting, InLoop, WaitPCs, InLoopPCs
    <2>2. TypeOK' /\ Roles' /\ Batches' /\ TodoExact' /\ Counters'
      BY <1>5, <2>1
         DEF SpuriousWakeUp, Roles, Batches, TodoExact, Counters, PCs, Threads
    <2>3. Quiet' /\ WaitVerdict' /\ PartialVerdicts'
      BY <1>5, <2>1 DEF SpuriousWakeUp, Quiet, WaitVerdict, PartialVerdicts, Threads
    <2> QED
      BY <2>2, <2>3
  <1>6. ASSUME NEW t \in Threads, Interrupted(t) PROVE IInv'
    <2>1. Pending' = Pending /\ Waiting' \subseteq Waiting /\ InLoop' \subseteq InLoop
      BY <1>6 DEF Interrupted, Pending, Waiting, InLoop, WaitPCs, InLoopPCs
    <2>2. TypeOK' /\ Roles' /\ Batches' /\ TodoExact'
      BY <1>6, <2>1
         DEF Interrupted, Roles, Batches, TodoExact, PCs, Threads
    <2>3. Counters'
      <3>1. IsFiniteSet(Waiting) /\ IsFiniteSet(InLoop)
        BY CountedSetsFinite DEF Waiting, InLoop
      <3>2. /\ Cardinality(Waiting') <= Cardinality(Waiting)
            /\ Cardinality(InLoop') <= Cardinality(InLoop)
        BY <2>1, <3>1, FS_Subset
      <3>3. /\ Cardinality(Waiting) \in Nat /\ Cardinality(Waiting') \in Nat
            /\ Cardinality(InLoop) \in Nat /\ Cardinality(InLoop') \in Nat
        BY CountedSetsFinite DEF Waiting, InLoop
      <3> QED
        BY <1>6, <3>2, <3>3 DEF Counters, Interrupted
    <2>4. Quiet' /\ WaitVerdict' /\ PartialVerdicts'
      BY <1>6, <2>1 DEF Interrupted, Quiet, WaitVerdict, PartialVerdicts, Threads
    <2> QED
      BY <2>2, <2>3, <2>4
  <1> QED
    BY <1>1, <1>2, <1>3, <1>4, <1>5, <1>6

-----------------------------------------------------------------------------
(* The strengthened invariant holds in every reachable state of the pool.  *)
THEOREM CheckQueueInvariant == Spec => []IInv
  <1>1. Init => IInv
    <2> SUFFICES ASSUME Init PROVE IInv
      OBVIOUS
    <2>1. Pending = {} /\ Waiting = {} /\ InLoop = {}
      BY DEF Init, Pending, Waiting, InLoop, WaitPCs, InLoopPCs
    <2>2. TypeOK /\ Batches /\ Roles
      BY ConstantsAssumption DEF Init, TypeOK, Batches, Roles, PCs, Threads
    <2>3. TodoExact /\ Counters
      BY <2>1, FS_EmptySet DEF Init, TodoExact, Counters
    <2>4. Quiet /\ WaitVerdict /\ PartialVerdicts
      BY <2>1 DEF Init, Quiet, WaitVerdict, PartialVerdicts, Threads
    <2> QED
      BY <2>2, <2>3, <2>4 DEF IInv
  <1>2. IInv /\ [Next]_vars => IInv'
    <2> SUFFICES ASSUME IInv, [Next]_vars PROVE IInv'
      OBVIOUS
    <2>1. CASE Next
      BY <2>1, FirstIterationStep, CleanUpStep, WakeUpStep, ExecuteStep, AddStep,
         OtherSteps, SMTT(30) DEF Next, ThreadStep
    <2>2. CASE UNCHANGED vars
      BY <2>2 DEF vars, IInv, TypeOK, Batches, Roles, TodoExact, Counters, Quiet,
         WaitVerdict, PartialVerdicts, Pending, Waiting, InLoop
    <2> QED
      BY <2>1, <2>2
  <1> QED
    BY <1>1, <1>2, PTL DEF Spec

(* The counters of CCheckQueue never go negative.                          *)
THEOREM CheckQueueTypeOK == Spec => []TypeOK
  BY CheckQueueInvariant, PTL DEF IInv

(* Wait's verdict is right: true exactly if every check added under the    *)
(* control object succeeds.                                                *)
THEOREM CheckQueueVerdict == Spec => []WaitVerdict
  BY CheckQueueInvariant, PTL DEF IInv

(* nTodo is exact.                                                         *)
THEOREM CheckQueueTodo == Spec => []TodoExact
  BY CheckQueueInvariant, PTL DEF IInv

(* No check is queued or held by a thread once the control object is gone. *)
THEOREM CheckQueueNoStragglers == Spec => []NoStragglers
  <1>1. IInv => NoStragglers
    BY DEF IInv, Quiet, NoStragglers
  <1> QED
    BY <1>1, CheckQueueInvariant, PTL

=============================================================================
