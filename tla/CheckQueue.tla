----------------------------- MODULE CheckQueue -----------------------------
(***************************************************************************)
(* CCheckQueue and CCheckQueueControl (src/src/checkqueue.h): the pool of  *)
(* script-verification threads that ConnectBlock feeds.  One master (the   *)
(* thread connecting a block) adds checks, then joins the workers until    *)
(* every check is accounted for and takes the verdict.                     *)
(*                                                                         *)
(* What happens under `mutex' is one atomic step; the checks of a batch    *)
(* run outside it, in a step of their own.  `queue' is a set: the code     *)
(* keeps a LIFO vector and says that "the order of booleans doesn't        *)
(* matter", so a batch is any nNow queued checks.  A condition variable is *)
(* the set of threads whose pc is "wait"; a wakeup may be spurious.        *)
(***************************************************************************)
EXTENDS Integers, FiniteSets

CONSTANTS
    Workers,     \* the nScriptCheckThreads - 1 threads running Thread()
    Master,      \* the thread that owns the CCheckQueueControl
    Checks,      \* identities of the checks of a block
    Good,        \* the checks whose operator() returns true
    nBatchSize   \* largest batch a thread takes at once (128 in main.cpp)

ASSUME ConstantsAssumption ==
    /\ Master \notin Workers
    /\ IsFiniteSet(Workers)
    /\ IsFiniteSet(Checks)
    /\ Good \subseteq Checks
    /\ nBatchSize \in Nat \ {0}

Threads == Workers \cup {Master}

VARIABLES
    queue,        \* checks not yet taken by any thread
    nIdle,        \* threads counted as idle
    nTotal,       \* threads counted as being inside Loop
    nTodo,        \* verifications that have not completed yet
    fAllOk,       \* the temporary evaluation result
    pc,           \* where each thread is in Loop (or around it)
    vChecks,      \* the batch a thread took (kept until it is cleaned up)
    fOk,          \* the thread's local verdict on its batch
    interrupted,  \* threads with a pending boost interruption
    added,        \* history: checks added under the present control object
    fRet          \* what the master's last Wait returned

vars == <<queue, nIdle, nTotal, nTodo, fAllOk, pc, vChecks, fOk,
          interrupted, added, fRet>>

(* "out": no control object.  "add": control constructed.  "start": about  *)
(* to enter Loop.  "run"/"ran": holds a batch not yet / already executed.  *)
(* "wait"/"woken": inside cond.wait, not yet / already notified.  "left":  *)
(* the master's Wait returned.  "dead": the worker was interrupted.        *)
PCs == {"out", "add", "start", "run", "ran", "wait", "woken", "left", "dead"}

Init ==
    /\ queue = {}
    /\ nIdle = 0
    /\ nTotal = 0
    /\ nTodo = 0
    /\ fAllOk = TRUE
    /\ pc = [t \in Threads |-> IF t = Master THEN "out" ELSE "start"]
    /\ vChecks = [t \in Threads |-> {}]
    /\ fOk = [t \in Threads |-> TRUE]
    /\ interrupted = {}
    /\ added = {}
    /\ fRet = TRUE

-----------------------------------------------------------------------------
(* notify_one on condMaster: only the master ever waits on it.             *)
NotifyMaster(p) ==
    IF p[Master] = "wait" THEN [p EXCEPT ![Master] = "woken"] ELSE p

(* notify_all on condWorker.                                               *)
NotifyWorkers(p) ==
    [t \in Threads |-> IF t \in Workers /\ p[t] = "wait" THEN "woken" ELSE p[t]]

(* The results of notify_one on condWorker: some waiter is woken, if any.  *)
NotifyOneWorker(p) ==
    LET waiters == {t \in Workers : p[t] = "wait"}
    IN  IF waiters = {} THEN {p} ELSE {[p EXCEPT ![t] = "woken"] : t \in waiters}

(* How many checks a thread takes, with `total' and `idle' threads counted. *)
nNow(total, idle) ==
    LET share == Cardinality(queue) \div (total + idle + 1)
        capped == IF share < nBatchSize THEN share ELSE nBatchSize
    IN  IF capped < 1 THEN 1 ELSE capped

(* Mutant: the master leaves as soon as the queue is empty, not when the   *)
(* batches of the other threads are accounted for.                         *)
Done_QueueEmpty(t, todo) == queue = {} /\ t = Master

(* The condition for leaving Loop.  fQuit is initialised to false and      *)
(* never assigned, so only the master leaves.                              *)
Done(t, todo) == queue = {} /\ t = Master /\ todo = 0

Return(t, p, idle, total, ok) ==
    /\ nTotal' = total - 1
    /\ nIdle' = idle
    /\ fRet' = ok
    /\ fAllOk' = TRUE
    /\ pc' = [p EXCEPT ![t] = "left"]
    /\ vChecks' = [vChecks EXCEPT ![t] = {}]
    /\ UNCHANGED <<queue, fOk>>

Sleep(t, p, idle, total, ok) ==
    /\ nIdle' = idle + 1
    /\ nTotal' = total
    /\ fAllOk' = ok
    /\ pc' = [p EXCEPT ![t] = "wait"]
    /\ vChecks' = [vChecks EXCEPT ![t] = {}]
    /\ UNCHANGED <<queue, fOk, fRet>>

TakeBatch(t, p, idle, total, ok) ==
    /\ \E batch \in SUBSET queue :
          /\ Cardinality(batch) = nNow(total, idle)
          /\ vChecks' = [vChecks EXCEPT ![t] = batch]
          /\ queue' = queue \ batch
    /\ fOk' = [fOk EXCEPT ![t] = ok]
    /\ nIdle' = idle
    /\ nTotal' = total
    /\ fAllOk' = ok
    /\ pc' = [p EXCEPT ![t] = "run"]
    /\ UNCHANGED fRet

(* The rest of the critical section, from "logically, the do loop starts   *)
(* here", for thread t with the counters as the part before it left them.  *)
LoopBody(t, p, idle, total, todo, ok) ==
    /\ nTodo' = todo
    /\ UNCHANGED <<interrupted, added>>
    /\ \/ Done(t, todo) /\ Return(t, p, idle, total, ok)
       \/ queue = {} /\ ~Done(t, todo) /\ Sleep(t, p, idle, total, ok)
       \/ queue # {} /\ TakeBatch(t, p, idle, total, ok)

(* First iteration of Loop: the thread is counted in.                      *)
FirstIteration(t) ==
    /\ pc[t] = "start"
    /\ LoopBody(t, pc, nIdle, nTotal + 1, nTodo, fAllOk)

(* Mutant: `fAllOk = fOk' where the code has `fAllOk &= fOk'.              *)
CleanUp_Assign(t) ==
    /\ pc[t] = "ran"
    /\ LET todo == nTodo - Cardinality(vChecks[t])
       IN  LoopBody(t, IF todo = 0 /\ t # Master THEN NotifyMaster(pc) ELSE pc,
                    nIdle, nTotal, todo, fOk[t])

(* Mutant: the worker that finishes last does not notify the master.       *)
CleanUp_NoNotify(t) ==
    /\ pc[t] = "ran"
    /\ LoopBody(t, pc, nIdle, nTotal, nTodo - Cardinality(vChecks[t]),
                fAllOk /\ fOk[t])

(* Clean-up of the previous batch, in the critical section of the next.    *)
CleanUp(t) ==
    /\ pc[t] = "ran"
    /\ LET todo == nTodo - Cardinality(vChecks[t])
       IN  LoopBody(t, IF todo = 0 /\ t # Master THEN NotifyMaster(pc) ELSE pc,
                    nIdle, nTotal, todo, fAllOk /\ fOk[t])

(* cond.wait returns, and the while loop looks at the queue again.         *)
WakeUp(t) ==
    /\ pc[t] = "woken"
    /\ t \notin interrupted
    /\ LoopBody(t, pc, nIdle - 1, nTotal, nTodo, fAllOk)

(* Execute the batch outside the lock, stopping at the first failure.      *)
Execute(t) ==
    /\ pc[t] = "run"
    /\ fOk' = [fOk EXCEPT ![t] = fOk[t] /\ vChecks[t] \subseteq Good]
    /\ pc' = [pc EXCEPT ![t] = "ran"]
    /\ UNCHANGED <<queue, nIdle, nTotal, nTodo, fAllOk, vChecks, interrupted,
                   added, fRet>>

-----------------------------------------------------------------------------
(* CCheckQueueControl's constructor, with ControlMutex and an idle queue.  *)
Control ==
    /\ pc[Master] = "out"
    /\ pc' = [pc EXCEPT ![Master] = "add"]
    /\ added' = {}
    /\ UNCHANGED <<queue, nIdle, nTotal, nTodo, fAllOk, vChecks, fOk,
                   interrupted, fRet>>

(* Mutant: Add counts one verification per call, not one per check.        *)
Add_CountsCalls(new) ==
    /\ pc[Master] = "add"
    /\ queue' = queue \cup new
    /\ nTodo' = nTodo + 1
    /\ added' = added \cup new
    /\ pc' = NotifyWorkers(pc)
    /\ UNCHANGED <<nIdle, nTotal, fAllOk, vChecks, fOk, interrupted, fRet>>

(* Add: queue the checks of one transaction and wake workers for them.     *)
Add(new) ==
    /\ pc[Master] = "add"
    /\ queue' = queue \cup new
    /\ nTodo' = nTodo + Cardinality(new)
    /\ added' = added \cup new
    /\ \/ Cardinality(new) = 0 /\ pc' = pc
       \/ Cardinality(new) = 1 /\ pc' \in NotifyOneWorker(pc)
       \/ Cardinality(new) > 1 /\ pc' = NotifyWorkers(pc)
    /\ UNCHANGED <<nIdle, nTotal, fAllOk, vChecks, fOk, interrupted, fRet>>

(* Control.Wait(), or the destructor's Wait when ConnectBlock returned     *)
(* early: both enter Loop(true).                                           *)
Wait ==
    /\ pc[Master] = "add"
    /\ pc' = [pc EXCEPT ![Master] = "start"]
    /\ UNCHANGED <<queue, nIdle, nTotal, nTodo, fAllOk, vChecks, fOk,
                   interrupted, added, fRet>>

(* The destructor releases ControlMutex.                                   *)
Destroy ==
    /\ pc[Master] = "left"
    /\ pc' = [pc EXCEPT ![Master] = "out"]
    /\ UNCHANGED <<queue, nIdle, nTotal, nTodo, fAllOk, vChecks, fOk,
                   interrupted, added, fRet>>

-----------------------------------------------------------------------------
(* threadGroup.interrupt_all(), at shutdown.  The master may be a thread   *)
(* of the group (the message handler) or not (an RPC thread).              *)
InterruptAll ==
    /\ interrupted = {}
    /\ \A t \in Workers : pc[t] # "dead"
    /\ interrupted' \in {Workers, Threads}
    /\ UNCHANGED <<queue, nIdle, nTotal, nTodo, fAllOk, pc, vChecks, fOk,
                   added, fRet>>

(* cond.wait throws thread_interrupted: nIdle and nTotal keep counting the *)
(* thread.  A worker ends; for the master the stack unwinds into the       *)
(* control's destructor, which calls Wait again (fDone is still false).    *)
Interrupted(t) ==
    /\ pc[t] \in {"wait", "woken"}
    /\ t \in interrupted
    /\ pc' = [pc EXCEPT ![t] = IF t = Master THEN "start" ELSE "dead"]
    /\ interrupted' = interrupted \ {t}
    /\ UNCHANGED <<queue, nIdle, nTotal, nTodo, fAllOk, vChecks, fOk, added,
                   fRet>>

(* A spurious wakeup.                                                      *)
SpuriousWakeUp(t) ==
    /\ pc[t] = "wait"
    /\ pc' = [pc EXCEPT ![t] = "woken"]
    /\ UNCHANGED <<queue, nIdle, nTotal, nTodo, fAllOk, vChecks, fOk,
                   interrupted, added, fRet>>

ThreadStep(t) ==
    FirstIteration(t) \/ CleanUp(t) \/ WakeUp(t) \/ Execute(t) \/ Interrupted(t)

Next ==
    \/ \E t \in Threads : ThreadStep(t) \/ SpuriousWakeUp(t)
    \/ Control
    \/ \E new \in SUBSET (Checks \ added) : Add(new)
    \/ Wait
    \/ Destroy
    \/ InterruptAll

(* Every thread of the pool is scheduled and, when it can take a step of   *)
(* Loop, eventually takes it: a boost mutex is held only for the step.     *)
Spec == Init /\ [][Next]_vars

FairSpec == Spec /\ \A t \in Threads : WF_vars(ThreadStep(t))

-----------------------------------------------------------------------------
(* The counters are never negative: nTotal + nIdle + 1 divides an unsigned *)
(* queue size in Loop, and nTodo is unsigned.  They are exact neither      *)
(* after an interruption (checkqueue.h:116-118) nor needed to be.          *)
TypeOK ==
    /\ queue \subseteq Checks
    /\ nIdle \in Nat
    /\ nTotal \in Nat
    /\ nTodo \in Nat
    /\ fAllOk \in BOOLEAN
    /\ pc \in [Threads -> PCs]
    /\ vChecks \in [Threads -> SUBSET Checks]
    /\ fOk \in [Threads -> BOOLEAN]
    /\ interrupted \subseteq Threads
    /\ added \subseteq Checks
    /\ fRet \in BOOLEAN

(* The checks that are queued or in some thread's batch.                   *)
Pending == {c \in Checks : c \in queue \/ \E t \in Threads : c \in vChecks[t]}

(* nTodo counts exactly the verifications not completed yet, those in the  *)
(* batches of the threads included, as its comment in checkqueue.h says.   *)
TodoExact == nTodo = Cardinality(Pending)

(* When the master's Wait has returned, until the control object is gone,  *)
(* the verdict is true exactly if every check added under this control     *)
(* succeeds, whichever threads ran or skipped them and in whatever order   *)
(* their results were merged into fAllOk.                                  *)
WaitVerdict == pc[Master] = "left" => (fRet <=> added \subseteq Good)

(* No check of a block outlives its control object, even when the master   *)
(* is interrupted inside Wait: the checks point into the block that        *)
(* ConnectBlock's caller is about to free.                                 *)
NoStragglers == pc[Master] \in {"left", "out"} => Pending = {}

(* Wait returns: once the master is in Loop it gets out of it, also when   *)
(* all workers die by interruption meanwhile.                              *)
WaitReturns == pc[Master] = "start" ~> pc[Master] = "left"

=============================================================================
