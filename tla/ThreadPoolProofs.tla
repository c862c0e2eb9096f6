-------------------------- MODULE ThreadPoolProofs --------------------------
(***************************************************************************)
(* Safety of ThreadPool for every number of workers and every set of       *)
(* tasks.  The inductive invariant is built in layers, each proved from    *)
(* the ones before it: types, who holds q_lock_, how many workers are      *)
(* alive, the workers' births and deaths, the destructor's join loop, what *)
(* the threads execute, and where the tasks are.                           *)
(***************************************************************************)
EXTENDS ThreadPool, FiniteSetTheorems, SequenceTheorems, TLAPS

(* The part of TypeOK that is inductive by itself; the bounds on the       *)
(* counters come from CountInv and ReapInv.                                *)
Types ==
  /\ q_lock \in Threads \cup {NoThread}
  /\ work_queue \in Seq(Tasks)
  /\ terminate \in BOOLEAN
  /\ running \in Int
  /\ pc \in [Workers -> WorkerPC]
  /\ owner \in OwnerPC
  /\ i \in Nat
  /\ num_threads \in Int
  /\ arg \in Tasks \cup {NoTask}
  /\ nextTask \in [Threads -> Tasks \cup {NoTask}]
  /\ dispatched \in Seq(Tasks)
  /\ started \in Seq(Tasks)
  /\ finished \in SUBSET Tasks
  /\ owner \in {"dispatch", "push"} => arg \in Tasks
  /\ \A w \in Workers : pc[w] = "run" => nextTask[w] \in Tasks
  /\ owner = "drainrun" => nextTask[Owner] \in Tasks

(* q_lock_ is held by exactly the threads whose counter says so. *)
LockInv ==
  /\ owner \in {"spawn", "census", "push", "reap"} <=> q_lock = Owner
  /\ \A w \in Workers : pc[w] \in {"loop", "take"} <=> q_lock = w

(* Workers are spawned in order and are all alive once the constructor is  *)
(* left; none dies before the destructor has set terminate_threads_.       *)
BirthInv ==
  /\ owner = "spawn" => /\ i <= NumThreads
                        /\ \A w \in Workers : pc[w] = "unborn" <=> w > i
  /\ owner # "spawn" => \A w \in Workers : pc[w] # "unborn"
  /\ owner \notin {"spawn", "census", "nap"} => \A w \in Workers : pc[w] # "born"
  /\ owner \in {"spawn", "census", "nap"} => work_queue = <<>>
  /\ owner \in {"census", "nap", "idle", "dispatch", "push", "delete"} => i = NumThreads
  /\ num_threads = (IF terminate THEN NumThreads ELSE 0)
  /\ terminate <=> owner \in {"reap", "join", "rejoin", "drain", "drainrun", "gone"}
  /\ \A w \in Workers : pc[w] = "dead" => terminate

Alive == {w \in Workers : pc[w] \notin {"unborn", "born", "dead"}}

(* num_threads_running_ counts the workers that are born and not dead. *)
CountInv == running = Cardinality(Alive)

(* The join loop: the first i workers are dead, and once the flag has been *)
(* broadcast nobody sleeps any more.                                       *)
ReapInv ==
  /\ i <= NumThreads
  /\ owner \in {"reap", "join", "rejoin"} => \A w \in Workers : w <= i => pc[w] = "dead"
  /\ owner \in {"join", "rejoin"} => i < num_threads
  /\ owner = "rejoin" => pc[i + 1] = "dead"
  /\ owner \in {"drain", "drainrun", "gone"} => \A w \in Workers : pc[w] = "dead"
  /\ owner \in {"join", "rejoin"} \/ (owner = "reap" /\ i > 0)
       => \A w \in Workers : pc[w] # "asleep"

(* A thread has a task exactly while it executes it, and a worker is about *)
(* to wait only with the queue empty.                                      *)
HoldInv ==
  /\ \A w \in Workers : nextTask[w] # NoTask => pc[w] = "run"
  /\ nextTask[Owner] # NoTask => owner = "drainrun"
  /\ owner = "gone" => work_queue = <<>>
  /\ \A w \in Workers : pc[w] = "loop" /\ ~terminate => work_queue = <<>>

(* No task is dispatched twice. *)
FreshInv ==
  /\ \A j, k \in DOMAIN dispatched : dispatched[j] = dispatched[k] => j = k
  /\ owner \in {"dispatch", "push"} => arg \notin Range(dispatched)

ControlInv == Types /\ LockInv /\ BirthInv /\ CountInv /\ ReapInv /\ HoldInv

-----------------------------------------------------------------------------
LEMMA WorkerSets ==
  /\ IsFiniteSet(Workers) /\ Cardinality(Workers) = NumThreads
  /\ \A S \in SUBSET Workers :
       /\ IsFiniteSet(S)
       /\ Cardinality(S) \in 0..NumThreads
       /\ Cardinality(S) = NumThreads => S = Workers
<1>1. IsFiniteSet(Workers) /\ Cardinality(Workers) = NumThreads
  BY FS_Interval, NumThreadsAssumption DEF Workers
<1> QED
  BY <1>1, FS_Subset, FS_CardinalityType, NumThreadsAssumption

LEMMA RangeOfAppend ==
  ASSUME NEW S, NEW s \in Seq(S), NEW e \in S
  PROVE  Range(Append(s, e)) = Range(s) \cup {e}
<1>1. DOMAIN s = 1..Len(s) /\ DOMAIN Append(s, e) = 1..(Len(s) + 1) /\ Len(s) \in Nat
  BY LenProperties, AppendProperties
<1> QED
  BY <1>1, AppendProperties DEF Range

(* Popping the head of q and appending it to s moves it across the seam. *)
LEMMA PopKeepsOrder ==
  ASSUME NEW S, NEW s \in Seq(S), NEW q \in Seq(S), q # <<>>
  PROVE  /\ Append(s, Head(q)) \o Tail(q) = s \o q
         /\ (s \o q)[Len(s) + 1] = Head(q)
         /\ Len(s) + 1 \in DOMAIN (s \o q)
         /\ \A k \in DOMAIN s : k \in DOMAIN (s \o q) /\ (s \o q)[k] = s[k] /\ k # Len(s) + 1
<1>1. Head(q) \in S /\ Tail(q) \in Seq(S) /\ Len(Tail(q)) = Len(q) - 1 /\ Len(q) \in Nat \ {0}
  BY HeadTailProperties, EmptySeq
<1>2. Append(s, Head(q)) = s \o <<Head(q)>> /\ q = <<Head(q)>> \o Tail(q)
  <2>1. q = <<Head(q)>> \o Tail(q)
    BY SubSeqRecursiveFirst, SubSeqFull, TailIsSubSeq, <1>1
  <2> QED
    BY <1>1, <2>1, AppendIsConcat
<1>3. Append(s, Head(q)) \o Tail(q) = s \o q
  BY <1>1, <1>2, ConcatAssociative
<1>4. DOMAIN s = 1..Len(s) /\ Len(s) \in Nat /\ DOMAIN (s \o q) = 1..(Len(s) + Len(q))
  BY LenProperties, ConcatProperties
<1> QED
  BY <1>1, <1>3, <1>4, ConcatProperties

-----------------------------------------------------------------------------
LEMMA TypesStep == ASSUME Types, [Next]_vars PROVE Types'
<1> USE NumThreadsAssumption, OwnerAssumption, NoTaskAssumption, NoThreadAssumption
    DEF Threads, WorkerPC, OwnerPC, Workers
<1>1. CASE Spawn
  BY <1>1 DEF Types, Acquire, Release, Signal, Broadcast, Asleep, Push, Pop, Return, taskVars, Spawn
<1>2. CASE Spawned
  BY <1>2 DEF Types, Acquire, Release, Signal, Broadcast, Asleep, Push, Pop, Return, taskVars, Spawned
<1>3. CASE Census
  BY <1>3 DEF Types, Acquire, Release, Signal, Broadcast, Asleep, Push, Pop, Return, taskVars, Census
<1>4. CASE WakeFromNap
  BY <1>4 DEF Types, Acquire, Release, Signal, Broadcast, Asleep, Push, Pop, Return, taskVars, WakeFromNap
<1>5. CASE DispatchLock
  BY <1>5 DEF Types, Acquire, Release, Signal, Broadcast, Asleep, Push, Pop, Return, taskVars, DispatchLock
<1>6. CASE Dispatch
  BY <1>6 DEF Types, Acquire, Release, Signal, Broadcast, Asleep, Push, Pop, Return, taskVars, Dispatch
<1>7. CASE CallDelete
  BY <1>7 DEF Types, Acquire, Release, Signal, Broadcast, Asleep, Push, Pop, Return, taskVars, CallDelete
<1>8. CASE Delete
  BY <1>8 DEF Types, Acquire, Release, Signal, Broadcast, Asleep, Push, Pop, Return, taskVars, Delete
<1>9. CASE WakeAll
  BY <1>9 DEF Types, Acquire, Release, Signal, Broadcast, Asleep, Push, Pop, Return, taskVars, WakeAll
<1>10. CASE Join
  BY <1>10 DEF Types, Acquire, Release, Signal, Broadcast, Asleep, Push, Pop, Return, taskVars, Join
<1>11. CASE Relock
  BY <1>11 DEF Types, Acquire, Release, Signal, Broadcast, Asleep, Push, Pop, Return, taskVars, Relock
<1>12. CASE Reaped
  BY <1>12 DEF Types, Acquire, Release, Signal, Broadcast, Asleep, Push, Pop, Return, taskVars, Reaped
<1>13. CASE Drain
  BY <1>13 DEF Types, Acquire, Release, Signal, Broadcast, Asleep, Push, Pop, Return, taskVars, Drain
<1>14. CASE Drained
  BY <1>14 DEF Types, Acquire, Release, Signal, Broadcast, Asleep, Push, Pop, Return, taskVars, Drained
<1>15. CASE Gone
  BY <1>15 DEF Types, Acquire, Release, Signal, Broadcast, Asleep, Push, Pop, Return, taskVars, Gone
<1>16. ASSUME NEW t \in Tasks, CallDispatch(t) PROVE Types'
  BY <1>16 DEF Types, Acquire, Release, Signal, Broadcast, Asleep, Push, Pop, Return, taskVars, CallDispatch
<1>17. ASSUME NEW w \in Workers, Born(w) PROVE Types'
  BY <1>17 DEF Types, Acquire, Release, Signal, Broadcast, Asleep, Push, Pop, Return, taskVars, Born
<1>18. ASSUME NEW w \in Workers, Sleep(w) PROVE Types'
  BY <1>18 DEF Types, Acquire, Release, Signal, Broadcast, Asleep, Push, Pop, Return, taskVars, Sleep
<1>19. ASSUME NEW w \in Workers, SpuriousWakeup(w) PROVE Types'
  BY <1>19 DEF Types, Acquire, Release, Signal, Broadcast, Asleep, Push, Pop, Return, taskVars, SpuriousWakeup
<1>20. ASSUME NEW w \in Workers, Look(w) PROVE Types'
  BY <1>20 DEF Types, Acquire, Release, Signal, Broadcast, Asleep, Push, Pop, Return, taskVars, Look
<1>21. ASSUME NEW w \in Workers, Take(w) PROVE Types'
  BY <1>21 DEF Types, Acquire, Release, Signal, Broadcast, Asleep, Push, Pop, Return, taskVars, Take
<1>22. ASSUME NEW w \in Workers, Run(w) PROVE Types'
  BY <1>22 DEF Types, Acquire, Release, Signal, Broadcast, Asleep, Push, Pop, Return, taskVars, Run
<1>23. ASSUME NEW w \in Workers, NothingToTake(w) PROVE Types'
  BY <1>23 DEF Types, Acquire, Release, Signal, Broadcast, Asleep, Push, Pop, Return, taskVars, NothingToTake
<1>24. ASSUME NEW w \in Workers, Die(w) PROVE Types'
  BY <1>24 DEF Types, Acquire, Release, Signal, Broadcast, Asleep, Push, Pop, Return, taskVars, Die
<1>25. CASE UNCHANGED vars
  BY <1>25 DEF Types, Acquire, Release, Signal, Broadcast, Asleep, Push, Pop, Return, taskVars, vars
<1> QED
  BY <1>1, <1>2, <1>3, <1>4, <1>5, <1>6, <1>7, <1>8, <1>9, <1>10, <1>11, <1>12, <1>13, <1>14, <1>15, <1>16, <1>17, <1>18, <1>19, <1>20, <1>21, <1>22, <1>23, <1>24, <1>25 DEF Next, OwnerStep, Constructing, Dispatching, Deleting, WorkerStep, Progress, Over

LEMMA LockStep == ASSUME Types, LockInv, [Next]_vars PROVE LockInv'
<1> USE NumThreadsAssumption, OwnerAssumption, NoTaskAssumption, NoThreadAssumption
    DEF Threads, WorkerPC, OwnerPC, Workers
<1>1. CASE Spawn
  BY <1>1 DEF LockInv, Types, Acquire, Release, Signal, Broadcast, Asleep, Push, Pop, Return, taskVars, Spawn
<1>2. CASE Spawned
  BY <1>2 DEF LockInv, Types, Acquire, Release, Signal, Broadcast, Asleep, Push, Pop, Return, taskVars, Spawned
<1>3. CASE Census
  BY <1>3 DEF LockInv, Types, Acquire, Release, Signal, Broadcast, Asleep, Push, Pop, Return, taskVars, Census
<1>4. CASE WakeFromNap
  BY <1>4 DEF LockInv, Types, Acquire, Release, Signal, Broadcast, Asleep, Push, Pop, Return, taskVars, WakeFromNap
<1>5. CASE DispatchLock
  BY <1>5 DEF LockInv, Types, Acquire, Release, Signal, Broadcast, Asleep, Push, Pop, Return, taskVars, DispatchLock
<1>6. CASE Dispatch
  BY <1>6 DEF LockInv, Types, Acquire, Release, Signal, Broadcast, Asleep, Push, Pop, Return, taskVars, Dispatch
<1>7. CASE CallDelete
  BY <1>7 DEF LockInv, Types, Acquire, Release, Signal, Broadcast, Asleep, Push, Pop, Return, taskVars, CallDelete
<1>8. CASE Delete
  BY <1>8 DEF LockInv, Types, Acquire, Release, Signal, Broadcast, Asleep, Push, Pop, Return, taskVars, Delete
<1>9. CASE WakeAll
  BY <1>9 DEF LockInv, Types, Acquire, Release, Signal, Broadcast, Asleep, Push, Pop, Return, taskVars, WakeAll
<1>10. CASE Join
  BY <1>10 DEF LockInv, Types, Acquire, Release, Signal, Broadcast, Asleep, Push, Pop, Return, taskVars, Join
<1>11. CASE Relock
  BY <1>11 DEF LockInv, Types, Acquire, Release, Signal, Broadcast, Asleep, Push, Pop, Return, taskVars, Relock
<1>12. CASE Reaped
  BY <1>12 DEF LockInv, Types, Acquire, Release, Signal, Broadcast, Asleep, Push, Pop, Return, taskVars, Reaped
<1>13. CASE Drain
  BY <1>13 DEF LockInv, Types, Acquire, Release, Signal, Broadcast, Asleep, Push, Pop, Return, taskVars, Drain
<1>14. CASE Drained
  BY <1>14 DEF LockInv, Types, Acquire, Release, Signal, Broadcast, Asleep, Push, Pop, Return, taskVars, Drained
<1>15. CASE Gone
  BY <1>15 DEF LockInv, Types, Acquire, Release, Signal, Broadcast, Asleep, Push, Pop, Return, taskVars, Gone
<1>16. ASSUME NEW t \in Tasks, CallDispatch(t) PROVE LockInv'
  BY <1>16 DEF LockInv, Types, Acquire, Release, Signal, Broadcast, Asleep, Push, Pop, Return, taskVars, CallDispatch
<1>17. ASSUME NEW w \in Workers, Born(w) PROVE LockInv'
  BY <1>17 DEF LockInv, Types, Acquire, Release, Signal, Broadcast, Asleep, Push, Pop, Return, taskVars, Born
<1>18. ASSUME NEW w \in Workers, Sleep(w) PROVE LockInv'
  BY <1>18 DEF LockInv, Types, Acquire, Release, Signal, Broadcast, Asleep, Push, Pop, Return, taskVars, Sleep
<1>19. ASSUME NEW w \in Workers, SpuriousWakeup(w) PROVE LockInv'
  BY <1>19 DEF LockInv, Types, Acquire, Release, Signal, Broadcast, Asleep, Push, Pop, Return, taskVars, SpuriousWakeup
<1>20. ASSUME NEW w \in Workers, Look(w) PROVE LockInv'
  BY <1>20 DEF LockInv, Types, Acquire, Release, Signal, Broadcast, Asleep, Push, Pop, Return, taskVars, Look
<1>21. ASSUME NEW w \in Workers, Take(w) PROVE LockInv'
  BY <1>21 DEF LockInv, Types, Acquire, Release, Signal, Broadcast, Asleep, Push, Pop, Return, taskVars, Take
<1>22. ASSUME NEW w \in Workers, Run(w) PROVE LockInv'
  BY <1>22 DEF LockInv, Types, Acquire, Release, Signal, Broadcast, Asleep, Push, Pop, Return, taskVars, Run
<1>23. ASSUME NEW w \in Workers, NothingToTake(w) PROVE LockInv'
  BY <1>23 DEF LockInv, Types, Acquire, Release, Signal, Broadcast, Asleep, Push, Pop, Return, taskVars, NothingToTake
<1>24. ASSUME NEW w \in Workers, Die(w) PROVE LockInv'
  BY <1>24 DEF LockInv, Types, Acquire, Release, Signal, Broadcast, Asleep, Push, Pop, Return, taskVars, Die
<1>25. CASE UNCHANGED vars
  BY <1>25 DEF LockInv, Types, Acquire, Release, Signal, Broadcast, Asleep, Push, Pop, Return, taskVars, vars
<1> QED
  BY <1>1, <1>2, <1>3, <1>4, <1>5, <1>6, <1>7, <1>8, <1>9, <1>10, <1>11, <1>12, <1>13, <1>14, <1>15, <1>16, <1>17, <1>18, <1>19, <1>20, <1>21, <1>22, <1>23, <1>24, <1>25 DEF Next, OwnerStep, Constructing, Dispatching, Deleting, WorkerStep, Progress, Over

LEMMA CountStep == ASSUME Types, BirthInv, CountInv, [Next]_vars PROVE CountInv'
<1> USE NumThreadsAssumption, OwnerAssumption, NoTaskAssumption, NoThreadAssumption
    DEF Threads, WorkerPC, OwnerPC, Workers
<1>1. CASE Spawn
  <2>1. pc[i + 1] = "unborn"
    BY <1>1 DEF BirthInv, Types, Spawn
  <2>2. Alive' = Alive
    BY <2>1, <1>1 DEF Alive, Types, Spawn
  <2> QED
    BY <2>2, <1>1 DEF CountInv, Spawn
<1>2. CASE Spawned
  BY <1>2 DEF CountInv, Alive, Types, Acquire, Release, Signal, Broadcast, Asleep, Push, Pop, Return, taskVars, Spawned
<1>3. CASE Census
  BY <1>3 DEF CountInv, Alive, Types, Acquire, Release, Signal, Broadcast, Asleep, Push, Pop, Return, taskVars, Census
<1>4. CASE WakeFromNap
  BY <1>4 DEF CountInv, Alive, Types, Acquire, Release, Signal, Broadcast, Asleep, Push, Pop, Return, taskVars, WakeFromNap
<1>5. CASE DispatchLock
  BY <1>5 DEF CountInv, Alive, Types, Acquire, Release, Signal, Broadcast, Asleep, Push, Pop, Return, taskVars, DispatchLock
<1>6. CASE Dispatch
  BY <1>6 DEF CountInv, Alive, Types, Acquire, Release, Signal, Broadcast, Asleep, Push, Pop, Return, taskVars, Dispatch
<1>7. CASE CallDelete
  BY <1>7 DEF CountInv, Alive, Types, Acquire, Release, Signal, Broadcast, Asleep, Push, Pop, Return, taskVars, CallDelete
<1>8. CASE Delete
  BY <1>8 DEF CountInv, Alive, Types, Acquire, Release, Signal, Broadcast, Asleep, Push, Pop, Return, taskVars, Delete
<1>9. CASE WakeAll
  BY <1>9 DEF CountInv, Alive, Types, Acquire, Release, Signal, Broadcast, Asleep, Push, Pop, Return, taskVars, WakeAll
<1>10. CASE Join
  BY <1>10 DEF CountInv, Alive, Types, Acquire, Release, Signal, Broadcast, Asleep, Push, Pop, Return, taskVars, Join
<1>11. CASE Relock
  BY <1>11 DEF CountInv, Alive, Types, Acquire, Release, Signal, Broadcast, Asleep, Push, Pop, Return, taskVars, Relock
<1>12. CASE Reaped
  BY <1>12 DEF CountInv, Alive, Types, Acquire, Release, Signal, Broadcast, Asleep, Push, Pop, Return, taskVars, Reaped
<1>13. CASE Drain
  BY <1>13 DEF CountInv, Alive, Types, Acquire, Release, Signal, Broadcast, Asleep, Push, Pop, Return, taskVars, Drain
<1>14. CASE Drained
  BY <1>14 DEF CountInv, Alive, Types, Acquire, Release, Signal, Broadcast, Asleep, Push, Pop, Return, taskVars, Drained
<1>15. CASE Gone
  BY <1>15 DEF CountInv, Alive, Types, Acquire, Release, Signal, Broadcast, Asleep, Push, Pop, Return, taskVars, Gone
<1>16. ASSUME NEW t \in Tasks, CallDispatch(t) PROVE CountInv'
  BY <1>16 DEF CountInv, Alive, Types, Acquire, Release, Signal, Broadcast, Asleep, Push, Pop, Return, taskVars, CallDispatch
<1>17. ASSUME NEW w \in Workers, Born(w) PROVE CountInv'
  <2>1. Alive' = Alive \cup {w} /\ w \notin Alive /\ Alive \in SUBSET Workers
    BY <1>17 DEF Alive, Types, Born
  <2> QED
    BY <2>1, <1>17, WorkerSets, FS_AddElement DEF CountInv, Born, Types
<1>18. ASSUME NEW w \in Workers, Sleep(w) PROVE CountInv'
  BY <1>18 DEF CountInv, Alive, Types, Acquire, Release, Signal, Broadcast, Asleep, Push, Pop, Return, taskVars, Sleep
<1>19. ASSUME NEW w \in Workers, SpuriousWakeup(w) PROVE CountInv'
  BY <1>19 DEF CountInv, Alive, Types, Acquire, Release, Signal, Broadcast, Asleep, Push, Pop, Return, taskVars, SpuriousWakeup
<1>20. ASSUME NEW w \in Workers, Look(w) PROVE CountInv'
  BY <1>20 DEF CountInv, Alive, Types, Acquire, Release, Signal, Broadcast, Asleep, Push, Pop, Return, taskVars, Look
<1>21. ASSUME NEW w \in Workers, Take(w) PROVE CountInv'
  BY <1>21 DEF CountInv, Alive, Types, Acquire, Release, Signal, Broadcast, Asleep, Push, Pop, Return, taskVars, Take
<1>22. ASSUME NEW w \in Workers, Run(w) PROVE CountInv'
  BY <1>22 DEF CountInv, Alive, Types, Acquire, Release, Signal, Broadcast, Asleep, Push, Pop, Return, taskVars, Run
<1>23. ASSUME NEW w \in Workers, NothingToTake(w) PROVE CountInv'
  BY <1>23 DEF CountInv, Alive, Types, Acquire, Release, Signal, Broadcast, Asleep, Push, Pop, Return, taskVars, NothingToTake
<1>24. ASSUME NEW w \in Workers, Die(w) PROVE CountInv'
  <2>1. Alive' = Alive \ {w} /\ w \in Alive /\ Alive \in SUBSET Workers
    BY <1>24 DEF Alive, Types, Die
  <2> QED
    BY <2>1, <1>24, WorkerSets, FS_RemoveElement DEF CountInv, Die, Types
<1>25. CASE UNCHANGED vars
  BY <1>25 DEF CountInv, Alive, Types, Acquire, Release, Signal, Broadcast, Asleep, Push, Pop, Return, taskVars, vars
<1> QED
  BY <1>1, <1>2, <1>3, <1>4, <1>5, <1>6, <1>7, <1>8, <1>9, <1>10, <1>11, <1>12, <1>13, <1>14, <1>15, <1>16, <1>17, <1>18, <1>19, <1>20, <1>21, <1>22, <1>23, <1>24, <1>25 DEF Next, OwnerStep, Constructing, Dispatching, Deleting, WorkerStep, Progress, Over

(* At the census every worker is counted, hence alive, and the destructor  *)
(* therefore reads num_threads_running_ = NumThreads.                      *)
LEMMA BirthStep ==
  ASSUME Types, LockInv, CountInv, BirthInv, [Next]_vars PROVE BirthInv'
<1> USE NumThreadsAssumption, OwnerAssumption, NoTaskAssumption, NoThreadAssumption
    DEF Threads, WorkerPC, OwnerPC, Workers
<1> Alive \in SUBSET Workers
  BY DEF Alive
<1>1. CASE Spawn
  BY <1>1 DEF BirthInv, LockInv, Types, Acquire, Release, Signal, Broadcast, Asleep, Push, Pop, Return, taskVars, Spawn
<1>2. CASE Spawned
  BY <1>2 DEF BirthInv, LockInv, Types, Acquire, Release, Signal, Broadcast, Asleep, Push, Pop, Return, taskVars, Spawned
<1>3. CASE Census
  BY <1>3, WorkerSets DEF BirthInv, CountInv, Alive, Types, Release, taskVars, Census
<1>4. CASE WakeFromNap
  BY <1>4 DEF BirthInv, LockInv, Types, Acquire, Release, Signal, Broadcast, Asleep, Push, Pop, Return, taskVars, WakeFromNap
<1>5. CASE DispatchLock
  BY <1>5 DEF BirthInv, LockInv, Types, Acquire, Release, Signal, Broadcast, Asleep, Push, Pop, Return, taskVars, DispatchLock
<1>6. CASE Dispatch
  BY <1>6 DEF BirthInv, LockInv, Types, Acquire, Release, Signal, Broadcast, Asleep, Push, Pop, Return, taskVars, Dispatch
<1>7. CASE CallDelete
  BY <1>7 DEF BirthInv, LockInv, Types, Acquire, Release, Signal, Broadcast, Asleep, Push, Pop, Return, taskVars, CallDelete
<1>8. CASE Delete
  <2>1. Alive = Workers
    BY <1>8 DEF BirthInv, Alive, Delete, Types
  <2>2. running = NumThreads
    BY <2>1, WorkerSets DEF CountInv
  <2> QED
    BY <1>8, <2>2 DEF BirthInv, Types, Acquire, Delete, taskVars
<1>9. CASE WakeAll
  BY <1>9 DEF BirthInv, LockInv, Types, Acquire, Release, Signal, Broadcast, Asleep, Push, Pop, Return, taskVars, WakeAll
<1>10. CASE Join
  BY <1>10 DEF BirthInv, LockInv, Types, Acquire, Release, Signal, Broadcast, Asleep, Push, Pop, Return, taskVars, Join
<1>11. CASE Relock
  BY <1>11 DEF BirthInv, LockInv, Types, Acquire, Release, Signal, Broadcast, Asleep, Push, Pop, Return, taskVars, Relock
<1>12. CASE Reaped
  BY <1>12 DEF BirthInv, LockInv, Types, Acquire, Release, Signal, Broadcast, Asleep, Push, Pop, Return, taskVars, Reaped
<1>13. CASE Drain
  BY <1>13 DEF BirthInv, LockInv, Types, Acquire, Release, Signal, Broadcast, Asleep, Push, Pop, Return, taskVars, Drain
<1>14. CASE Drained
  BY <1>14 DEF BirthInv, LockInv, Types, Acquire, Release, Signal, Broadcast, Asleep, Push, Pop, Return, taskVars, Drained
<1>15. CASE Gone
  BY <1>15 DEF BirthInv, LockInv, Types, Acquire, Release, Signal, Broadcast, Asleep, Push, Pop, Return, taskVars, Gone
<1>16. ASSUME NEW t \in Tasks, CallDispatch(t) PROVE BirthInv'
  BY <1>16 DEF BirthInv, LockInv, Types, Acquire, Release, Signal, Broadcast, Asleep, Push, Pop, Return, taskVars, CallDispatch
<1>17. ASSUME NEW w \in Workers, Born(w) PROVE BirthInv'
  BY <1>17 DEF BirthInv, LockInv, Types, Acquire, Release, Signal, Broadcast, Asleep, Push, Pop, Return, taskVars, Born
<1>18. ASSUME NEW w \in Workers, Sleep(w) PROVE BirthInv'
  BY <1>18 DEF BirthInv, LockInv, Types, Acquire, Release, Signal, Broadcast, Asleep, Push, Pop, Return, taskVars, Sleep
<1>19. ASSUME NEW w \in Workers, SpuriousWakeup(w) PROVE BirthInv'
  BY <1>19 DEF BirthInv, LockInv, Types, Acquire, Release, Signal, Broadcast, Asleep, Push, Pop, Return, taskVars, SpuriousWakeup
<1>20. ASSUME NEW w \in Workers, Look(w) PROVE BirthInv'
  BY <1>20 DEF BirthInv, LockInv, Types, Acquire, Release, Signal, Broadcast, Asleep, Push, Pop, Return, taskVars, Look
<1>21. ASSUME NEW w \in Workers, Take(w) PROVE BirthInv'
  BY <1>21 DEF BirthInv, LockInv, Types, Acquire, Release, Signal, Broadcast, Asleep, Push, Pop, Return, taskVars, Take
<1>22. ASSUME NEW w \in Workers, Run(w) PROVE BirthInv'
  BY <1>22 DEF BirthInv, LockInv, Types, Acquire, Release, Signal, Broadcast, Asleep, Push, Pop, Return, taskVars, Run
<1>23. ASSUME NEW w \in Workers, NothingToTake(w) PROVE BirthInv'
  BY <1>23 DEF BirthInv, LockInv, Types, Acquire, Release, Signal, Broadcast, Asleep, Push, Pop, Return, taskVars, NothingToTake
<1>24. ASSUME NEW w \in Workers, Die(w) PROVE BirthInv'
  BY <1>24 DEF BirthInv, LockInv, Types, Acquire, Release, Signal, Broadcast, Asleep, Push, Pop, Return, taskVars, Die
<1>25. CASE UNCHANGED vars
  BY <1>25 DEF BirthInv, LockInv, Types, Acquire, Release, Signal, Broadcast, Asleep, Push, Pop, Return, taskVars, vars
<1> QED
  BY <1>1, <1>2, <1>3, <1>4, <1>5, <1>6, <1>7, <1>8, <1>9, <1>10, <1>11, <1>12, <1>13, <1>14, <1>15, <1>16, <1>17, <1>18, <1>19, <1>20, <1>21, <1>22, <1>23, <1>24, <1>25 DEF Next, OwnerStep, Constructing, Dispatching, Deleting, WorkerStep, Progress, Over

LEMMA ReapStep == ASSUME Types, BirthInv, ReapInv, [Next]_vars PROVE ReapInv'
<1> USE NumThreadsAssumption, OwnerAssumption, NoTaskAssumption, NoThreadAssumption
    DEF Threads, WorkerPC, OwnerPC, Workers
<1>1. CASE Spawn
  BY <1>1 DEF ReapInv, BirthInv, Types, Acquire, Release, Signal, Broadcast, Asleep, Push, Pop, Return, taskVars, Spawn
<1>2. CASE Spawned
  BY <1>2 DEF ReapInv, BirthInv, Types, Acquire, Release, Signal, Broadcast, Asleep, Push, Pop, Return, taskVars, Spawned
<1>3. CASE Census
  BY <1>3 DEF ReapInv, BirthInv, Types, Acquire, Release, Signal, Broadcast, Asleep, Push, Pop, Return, taskVars, Census
<1>4. CASE WakeFromNap
  BY <1>4 DEF ReapInv, BirthInv, Types, Acquire, Release, Signal, Broadcast, Asleep, Push, Pop, Return, taskVars, WakeFromNap
<1>5. CASE DispatchLock
  BY <1>5 DEF ReapInv, BirthInv, Types, Acquire, Release, Signal, Broadcast, Asleep, Push, Pop, Return, taskVars, DispatchLock
<1>6. CASE Dispatch
  BY <1>6 DEF ReapInv, BirthInv, Types, Acquire, Release, Signal, Broadcast, Asleep, Push, Pop, Return, taskVars, Dispatch
<1>7. CASE CallDelete
  BY <1>7 DEF ReapInv, BirthInv, Types, Acquire, Release, Signal, Broadcast, Asleep, Push, Pop, Return, taskVars, CallDelete
<1>8. CASE Delete
  BY <1>8 DEF ReapInv, BirthInv, Types, Acquire, Release, Signal, Broadcast, Asleep, Push, Pop, Return, taskVars, Delete
<1>9. CASE WakeAll
  BY <1>9 DEF ReapInv, BirthInv, Types, Acquire, Release, Signal, Broadcast, Asleep, Push, Pop, Return, taskVars, WakeAll
<1>10. CASE Join
  BY <1>10 DEF ReapInv, BirthInv, Types, Acquire, Release, Signal, Broadcast, Asleep, Push, Pop, Return, taskVars, Join
<1>11. CASE Relock
  BY <1>11 DEF ReapInv, BirthInv, Types, Acquire, Release, Signal, Broadcast, Asleep, Push, Pop, Return, taskVars, Relock
<1>12. CASE Reaped
  BY <1>12 DEF ReapInv, BirthInv, Types, Acquire, Release, Signal, Broadcast, Asleep, Push, Pop, Return, taskVars, Reaped
<1>13. CASE Drain
  BY <1>13 DEF ReapInv, BirthInv, Types, Acquire, Release, Signal, Broadcast, Asleep, Push, Pop, Return, taskVars, Drain
<1>14. CASE Drained
  BY <1>14 DEF ReapInv, BirthInv, Types, Acquire, Release, Signal, Broadcast, Asleep, Push, Pop, Return, taskVars, Drained
<1>15. CASE Gone
  BY <1>15 DEF ReapInv, BirthInv, Types, Acquire, Release, Signal, Broadcast, Asleep, Push, Pop, Return, taskVars, Gone
<1>16. ASSUME NEW t \in Tasks, CallDispatch(t) PROVE ReapInv'
  BY <1>16 DEF ReapInv, BirthInv, Types, Acquire, Release, Signal, Broadcast, Asleep, Push, Pop, Return, taskVars, CallDispatch
<1>17. ASSUME NEW w \in Workers, Born(w) PROVE ReapInv'
  BY <1>17 DEF ReapInv, BirthInv, Types, Acquire, Release, Signal, Broadcast, Asleep, Push, Pop, Return, taskVars, Born
<1>18. ASSUME NEW w \in Workers, Sleep(w) PROVE ReapInv'
  BY <1>18 DEF ReapInv, BirthInv, Types, Acquire, Release, Signal, Broadcast, Asleep, Push, Pop, Return, taskVars, Sleep
<1>19. ASSUME NEW w \in Workers, SpuriousWakeup(w) PROVE ReapInv'
  BY <1>19 DEF ReapInv, BirthInv, Types, Acquire, Release, Signal, Broadcast, Asleep, Push, Pop, Return, taskVars, SpuriousWakeup
<1>20. ASSUME NEW w \in Workers, Look(w) PROVE ReapInv'
  BY <1>20 DEF ReapInv, BirthInv, Types, Acquire, Release, Signal, Broadcast, Asleep, Push, Pop, Return, taskVars, Look
<1>21. ASSUME NEW w \in Workers, Take(w) PROVE ReapInv'
  BY <1>21 DEF ReapInv, BirthInv, Types, Acquire, Release, Signal, Broadcast, Asleep, Push, Pop, Return, taskVars, Take
<1>22. ASSUME NEW w \in Workers, Run(w) PROVE ReapInv'
  BY <1>22 DEF ReapInv, BirthInv, Types, Acquire, Release, Signal, Broadcast, Asleep, Push, Pop, Return, taskVars, Run
<1>23. ASSUME NEW w \in Workers, NothingToTake(w) PROVE ReapInv'
  BY <1>23 DEF ReapInv, BirthInv, Types, Acquire, Release, Signal, Broadcast, Asleep, Push, Pop, Return, taskVars, NothingToTake
<1>24. ASSUME NEW w \in Workers, Die(w) PROVE ReapInv'
  BY <1>24 DEF ReapInv, BirthInv, Types, Acquire, Release, Signal, Broadcast, Asleep, Push, Pop, Return, taskVars, Die
<1>25. CASE UNCHANGED vars
  BY <1>25 DEF ReapInv, BirthInv, Types, Acquire, Release, Signal, Broadcast, Asleep, Push, Pop, Return, taskVars, vars
<1> QED
  BY <1>1, <1>2, <1>3, <1>4, <1>5, <1>6, <1>7, <1>8, <1>9, <1>10, <1>11, <1>12, <1>13, <1>14, <1>15, <1>16, <1>17, <1>18, <1>19, <1>20, <1>21, <1>22, <1>23, <1>24, <1>25 DEF Next, OwnerStep, Constructing, Dispatching, Deleting, WorkerStep, Progress, Over

LEMMA HoldStep == ASSUME Types, LockInv, BirthInv, HoldInv, [Next]_vars PROVE HoldInv'
<1> USE NumThreadsAssumption, OwnerAssumption, NoTaskAssumption, NoThreadAssumption
    DEF Threads, WorkerPC, OwnerPC, Workers
<1>1. CASE Spawn
  BY <1>1 DEF HoldInv, LockInv, BirthInv, Types, Acquire, Release, Signal, Broadcast, Asleep, Push, Pop, Return, taskVars, Spawn
<1>2. CASE Spawned
  BY <1>2 DEF HoldInv, LockInv, BirthInv, Types, Acquire, Release, Signal, Broadcast, Asleep, Push, Pop, Return, taskVars, Spawned
<1>3. CASE Census
  BY <1>3 DEF HoldInv, LockInv, BirthInv, Types, Acquire, Release, Signal, Broadcast, Asleep, Push, Pop, Return, taskVars, Census
<1>4. CASE WakeFromNap
  BY <1>4 DEF HoldInv, LockInv, BirthInv, Types, Acquire, Release, Signal, Broadcast, Asleep, Push, Pop, Return, taskVars, WakeFromNap
<1>5. CASE DispatchLock
  BY <1>5 DEF HoldInv, LockInv, BirthInv, Types, Acquire, Release, Signal, Broadcast, Asleep, Push, Pop, Return, taskVars, DispatchLock
<1>6. CASE Dispatch
  BY <1>6 DEF HoldInv, LockInv, BirthInv, Types, Acquire, Release, Signal, Broadcast, Asleep, Push, Pop, Return, taskVars, Dispatch
<1>7. CASE CallDelete
  BY <1>7 DEF HoldInv, LockInv, BirthInv, Types, Acquire, Release, Signal, Broadcast, Asleep, Push, Pop, Return, taskVars, CallDelete
<1>8. CASE Delete
  BY <1>8 DEF HoldInv, LockInv, BirthInv, Types, Acquire, Release, Signal, Broadcast, Asleep, Push, Pop, Return, taskVars, Delete
<1>9. CASE WakeAll
  BY <1>9 DEF HoldInv, LockInv, BirthInv, Types, Acquire, Release, Signal, Broadcast, Asleep, Push, Pop, Return, taskVars, WakeAll
<1>10. CASE Join
  BY <1>10 DEF HoldInv, LockInv, BirthInv, Types, Acquire, Release, Signal, Broadcast, Asleep, Push, Pop, Return, taskVars, Join
<1>11. CASE Relock
  BY <1>11 DEF HoldInv, LockInv, BirthInv, Types, Acquire, Release, Signal, Broadcast, Asleep, Push, Pop, Return, taskVars, Relock
<1>12. CASE Reaped
  BY <1>12 DEF HoldInv, LockInv, BirthInv, Types, Acquire, Release, Signal, Broadcast, Asleep, Push, Pop, Return, taskVars, Reaped
<1>13. CASE Drain
  BY <1>13 DEF HoldInv, LockInv, BirthInv, Types, Acquire, Release, Signal, Broadcast, Asleep, Push, Pop, Return, taskVars, Drain
<1>14. CASE Drained
  BY <1>14 DEF HoldInv, LockInv, BirthInv, Types, Acquire, Release, Signal, Broadcast, Asleep, Push, Pop, Return, taskVars, Drained
<1>15. CASE Gone
  BY <1>15 DEF HoldInv, LockInv, BirthInv, Types, Acquire, Release, Signal, Broadcast, Asleep, Push, Pop, Return, taskVars, Gone
<1>16. ASSUME NEW t \in Tasks, CallDispatch(t) PROVE HoldInv'
  BY <1>16 DEF HoldInv, LockInv, BirthInv, Types, Acquire, Release, Signal, Broadcast, Asleep, Push, Pop, Return, taskVars, CallDispatch
<1>17. ASSUME NEW w \in Workers, Born(w) PROVE HoldInv'
  BY <1>17 DEF HoldInv, LockInv, BirthInv, Types, Acquire, Release, Signal, Broadcast, Asleep, Push, Pop, Return, taskVars, Born
<1>18. ASSUME NEW w \in Workers, Sleep(w) PROVE HoldInv'
  BY <1>18 DEF HoldInv, LockInv, BirthInv, Types, Acquire, Release, Signal, Broadcast, Asleep, Push, Pop, Return, taskVars, Sleep
<1>19. ASSUME NEW w \in Workers, SpuriousWakeup(w) PROVE HoldInv'
  BY <1>19 DEF HoldInv, LockInv, BirthInv, Types, Acquire, Release, Signal, Broadcast, Asleep, Push, Pop, Return, taskVars, SpuriousWakeup
<1>20. ASSUME NEW w \in Workers, Look(w) PROVE HoldInv'
  BY <1>20 DEF HoldInv, LockInv, BirthInv, Types, Acquire, Release, Signal, Broadcast, Asleep, Push, Pop, Return, taskVars, Look
<1>21. ASSUME NEW w \in Workers, Take(w) PROVE HoldInv'
  BY <1>21 DEF HoldInv, LockInv, BirthInv, Types, Acquire, Release, Signal, Broadcast, Asleep, Push, Pop, Return, taskVars, Take
<1>22. ASSUME NEW w \in Workers, Run(w) PROVE HoldInv'
  BY <1>22 DEF HoldInv, LockInv, BirthInv, Types, Acquire, Release, Signal, Broadcast, Asleep, Push, Pop, Return, taskVars, Run
<1>23. ASSUME NEW w \in Workers, NothingToTake(w) PROVE HoldInv'
  BY <1>23 DEF HoldInv, LockInv, BirthInv, Types, Acquire, Release, Signal, Broadcast, Asleep, Push, Pop, Return, taskVars, NothingToTake
<1>24. ASSUME NEW w \in Workers, Die(w) PROVE HoldInv'
  BY <1>24 DEF HoldInv, LockInv, BirthInv, Types, Acquire, Release, Signal, Broadcast, Asleep, Push, Pop, Return, taskVars, Die
<1>25. CASE UNCHANGED vars
  BY <1>25 DEF HoldInv, LockInv, BirthInv, Types, Acquire, Release, Signal, Broadcast, Asleep, Push, Pop, Return, taskVars, vars
<1> QED
  BY <1>1, <1>2, <1>3, <1>4, <1>5, <1>6, <1>7, <1>8, <1>9, <1>10, <1>11, <1>12, <1>13, <1>14, <1>15, <1>16, <1>17, <1>18, <1>19, <1>20, <1>21, <1>22, <1>23, <1>24, <1>25 DEF Next, OwnerStep, Constructing, Dispatching, Deleting, WorkerStep, Progress, Over

LEMMA InitControl == Init => ControlInv
<1> SUFFICES ASSUME Init PROVE ControlInv
  OBVIOUS
<1> USE NumThreadsAssumption, OwnerAssumption, NoTaskAssumption, NoThreadAssumption
    DEF Init, Threads, Workers
<1>1. Types
  <2>1. <<>> \in Seq(Tasks)
    BY EmptySeq
  <2>2. pc \in [Workers -> WorkerPC] /\ nextTask \in [Threads -> Tasks \cup {NoTask}]
    BY DEF WorkerPC
  <2>3. work_queue \in Seq(Tasks) /\ dispatched \in Seq(Tasks) /\ started \in Seq(Tasks)
    BY <2>1
  <2>4. q_lock \in Threads \cup {NoThread} /\ terminate \in BOOLEAN /\ finished \in SUBSET Tasks
    OBVIOUS
  <2>5. \A w \in Workers : pc[w] # "run"
    OBVIOUS
  <2> HIDE DEF Init
  <2> QED
    BY <2>2, <2>3, <2>4, <2>5 DEF Types, OwnerPC, Init
<1>2. LockInv /\ BirthInv /\ ReapInv /\ HoldInv
  BY DEF LockInv, BirthInv, ReapInv, HoldInv
<1>3. CountInv
  <2>1. Alive = {}
    BY DEF Alive
  <2> QED
    BY <2>1, FS_EmptySet DEF CountInv
<1> QED
  BY <1>1, <1>2, <1>3 DEF ControlInv

LEMMA ControlStep == ControlInv /\ [Next]_vars => ControlInv'
BY TypesStep, LockStep, CountStep, BirthStep, ReapStep, HoldStep DEF ControlInv

THEOREM Control == Spec => []ControlInv
BY InitControl, ControlStep, PTL DEF Spec

(* ThreadPool's type invariant: in particular num_threads_running_ never   *)
(* leaves 0..num_threads.                                                  *)
THEOREM TypeCorrect == Spec => []TypeOK
<1>1. ControlInv => TypeOK
  <2> SUFFICES ASSUME ControlInv PROVE TypeOK
    OBVIOUS
  <2>1. Alive \in SUBSET Workers
    BY DEF Alive
  <2>2. running \in 0..NumThreads
    BY <2>1, WorkerSets DEF ControlInv, CountInv
  <2> QED
    BY <2>2, NumThreadsAssumption DEF ControlInv, Types, BirthInv, ReapInv, TypeOK
<1> QED
  BY <1>1, Control, PTL

(* The destructor is never blocked joining a worker that still sleeps in   *)
(* pthread_cond_wait.                                                      *)
THEOREM JoinSafe == Spec => []NobodySleepsThroughJoin
<1>1. ControlInv => NobodySleepsThroughJoin
  BY DEF ControlInv, ReapInv, NobodySleepsThroughJoin, Asleep
<1> QED
  BY <1>1, Control, PTL

(* Dispatch's and the destructor's Verify333 never end the process. *)
THEOREM VerifyCorrect == Spec => []VerifyHolds
<1>1. ControlInv => VerifyHolds
  <2> SUFFICES ASSUME ControlInv PROVE VerifyHolds
    OBVIOUS
  <2>1. owner = "push" => ~terminate
    BY DEF ControlInv, BirthInv
  <2>2. ASSUME owner = "reap", i = num_threads PROVE running = 0
    <3>1. i = NumThreads
      BY <2>2 DEF ControlInv, BirthInv
    <3>2. \A w \in Workers : pc[w] = "dead"
      BY <2>2, <3>1, NumThreadsAssumption DEF ControlInv, ReapInv, Workers
    <3>3. Alive = {}
      BY <3>2 DEF Alive
    <3> QED
      BY <3>3, FS_EmptySet DEF ControlInv, CountInv
  <2> QED
    BY <2>1, <2>2 DEF VerifyHolds
<1> QED
  BY <1>1, Control, PTL

-----------------------------------------------------------------------------
(* The steps that move a task, one lemma each; all others leave taskVars   *)
(* alone.                                                                  *)
LEMMA PushStep ==
  ASSUME Types, FreshInv, EveryTaskAccountedFor, Dispatch
  PROVE  FreshInv' /\ EveryTaskAccountedFor'
<1> USE DEF Dispatch, Push
<1>1. arg \in Tasks /\ dispatched \in Seq(Tasks) /\ started \in Seq(Tasks) /\ work_queue \in Seq(Tasks)
  BY DEF Types
<1>2. dispatched' = started' \o work_queue'
  <2> <<arg>> \in Seq(Tasks)
    BY <1>1
  <2> HIDE DEF Dispatch, Push
  <2>1. Append(started \o work_queue, arg) = started \o Append(work_queue, arg)
    <3>1. started \o work_queue \in Seq(Tasks)
      BY <1>1, ConcatProperties
    <3>2. Append(started \o work_queue, arg) = (started \o work_queue) \o <<arg>>
      BY <1>1, <3>1, AppendIsConcat
    <3>3. Append(work_queue, arg) = work_queue \o <<arg>>
      BY <1>1, AppendIsConcat
    <3> QED
      BY <1>1, <3>2, <3>3, ConcatAssociative
  <2>2. dispatched = started \o work_queue
    BY DEF EveryTaskAccountedFor
  <2>3. /\ dispatched' = Append(dispatched, arg)
        /\ work_queue' = Append(work_queue, arg)
        /\ started' = started
    BY DEF Dispatch, Push
  <2> QED
    BY <2>1, <2>2, <2>3, Zenon
<1>3. FreshInv'
  <2>1. /\ DOMAIN dispatched = 1..Len(dispatched) /\ Len(dispatched) \in Nat
        /\ DOMAIN dispatched' = 1..(Len(dispatched) + 1)
    BY <1>1, LenProperties, AppendProperties
  <2>2. /\ \A k \in DOMAIN dispatched : dispatched'[k] = dispatched[k]
        /\ dispatched'[Len(dispatched) + 1] = arg
    BY <1>1, <2>1, AppendProperties
  <2>3. \A k \in DOMAIN dispatched : dispatched[k] # arg
    BY DEF FreshInv, Range
  <2> QED
    BY <2>1, <2>2, <2>3 DEF FreshInv
<1>4. UNCHANGED <<started, finished, nextTask>> /\ Executing' = Executing
  BY DEF Executing
<1> QED
  BY <1>2, <1>3, <1>4, Zenon DEF EveryTaskAccountedFor

LEMMA PopStep ==
  ASSUME Types, FreshInv, EveryTaskAccountedFor, work_queue # <<>>,
         owner' \notin {"dispatch", "push"} \/ UNCHANGED <<owner, arg>>,
         NEW th \in Threads, nextTask[th] = NoTask, Pop(th)
  PROVE  FreshInv' /\ EveryTaskAccountedFor'
<1> USE DEF Pop
<1> DEFINE h == Head(work_queue)
<1>1. /\ h \in Tasks /\ h # NoTask
      /\ dispatched \in Seq(Tasks) /\ started \in Seq(Tasks) /\ work_queue \in Seq(Tasks)
  BY HeadTailProperties, NoTaskAssumption DEF Types
<1>2. dispatched' = started' \o work_queue'
  BY <1>1, PopKeepsOrder DEF EveryTaskAccountedFor
<1>3. h \notin Range(started)
  <2>1. dispatched[Len(started) + 1] = h /\ Len(started) + 1 \in DOMAIN dispatched
    BY <1>1, PopKeepsOrder DEF EveryTaskAccountedFor
  <2>2. \A k \in DOMAIN started : k \in DOMAIN dispatched /\ dispatched[k] = started[k] /\ k # Len(started) + 1
    BY <1>1, PopKeepsOrder DEF EveryTaskAccountedFor
  <2> QED
    BY <2>1, <2>2 DEF FreshInv, Range
<1>4. Range(started') = Range(started) \cup {h}
  BY <1>1, RangeOfAppend
<1>5. nextTask' = [nextTask EXCEPT ![th] = h] /\ nextTask \in [Threads -> Tasks \cup {NoTask}]
  BY DEF Types
<1>6. Executing' = Executing \cup {h}
  BY <1>1, <1>5 DEF Executing
<1>7. h \notin Executing /\ h \notin finished
  BY <1>3 DEF EveryTaskAccountedFor
<1>8. \A t, u \in Threads : nextTask'[t] = nextTask'[u] => t = u \/ nextTask'[t] = NoTask
  <2>1. \A t \in Threads : nextTask[t] # h
    BY <1>1, <1>7 DEF Executing
  <2> QED
    BY <1>5, <2>1 DEF EveryTaskAccountedFor
<1>9. FreshInv'
  BY DEF FreshInv, Range
<1> QED
  BY <1>2, <1>4, <1>6, <1>7, <1>8, <1>9 DEF EveryTaskAccountedFor

LEMMA ReturnStep ==
  ASSUME Types, FreshInv, EveryTaskAccountedFor,
         owner' \notin {"dispatch", "push"} \/ UNCHANGED <<owner, arg>>,
         NEW th \in Threads, nextTask[th] \in Tasks, Return(th)
  PROVE  FreshInv' /\ EveryTaskAccountedFor'
<1> USE DEF Return
<1>1. nextTask' = [nextTask EXCEPT ![th] = NoTask] /\ nextTask \in [Threads -> Tasks \cup {NoTask}]
  BY DEF Types
<1>2. nextTask[th] # NoTask
  BY NoTaskAssumption
<1>3. Executing' = Executing \ {nextTask[th]} /\ nextTask[th] \in Executing
  BY <1>1, <1>2 DEF Executing, EveryTaskAccountedFor
<1>4. \A t, u \in Threads : nextTask'[t] = nextTask'[u] => t = u \/ nextTask'[t] = NoTask
  BY <1>1 DEF EveryTaskAccountedFor
<1>5. FreshInv'
  BY DEF FreshInv, Range
<1> QED
  BY <1>3, <1>4, <1>5 DEF EveryTaskAccountedFor, Range

LEMMA OtherStep ==
  ASSUME FreshInv, EveryTaskAccountedFor, UNCHANGED taskVars,
         \/ owner' \notin {"dispatch", "push"}
         \/ owner \in {"dispatch", "push"} /\ arg' = arg
         \/ arg' \notin Range(dispatched)
  PROVE  FreshInv' /\ EveryTaskAccountedFor'
<1>1. UNCHANGED <<work_queue, nextTask, dispatched, started, finished>>
  BY DEF taskVars
<1>2. Executing' = Executing
  BY <1>1 DEF Executing
<1>3. FreshInv'
  BY <1>1 DEF FreshInv, Range
<1> QED
  BY <1>1, <1>2, <1>3, Zenon DEF EveryTaskAccountedFor

LEMMA TaskStep ==
  ASSUME ControlInv, FreshInv, EveryTaskAccountedFor, [Next]_vars
  PROVE  FreshInv' /\ EveryTaskAccountedFor'
<1> USE DEF ControlInv
<1>1. CASE Spawn
  BY <1>1, OtherStep DEF Spawn
<1>2. CASE Spawned
  BY <1>2, OtherStep DEF Spawned
<1>3. CASE Census
  BY <1>3, OtherStep DEF Census
<1>4. CASE WakeFromNap
  BY <1>4, OtherStep DEF WakeFromNap
<1>5. CASE DispatchLock
  BY <1>5, OtherStep DEF DispatchLock
<1>6. CASE Dispatch
  BY <1>6, PushStep
<1>7. CASE CallDelete
  BY <1>7, OtherStep DEF CallDelete
<1>8. CASE Delete
  BY <1>8, OtherStep DEF Delete
<1>9. CASE WakeAll
  BY <1>9, OtherStep DEF WakeAll
<1>10. CASE Join
  BY <1>10, OtherStep DEF Join
<1>11. CASE Relock
  BY <1>11, OtherStep DEF Relock
<1>12. CASE Reaped
  BY <1>12, OtherStep DEF Reaped
<1>13. CASE Drain
  <2>1. Owner \in Threads /\ nextTask[Owner] = NoTask
    BY <1>13 DEF HoldInv, Threads, Drain
  <2> QED
    BY <2>1, <1>13, PopStep DEF Drain
<1>14. CASE Drained
  <2>1. Owner \in Threads /\ nextTask[Owner] \in Tasks
    BY <1>14 DEF Types, Threads, Drained
  <2> QED
    BY <2>1, <1>14, ReturnStep DEF Drained
<1>15. CASE Gone
  BY <1>15, OtherStep DEF Gone
<1>16. ASSUME NEW t \in Tasks, CallDispatch(t) PROVE FreshInv' /\ EveryTaskAccountedFor'
  BY <1>16, OtherStep DEF CallDispatch
<1>17. ASSUME NEW w \in Workers, Born(w) PROVE FreshInv' /\ EveryTaskAccountedFor'
  BY <1>17, OtherStep DEF Born
<1>18. ASSUME NEW w \in Workers, Sleep(w) PROVE FreshInv' /\ EveryTaskAccountedFor'
  BY <1>18, OtherStep DEF Sleep
<1>19. ASSUME NEW w \in Workers, SpuriousWakeup(w) PROVE FreshInv' /\ EveryTaskAccountedFor'
  BY <1>19, OtherStep DEF SpuriousWakeup
<1>20. ASSUME NEW w \in Workers, Look(w) PROVE FreshInv' /\ EveryTaskAccountedFor'
  BY <1>20, OtherStep DEF Look
<1>21. ASSUME NEW w \in Workers, Take(w) PROVE FreshInv' /\ EveryTaskAccountedFor'
  <2>1. w \in Threads /\ nextTask[w] = NoTask
    BY <1>21 DEF HoldInv, Threads, Take
  <2> QED
    BY <2>1, <1>21, PopStep DEF Take
<1>22. ASSUME NEW w \in Workers, Run(w) PROVE FreshInv' /\ EveryTaskAccountedFor'
  <2>1. w \in Threads /\ nextTask[w] \in Tasks
    BY <1>22 DEF Types, Threads, Run
  <2> QED
    BY <2>1, <1>22, ReturnStep DEF Run
<1>23. ASSUME NEW w \in Workers, NothingToTake(w) PROVE FreshInv' /\ EveryTaskAccountedFor'
  BY <1>23, OtherStep DEF NothingToTake
<1>24. ASSUME NEW w \in Workers, Die(w) PROVE FreshInv' /\ EveryTaskAccountedFor'
  BY <1>24, OtherStep DEF Die
<1>25. CASE UNCHANGED vars
  BY <1>25, OtherStep DEF taskVars, vars
<1> QED
  BY <1>1, <1>2, <1>3, <1>4, <1>5, <1>6, <1>7, <1>8, <1>9, <1>10, <1>11, <1>12, <1>13, <1>14, <1>15, <1>16, <1>17, <1>18, <1>19, <1>20, <1>21, <1>22, <1>23, <1>24, <1>25 DEF Next, OwnerStep, Constructing, Dispatching, Deleting, WorkerStep, Progress, Over

LEMMA InitTask == Init => FreshInv /\ EveryTaskAccountedFor
<1> SUFFICES ASSUME Init PROVE FreshInv /\ EveryTaskAccountedFor
  OBVIOUS
<1>1. <<>> \o <<>> = <<>> /\ DOMAIN <<>> = {}
  BY ConcatEmptySeq, EmptySeq
<1>2. Range(<<>>) = {} /\ Executing = {}
  BY <1>1 DEF Init, Range, Executing
<1> QED
  BY <1>1, <1>2 DEF Init, FreshInv, EveryTaskAccountedFor

THEOREM Tasking == Spec => [](ControlInv /\ FreshInv /\ EveryTaskAccountedFor)
BY InitControl, InitTask, ControlStep, TaskStep, PTL DEF Spec

(* No interleaving of dispatching, popping, running and draining loses,    *)
(* duplicates or reorders a task.                                          *)
THEOREM NoTaskLostOrRepeated == Spec => []EveryTaskAccountedFor
BY Tasking, PTL

(* When the destructor has returned every dispatched task has been run.    *)
THEOREM DeleteIsClean == Spec => []CleanDelete
<1>1. ControlInv /\ EveryTaskAccountedFor => CleanDelete
  <2> SUFFICES ASSUME ControlInv, EveryTaskAccountedFor, owner = "gone"
               PROVE  /\ \A w \in Workers : pc[w] = "dead"
                      /\ q_lock = NoThread
                      /\ finished = Range(dispatched)
    BY DEF CleanDelete
  <2>1. \A w \in Workers : pc[w] = "dead"
    BY DEF ControlInv, ReapInv
  <2>2. q_lock = NoThread
    BY <2>1 DEF ControlInv, LockInv, Types, Threads
  <2>3. dispatched = started
    BY ConcatEmptySeq DEF ControlInv, HoldInv, Types, EveryTaskAccountedFor
  <2>4. Executing = {}
    BY <2>1 DEF ControlInv, HoldInv, Executing, Threads
  <2> QED
    BY <2>1, <2>2, <2>3, <2>4 DEF EveryTaskAccountedFor
<1> QED
  BY <1>1, Tasking, PTL

-----------------------------------------------------------------------------
(* The wakeups: every way a worker joins or leaves Looking, and every way  *)
(* the queue grows or shrinks.                                             *)
LEMMA AddLooking ==
  ASSUME NEW w \in Workers, Looking' = Looking \cup {w}, w \notin Looking
  PROVE  Cardinality(Looking') = Cardinality(Looking) + 1
<1>1. Looking \in SUBSET Workers
  BY DEF Looking
<1> QED
  BY <1>1, WorkerSets, FS_AddElement

LEMMA DropLooking ==
  ASSUME NEW w \in Workers, Looking' = Looking \ {w}, w \in Looking
  PROVE  Cardinality(Looking') = Cardinality(Looking) - 1
<1>1. Looking \in SUBSET Workers
  BY DEF Looking
<1> QED
  BY <1>1, WorkerSets, FS_RemoveElement

LEMMA WakeupStep ==
  ASSUME ControlInv, ControlInv', NoLostWakeup, [Next]_vars
  PROVE  NoLostWakeup'
<1>0. /\ Types /\ Types' /\ LockInv /\ BirthInv /\ HoldInv
      /\ Cardinality(Looking) \in Nat /\ Cardinality(Looking') \in Nat
      /\ Len(work_queue) \in Nat /\ Len(<<>>) = 0
  <2>1. Looking \in SUBSET Workers /\ Looking' \in SUBSET Workers
    BY DEF Looking
  <2> QED
    BY <2>1, WorkerSets, LenProperties, EmptySeq DEF ControlInv, Types
<1> USE <1>0, NumThreadsAssumption DEF Workers, WorkerPC
<1>1. CASE Spawn
  <2>1. pc[i + 1] = "unborn"
    BY <1>1 DEF BirthInv, Types, Spawn
  <2>2. UNCHANGED <<Looking, Asleep, work_queue, terminate>>
    BY <2>1, <1>1 DEF Looking, Asleep, Types, taskVars, Spawn
  <2> QED
    BY <2>2 DEF NoLostWakeup
<1>2. CASE Spawned
  <2>1. UNCHANGED <<Looking, Asleep, work_queue, terminate>>
    BY <1>2 DEF Looking, Asleep, taskVars, Spawned
  <2> QED
    BY <2>1 DEF NoLostWakeup
<1>3. CASE Census
  <2>1. UNCHANGED <<Looking, Asleep, work_queue, terminate>>
    BY <1>3 DEF Looking, Asleep, taskVars, Census
  <2> QED
    BY <2>1 DEF NoLostWakeup
<1>4. CASE WakeFromNap
  <2>1. UNCHANGED <<Looking, Asleep, work_queue, terminate>>
    BY <1>4 DEF Looking, Asleep, taskVars, WakeFromNap
  <2> QED
    BY <2>1 DEF NoLostWakeup
<1>5. CASE DispatchLock
  <2>1. UNCHANGED <<Looking, Asleep, work_queue, terminate>>
    BY <1>5 DEF Looking, Asleep, taskVars, DispatchLock
  <2> QED
    BY <2>1 DEF NoLostWakeup
<1>6. CASE Dispatch
  <2>1. Len(work_queue') = Len(work_queue) + 1
    BY <1>6, AppendProperties DEF Types, Dispatch, Push
  <2>2. CASE Asleep = {}
    BY <2>2, <1>6 DEF NoLostWakeup, Asleep, Signal, Dispatch, Push
  <2>3. CASE Asleep # {}
    <3>1. PICK w \in Asleep : pc' = [pc EXCEPT ![w] = "woken"]
      BY <2>3, <1>6 DEF Signal, Dispatch, Push
    <3>2. w \in Workers /\ w \notin Looking /\ Looking' = Looking \cup {w}
      BY <3>1 DEF Asleep, Looking, Types
    <3>3. Cardinality(Looking') = Cardinality(Looking) + 1
      BY <3>2, AddLooking
    <3> QED
      BY <2>1, <2>3, <3>3, <1>6 DEF NoLostWakeup, Dispatch, Push
  <2> QED
    BY <2>2, <2>3
<1>7. CASE CallDelete
  <2>1. UNCHANGED <<Looking, Asleep, work_queue, terminate>>
    BY <1>7 DEF Looking, Asleep, taskVars, CallDelete
  <2> QED
    BY <2>1 DEF NoLostWakeup
<1>8. CASE Delete
  BY <1>8 DEF BirthInv, NoLostWakeup, taskVars, Delete
<1>9. CASE WakeAll
  BY <1>9 DEF BirthInv, NoLostWakeup, taskVars, WakeAll
<1>10. CASE Join
  <2>1. UNCHANGED <<Looking, Asleep, work_queue, terminate>>
    BY <1>10 DEF Looking, Asleep, taskVars, Join
  <2> QED
    BY <2>1 DEF NoLostWakeup
<1>11. CASE Relock
  <2>1. UNCHANGED <<Looking, Asleep, work_queue, terminate>>
    BY <1>11 DEF Looking, Asleep, taskVars, Relock
  <2> QED
    BY <2>1 DEF NoLostWakeup
<1>12. CASE Reaped
  <2>1. UNCHANGED <<Looking, Asleep, work_queue, terminate>>
    BY <1>12 DEF Looking, Asleep, taskVars, Reaped
  <2> QED
    BY <2>1 DEF NoLostWakeup
<1>13. CASE Drain
  BY <1>13 DEF BirthInv, NoLostWakeup, Drain
<1>14. CASE Drained
  BY <1>14 DEF BirthInv, NoLostWakeup, Drained
<1>15. CASE Gone
  <2>1. UNCHANGED <<Looking, Asleep, work_queue, terminate>>
    BY <1>15 DEF Looking, Asleep, taskVars, Gone
  <2> QED
    BY <2>1 DEF NoLostWakeup
<1>16. ASSUME NEW t \in Tasks, CallDispatch(t) PROVE NoLostWakeup'
  <2>1. UNCHANGED <<Looking, Asleep, work_queue, terminate>>
    BY <1>16 DEF Looking, Asleep, taskVars, CallDispatch
  <2> QED
    BY <2>1 DEF NoLostWakeup
<1>17. ASSUME NEW w \in Workers, Born(w) PROVE NoLostWakeup'
  <2>1. UNCHANGED <<Looking, Asleep, work_queue, terminate>>
    BY <1>17 DEF Looking, Asleep, Types, taskVars, Born
  <2> QED
    BY <2>1 DEF NoLostWakeup
<1>18. ASSUME NEW w \in Workers, Sleep(w) PROVE NoLostWakeup'
  <2>1. work_queue' = <<>>
    BY <1>18 DEF HoldInv, Sleep, taskVars
  <2> QED
    BY <2>1 DEF NoLostWakeup
<1>19. ASSUME NEW w \in Workers, SpuriousWakeup(w) PROVE NoLostWakeup'
  <2>1. w \notin Looking /\ Looking' = Looking \cup {w} /\ Asleep # {}
    BY <1>19 DEF Looking, Asleep, Types, SpuriousWakeup
  <2>2. Cardinality(Looking') = Cardinality(Looking) + 1
    BY <2>1, AddLooking
  <2> QED
    BY <2>1, <2>2, <1>19 DEF NoLostWakeup, SpuriousWakeup, taskVars
<1>20. ASSUME NEW w \in Workers, Look(w) PROVE NoLostWakeup'
  <2>1. UNCHANGED <<Looking, Asleep, work_queue, terminate>>
    BY <1>20 DEF Looking, Asleep, Types, taskVars, Look
  <2> QED
    BY <2>1 DEF NoLostWakeup
<1>21. ASSUME NEW w \in Workers, Take(w) PROVE NoLostWakeup'
  <2>1. w \in Looking /\ Looking' = Looking \ {w} /\ Asleep' = Asleep
    BY <1>21 DEF Looking, Asleep, Types, Take
  <2>2. Len(work_queue') = Len(work_queue) - 1
    BY <1>21, HeadTailProperties DEF Types, Take, Pop
  <2>3. Cardinality(Looking') = Cardinality(Looking) - 1
    BY <2>1, DropLooking
  <2> QED
    BY <2>1, <2>2, <2>3, <1>21 DEF NoLostWakeup, Take
<1>22. ASSUME NEW w \in Workers, Run(w) PROVE NoLostWakeup'
  <2>1. w \notin Looking /\ Looking' = Looking \cup {w} /\ Asleep' = Asleep
    BY <1>22 DEF Looking, Asleep, Types, Run
  <2>2. Cardinality(Looking') = Cardinality(Looking) + 1
    BY <2>1, AddLooking
  <2> QED
    BY <2>1, <2>2, <1>22 DEF NoLostWakeup, Run, Return
<1>23. ASSUME NEW w \in Workers, NothingToTake(w) PROVE NoLostWakeup'
  <2>1. terminate' = terminate /\ (terminate \/ work_queue' = <<>>)
    BY <1>23 DEF NothingToTake, taskVars
  <2> QED
    BY <2>1 DEF NoLostWakeup
<1>24. ASSUME NEW w \in Workers, Die(w) PROVE NoLostWakeup'
  BY <1>24 DEF BirthInv, NoLostWakeup, taskVars, Die
<1>25. CASE UNCHANGED vars
  BY <1>25 DEF NoLostWakeup, Looking, Asleep, taskVars, vars
<1> QED
  BY <1>1, <1>2, <1>3, <1>4, <1>5, <1>6, <1>7, <1>8, <1>9, <1>10, <1>11, <1>12, <1>13, <1>14, <1>15, <1>16, <1>17, <1>18, <1>19, <1>20, <1>21, <1>22, <1>23, <1>24, <1>25 DEF Next, OwnerStep, Constructing, Dispatching, Deleting, WorkerStep, Progress, Over

(* A wakeup is never lost: a worker stays asleep only while every queued   *)
(* task has another worker on its way to it.                               *)
THEOREM NoWakeupLost == Spec => []NoLostWakeup
<1>1. Init => NoLostWakeup
  BY DEF Init, NoLostWakeup, Asleep
<1>2. ControlInv /\ ControlInv' /\ NoLostWakeup /\ [Next]_vars => NoLostWakeup'
  BY WakeupStep
<1> QED
  BY <1>1, <1>2, Control, PTL DEF Spec

-----------------------------------------------------------------------------
(* ThreadPool.h: a worker that sees terminate_threads_ set takes no task.  *)
THEOREM NoPickup == Spec => NoPickupAfterTerminate
<1>1. ControlInv /\ [Next]_vars => [terminate => \A w \in Workers : nextTask'[w] \in {nextTask[w], NoTask}]_vars
  <2> SUFFICES ASSUME ControlInv, [Next]_vars, terminate, NEW v \in Workers
               PROVE  nextTask'[v] \in {nextTask[v], NoTask}
    OBVIOUS
  <2>0. Types /\ v \in Threads /\ v # Owner /\ Owner \in Threads
    BY OwnerAssumption DEF ControlInv, Threads
  <2>1. CASE UNCHANGED nextTask
    BY <2>1
  <2>2. CASE Dispatch
    BY <2>2 DEF Dispatch, Push
  <2>3. CASE Drain
    BY <2>0, <2>3 DEF Drain, Pop, Types
  <2>4. CASE Drained
    BY <2>0, <2>4 DEF Drained, Return, Types
  <2>5. ASSUME NEW w \in Workers, Take(w) PROVE nextTask'[v] \in {nextTask[v], NoTask}
    BY <2>5 DEF Take
  <2>6. ASSUME NEW w \in Workers, Run(w) PROVE nextTask'[v] \in {nextTask[v], NoTask}
    BY <2>0, <2>6 DEF Run, Return, Types
  <2> QED
    BY <2>1, <2>2, <2>3, <2>4, <2>5, <2>6
    DEF Next, OwnerStep, Constructing, Dispatching, Deleting, WorkerStep, Progress, Over, vars, taskVars,
        Spawn, Spawned, Census, WakeFromNap, CallDispatch, DispatchLock, CallDelete, Delete, WakeAll, Join,
        Relock, Reaped, Gone, Born, Sleep, SpuriousWakeup, Look, NothingToTake, Die
<1> QED
  BY <1>1, Control, PTL DEF Spec, NoPickupAfterTerminate

-----------------------------------------------------------------------------
(* The refinement: a push is Submit, a pop is Start, the return of a task  *)
(* function is Finish, and every other step but the setting of             *)
(* terminate_threads_ and the destructor's return leaves the pool alone.   *)
LEMMA RefinementInit == Init => Pool!PoolInit
<1>1. DOMAIN <<>> = {}
  BY EmptySeq
<1> QED
  BY <1>1 DEF Init, Pool!PoolInit, Pool!Executors, Range, Threads

LEMMA RefinementStep ==
  ASSUME ControlInv, FreshInv, [Next]_vars
  PROVE  [Pool!PoolNext]_(Pool!poolVars)
<1> USE DEF Pool!poolVars, Pool!PoolNext
<1>0. Types /\ HoldInv /\ BirthInv /\ ReapInv /\ Owner \in Threads /\ Workers \subseteq Threads
  BY DEF ControlInv, Threads
<1>1. CASE Spawn
  BY <1>1, <1>0 DEF BirthInv, taskVars, Spawn
<1>2. CASE Spawned
  BY <1>2, <1>0 DEF BirthInv, taskVars, Spawned
<1>3. CASE Census
  BY <1>3, <1>0 DEF BirthInv, taskVars, Census
<1>4. CASE WakeFromNap
  BY <1>4, <1>0 DEF BirthInv, taskVars, WakeFromNap
<1>5. CASE DispatchLock
  BY <1>5, <1>0 DEF BirthInv, taskVars, DispatchLock
<1>6. CASE Dispatch
  <2>1. Range(dispatched') = Range(dispatched) \cup {arg}
    BY <1>6, <1>0, RangeOfAppend DEF Types, Dispatch, Push
  <2>2. Pool!Submit(arg) /\ arg \in Tasks
    BY <2>1, <1>6, <1>0 DEF Pool!Submit, FreshInv, Types, Dispatch, Push
  <2> QED
    BY <2>2
<1>7. CASE CallDelete
  BY <1>7, <1>0 DEF BirthInv, taskVars, CallDelete
<1>8. CASE Delete
  <2>1. Pool!BeginClose
    BY <1>8, <1>0 DEF Pool!BeginClose, BirthInv, Delete, taskVars
  <2> QED
    BY <2>1
<1>9. CASE WakeAll
  BY <1>9, <1>0 DEF BirthInv, taskVars, WakeAll
<1>10. CASE Join
  BY <1>10, <1>0 DEF BirthInv, taskVars, Join
<1>11. CASE Relock
  BY <1>11, <1>0 DEF BirthInv, taskVars, Relock
<1>12. CASE Reaped
  BY <1>12, <1>0 DEF BirthInv, taskVars, Reaped
<1>13. CASE Drain
  <2>1. \A e \in Threads : nextTask[e] = NoTask
    BY <1>13, <1>0 DEF HoldInv, ReapInv, Drain, Threads
  <2>2. Pool!Start(Owner)
    BY <2>1, <1>13, <1>0 DEF Pool!Start, Pool!Executors, Threads, BirthInv, Drain, Pop
  <2> QED
    BY <2>2, <1>0 DEF Pool!Executors, Threads
<1>14. CASE Drained
  <2>1. nextTask[Owner] # NoTask
    BY <1>14, <1>0, NoTaskAssumption DEF Types, Drained
  <2>2. Pool!Finish(Owner)
    BY <2>1, <1>14, <1>0 DEF Pool!Finish, Drained, Return
  <2> QED
    BY <2>2, <1>0 DEF Pool!Executors, Threads
<1>15. CASE Gone
  <2>1. \A e \in Threads : nextTask[e] = NoTask
    BY <1>15, <1>0 DEF HoldInv, ReapInv, Gone, Threads
  <2>2. Pool!EndClose
    BY <2>1, <1>15, <1>0 DEF Pool!EndClose, Pool!Executors, Threads, BirthInv, Gone, taskVars
  <2> QED
    BY <2>2
<1>16. ASSUME NEW t \in Tasks, CallDispatch(t) PROVE [Pool!PoolNext]_(Pool!poolVars)
  BY <1>16, <1>0 DEF BirthInv, taskVars, CallDispatch
<1>17. ASSUME NEW w \in Workers, Born(w) PROVE [Pool!PoolNext]_(Pool!poolVars)
  BY <1>17, <1>0 DEF BirthInv, taskVars, Born
<1>18. ASSUME NEW w \in Workers, Sleep(w) PROVE [Pool!PoolNext]_(Pool!poolVars)
  BY <1>18, <1>0 DEF BirthInv, taskVars, Sleep
<1>19. ASSUME NEW w \in Workers, SpuriousWakeup(w) PROVE [Pool!PoolNext]_(Pool!poolVars)
  BY <1>19, <1>0 DEF BirthInv, taskVars, SpuriousWakeup
<1>20. ASSUME NEW w \in Workers, Look(w) PROVE [Pool!PoolNext]_(Pool!poolVars)
  BY <1>20, <1>0 DEF BirthInv, taskVars, Look
<1>21. ASSUME NEW w \in Workers, Take(w) PROVE [Pool!PoolNext]_(Pool!poolVars)
  <2>1. nextTask[w] = NoTask /\ w # Owner
    BY <1>21, <1>0, OwnerAssumption DEF HoldInv, Take
  <2>2. Pool!Start(w)
    BY <2>1, <1>21, <1>0 DEF Pool!Start, Pool!Executors, Take, Pop
  <2> QED
    BY <2>2, <1>0 DEF Pool!Executors, Threads
<1>22. ASSUME NEW w \in Workers, Run(w) PROVE [Pool!PoolNext]_(Pool!poolVars)
  <2>1. nextTask[w] # NoTask
    BY <1>22, <1>0, NoTaskAssumption DEF Types, Run
  <2>2. Pool!Finish(w)
    BY <2>1, <1>22, <1>0 DEF Pool!Finish, Run, Return
  <2> QED
    BY <2>2, <1>0 DEF Pool!Executors, Threads
<1>23. ASSUME NEW w \in Workers, NothingToTake(w) PROVE [Pool!PoolNext]_(Pool!poolVars)
  BY <1>23, <1>0 DEF BirthInv, taskVars, NothingToTake
<1>24. ASSUME NEW w \in Workers, Die(w) PROVE [Pool!PoolNext]_(Pool!poolVars)
  BY <1>24, <1>0 DEF BirthInv, taskVars, Die
<1>25. CASE UNCHANGED vars
  BY <1>25 DEF taskVars, vars
<1> QED
  BY <1>1, <1>2, <1>3, <1>4, <1>5, <1>6, <1>7, <1>8, <1>9, <1>10, <1>11, <1>12, <1>13, <1>14, <1>15, <1>16, <1>17, <1>18, <1>19, <1>20, <1>21, <1>22, <1>23, <1>24, <1>25 DEF Next, OwnerStep, Constructing, Dispatching, Deleting, WorkerStep, Progress, Over

(* ThreadPool implements the abstract pool: at every moment its customers  *)
(* see tasks started in order, executed once, and none left at the end.    *)
THEOREM Refinement == Spec => Pool!PoolSpec
<1>1. ControlInv /\ FreshInv /\ [Next]_vars => [Pool!PoolNext]_(Pool!poolVars)
  BY RefinementStep
<1> QED
  BY <1>1, RefinementInit, Tasking, PTL DEF Spec, Pool!PoolSpec

=============================================================================
