----------------------------- MODULE ThreadPool -----------------------------
(***************************************************************************)
(* hw4/ThreadPool.cc: a fixed set of worker threads fed through a queue    *)
(* that one mutex, q_lock_, and one condition variable, q_cond_, protect.  *)
(* One thread, the owner, constructs the pool, dispatches tasks to it and  *)
(* destroys it, as HttpServer::Run and test_threadpool.cc do.              *)
(*                                                                         *)
(* A step runs from one acquisition, release or blocking call to the next: *)
(* everything in between happens under q_lock_ or touches only locals.     *)
(***************************************************************************)
EXTENDS Naturals, Sequences, FiniteSets, Functions

CONSTANTS NumThreads,  \* the constructor's num_threads
          Tasks,       \* the Task objects the owner may dispatch
          Owner,       \* the owner thread
          NoTask,      \* no task: a null nextTask
          NoThread     \* the holder of a free q_lock_

Workers == 1..NumThreads
Threads == Workers \cup {Owner}

ASSUME NumThreadsAssumption == NumThreads \in Nat \ {0}
ASSUME OwnerAssumption == Owner \notin Workers
ASSUME NoTaskAssumption == NoTask \notin Tasks
ASSUME NoThreadAssumption == NoThread \notin Threads

VARIABLES
  q_lock,      \* q_lock_: the thread that holds it, or NoThread
  work_queue,  \* work_queue_
  terminate,   \* terminate_threads_
  running,     \* num_threads_running_
  pc,          \* where each worker is in ThreadLoop
  owner,       \* where the owner is
  i,           \* the loop index of the constructor, then of the destructor
  num_threads, \* the destructor's copy of num_threads_running_
  arg,         \* Dispatch's argument
  nextTask,    \* the task each thread is executing
  dispatched,  \* history: the tasks pushed, in order
  started,     \* history: the tasks popped, in order
  finished     \* history: the tasks whose function has returned

taskVars == <<work_queue, nextTask, dispatched, started, finished>>
vars == <<q_lock, terminate, running, pc, owner, i, num_threads, arg, taskVars>>

\* ThreadLoop: asleep is inside pthread_cond_wait, woken and relock want the
\* lock, loop and take hold it, run executes a task without it.
WorkerPC == {"unborn", "born", "loop", "asleep", "woken", "take", "run", "relock", "dead"}

\* spawn, census, nap: the constructor; idle: between calls; dispatch, push:
\* Dispatch; delete .. drainrun: the destructor, gone once it has returned.
OwnerPC == {"spawn", "census", "nap", "idle", "dispatch", "push",
            "delete", "reap", "join", "rejoin", "drain", "drainrun", "gone"}

Asleep == {w \in Workers : pc[w] = "asleep"}

Acquire(t) == q_lock = NoThread /\ q_lock' = t
Release == q_lock' = NoThread

(* The operators named Faulty... are mistakes a change of this code could   *)
(* make.  No specification uses them: they take the place of the definition *)
(* that follows them when the properties themselves are put to the test.    *)
FaultySignalIfEmpty ==
  IF Asleep = {} \/ work_queue # <<>>
  THEN pc' = pc
  ELSE \E w \in Asleep : pc' = [pc EXCEPT ![w] = "woken"]

(* pthread_cond_signal wakes one sleeper if there is one.  POSIX allows it  *)
(* to wake more: SpuriousWakeup adds those.                                *)
Signal ==
  IF Asleep = {} THEN pc' = pc
                 ELSE \E w \in Asleep : pc' = [pc EXCEPT ![w] = "woken"]

Broadcast == pc' = [w \in Workers |-> IF pc[w] = "asleep" THEN "woken" ELSE pc[w]]

FaultyPush(t) ==
  /\ work_queue' = <<t>> \o work_queue
  /\ dispatched' = Append(dispatched, t)
  /\ UNCHANGED <<nextTask, started, finished>>

Push(t) ==
  /\ work_queue' = Append(work_queue, t)
  /\ dispatched' = Append(dispatched, t)
  /\ UNCHANGED <<nextTask, started, finished>>

FaultyPop(th) ==
  LET last == Len(work_queue) IN
  /\ nextTask' = [nextTask EXCEPT ![th] = work_queue[last]]
  /\ started' = Append(started, work_queue[last])
  /\ work_queue' = SubSeq(work_queue, 1, last - 1)
  /\ UNCHANGED <<dispatched, finished>>

Pop(th) ==
  /\ nextTask' = [nextTask EXCEPT ![th] = Head(work_queue)]
  /\ started' = Append(started, Head(work_queue))
  /\ work_queue' = Tail(work_queue)
  /\ UNCHANGED <<dispatched, finished>>

(* func_(nextTask) returns. *)
Return(th) ==
  /\ finished' = finished \cup {nextTask[th]}
  /\ nextTask' = [nextTask EXCEPT ![th] = NoTask]
  /\ UNCHANGED <<work_queue, dispatched, started>>

-----------------------------------------------------------------------------
(* The constructor, from its first acquisition of q_lock_ on.  A Verify333  *)
(* that fails would end the process: here the step that makes the check is  *)
(* then not enabled, and VerifyHolds says that this never happens.          *)
Init ==
  /\ q_lock = Owner
  /\ work_queue = <<>>
  /\ terminate = FALSE
  /\ running = 0
  /\ pc = [w \in Workers |-> "unborn"]
  /\ owner = "spawn"
  /\ i = 0
  /\ num_threads = 0
  /\ arg = NoTask
  /\ nextTask = [t \in Threads |-> NoTask]
  /\ dispatched = <<>>
  /\ started = <<>>
  /\ finished = {}

Spawn ==
  /\ owner = "spawn" /\ i < NumThreads
  /\ pc' = [pc EXCEPT ![i + 1] = "born"]
  /\ i' = i + 1
  /\ UNCHANGED <<q_lock, terminate, running, owner, num_threads, arg, taskVars>>

Spawned ==
  /\ owner = "spawn" /\ i = NumThreads
  /\ owner' = "census"
  /\ UNCHANGED <<q_lock, terminate, running, pc, i, num_threads, arg, taskVars>>

FaultyCensus ==
  /\ owner = "census"
  /\ Release
  /\ owner' = "idle"
  /\ UNCHANGED <<terminate, running, pc, i, num_threads, arg, taskVars>>

Census ==
  /\ owner = "census"
  /\ Release
  /\ owner' = IF running = NumThreads THEN "idle" ELSE "nap"
  /\ UNCHANGED <<terminate, running, pc, i, num_threads, arg, taskVars>>

WakeFromNap ==
  /\ owner = "nap"
  /\ Acquire(Owner)
  /\ owner' = "census"
  /\ UNCHANGED <<terminate, running, pc, i, num_threads, arg, taskVars>>

-----------------------------------------------------------------------------
CallDispatch(t) ==
  /\ owner = "idle"
  /\ t \notin Range(dispatched)
  /\ arg' = t
  /\ owner' = "dispatch"
  /\ UNCHANGED <<q_lock, terminate, running, pc, i, num_threads, taskVars>>

DispatchLock ==
  /\ owner = "dispatch"
  /\ Acquire(Owner)
  /\ owner' = "push"
  /\ UNCHANGED <<terminate, running, pc, i, num_threads, arg, taskVars>>

Dispatch ==
  /\ owner = "push"
  /\ ~terminate
  /\ owner' = "idle"
  /\ Push(arg)
  /\ Signal
  /\ Release
  /\ arg' = NoTask
  /\ UNCHANGED <<terminate, running, i, num_threads>>

-----------------------------------------------------------------------------
CallDelete ==
  /\ owner = "idle"
  /\ owner' = "delete"
  /\ UNCHANGED <<q_lock, terminate, running, pc, i, num_threads, arg, taskVars>>

Delete ==
  /\ owner = "delete"
  /\ Acquire(Owner)
  /\ num_threads' = running
  /\ terminate' = TRUE
  /\ i' = 0
  /\ owner' = "reap"
  /\ UNCHANGED <<running, pc, arg, taskVars>>

WakeAll ==
  /\ owner = "reap" /\ i < num_threads
  /\ Broadcast
  /\ Release
  /\ owner' = "join"
  /\ UNCHANGED <<terminate, running, i, num_threads, arg, taskVars>>

Join ==
  /\ owner = "join"
  /\ pc[i + 1] = "dead"
  /\ owner' = "rejoin"
  /\ UNCHANGED <<q_lock, terminate, running, pc, i, num_threads, arg, taskVars>>

Relock ==
  /\ owner = "rejoin"
  /\ Acquire(Owner)
  /\ i' = i + 1
  /\ owner' = "reap"
  /\ UNCHANGED <<terminate, running, pc, num_threads, arg, taskVars>>

Reaped ==
  /\ owner = "reap" /\ i = num_threads
  /\ running = 0
  /\ Release
  /\ owner' = "drain"
  /\ UNCHANGED <<terminate, running, pc, i, num_threads, arg, taskVars>>

Drain ==
  /\ owner = "drain" /\ work_queue # <<>>
  /\ Pop(Owner)
  /\ owner' = "drainrun"
  /\ UNCHANGED <<q_lock, terminate, running, pc, i, num_threads, arg>>

Drained ==
  /\ owner = "drainrun"
  /\ Return(Owner)
  /\ owner' = "drain"
  /\ UNCHANGED <<q_lock, terminate, running, pc, i, num_threads, arg>>

FaultyGone ==
  /\ owner = "drain"
  /\ owner' = "gone"
  /\ UNCHANGED <<q_lock, terminate, running, pc, i, num_threads, arg, taskVars>>

Gone ==
  /\ owner = "drain" /\ work_queue = <<>>
  /\ owner' = "gone"
  /\ UNCHANGED <<q_lock, terminate, running, pc, i, num_threads, arg, taskVars>>

-----------------------------------------------------------------------------
(* ThreadLoop, the life of worker w. *)
FaultyBorn(w) ==
  /\ pc[w] = "born"
  /\ Acquire(w)
  /\ pc' = [pc EXCEPT ![w] = "loop"]
  /\ UNCHANGED <<terminate, running, owner, i, num_threads, arg, taskVars>>

Born(w) ==
  /\ pc[w] = "born"
  /\ Acquire(w)
  /\ running' = running + 1
  /\ pc' = [pc EXCEPT ![w] = "loop"]
  /\ UNCHANGED <<terminate, owner, i, num_threads, arg, taskVars>>

(* pthread_cond_wait falls asleep and releases the lock in one step. *)
Sleep(w) ==
  /\ pc[w] = "loop" /\ ~terminate
  /\ Release
  /\ pc' = [pc EXCEPT ![w] = "asleep"]
  /\ UNCHANGED <<terminate, running, owner, i, num_threads, arg, taskVars>>

SpuriousWakeup(w) ==
  /\ pc[w] = "asleep"
  /\ pc' = [pc EXCEPT ![w] = "woken"]
  /\ UNCHANGED <<q_lock, terminate, running, owner, i, num_threads, arg, taskVars>>

(* The end of pthread_cond_wait and the pthread_mutex_lock after func_. *)
Look(w) ==
  /\ pc[w] \in {"woken", "relock"}
  /\ Acquire(w)
  /\ pc' = [pc EXCEPT ![w] = "take"]
  /\ UNCHANGED <<terminate, running, owner, i, num_threads, arg, taskVars>>

FaultyTake(w) ==
  /\ pc[w] = "take" /\ work_queue # <<>>
  /\ Pop(w)
  /\ Release
  /\ pc' = [pc EXCEPT ![w] = "run"]
  /\ UNCHANGED <<terminate, running, owner, i, num_threads, arg>>

Take(w) ==
  /\ pc[w] = "take" /\ work_queue # <<>> /\ ~terminate
  /\ Pop(w)
  /\ Release
  /\ pc' = [pc EXCEPT ![w] = "run"]
  /\ UNCHANGED <<terminate, running, owner, i, num_threads, arg>>

Run(w) ==
  /\ pc[w] = "run"
  /\ Return(w)
  /\ pc' = [pc EXCEPT ![w] = "relock"]
  /\ UNCHANGED <<q_lock, terminate, running, owner, i, num_threads, arg>>

FaultyNothingToTake(w) ==
  /\ pc[w] = "take" /\ (work_queue = <<>> \/ terminate)
  /\ pc' = [pc EXCEPT ![w] = "loop"]
  /\ running' = running - 1
  /\ UNCHANGED <<q_lock, terminate, owner, i, num_threads, arg, taskVars>>

NothingToTake(w) ==
  /\ pc[w] = "take" /\ (work_queue = <<>> \/ terminate)
  /\ pc' = [pc EXCEPT ![w] = "loop"]
  /\ UNCHANGED <<q_lock, terminate, running, owner, i, num_threads, arg, taskVars>>

Die(w) ==
  /\ pc[w] = "loop" /\ terminate
  /\ running' = running - 1
  /\ Release
  /\ pc' = [pc EXCEPT ![w] = "dead"]
  /\ UNCHANGED <<terminate, owner, i, num_threads, arg, taskVars>>

-----------------------------------------------------------------------------
Constructing == Spawn \/ Spawned \/ Census \/ WakeFromNap
Dispatching == DispatchLock \/ Dispatch
Deleting == Delete \/ WakeAll \/ Join \/ Relock \/ Reaped \/ Drain \/ Drained \/ Gone

OwnerStep ==
  \/ Constructing
  \/ \E t \in Tasks : CallDispatch(t)
  \/ Dispatching
  \/ CallDelete
  \/ Deleting

Progress(w) == Born(w) \/ Sleep(w) \/ Look(w) \/ Take(w) \/ Run(w) \/ NothingToTake(w) \/ Die(w)
WorkerStep(w) == Progress(w) \/ SpuriousWakeup(w)

(* After the destructor the pool object no longer exists: nothing is left to do. *)
Over == owner = "gone" /\ UNCHANGED vars

Next == OwnerStep \/ (\E w \in Workers : WorkerStep(w)) \/ Over

Spec == Init /\ [][Next]_vars

(* The scheduler runs every thread, task functions return, and a thread    *)
(* blocked on q_lock_ is not overtaken for ever while the lock keeps being *)
(* freed.  The owner need not call anything, sleepers need not wake by     *)
(* themselves.                                                             *)
Fairness ==
  /\ WF_vars(Constructing \/ Dispatching \/ Deleting)
  /\ SF_vars(WakeFromNap \/ DispatchLock \/ Delete \/ Relock)
  /\ \A w \in Workers : /\ WF_vars(Progress(w))
                        /\ SF_vars(Born(w) \/ Look(w))

FairSpec == Spec /\ Fairness

-----------------------------------------------------------------------------
TypeOK ==
  /\ q_lock \in Threads \cup {NoThread}
  /\ work_queue \in Seq(Tasks)
  /\ terminate \in BOOLEAN
  /\ running \in 0..NumThreads
  /\ pc \in [Workers -> WorkerPC]
  /\ owner \in OwnerPC
  /\ i \in 0..NumThreads
  /\ num_threads \in 0..NumThreads
  /\ arg \in Tasks \cup {NoTask}
  /\ nextTask \in [Threads -> Tasks \cup {NoTask}]
  /\ dispatched \in Seq(Tasks)
  /\ started \in Seq(Tasks)
  /\ finished \in SUBSET Tasks

Executing == {nextTask[t] : t \in Threads} \ {NoTask}

(* Every task handed to Dispatch is in exactly one place, in the order of  *)
(* dispatch: still queued, being executed by exactly one thread, or        *)
(* finished.  None is lost, none is popped twice, however the pops of the  *)
(* workers, the pushes and the destructor's drain interleave.              *)
EveryTaskAccountedFor ==
  /\ dispatched = started \o work_queue
  /\ Range(started) = finished \cup Executing
  /\ finished \cap Executing = {}
  /\ \A t, u \in Threads : nextTask[t] = nextTask[u] => t = u \/ nextTask[t] = NoTask

Looking == {w \in Workers : pc[w] \in {"woken", "relock", "take"}}

(* No lost wakeup, in its strong form: while the pool is alive, a worker   *)
(* sleeps in pthread_cond_wait only if every queued task already has a     *)
(* worker of its own on the way to the queue.                              *)
NoLostWakeup ==
  ~terminate /\ Asleep # {} => Len(work_queue) <= Cardinality(Looking)

(* The destructor never joins a thread that nobody will wake: while it is  *)
(* blocked in pthread_join, without the lock, no worker is asleep.         *)
NobodySleepsThroughJoin == owner = "join" => Asleep = {}

(* The Verify333 in Dispatch and the one after the join loop never fail:   *)
(* the pool is not terminating, and every counted worker has died.         *)
VerifyHolds ==
  /\ owner = "push" => ~terminate
  /\ owner = "reap" /\ i = num_threads => running = 0

(* What test_threadpool.cc expects of "delete": when the destructor        *)
(* returns every worker is dead, no one holds the mutex that is about to   *)
(* disappear, and each dispatched task has been executed to its end.       *)
CleanDelete ==
  owner = "gone" =>
    /\ \A w \in Workers : pc[w] = "dead"
    /\ q_lock = NoThread
    /\ finished = Range(dispatched)

(* ThreadPool.h on terminate_threads_: once it is set no worker picks up   *)
(* another task; what is queued is left to the destructor.                 *)
NoPickupAfterTerminate ==
  [][terminate => \A w \in Workers : nextTask'[w] \in {nextTask[w], NoTask}]_vars

(* Every call of the owner returns: the constructor, which waits for the   *)
(* workers to be counted, Dispatch, and the destructor, which joins them.  *)
Returned == {"idle", "gone"}
CallsReturn == owner \notin Returned ~> owner \in Returned

(* The detailed pool implements the abstract one, its promises of progress *)
(* included: every dispatched task is executed to its end, and a destructor *)
(* that was called returns.                                                *)
Pool == INSTANCE TaskPool WITH
          submitted <- Range(dispatched),
          pending <- work_queue,
          active <- nextTask,
          phase <- IF ~terminate THEN "open" ELSE IF owner = "gone" THEN "closed" ELSE "closing"

ImplementsPool == Pool!FairPoolSpec
=============================================================================
