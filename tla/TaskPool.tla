------------------------------ MODULE TaskPool ------------------------------
(***************************************************************************)
(* What hw4's ThreadPool promises its customers, with no lock, condition   *)
(* variable or thread life cycle in sight (hw4/ThreadPool.h): tasks start  *)
(* in the order they were handed over, each one is executed once, by one   *)
(* thread, and none is left behind when the pool has been destroyed.       *)
(***************************************************************************)
EXTENDS Sequences

CONSTANTS Tasks,     \* the Task objects customers may dispatch
          Workers,   \* the pool's worker threads
          Owner,     \* the thread that constructs, feeds and destroys the pool
          NoTask     \* "no task": what an idle thread is executing

VARIABLES submitted, \* the tasks handed over so far
          pending,   \* those not started yet, oldest first
          active,    \* what each thread is executing
          finished,  \* the tasks whose function has returned
          phase      \* "open", "closing" (being destroyed) or "closed"

poolVars == <<submitted, pending, active, finished, phase>>

Executors == Workers \cup {Owner}

PoolInit ==
  /\ submitted = {}
  /\ pending = <<>>
  /\ active = [e \in Executors |-> NoTask]
  /\ finished = {}
  /\ phase = "open"

(* A customer hands over a task it has not handed over before. *)
Submit(t) ==
  /\ phase = "open"
  /\ t \notin submitted
  /\ submitted' = submitted \cup {t}
  /\ pending' = Append(pending, t)
  /\ UNCHANGED <<active, finished, phase>>

(* The oldest pending task starts: on an idle worker while the pool is     *)
(* open, on the destroying thread, and nowhere else, once it is closing.   *)
Start(e) ==
  /\ pending # <<>>
  /\ \A x \in Executors : active[x] = NoTask \/ (phase = "open" /\ x # e)
  /\ phase = IF e = Owner THEN "closing" ELSE "open"
  /\ active' = [active EXCEPT ![e] = Head(pending)]
  /\ pending' = Tail(pending)
  /\ UNCHANGED <<submitted, finished, phase>>

Finish(e) ==
  /\ active[e] # NoTask
  /\ finished' = finished \cup {active[e]}
  /\ active' = [active EXCEPT ![e] = NoTask]
  /\ UNCHANGED <<submitted, pending, phase>>

BeginClose ==
  /\ phase = "open"
  /\ phase' = "closing"
  /\ UNCHANGED <<submitted, pending, active, finished>>

(* The destructor returns only when nothing is pending or executing. *)
EndClose ==
  /\ phase = "closing"
  /\ pending = <<>>
  /\ \A e \in Executors : active[e] = NoTask
  /\ phase' = "closed"
  /\ UNCHANGED <<submitted, pending, active, finished>>

PoolNext ==
  \/ \E t \in Tasks : Submit(t)
  \/ \E e \in Executors : Start(e) \/ Finish(e)
  \/ BeginClose
  \/ EndClose

PoolSpec == PoolInit /\ [][PoolNext]_poolVars

(* What is promised beyond safety: a pool with a pending task starts it,   *)
(* a started task finishes, and a destructor that was called returns.      *)
PoolFairness ==
  /\ WF_poolVars(\E e \in Executors : Start(e))
  /\ \A e \in Executors : WF_poolVars(Finish(e))
  /\ WF_poolVars(EndClose)

FairPoolSpec == PoolSpec /\ PoolFairness
=============================================================================
