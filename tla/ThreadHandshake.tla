--------------------------- MODULE ThreadHandshake ---------------------------
(***************************************************************************)
(* Class Thread (src/src/thread.h, src/src/thread.cpp): a native thread    *)
(* parked in idle_loop(), and the callers that wait for it, give it jobs   *)
(* and destroy it.  Everything goes through one mutex and one condition    *)
(* variable, on which the parked thread and its callers sleep together and *)
(* which is only ever signalled with notify_one().                         *)
(*                                                                         *)
(* A critical section is one action: whatever the code does between taking *)
(* and releasing the mutex.  A process in cv.wait is "asleep"; a woken one *)
(* is "ready" (the worker: "woken") until it gets the mutex back and tests *)
(* its predicate again.  Jobs are numbered by ticket; 0 is the null        *)
(* std::function.  Ticket 1 is the constructor's allocation of the Worker. *)
(***************************************************************************)
EXTENDS Naturals

CONSTANTS Clients,  \* the threads that call methods of this Thread
          Owner,    \* the one that constructs and destroys it
          Worker,   \* the native thread itself
          MaxJobs   \* bound: tickets a client may still ask for when alive

ASSUME ClientsAssumption == Owner \in Clients /\ Worker \notin Clients
ASSUME MaxJobsAssumption == MaxJobs \in Nat

VARIABLES searching,  \* Thread::searching
          exit,       \* Thread::exit
          jobFunc,    \* Thread::jobFunc: a ticket, or 0
          job,        \* idle_loop's local `job`: a ticket, or 0
          pc,         \* where each process is
          op,         \* the call a client is in: "wait" or "run"
          life,       \* the object's life, from constructor to join
          issued,     \* tickets handed out so far
          done        \* tickets executed so far

vars == <<searching, exit, jobFunc, job, pc, op, life, issued, done>>

Procs  == Clients \cup {Worker}
Asleep == {p \in Procs : pc[p] = "asleep"}

(* Where each kind of process can be. *)
WorkerAt == {"enter", "asleep", "woken", "run", "exited"}
ClientAt == {"idle", "ready", "asleep", "notify", "join", "gone"}

(* Mutant: the woken worker takes the callers' way out of cv.wait. *)
AwakeAtCaller(p) == "ready"

(* Where a process goes when it is woken, by a signal or spuriously. *)
AwakeAt(p) == IF p = Worker THEN "woken" ELSE "ready"

Init == /\ searching = TRUE /\ exit = FALSE
        /\ jobFunc = 0 /\ job = 0 /\ issued = 0 /\ done = 0
        /\ life = "ctorWait"
        /\ pc = [p \in Procs |-> IF p = Worker THEN "enter"
                                 ELSE IF p = Owner THEN "ready" ELSE "idle"]
        /\ op = [c \in Clients |-> "wait"]
-----------------------------------------------------------------------------
(* The worker: Thread::idle_loop.                                          *)

(* notify_one from p, which then continues at `next`: one sleeper, if      *)
(* there is one, is woken, and the code does not choose which.             *)
NotifyOne(p, next) ==
  \/ /\ Asleep = {}
     /\ pc' = [pc EXCEPT ![p] = next]
  \/ \E s \in Asleep : pc' = [pc EXCEPT ![p] = next, ![s] = AwakeAt(s)]

(* Mutant: nobody is told that the thread is idle again. *)
EnterIdleSilently == /\ pc[Worker] = "enter"
                     /\ searching' = FALSE
                     /\ pc' = [pc EXCEPT ![Worker] = "asleep"]
                     /\ UNCHANGED <<exit, jobFunc, job, op, life, issued, done>>

(* Top of the loop: not searching any more, tell a waiter, go to sleep.    *)
(* The predicate `searching` has just been made false under the mutex.     *)
EnterIdle == /\ pc[Worker] = "enter"
             /\ searching' = FALSE
             /\ NotifyOne(Worker, "asleep")
             /\ UNCHANGED <<exit, jobFunc, job, op, life, issued, done>>

(* Woken with the predicate still false: back to sleep. *)
SleepAgain == /\ pc[Worker] = "woken" /\ ~searching
              /\ pc' = [pc EXCEPT ![Worker] = "asleep"]
              /\ UNCHANGED <<searching, exit, jobFunc, job, op, life, issued, done>>

(* Woken to leave: idle_loop returns with the farewell job still in place. *)
Leave == /\ pc[Worker] = "woken" /\ searching /\ exit
         /\ pc' = [pc EXCEPT ![Worker] = "exited"]
         /\ UNCHANGED <<searching, exit, jobFunc, job, op, life, issued, done>>

(* Mutant: `searching` is cleared when the job is taken, not when it is done. *)
TakeJobClearsFlag == /\ pc[Worker] = "woken" /\ searching /\ ~exit
                     /\ job' = jobFunc /\ jobFunc' = 0
                     /\ searching' = FALSE
                     /\ pc' = [pc EXCEPT ![Worker] = "run"]
                     /\ UNCHANGED <<exit, op, life, issued, done>>

(* Woken to work: move the job out of the shared slot, release the mutex.  *)
TakeJob == /\ pc[Worker] = "woken" /\ searching /\ ~exit
           /\ job' = jobFunc /\ jobFunc' = 0
           /\ pc' = [pc EXCEPT ![Worker] = "run"]
           /\ UNCHANGED <<searching, exit, op, life, issued, done>>

(* job(), outside the mutex, `if (job)`. *)
RunJob == /\ pc[Worker] = "run"
          /\ done' = IF job # 0 THEN done + 1 ELSE done
          /\ job' = 0
          /\ pc' = [pc EXCEPT ![Worker] = "enter"]
          /\ UNCHANGED <<searching, exit, jobFunc, op, life, issued>>
-----------------------------------------------------------------------------
(* The callers: the constructor, wait_for_search_finished, run_custom_job  *)
(* (and start_searching and clear_worker, which call it), the destructor.  *)

(* A method call on a constructed Thread. *)
Call(c) == /\ pc[c] = "idle" /\ life = "alive"
           /\ \E o \in {"wait", "run"} :
                /\ o = "run" => issued < MaxJobs
                /\ op' = [op EXCEPT ![c] = o]
           /\ pc' = [pc EXCEPT ![c] = "ready"]
           /\ UNCHANGED <<searching, exit, jobFunc, job, life, issued, done>>

(* ~Thread: `exit` is written without the mutex, then start_searching().   *)
(* Its assert(!searching), "Thread should be already waiting", is the      *)
(* caller's obligation, as is that nobody else still uses the object.      *)
Destroy == /\ pc[Owner] = "idle" /\ life = "alive"
           /\ ~searching
           /\ \A c \in Clients \ {Owner} : pc[c] = "idle"
           /\ exit' = TRUE
           /\ life' = "dtor"
           /\ op' = [op EXCEPT ![Owner] = "run"]
           /\ pc' = [pc EXCEPT ![Owner] = "ready"]
           /\ UNCHANGED <<searching, jobFunc, job, issued, done>>

(* cv.wait(lk, !searching) with the predicate false: sleep. *)
Block(c) == /\ pc[c] = "ready" /\ searching
            /\ pc' = [pc EXCEPT ![c] = "asleep"]
            /\ UNCHANGED <<searching, exit, jobFunc, job, op, life, issued, done>>

(* What c does after a call returns: the constructor goes on to its next   *)
(* call, the destructor joins, anybody else is free.                       *)
NextPhase == [ctorWait |-> "ctorRun", ctorRun |-> "ctorSettle",
              ctorSettle |-> "alive", alive |-> "alive", dtor |-> "dtor"]
PhaseOp(l) == IF l = "ctorRun" THEN "run" ELSE "wait"
AfterCall(l) == CASE l \in {"ctorRun", "ctorSettle"} -> "ready"
                  [] l = "dtor"                      -> "join"
                  [] OTHER                           -> "idle"

(* Mutant: cv.wait without a predicate. *)
WaitReturnsEarly(c) ==
  /\ pc[c] = "ready" /\ op[c] = "wait"
  /\ life' = NextPhase[life]
  /\ op' = [op EXCEPT ![c] = PhaseOp(life')]
  /\ pc' = [pc EXCEPT ![c] = AfterCall(life')]
  /\ UNCHANGED <<searching, exit, jobFunc, job, issued, done>>

(* wait_for_search_finished returns. *)
WaitReturns(c) ==
  /\ pc[c] = "ready" /\ op[c] = "wait" /\ ~searching
  /\ life' = NextPhase[life]
  /\ op' = [op EXCEPT ![c] = PhaseOp(life')]
  /\ pc' = [pc EXCEPT ![c] = AfterCall(life')]
  /\ UNCHANGED <<searching, exit, jobFunc, job, issued, done>>

(* Mutant: run_custom_job does not wait for the thread to be free. *)
PostJobAtOnce(c) ==
  /\ pc[c] = "ready" /\ op[c] = "run"
  /\ searching' = TRUE
  /\ issued' = issued + 1
  /\ jobFunc' = issued'
  /\ pc' = [pc EXCEPT ![c] = "notify"]
  /\ UNCHANGED <<exit, job, op, life, done>>

(* run_custom_job's critical section; the signal comes after the unlock.   *)
PostJob(c) ==
  /\ pc[c] = "ready" /\ op[c] = "run" /\ ~searching
  /\ searching' = TRUE
  /\ issued' = issued + 1
  /\ jobFunc' = issued'
  /\ pc' = [pc EXCEPT ![c] = "notify"]
  /\ UNCHANGED <<exit, job, op, life, done>>

(* cv.notify_one() of run_custom_job, and its return. *)
Notify(c) ==
  /\ pc[c] = "notify"
  /\ life' = NextPhase[life]
  /\ op' = [op EXCEPT ![c] = PhaseOp(life')]
  /\ NotifyOne(c, AfterCall(life'))
  /\ UNCHANGED <<searching, exit, jobFunc, job, issued, done>>

(* stdThread.join(). *)
Join == /\ pc[Owner] = "join" /\ pc[Worker] = "exited"
        /\ pc' = [pc EXCEPT ![Owner] = "gone"]
        /\ life' = "joined"
        /\ UNCHANGED <<searching, exit, jobFunc, job, op, issued, done>>

(* The standard lets cv.wait return without a signal. *)
SpuriousWake(p) ==
  /\ pc[p] = "asleep"
  /\ pc' = [pc EXCEPT ![p] = AwakeAt(p)]
  /\ UNCHANGED <<searching, exit, jobFunc, job, op, life, issued, done>>

(* Nothing is left once the object is gone. *)
Terminated == life = "joined" /\ UNCHANGED vars
-----------------------------------------------------------------------------
WorkerStep == EnterIdle \/ SleepAgain \/ Leave \/ TakeJob \/ RunJob

ClientStep(c) == Block(c) \/ WaitReturns(c) \/ PostJob(c) \/ Notify(c)

Next == \/ WorkerStep
        \/ \E c \in Clients : Call(c) \/ ClientStep(c)
        \/ Destroy \/ Join
        \/ \E p \in Procs : SpuriousWake(p)
        \/ Terminated

Spec == Init /\ [][Next]_vars

(* The operating system runs every thread that can run and hands out the   *)
(* mutex; whether a client calls again, or destroys the Thread, is its own *)
(* choice, and a spurious wakeup need never happen.                        *)
Fairness == /\ WF_vars(WorkerStep)
            /\ \A c \in Clients : WF_vars(ClientStep(c))
            /\ WF_vars(Join)

FairSpec == Spec /\ Fairness
-----------------------------------------------------------------------------
(* Types; the only counter, issued, is bounded by MaxJobs through Call.    *)
TypeOK ==
  /\ searching \in BOOLEAN /\ exit \in BOOLEAN
  /\ issued \in Nat /\ done \in Nat /\ jobFunc \in Nat /\ job \in Nat
  /\ op \in [Clients -> {"wait", "run"}]
  /\ life \in {"ctorWait", "ctorRun", "ctorSettle", "alive", "dtor", "joined"}
  /\ pc \in [Procs -> WorkerAt \cup ClientAt]
  /\ pc[Worker] \in WorkerAt /\ \A c \in Clients : pc[c] \in ClientAt

(* Every job is executed once, in the order of the calls: the job in the   *)
(* worker's hand, and the one in the slot, is the oldest not yet executed  *)
(* (thread.cpp: jobFunc is moved out and nulled before the unlock).        *)
InOrderOnce ==
  /\ job # 0 => job = done + 1 /\ job = issued
  /\ jobFunc # 0 => jobFunc = done + 1 /\ jobFunc = issued
  /\ done <= issued

(* `searching` is false only when the worker is parked with nothing to do: *)
(* a caller that reads the worker's data after wait_for_search_finished    *)
(* never reads it under a running job.                                     *)
IdleMeansQuiescent ==
  ~searching => /\ done = issued /\ jobFunc = 0 /\ job = 0
                /\ pc[Worker] \in {"asleep", "woken"}

(* c's call of wait_for_search_finished leaves cv.wait for good. *)
ReturnsFromWait(c) ==
  pc[c] = "ready" /\ op[c] = "wait" /\ pc'[c] \notin {"ready", "asleep"}

(* When wait_for_search_finished returns, every job accepted before it     *)
(* has been executed and none is running.                                  *)
WaitSeesEveryJob ==
  [][\A c \in Clients :
       ReturnsFromWait(c) => (done = issued /\ pc[Worker] # "run")]_vars

(* With one caller at a time notify_one is enough: a parked worker with    *)
(* work to do is about to be signalled, and no caller sleeps on a worker   *)
(* that is already parked.  (Two callers break it: see README.)            *)
NoLostWakeup ==
  Clients = {Owner} =>
    /\ searching /\ pc[Worker] = "asleep" => pc[Owner] = "notify"
    /\ ~searching => pc[Owner] # "asleep"

(* The native thread leaves only when told to, all its real jobs executed: *)
(* the one job it drops is the farewell the destructor gave it.            *)
LeavesWithoutWork ==
  pc[Worker] = "exited" => /\ exit /\ life \in {"dtor", "joined"}
                           /\ done + 1 = issued /\ jobFunc = issued

(* Every call returns: no caller sleeps for ever, no job is forgotten; and *)
(* the destructor always gets to join the native thread.                   *)
CallsReturn ==
  /\ \A c \in Clients : (pc[c] = "ready") ~> (pc[c] \in {"idle", "gone"})
  /\ (life = "dtor") ~> (life = "joined")

(* The slot the callers see. *)
Slot == INSTANCE JobSlot WITH
          closing <- exit,
          slot <- IF pc[Worker] = "exited" THEN "gone"
                  ELSE IF searching THEN "busy" ELSE "idle"

(* The handshake implements the one-job slot. *)
ImplementsJobSlot == Slot!Spec
=============================================================================
