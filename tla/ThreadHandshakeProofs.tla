------------------------ MODULE ThreadHandshakeProofs ------------------------
(***************************************************************************)
(* Safety of the Thread handshake for every set of callers and every       *)
(* number of jobs, and that it implements JobSlot.                         *)
(***************************************************************************)
EXTENDS ThreadHandshake, TLAPS

(* Where the one outstanding job is, from what the worker is doing. *)
Posted == job = 0 /\ jobFunc = issued /\ issued = done + 1
InHand == jobFunc = 0 /\ job = issued /\ issued = done + 1
NoWork == jobFunc = 0 /\ job = 0 /\ issued = done

JobInv ==
  /\ ~searching => NoWork /\ pc[Worker] \in {"asleep", "woken"}
  /\ searching /\ pc[Worker] \in {"asleep", "woken", "exited"} => Posted
  /\ pc[Worker] = "run"   => searching /\ InHand
  /\ pc[Worker] = "enter" => searching /\ NoWork

(* exit is the destructor's, and it starts on a quiescent thread.          *)
LifeInv ==
  /\ exit <=> life \in {"dtor", "joined"}
  /\ exit => pc[Worker] \notin {"enter", "run"}
  /\ exit => \A c \in Clients \ {Owner} : pc[c] = "idle"
  /\ pc[Worker] = "exited" => exit /\ searching
  /\ life = "joined" => pc[Owner] = "gone"

PlaceInv == pc[Worker] \in WorkerAt /\ \A c \in Clients : pc[c] \in ClientAt

IInv == TypeOK /\ PlaceInv /\ JobInv /\ LifeInv

-----------------------------------------------------------------------------
(* notify_one changes pc only at the caller and at one sleeper, who wakes. *)
LEMMA NotifyEffect ==
  ASSUME TypeOK, PlaceInv, NEW p \in Procs, pc[p] # "asleep",
         NEW next, NotifyOne(p, next),
         next \in (IF p = Worker THEN WorkerAt ELSE ClientAt)
  PROVE  /\ pc'[p] = next
         /\ pc' \in [Procs -> WorkerAt \cup ClientAt]
         /\ \A q \in Procs \ {p} :
                (pc'[q] = pc[q]) \/ (pc[q] = "asleep" /\ pc'[q] = AwakeAt(q))
         /\ (Asleep # {}) => \E q \in Asleep : pc'[q] = AwakeAt(q)
<1>1. pc \in [Procs -> WorkerAt \cup ClientAt]
  BY DEF TypeOK, WorkerAt, ClientAt
<1>2. CASE Asleep = {} /\ pc' = [pc EXCEPT ![p] = next]
  BY <1>1, <1>2
<1>3. ASSUME NEW s \in Asleep,
             pc' = [pc EXCEPT ![p] = next, ![s] = AwakeAt(s)]
      PROVE  /\ pc'[p] = next
             /\ pc' \in [Procs -> WorkerAt \cup ClientAt]
             /\ \A q \in Procs \ {p} :
                (pc'[q] = pc[q]) \/ (pc[q] = "asleep" /\ pc'[q] = AwakeAt(q))
             /\ \E q \in Asleep : pc'[q] = AwakeAt(q)
  BY <1>1, <1>3 DEF Asleep, AwakeAt, WorkerAt, ClientAt
<1>4. CASE \E s \in Asleep : pc' = [pc EXCEPT ![p] = next, ![s] = AwakeAt(s)]
  <2>1. PICK s \in Asleep : pc' = [pc EXCEPT ![p] = next, ![s] = AwakeAt(s)]
    BY <1>4
  <2> QED BY <1>3, <2>1
<1> QED BY <1>2, <1>4 DEF NotifyOne

LEMMA InitIInv == Init => IInv
<1> SUFFICES ASSUME Init PROVE IInv
  OBVIOUS
<1> USE ClientsAssumption DEF Init, Procs
<1>1. TypeOK /\ PlaceInv  BY DEF TypeOK, PlaceInv, WorkerAt, ClientAt
<1>2. JobInv              BY DEF JobInv, NoWork
<1>3. LifeInv             BY DEF LifeInv
<1> QED BY <1>1, <1>2, <1>3 DEF IInv

LEMMA StepIInv == IInv /\ [Next]_vars => IInv'
<1> SUFFICES ASSUME IInv, [Next]_vars PROVE IInv'
  OBVIOUS
<1> USE ClientsAssumption
<1> USE DEF IInv, TypeOK, PlaceInv, JobInv, LifeInv, Procs, WorkerAt, ClientAt,
            Posted, InHand, NoWork
<1>1. CASE EnterIdle
  <2>1. /\ pc'[Worker] = "asleep"
        /\ pc' \in [Procs -> WorkerAt \cup ClientAt]
        /\ \A q \in Procs \ {Worker} :
                (pc'[q] = pc[q]) \/ (pc[q] = "asleep" /\ pc'[q] = AwakeAt(q))
    BY <1>1, NotifyEffect DEF EnterIdle
  <2> QED BY <1>1, <2>1 DEF EnterIdle, AwakeAt
<1>2. CASE SleepAgain  BY <1>2 DEF SleepAgain
<1>3. CASE Leave       BY <1>3 DEF Leave
<1>4. CASE TakeJob     BY <1>4 DEF TakeJob
<1>5. CASE RunJob      BY <1>5 DEF RunJob
<1>6. ASSUME NEW c \in Clients, Call(c) PROVE IInv'
  BY <1>6 DEF Call
<1>7. CASE Destroy     BY <1>7 DEF Destroy
<1>8. ASSUME NEW c \in Clients, Block(c) PROVE IInv'
  BY <1>8 DEF Block
<1>9. ASSUME NEW c \in Clients, WaitReturns(c) PROVE IInv'
  BY <1>9 DEF WaitReturns, NextPhase, PhaseOp, AfterCall
<1>10. ASSUME NEW c \in Clients, PostJob(c) PROVE IInv'
  BY <1>10 DEF PostJob
<1>11. ASSUME NEW c \in Clients, Notify(c) PROVE IInv'
  <2>1. /\ life # "joined"
        /\ life' \in {"ctorRun", "ctorSettle", "alive", "dtor"}
        /\ life' = "dtor" <=> life = "dtor"
    BY <1>11 DEF Notify, NextPhase
  <2>2. AfterCall(life') \in ClientAt /\ PhaseOp(life') \in {"wait", "run"}
    BY <2>1 DEF AfterCall, PhaseOp
  <2>3. /\ pc'[c] \in ClientAt
        /\ pc' \in [Procs -> WorkerAt \cup ClientAt]
        /\ \A q \in Procs \ {c} :
                (pc'[q] = pc[q]) \/ (pc[q] = "asleep" /\ pc'[q] = AwakeAt(q))
    BY <1>11, <2>2, NotifyEffect DEF Notify
  <2> QED BY <1>11, <2>1, <2>2, <2>3 DEF Notify, AwakeAt
<1>12. CASE Join       BY <1>12 DEF Join
<1>13. ASSUME NEW p \in Procs, SpuriousWake(p) PROVE IInv'
  BY <1>13 DEF SpuriousWake, AwakeAt
<1>14. CASE Terminated BY <1>14 DEF Terminated, vars
<1>15. CASE UNCHANGED vars BY <1>15 DEF vars
<1> QED
  BY <1>1, <1>2, <1>3, <1>4, <1>5, <1>6, <1>7, <1>8, <1>9, <1>10, <1>11,
     <1>12, <1>13, <1>14, <1>15 DEF Next, WorkerStep, ClientStep

(* The inductive invariant holds in every reachable state. *)
THEOREM Invariance == Spec => []IInv
  BY InitIInv, StepIInv, PTL DEF Spec
-----------------------------------------------------------------------------
(* Type correctness, for any set of callers. *)
THEOREM TypeCorrect == Spec => []TypeOK
<1>1. IInv => TypeOK BY DEF IInv
<1> QED BY <1>1, Invariance, PTL

(* Jobs are executed once and in order (thread.cpp, run_custom_job and     *)
(* idle_loop), however many callers there are.                             *)
THEOREM JobsInOrderOnce == Spec => []InOrderOnce
<1>1. IInv => InOrderOnce
  BY DEF IInv, TypeOK, PlaceInv, WorkerAt, JobInv, Posted, InHand, NoWork, InOrderOnce
<1> QED BY <1>1, Invariance, PTL

(* A thread that is not searching has no job queued, in hand or running.   *)
THEOREM Quiescence == Spec => []IdleMeansQuiescent
<1>1. IInv => IdleMeansQuiescent
  BY DEF IInv, JobInv, NoWork, IdleMeansQuiescent
<1> QED BY <1>1, Invariance, PTL

(* The native thread leaves only inside the destructor, with every job but *)
(* the farewell executed.                                                  *)
THEOREM LeavesClean == Spec => []LeavesWithoutWork
<1>1. IInv => LeavesWithoutWork
  BY DEF IInv, JobInv, LifeInv, Posted, LeavesWithoutWork
<1> QED BY <1>1, Invariance, PTL

(* wait_for_search_finished returns only when all accepted jobs have run.  *)
THEOREM WaitIsABarrier == Spec => WaitSeesEveryJob
<1>1. ASSUME IInv, [Next]_vars, NEW c \in Clients, ReturnsFromWait(c)
      PROVE  done = issued /\ pc[Worker] # "run"
  <2> USE <1>1, ClientsAssumption DEF ReturnsFromWait, IInv, TypeOK, PlaceInv, Procs, WorkerAt, ClientAt
  <2>1. SUFFICES ~searching
    BY <2>1 DEF JobInv, NoWork
  <2>2. CASE EnterIdle
    <3>1. pc'[c] = pc[c] \/ pc'[c] = AwakeAt(c)
      BY <2>2, NotifyEffect DEF EnterIdle
    <3> QED BY <3>1 DEF AwakeAt
  <2>3. CASE SleepAgain \/ Leave \/ TakeJob \/ RunJob
    BY <2>3 DEF SleepAgain, Leave, TakeJob, RunJob
  <2>4. ASSUME NEW d \in Clients, Call(d) PROVE ~searching
    BY <2>4 DEF Call
  <2>5. CASE Destroy \/ Join
    BY <2>5 DEF Destroy, Join
  <2>6. ASSUME NEW d \in Clients, Block(d) \/ WaitReturns(d) \/ PostJob(d)
        PROVE ~searching
    BY <2>6 DEF Block, WaitReturns, PostJob
  <2>7. ASSUME NEW d \in Clients, Notify(d) PROVE ~searching
    <3>1. c # d /\ life # "joined"
      BY <2>7 DEF Notify, LifeInv
    <3>2. AfterCall(life') \in ClientAt
      BY <2>7, <3>1 DEF Notify, NextPhase, AfterCall
    <3>3. pc'[c] = pc[c] \/ pc'[c] = AwakeAt(c)
      BY <2>7, <3>1, <3>2, NotifyEffect DEF Notify
    <3> QED BY <3>3 DEF AwakeAt
  <2>8. ASSUME NEW p \in Procs, SpuriousWake(p) PROVE ~searching
    BY <2>8 DEF SpuriousWake, AwakeAt
  <2>9. CASE UNCHANGED vars
    BY <2>9 DEF vars
  <2> QED BY <2>2, <2>3, <2>4, <2>5, <2>6, <2>7, <2>8, <2>9
          DEF Next, WorkerStep, ClientStep, Terminated
<1>2. IInv /\ [Next]_vars =>
        [\A c \in Clients :
           ReturnsFromWait(c) => (done = issued /\ pc[Worker] # "run")]_vars
  BY <1>1
<1> QED BY <1>2, Invariance, PTL DEF Spec, WaitSeesEveryJob
-----------------------------------------------------------------------------
(* With one caller, notify_one cannot wake the wrong sleeper.  The extra   *)
(* fact is NoLostWakeup itself: worker and caller never sleep on the same  *)
(* truth value of `searching`.                                             *)
LEMMA StepNoLostWakeup ==
  IInv /\ NoLostWakeup /\ [Next]_vars => NoLostWakeup'
<1> SUFFICES ASSUME IInv, NoLostWakeup, [Next]_vars, Clients = {Owner}
             PROVE  /\ searching' /\ pc'[Worker] = "asleep" => pc'[Owner] = "notify"
                    /\ ~searching' => pc'[Owner] # "asleep"
  BY DEF NoLostWakeup
<1> USE ClientsAssumption
    DEF NoLostWakeup, IInv, TypeOK, PlaceInv, Procs, WorkerAt, ClientAt
<1> DEFINE Goal == /\ searching' /\ pc'[Worker] = "asleep" => pc'[Owner] = "notify"
                   /\ ~searching' => pc'[Owner] # "asleep"
<1>1. CASE EnterIdle
  <2>1. /\ searching' = FALSE
        /\ (pc'[Owner] = pc[Owner]) \/ (pc'[Owner] = AwakeAt(Owner))
        /\ (Asleep # {}) => \E q \in Asleep : pc'[q] = AwakeAt(q)
    BY <1>1, NotifyEffect DEF EnterIdle
  <2>2. Asleep \subseteq {Owner}
    BY <1>1 DEF EnterIdle, Asleep
  <2>3. pc[Owner] = "asleep" => Asleep # {}
    BY DEF Asleep
  <2> QED BY <2>1, <2>2, <2>3 DEF AwakeAt
<1>2. CASE SleepAgain \/ Leave \/ TakeJob \/ RunJob
  BY <1>2 DEF SleepAgain, Leave, TakeJob, RunJob
<1>3. CASE Call(Owner) \/ Destroy \/ Join
  BY <1>3 DEF Call, Destroy, Join
<1>4. CASE Block(Owner) \/ WaitReturns(Owner) \/ PostJob(Owner)
  BY <1>4 DEF Block, WaitReturns, PostJob, AfterCall
<1>5. CASE Notify(Owner)
  <2>1. life # "joined"
    BY <1>5 DEF Notify, LifeInv
  <2>2. AfterCall(life') \in ClientAt \ {"asleep"}
    BY <1>5, <2>1 DEF Notify, NextPhase, AfterCall
  <2>3. /\ searching' = searching
        /\ pc'[Owner] = AfterCall(life')
        /\ (pc'[Worker] = pc[Worker]) \/ (pc'[Worker] = AwakeAt(Worker))
        /\ (Asleep # {}) => \E q \in Asleep : pc'[q] = AwakeAt(q)
    BY <1>5, <2>2, NotifyEffect DEF Notify
  <2>4. Asleep \subseteq {Worker}
    BY <1>5 DEF Notify, Asleep
  <2>5. pc[Worker] = "asleep" => Asleep # {}
    BY DEF Asleep
  <2> QED BY <2>2, <2>3, <2>4, <2>5 DEF AwakeAt
<1>6. ASSUME NEW p \in Procs, SpuriousWake(p) PROVE Goal
  BY <1>6 DEF SpuriousWake, AwakeAt
<1>7. CASE UNCHANGED vars \/ Terminated
  BY <1>7 DEF vars, Terminated
<1> QED BY <1>1, <1>2, <1>3, <1>4, <1>5, <1>6, <1>7
        DEF Next, WorkerStep, ClientStep

(* A single caller and the worker never sleep past each other.             *)
THEOREM WakeupsNotLost == Spec => []NoLostWakeup
<1>1. Init => NoLostWakeup
  BY ClientsAssumption DEF Init, NoLostWakeup, Procs
<1> QED BY <1>1, StepNoLostWakeup, Invariance, PTL DEF Spec
-----------------------------------------------------------------------------
(* Every step of the handshake is a step of the one-job slot, or none.     *)
LEMMA StepSimulation == IInv /\ [Next]_vars => [Slot!Next]_Slot!vars
<1> SUFFICES ASSUME IInv, [Next]_vars PROVE [Slot!Next]_Slot!vars
  OBVIOUS
<1> USE ClientsAssumption
    DEF IInv, TypeOK, PlaceInv, Procs, WorkerAt, ClientAt, Slot!Next, Slot!vars
<1>1. CASE EnterIdle
  <2>1. pc'[Worker] = "asleep" /\ pc[Worker] = "enter"
    BY <1>1, NotifyEffect DEF EnterIdle
  <2> QED BY <1>1, <2>1 DEF EnterIdle, JobInv, NoWork, Slot!Park
<1>2. CASE SleepAgain BY <1>2 DEF SleepAgain
<1>3. CASE Leave      BY <1>3 DEF Leave, Slot!Retire
<1>4. CASE TakeJob    BY <1>4 DEF TakeJob
<1>5. CASE RunJob
  BY <1>5 DEF RunJob, JobInv, LifeInv, InHand, Slot!Execute
<1>6. ASSUME NEW c \in Clients, Call(c) PROVE [Slot!Next]_Slot!vars
  BY <1>6 DEF Call
<1>7. CASE Destroy
  BY <1>7 DEF Destroy, LifeInv, Slot!Close
<1>8. ASSUME NEW c \in Clients, Block(c) \/ WaitReturns(c)
      PROVE [Slot!Next]_Slot!vars
  BY <1>8 DEF Block, WaitReturns
<1>9. ASSUME NEW c \in Clients, PostJob(c) PROVE [Slot!Next]_Slot!vars
  BY <1>9 DEF PostJob, JobInv, Slot!Submit
<1>10. ASSUME NEW c \in Clients, Notify(c) PROVE [Slot!Next]_Slot!vars
  <2>1. life # "joined"
    BY <1>10 DEF Notify, LifeInv
  <2>2. AfterCall(life') \in ClientAt
    BY <1>10, <2>1 DEF Notify, NextPhase, AfterCall
  <2>3. (pc'[Worker] = pc[Worker])
           \/ (pc[Worker] = "asleep" /\ pc'[Worker] = AwakeAt(Worker))
    BY <1>10, <2>2, NotifyEffect DEF Notify
  <2> QED BY <1>10, <2>3 DEF Notify, AwakeAt
<1>11. CASE Join BY <1>11 DEF Join
<1>12. ASSUME NEW p \in Procs, SpuriousWake(p) PROVE [Slot!Next]_Slot!vars
  BY <1>12 DEF SpuriousWake, AwakeAt
<1>13. CASE UNCHANGED vars \/ Terminated
  BY <1>13 DEF vars, Terminated
<1> QED BY <1>1, <1>2, <1>3, <1>4, <1>5, <1>6, <1>7, <1>8, <1>9, <1>10,
           <1>11, <1>12, <1>13 DEF Next, WorkerStep, ClientStep

(* The handshake implements the one-job slot its users rely on.            *)
THEOREM Refinement == Spec => ImplementsJobSlot
<1>1. Init => Slot!Init
  BY ClientsAssumption DEF Init, Slot!Init, Procs
<1> QED BY <1>1, StepSimulation, Invariance, PTL
        DEF Spec, ImplementsJobSlot, Slot!Spec
=============================================================================
