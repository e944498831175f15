------------------------- MODULE SearchControlProofs -------------------------
(***************************************************************************)
(* Safety of the search control, for any number of threads, any go         *)
(* commands and any commands, and that it implements UciProtocol.          *)
(***************************************************************************)
EXTENDS SearchControl, TLAPS

Active == cmd \in DOMAIN Plan

(* The UCI thread reads, or is at the first phase of a plan: a search may  *)
(* be under way.                                                           *)
Front == ~Active \/ (k = 1 /\ cmd # "startup")

(* Phases that hand out a job. *)
HandsOut == {"setup", "clear", "ttclear"}

Parked == {"idle", "absent"}

(* How large the pool is, and where the UCI thread's loop is in it. *)
SizeInv ==
  /\ Phase = "create" => size < want
  /\ Phase # "create" /\ cmd # "dead" => size # 0
  /\ cmd = "dead" => size = 0
  /\ IF Phase \in Loops THEN i < size ELSE i = 0
  /\ ~Active => k = 1

(* What each thread may be doing, by the phase of the plan. *)
JobAt(t) ==
  /\ (job[t] = "absent") <=> (t >= size \/ (Phase = "destroy" /\ t < i))
  /\ (job[t] = "search") <=> (at[t] # "off")
  /\ Front => job[t] \in Parked \cup {"search", "done"}
  /\ ~Front => IF Phase \in HandsOut /\ t < i
               THEN job[t] \in {Phase, "done", "idle"}
               ELSE IF Phase = "join" /\ t >= i
               THEN job[t] \in Parked \cup {Plan[cmd][k-1], "done"}
               ELSE job[t] \in Parked

(* Helpers search only for a main thread that will wait for them. *)
HelperAt(h) ==
  /\ at[h] \in {"off", "loop", "tree"}
  /\ \/ Front /\ at[0] \in {"off", "begin", "mcts", "report"}
     \/ at[0] = "launch" /\ h >= m
     \/ at[0] = "gather" /\ h < m
     => job[h] \in Parked

JobInv == /\ \A t \in Threads : JobAt(t)
          /\ \A h \in Threads \ {0} : HelperAt(h)
          /\ at[0] \in {"launch", "gather"} => m <= size

(* The phases of a go between the reset of the flags and the start. *)
SettingUp == cmd = "go" /\ Phase \in {"setup", "join", "start"}

(* Whose limits the threads have. *)
LimitInv ==
  /\ SettingUp => \A t \in Pool : (Phase = "setup" => t < i) /\ job[t] # "setup"
                            => limits[t] = asked
  /\ at[0] # "off" => \A t \in Pool : limits[t] = limits[0]

(* Only plans that replicate the network again have dropped its replicas. *)
ReplicaInv ==
  /\ cmd # "export"
  /\ replicated \/ cmd = "startup" \/ (cmd \in {"numa", "evalfile"} /\ k > 1)

IInv == TypeOK /\ SizeInv /\ JobInv /\ LimitInv /\ AnswerLedger

(* A go that holds its answer back: on a position with a move to search,   *)
(* without a limit that would raise stop on its own.                       *)
HoldsBack(g) == g.infinite \/ g.ponder
HeldGoes == \A g \in Goes : HoldsBack(g) =>
              /\ g.legal /\ ~g.mate
              /\ g.infinite => ~g.timed /\ ~g.capped

(* A book move is not printed while a search runs. *)
BookInTurn == Disciplined \/ \A g \in Goes : ~g.book

(* While the answer is held back, stop has been raised, or pondering       *)
(* ended, only at the GUI's word.                                          *)
ToldInv ==
  /\ cmd = "go" => asked \in Goes
  /\ SettingUp => ~stop /\ ponder = asked.ponder
  /\ at[0] # "off" =>
       /\ limits[0] \in Goes
       /\ HoldsBack(limits[0]) /\ stop => told
       /\ limits[0].ponder /\ ~ponder => told
       /\ limits[0].ponder /\ at[0] = "verdict" /\ ~saw => told
       /\ at[0] = "verdict" => limits[0].timed
       /\ at[0] \in {"gather", "report"} => stop
-----------------------------------------------------------------------------
(* The phases of the plans, and which may follow which. *)
Phases == Loops \cup Rewrites \cup {"create", "await", "reset", "start"}

(* p is a phase of c, q the one after it.                                  *)
Follows(c, p, q) ==
  /\ p \in HandsOut <=> q = "join"
  /\ p = "destroy" <=> q = "create"
  /\ p = "reset" <=> q = "setup"
  /\ q = "start" => p = "join"
  /\ p # "start"

(* p is the last phase of c. *)
Ends(c, p) ==
  /\ p \in Rewrites \cup {"join", "start", "destroy"}
  /\ p = "destroy" <=> c = "quit"
  /\ c \in {"startup", "numa", "evalfile"} => p = "replicate"

(* p is the first phase of c. *)
Begins(c, p) ==
  /\ p \in {"await", "create", "network"}
  /\ p = "create" <=> c = "startup"
  /\ p = "network" <=> c = "export"

(* Whose phase p is. *)
Owns(c, p) ==
  /\ p \in Phases
  /\ p \in {"reset", "setup", "start"} => c = "go"
  /\ c = "go" => p \notin {"clear", "ttclear", "create"}
  /\ p = "network" => c \in {"numa", "evalfile", "export"}

(* The commands that have a plan. *)
LEMMA PlanDomain ==
  DOMAIN Plan = {"startup", "go", "newgame", "threads", "numa", "hash",
                 "evalfile", "option", "export", "quit"}
BY DEF Plan

(* All that the proofs need to know of the plans. *)
LEMMA PlanFacts ==
  ASSUME NEW c \in DOMAIN Plan
  PROVE  /\ Len(Plan[c]) \in Nat \ {0} /\ DOMAIN Plan[c] = 1 .. Len(Plan[c])
         /\ \A n \in DOMAIN Plan[c] : Owns(c, Plan[c][n])
         /\ \A n \in DOMAIN Plan[c] : n # Len(Plan[c])
            => Follows(c, Plan[c][n], Plan[c][n+1])
         /\ Begins(c, Plan[c][1]) /\ Ends(c, Plan[c][Len(Plan[c])])
<1>. USE DEF Plan, Phases, Owns, Follows, Begins, Ends, Loops, Rewrites, HandsOut
<1>1. CASE c = "startup"
  BY <1>1
<1>2. CASE c = "go"
  BY <1>2
<1>3. CASE c = "newgame"
  BY <1>3
<1>4. CASE c = "threads"
  BY <1>4
<1>5. CASE c = "numa"
  BY <1>5
<1>6. CASE c = "hash"
  BY <1>6
<1>7. CASE c = "evalfile"
  BY <1>7
<1>8. CASE c = "option"
  BY <1>8
<1>9. CASE c = "export"
  BY <1>9
<1>10. CASE c = "quit"
  BY <1>10
<1>. QED
  BY PlanDomain, <1>1, <1>2, <1>3, <1>4, <1>5, <1>6, <1>7, <1>8, <1>9, <1>10

(* A plan goes on, or is over. *)
LEMMA PhaseStep ==
  ASSUME TypeOK, Active, NextPhase
  PROVE  /\ i' = 0
         /\ \/ /\ k < Len(Plan[cmd]) /\ cmd' = cmd /\ k' = k + 1
               /\ Phase' = Plan[cmd][k + 1] /\ ~Front' /\ Active'
               /\ Follows(cmd, Phase, Phase') /\ Owns(cmd, Phase')
            \/ /\ k = Len(Plan[cmd]) /\ k' = 1 /\ Phase' = "read" /\ Front'
               /\ ~Active' /\ cmd' = IF cmd = "quit" THEN "dead" ELSE "none"
               /\ Ends(cmd, Phase)
<1>1. k \in 1 .. Len(Plan[cmd]) /\ Len(Plan[cmd]) \in Nat /\ Phase = Plan[cmd][k]
  BY PlanFacts, PlanDomain DEF TypeOK, Active, Phase, Reading, Over
<1>2. CASE k < Len(Plan[cmd])
  <2>1. cmd' = cmd /\ k' = k + 1 /\ i' = 0
    BY <1>2 DEF NextPhase
  <2>2. Phase' = Plan[cmd][k + 1]
    BY <2>1, PlanDomain DEF Phase, Reading, Over, Active
  <2>3. k + 1 \in DOMAIN Plan[cmd] /\ k + 1 # 1 /\ k # Len(Plan[cmd])
    BY <1>1, <1>2, PlanFacts DEF Active
  <2>4. Follows(cmd, Phase, Phase') /\ Owns(cmd, Phase')
    BY <1>1, <1>2, <2>2, <2>3, PlanFacts DEF Active, TypeOK
  <2>. QED
    BY <1>2, <2>1, <2>2, <2>3, <2>4 DEF Front, Active
<1>3. CASE k = Len(Plan[cmd])
  <2>1. cmd' = (IF cmd = "quit" THEN "dead" ELSE "none") /\ k' = 1 /\ i' = 0
    BY <1>1, <1>3 DEF NextPhase
  <2>2. Phase' = "read" /\ ~Active'
    BY <2>1, PlanDomain DEF Phase, Reading, Over, Active
  <2>3. Ends(cmd, Phase)
    BY <1>1, <1>3, PlanFacts DEF Active
  <2>. QED
    BY <1>3, <2>1, <2>2, <2>3 DEF Front
<1>. QED
  BY <1>1, <1>2, <1>3

(* What is known of the present phase. *)
LEMMA PhaseNow ==
  ASSUME TypeOK
  PROVE  /\ Active <=> Phase # "read"
         /\ Active => Phase = Plan[cmd][k] /\ Owns(cmd, Phase)
         /\ Front => Phase \in {"read", "await", "network"}
         /\ Front /\ Phase = "network" => cmd = "export"
         /\ ~Front => Active
         /\ ~Active => cmd \in {"none", "dead", "crashed"}
         /\ Phase = "join" => Plan[cmd][k-1] \in HandsOut
<1>1. ~Active => Phase = "read" /\ cmd \in {"none", "dead", "crashed"}
  BY DEF TypeOK, Active, Phase, Reading, Over
<1>2. ASSUME Active
      PROVE  /\ Phase = Plan[cmd][k] /\ Owns(cmd, Phase)
             /\ k \in 1 .. Len(Plan[cmd]) /\ Len(Plan[cmd]) \in Nat
             /\ k = 1 => Begins(cmd, Phase)
  BY <1>2, PlanDomain, PlanFacts DEF TypeOK, Active, Phase, Reading, Over
<1>3. ASSUME Active PROVE Phase # "read"
  BY <1>2, <1>3 DEF Owns, Phases, Loops, Rewrites
<1>4. ASSUME Front
      PROVE  /\ Phase \in {"read", "await", "network"}
             /\ Phase = "network" => cmd = "export"
  BY <1>1, <1>2, <1>4 DEF Front, Begins
<1>5. ASSUME Phase = "join" PROVE Plan[cmd][k-1] \in HandsOut
  <2>1. Active /\ ~Front
    BY <1>1, <1>4, <1>5
  <2>2. k # 1
    BY <1>2, <1>5, <2>1 DEF Begins
  <2>3. k - 1 \in DOMAIN Plan[cmd] /\ k - 1 # Len(Plan[cmd]) /\ (k - 1) + 1 = k
    BY <1>2, <2>1, <2>2, PlanFacts DEF Active
  <2>4. Follows(cmd, Plan[cmd][k-1], Plan[cmd][k])
    BY <2>1, <2>3, PlanFacts DEF Active
  <2>. QED
    BY <1>2, <1>5, <2>1, <2>4 DEF Follows
<1>. QED
  BY <1>1, <1>2, <1>3, <1>4, <1>5 DEF Front

(* Where the UCI thread is after a phase. *)
UciTypeOK == /\ cmd \in DOMAIN Plan \cup {"none", "dead", "crashed"}
             /\ cmd \in DOMAIN Plan => k \in DOMAIN Plan[cmd]
             /\ i \in Threads

(* Going on to the next phase leaves the UCI thread in a plan, or out of   *)
(* all of them.                                                            *)
LEMMA PhaseTypes ==
  ASSUME TypeOK, Active, NextPhase
  PROVE  UciTypeOK'
<1>1. 0 \in Threads
  BY BoundsAssumption DEF Threads
<1>2. CASE k < Len(Plan[cmd]) /\ cmd' = cmd /\ k' = k + 1
  <2>1. k + 1 \in DOMAIN Plan[cmd]
    BY <1>2, PlanFacts DEF TypeOK, Active
  <2>. QED
    BY <1>1, <1>2, <2>1, PhaseStep DEF UciTypeOK, TypeOK
<1>. QED
  BY <1>1, <1>2, PhaseStep, PlanDomain DEF UciTypeOK, Active

(* So does going on to the next thread of a loop. *)
LEMMA ThreadTypes ==
  ASSUME TypeOK, Active, SizeInv, Phase \in Loops, NextThread
  PROVE  UciTypeOK'
<1>1. CASE i + 1 < size
  <2>1. i + 1 \in Threads
    BY <1>1, BoundsAssumption DEF TypeOK, Threads
  <2>. QED
    BY <1>1, <2>1 DEF NextThread, TypeOK, UciTypeOK
<1>. QED
  BY <1>1, PhaseTypes DEF NextThread

(* A plan begins. *)
LEMMA BeginTypes ==
  ASSUME NEW c \in DOMAIN Plan, Begin(c)
  PROVE  UciTypeOK'
<1>1. 1 \in DOMAIN Plan[c] /\ 0 \in Threads
  BY PlanFacts, BoundsAssumption DEF Threads
<1>. QED
  BY <1>1 DEF Begin, UciTypeOK

(* Every step preserves the types. *)
LEMMA StepTypeOK == IInv /\ [Next]_vars => TypeOK'
<1> SUFFICES ASSUME IInv, [Next]_vars PROVE TypeOK'
  OBVIOUS
<1>. USE DEF uciVars, poolVars, mainVars, flagVars, ledger, TypeOK
<1>0. TypeOK /\ SizeInv
  BY DEF IInv
<1>a. /\ Active <=> Phase # "read"
      /\ Phase \in Phases \cup {"read"}
  BY <1>0, PhaseNow DEF Owns
<1>b. 0 \in Threads /\ 1 \in 1 .. MaxThreads
  BY BoundsAssumption DEF Threads
<1>c. ASSUME m < size PROVE m \in Threads /\ m + 1 \in 1 .. MaxThreads
  BY <1>0, <1>c, BoundsAssumption DEF Threads
<1>1. CASE ReadGo
  <2>1. PICK g \in Goes :
          /\ asked' = g
          /\ \/ /\ g.book
                /\ goes' = goes + 1 /\ answers' = answers + 1 /\ told' = FALSE
                /\ UNCHANGED <<cmd, k, i>>
             \/ ~g.book /\ Begin("go") /\ UNCHANGED ledger
    BY <1>1, Zenon DEF ReadGo
  <2>2. asked' \in GoCommand
    BY <2>1, GoesAssumption
  <2>3. UciTypeOK'
    BY <1>0, <2>1, BeginTypes, PlanDomain DEF UciTypeOK
  <2>4. goes' \in Nat /\ answers' \in Nat
    BY <1>0, <2>1
  <2>5. told' \in BOOLEAN
    BY <1>0, <2>1
  <2>. QED
    BY <1>0, <1>1, <2>2, <2>3, <2>4, <2>5 DEF ReadGo, UciTypeOK
<1>2. CASE ReadStop
  BY <1>0, <1>2 DEF ReadStop
<1>3. CASE ReadPonderhit
  BY <1>0, <1>3 DEF ReadPonderhit
<1>4. CASE ReadQuit
  <2>1. UciTypeOK'
    BY <1>4, BeginTypes, PlanDomain DEF ReadQuit
  <2>. QED
    BY <1>0, <1>4, <2>1 DEF ReadQuit, UciTypeOK
<1>5. ASSUME NEW c \in Commands, ReadCommand(c) PROVE TypeOK'
  <2>1. UciTypeOK'
    BY <1>5, BeginTypes, CommandsAssumption DEF ReadCommand
  <2>2. want' \in 1 .. MaxThreads
    BY <1>0, <1>5 DEF ReadCommand
  <2>. QED
    BY <1>0, <1>5, <2>1, <2>2 DEF ReadCommand, UciTypeOK
<1>6. CASE UciPhase
  <2>1. CASE Await \/ Reset \/ Start \/ Rewrite
    <3>1. UciTypeOK'
      BY <1>0, <1>a, <2>1, PhaseTypes
         DEF Await, Reset, Start, Rewrite, Rewrites
    <3>2. CASE Await
      BY <1>0, <3>1, <3>2 DEF Await, UciTypeOK
    <3>3. CASE Reset
      <4>1. asked.ponder \in BOOLEAN
        BY <1>0 DEF GoCommand
      <4>. QED
        BY <1>0, <3>1, <3>3, <4>1 DEF Reset, UciTypeOK
    <3>4. CASE Start
      <4>1. job' \in [Threads -> Jobs] /\ at' \in [Threads -> Places]
            /\ goes' \in Nat
        BY <1>0, <1>b, <3>4 DEF Start, Jobs, Places
      <4>. QED
        BY <1>0, <3>1, <3>4, <4>1 DEF Start, UciTypeOK
    <3>5. CASE Rewrite
      BY <1>0, <3>1, <3>5 DEF Rewrite, Replicas, UciTypeOK
    <3>. QED
      BY <2>1, <3>2, <3>3, <3>4, <3>5
  <2>2. CASE Join \/ RunOnEach \/ Destroy
    <3>1. UciTypeOK'
      BY <1>0, <1>a, <2>2, ThreadTypes DEF Join, RunOnEach, Destroy, Loops
    <3>2. CASE Join
      BY <1>0, <3>1, <3>2 DEF Join, UciTypeOK
    <3>3. CASE RunOnEach
      BY <1>0, <3>1, <3>3 DEF RunOnEach, NextJob, UciTypeOK, Jobs
    <3>4. CASE Destroy
      BY <1>0, <3>1, <3>4, BoundsAssumption DEF Destroy, UciTypeOK, Jobs
    <3>. QED
      BY <2>2, <3>2, <3>3, <3>4
  <2>3. CASE Create
    <3>1. size + 1 \in 0 .. MaxThreads /\ Active
      BY <1>0, <1>a, <2>3, BoundsAssumption DEF Create, SizeInv
    <3>2. UciTypeOK'
      BY <1>0, <2>3, <3>1, PhaseTypes DEF Create, UciTypeOK
    <3>. QED
      BY <1>0, <2>3, <3>1, <3>2 DEF Create, UciTypeOK, Jobs
  <2>. QED
    BY <1>6, <2>1, <2>2, <2>3 DEF UciPhase
<1>7. ASSUME NEW t \in Threads, ThreadStep(t) \/ FinishIteration(t) PROVE TypeOK'
  <2>1. CASE RunJob(t)
    BY <1>0, <2>1, BoundsAssumption DEF RunJob, Jobs
  <2>2. CASE Park(t)
    BY <1>0, <2>2 DEF Park, Jobs
  <2>3. CASE Deepen(t)
    BY <1>0, <2>3, BoundsAssumption DEF Deepen, Deeper, Goto, Places
  <2>4. CASE LeaveLoop(t)
    BY <1>0, <2>4 DEF LeaveLoop, Leave, Goto, Jobs, Places
  <2>5. CASE FinishIteration(t)
    <3>1. stop' \in BOOLEAN
      BY <1>0, <2>5 DEF FinishIteration
    <3>2. at' \in [Threads -> Places]
      <4>1. (IF t = 0 THEN "timing" ELSE "loop") \in Places
        BY DEF Places
      <4>. QED
        BY <1>0, <2>5, <4>1 DEF FinishIteration, Goto
    <3>. QED
      BY <1>0, <2>5, <3>1, <3>2 DEF FinishIteration
  <2>. QED
    BY <1>7, <2>1, <2>2, <2>3, <2>4, <2>5 DEF ThreadStep
<1>8. CASE MainStep
  <2>1. CASE BeginSearch
    BY <1>0, <1>b, <2>1
       DEF BeginSearch, NothingToSearch, Leave, Goto, Jobs, Places
  <2>2. CASE Launch
    BY <1>0, <1>b, <1>c, <2>2 DEF Launch, Goto, Jobs, Places
  <2>3. CASE Timing
    BY <1>0, <1>b, <2>3 DEF Timing, Goto, Places
  <2>4. CASE Verdict
    BY <1>0, <1>b, <2>4 DEF Verdict, Goto, Places
  <2>5. CASE MctsStopped
    BY <1>0, <1>b, <2>5 DEF MctsStopped, Goto, Places
  <2>6. CASE Hold
    BY <1>0, <1>b, <2>6 DEF Hold, Goto, Places
  <2>7. CASE Gather
    BY <1>0, <1>b, <1>c, <2>7 DEF Gather, Goto, Places
  <2>8. CASE Report
    BY <1>0, <1>b, <2>8 DEF Report, Leave, Jobs, Places
  <2>. QED
    BY <1>8, <2>1, <2>2, <2>3, <2>4, <2>5, <2>6, <2>7, <2>8 DEF MainStep
<1>9. CASE CheckTime
  BY <1>0, <1>9 DEF CheckTime
<1>10. CASE FailLow
  BY <1>0, <1>10 DEF FailLow
<1>11. CASE MctsBudget
  BY <1>0, <1>b, <1>11 DEF MctsBudget, Goto, Places
<1>12. CASE MctsCrash
  BY <1>0, <1>12, PlanDomain DEF MctsCrash
<1>13. CASE Spend
  BY <1>0, <1>13 DEF Spend
<1>14. CASE Terminated \/ UNCHANGED vars
  BY <1>0, <1>14 DEF Terminated, vars
<1>. QED
  BY <1>1, <1>2, <1>3, <1>4, <1>5, <1>6, <1>7, <1>8, <1>9, <1>10, <1>11, <1>12,
     <1>13, <1>14
  DEF Next

(* A search runs only while the UCI thread is at the front. *)
LEMMA SearchAtFront ==
  ASSUME IInv, NEW t \in Threads, job[t] = "search" \/ at[t] # "off"
  PROVE  Front /\ at[0] # "off" /\ cmd # "dead" /\ size # 0
<1>1. TypeOK /\ JobAt(t) /\ JobInv
  BY DEF IInv, JobInv
<1>2. job[t] = "search"
  BY <1>1 DEF JobAt
<1>3. Front
  BY <1>1, <1>2, PhaseNow DEF JobAt, Parked, HandsOut
<1>4. at[0] # "off"
  <2>1. CASE t = 0
    BY <1>1, <1>2, <2>1 DEF JobAt
  <2>2. CASE t # 0
    <3>1. HelperAt(t)
      BY <1>1, <2>2 DEF JobInv
    <3>. QED
      BY <1>2, <1>3, <3>1 DEF HelperAt, Parked
  <2>. QED
    BY <2>1, <2>2
<1>5. job[t] # "absent" /\ t < size
  BY <1>1, <1>2 DEF JobAt, TypeOK, Threads
<1>6. size # 0
  BY <1>1, <1>5 DEF TypeOK, Threads
<1>7. cmd # "dead"
  BY <1>6 DEF IInv, SizeInv
<1>. QED
  BY <1>3, <1>4, <1>6, <1>7

(* Where the main thread is searching no phase is at work, and the other   *)
(* way round.                                                              *)
LEMMA Quiet ==
  ASSUME IInv, Active, k # 1 \/ cmd = "startup" \/ (Phase = "await" /\ Free(0))
  PROVE  /\ \A t \in Threads : at[t] = "off" /\ job[t] # "search"
         /\ Phase \notin HandsOut \cup {"join"}
            => \A t \in Threads : job[t] \in Parked
<1>1. TypeOK /\ JobInv /\ 0 \in Threads
  BY BoundsAssumption DEF IInv, Threads
<1>2. CASE ~Front
  <2>1. \A t \in Threads : JobAt(t)
    BY <1>1 DEF JobInv
  <2>. QED
    BY <1>2, <2>1, SearchAtFront DEF JobAt, Parked, HandsOut
<1>3. CASE Front
  <2>1. Phase = "await" /\ job[0] = "idle"
    BY <1>3, PhaseNow, <1>1 DEF Front, Free
  <2>2. at[0] = "off"
    BY <1>1, <2>1 DEF JobInv, JobAt
  <2>3. \A t \in Threads : t # 0 => job[t] \in Parked
    BY <1>1, <1>3, <2>2 DEF JobInv, HelperAt
  <2>. QED
    BY <1>1, <2>1, <2>3, <2>2, SearchAtFront DEF Parked
<1>. QED
  BY <1>2, <1>3

(* The first phase of a plan that the UCI thread has just begun. *)
LEMMA BeginPhase ==
  ASSUME NEW c \in DOMAIN Plan \ {"startup"}, Begin(c)
  PROVE  /\ cmd' = c /\ k' = 1 /\ i' = 0 /\ Active' /\ Front'
         /\ Phase' \in {"await", "network"}
<1>1. cmd' = c /\ k' = 1 /\ i' = 0 /\ Active' /\ Phase' = Plan[c][1]
  BY PlanDomain DEF Begin, Active, Phase, Reading, Over
<1>2. Begins(c, Plan[c][1])
  BY PlanFacts
<1>. QED
  BY <1>1, <1>2 DEF Begins, Front

(* The phase after one that has no loop, or whose loop is over. *)
LEMMA SizeNext ==
  ASSUME IInv, Active, NextPhase, want' = want,
         \/ Phase \notin {"create", "destroy"} /\ size' = size
         \/ Phase = "create" /\ size' \in Nat \ {0}
         \/ Phase = "destroy" /\ size' = 0
  PROVE  SizeInv'
<1>1. TypeOK /\ SizeInv
  BY DEF IInv
<1>2. i' = 0 /\ (~Active' => k' = 1)
      /\ (Phase' = "create" <=> Phase = "destroy" /\ Active')
  BY <1>1, PhaseStep, PhaseNow DEF Follows
<1>3. Phase' = "create" => size' < want'
  BY <1>1, <1>2 DEF TypeOK
<1>4. cmd' = "dead" <=> Phase = "destroy" /\ Phase' # "create"
  BY <1>1, PhaseStep, PlanDomain DEF Ends, Follows, Active
<1>5. Phase # "destroy" => size' # 0
  BY <1>1, PlanDomain DEF SizeInv, Active
<1>6. Phase' \in Loops => 0 < size'
  <2>1. CASE Phase = "destroy"
    <3>1. Phase' \in {"create", "read"}
      BY <1>1, <2>1, PhaseStep DEF Follows
    <3>. QED
      BY <3>1 DEF Loops
  <2>2. CASE Phase # "destroy"
    <3>1. size' \in Nat
      BY <1>1, <2>2 DEF TypeOK
    <3>. QED
      BY <1>5, <2>2, <3>1
  <2>. QED
    BY <2>1, <2>2
<1>. QED
  BY <1>2, <1>3, <1>4, <1>5, <1>6 DEF SizeInv

(* Every step preserves the size of the pool and the place in its loops. *)
LEMMA StepSizeInv == IInv /\ [Next]_vars => SizeInv'
<1> SUFFICES ASSUME IInv, [Next]_vars PROVE SizeInv'
  OBVIOUS
<1>. USE DEF uciVars, poolVars, mainVars, flagVars, ledger
<1>0. TypeOK /\ SizeInv /\ 0 \in Threads
  BY BoundsAssumption DEF IInv, Threads
<1>1. CASE UNCHANGED <<cmd, k, i, want, size>>
  BY <1>0, <1>1 DEF SizeInv, Active, Phase, Reading, Over
<1>2. ASSUME NEW c \in DOMAIN Plan \ {"startup"}, Begin(c), Reading, size' = size
      PROVE  SizeInv'
  <2>1. size # 0
    BY <1>0, <1>2, PlanDomain, PhaseNow DEF SizeInv, Reading, Phase
  <2>. QED
    BY <1>2, <2>1, BeginPhase, PlanDomain DEF SizeInv, Loops
<1>3. CASE ReadGo \/ ReadQuit \/ \E c \in Commands : ReadCommand(c)
  BY <1>1, <1>2, <1>3, CommandsAssumption, PlanDomain
     DEF ReadGo, ReadQuit, ReadCommand, MaySend
<1>4. CASE Await \/ Reset \/ Start \/ Rewrite
  <2>1. Active /\ NextPhase /\ want' = want /\ size' = size
        /\ Phase \notin {"create", "destroy"}
    BY <1>0, <1>4, PhaseNow DEF Await, Reset, Start, Rewrite, Rewrites
  <2>. QED
    BY <2>1, SizeNext
<1>5. CASE Join \/ RunOnEach \/ Destroy
  <2>1. Active /\ NextThread /\ want' = want /\ Phase \in Loops
    BY <1>0, <1>5, PhaseNow DEF Join, RunOnEach, Destroy, Loops
  <2>2. /\ size' = size
           \/ (Phase = "destroy" /\ size' = IF i + 1 < size THEN size ELSE 0)
        /\ Destroy <=> Phase = "destroy"
    BY <1>5 DEF Join, RunOnEach, Destroy
  <2>3. CASE i + 1 < size
    <3>1. i' = i + 1 /\ UNCHANGED <<cmd, k, size, want>>
      BY <2>1, <2>2, <2>3 DEF NextThread
    <3>. QED
      BY <1>0, <2>1, <2>3, <3>1 DEF SizeInv, Active, Phase, Reading, Over
  <2>4. CASE ~(i + 1 < size)
    BY <2>1, <2>2, <2>4, SizeNext DEF NextThread, Loops, Destroy
  <2>. QED
    BY <2>3, <2>4
<1>6. CASE Create
  <2>1. Active /\ Phase = "create" /\ want' = want /\ size' = size + 1
        /\ size' \in Nat \ {0}
    BY <1>0, <1>6, PhaseNow DEF Create, TypeOK
  <2>2. CASE size' >= want
    BY <1>6, <2>1, <2>2, SizeNext DEF Create, Complete
  <2>3. CASE ~(size' >= want)
    <3>1. UNCHANGED <<cmd, k, i>>
      BY <1>6, <2>3 DEF Create, Complete
    <3>. QED
      BY <1>0, <2>1, <2>3, <3>1
         DEF SizeInv, TypeOK, Active, Phase, Reading, Over, Loops
  <2>. QED
    BY <2>2, <2>3
<1>7. CASE MctsCrash
  <2>1. at[0] # "off"
    BY <1>7 DEF MctsCrash
  <2>2. Front /\ size # 0
    BY <1>0, <2>1, SearchAtFront
  <2>3. k = 1 /\ i = 0
    BY <1>0, <2>2, PhaseNow DEF SizeInv, Front, Loops
  <2>4. UNCHANGED <<k, i, size>> /\ cmd' = "crashed"
    BY <1>7 DEF MctsCrash
  <2>. QED
    BY <2>2, <2>3, <2>4, PlanDomain
       DEF SizeInv, Active, Phase, Reading, Over, Loops
<1>8. CASE \/ ReadStop \/ ReadPonderhit \/ MainStep \/ CheckTime \/ FailLow
              \/ MctsBudget \/ Spend
           \/ \E t \in Threads : ThreadStep(t) \/ FinishIteration(t)
  BY <1>1, <1>8
     DEF ReadStop, ReadPonderhit, MainStep, BeginSearch, Launch, Timing,
         Verdict, MctsStopped, Hold, Gather, Report, CheckTime, FailLow,
         MctsBudget, Spend, ThreadStep, RunJob, Park, Deepen, LeaveLoop,
         FinishIteration
<1>9. CASE Terminated \/ UNCHANGED vars
  BY <1>1, <1>9 DEF Terminated, vars
<1>. QED
  BY <1>3, <1>4, <1>5, <1>6, <1>7, <1>8, <1>9 DEF Next, UciPhase

(* A phase is over, every thread is parked, and none of them searches. *)
LEMMA QuietNext ==
  ASSUME IInv, Active, NextPhase,
         \A t \in Threads : /\ at'[t] = "off" /\ job'[t] \in Parked
                            /\ job'[t] = "absent" <=> t >= size'
  PROVE  JobInv'
<1>1. TypeOK /\ i' = 0 /\ 0 \in Threads
  BY PhaseStep, BoundsAssumption DEF IInv, Threads
<1>2. \A t \in Threads : ~(t < i') /\ t \in Nat
  BY <1>1 DEF Threads
<1>3. \A t \in Threads : JobAt(t)'
  BY <1>2 DEF JobAt, Parked
<1>4. \A h \in Threads \ {0} : HelperAt(h)'
  BY DEF HelperAt
<1>. QED
  BY <1>1, <1>3, <1>4 DEF JobInv

(* The UCI thread goes from one place at the front to another. *)
LEMMA FrontNext ==
  ASSUME IInv, Front, Front', Phase # "destroy", Phase' # "destroy",
         UNCHANGED <<job, at, m, size>>
  PROVE  JobInv'
<1>1. JobInv
  BY DEF IInv
<1>2. ASSUME NEW t \in Threads PROVE JobAt(t)'
  BY <1>1, <1>2 DEF JobInv, JobAt
<1>3. ASSUME NEW h \in Threads \ {0} PROVE HelperAt(h)'
  BY <1>1, <1>3 DEF JobInv, HelperAt
<1>. QED
  BY <1>1, <1>2, <1>3 DEF JobInv

(* Only the pool threads move. *)
SamePlace == UNCHANGED <<cmd, k, i, size>>

(* ... and the phase is the same. *)
LEMMA SamePlacePhase ==
  ASSUME SamePlace
  PROVE  Phase' = Phase /\ (Front' <=> Front) /\ (Active' <=> Active)
         /\ (Phase' = "join" => Plan[cmd'][k'-1] = Plan[cmd][k-1])
BY DEF SamePlace, Phase, Front, Active, Reading, Over

(* What the UCI thread does respects what the threads may be doing. *)
LEMMA UciJobInv ==
  ASSUME IInv, UciPhase
  PROVE  JobInv'
<1>. USE DEF uciVars, poolVars, mainVars, flagVars, ledger
<1>0. TypeOK /\ SizeInv /\ JobInv /\ 0 \in Threads
  BY BoundsAssumption DEF IInv, Threads
<1>a. /\ \A t \in Threads : JobAt(t)
      /\ \A h \in Threads \ {0} : HelperAt(h)
  BY <1>0 DEF JobInv
<1>1. CASE Await
  <2>1. Active /\ Phase = "await" /\ Free(0) /\ NextPhase
        /\ UNCHANGED <<job, at, size>>
    BY <1>0, <1>1, PhaseNow DEF Await
  <2>2. \A t \in Threads : at[t] = "off" /\ job[t] \in Parked
    BY <2>1, Quiet DEF HandsOut
  <2>. QED
    BY <1>a, <2>1, <2>2, QuietNext DEF JobAt
<1>2. CASE Reset \/ Rewrite
  <2>1. Active /\ Phase \in Rewrites \cup {"reset"} /\ NextPhase
        /\ UNCHANGED <<job, at, size, m>>
    BY <1>0, <1>2, PhaseNow DEF Reset, Rewrite, Rewrites
  <2>2. CASE ~Front
    <3>1. \A t \in Threads : at[t] = "off" /\ job[t] \in Parked
      BY <2>1, <2>2, Quiet DEF HandsOut, Rewrites, Front
    <3>. QED
      BY <1>a, <2>1, <3>1, QuietNext DEF JobAt, Rewrites
  <2>3. CASE Front
    <3>1. cmd = "export" /\ k = 1
      BY <1>0, <2>1, <2>3, PhaseNow DEF Rewrites, Front
    <3>2. Len(Plan["export"]) = 1
      BY DEF Plan
    <3>3. Front' /\ Phase' = "read"
      BY <1>0, <2>1, <3>1, <3>2, PhaseStep
    <3>. QED
      BY <2>1, <2>3, <3>3, FrontNext DEF Rewrites
  <2>. QED
    BY <2>2, <2>3
<1>3. CASE Start
  <2>1. Active /\ Phase = "start" /\ NextPhase /\ UNCHANGED <<size, m>>
    BY <1>0, <1>3, PhaseNow DEF Start
  <2>2. ~Front
    BY <1>0, <2>1, PhaseNow
  <2>3. \A t \in Threads : at[t] = "off" /\ job[t] \in Parked
    BY <2>1, <2>2, Quiet DEF HandsOut, Front
  <2>4. Front' /\ Phase' = "read"
    BY <1>0, <2>1, PhaseStep DEF Follows
  <2>5. job' = [job EXCEPT ![0] = "search"] /\ at' = [at EXCEPT ![0] = "begin"]
        /\ job[0] = "idle"
    BY <1>3 DEF Start
  <2>6. ASSUME NEW t \in Threads PROVE JobAt(t)'
    BY <1>0, <1>a, <2>1, <2>3, <2>4, <2>5, <2>6 DEF JobAt, TypeOK, Parked
  <2>7. ASSUME NEW h \in Threads \ {0} PROVE HelperAt(h)'
    BY <1>0, <2>3, <2>5, <2>7 DEF HelperAt, TypeOK, Parked
  <2>. QED
    BY <1>0, <2>5, <2>6, <2>7 DEF JobInv, TypeOK
<1>4. CASE Join
  <2>1. Active /\ Phase \in {"join", "helpers"} /\ NextThread
        /\ UNCHANGED <<job, at, size, m>>
        /\ (Phase = "join" => job[i] = "idle")
    BY <1>0, <1>4, PhaseNow DEF Join, Free
  <2>2. ~Front
    BY <1>0, <2>1, PhaseNow
  <2>3. \A t \in Threads : at[t] = "off"
    BY <2>1, <2>2, Quiet DEF Front
  <2>4. \A t \in Threads : t < i + 1 => job[t] \in Parked
    <3>. SUFFICES ASSUME NEW t \in Threads, t < i + 1 PROVE job[t] \in Parked
      OBVIOUS
    <3>1. t = i \/ ~(t >= i)
      BY <1>0 DEF TypeOK, Threads
    <3>. QED
      BY <1>a, <2>1, <2>2, <3>1 DEF JobAt, Parked, HandsOut
  <2>5. CASE i + 1 < size
    <3>1. i' = i + 1 /\ UNCHANGED <<cmd, k>>
      BY <2>1, <2>5 DEF NextThread
    <3>2. Phase' = Phase /\ (Front' <=> Front)
      BY <3>1 DEF Phase, Front, Active, Reading, Over
    <3>3. ASSUME NEW t \in Threads PROVE JobAt(t)'
      <4>1. t >= i' \/ t < i + 1
        BY <1>0, <3>1 DEF TypeOK, Threads
      <4>2. t >= i' => t >= i
        BY <1>0, <3>1 DEF TypeOK, Threads
      <4>. QED
        BY <1>a, <2>1, <2>2, <2>4, <3>1, <3>2, <4>1, <4>2 DEF JobAt, HandsOut
    <3>4. \A h \in Threads \ {0} : HelperAt(h)'
      BY <1>0, <2>1, <2>2, <2>3, <3>2 DEF HelperAt
    <3>. QED
      BY <1>0, <2>1, <2>3, <3>3, <3>4 DEF JobInv
  <2>6. CASE ~(i + 1 < size)
    <3>1. ASSUME NEW t \in Threads PROVE job[t] \in Parked
      <4>1. t < i + 1 \/ t >= size
        BY <1>0, <2>6 DEF TypeOK, Threads
      <4>. QED
        BY <1>a, <2>4, <4>1 DEF JobAt, Parked
    <3>. QED
      BY <1>a, <2>1, <2>3, <2>6, <3>1, QuietNext DEF NextThread, JobAt
  <2>. QED
    BY <2>5, <2>6
<1>5. CASE RunOnEach
  <2>1. /\ Active /\ Phase \in HandsOut /\ NextThread /\ UNCHANGED <<at, size, m>>
        /\ job[i] = "idle" /\ job' = [job EXCEPT ![i] = Phase]
    BY <1>0, <1>5, PhaseNow DEF RunOnEach, NextJob, HandsOut
  <2>2. ~Front
    BY <1>0, <2>1, PhaseNow DEF HandsOut
  <2>3. \A t \in Threads : at[t] = "off"
    BY <2>1, <2>2, Quiet DEF Front
  <2>4. Phase \notin {"destroy", "join", "search", "absent"}
    BY <2>1 DEF HandsOut
  <2>5. ASSUME NEW t \in Threads
        PROVE  /\ job'[t] = "absent" <=> t >= size
               /\ t < i + 1 => job'[t] \in {Phase, "done", "idle"}
               /\ t >= i + 1 => job'[t] \in Parked
               /\ job'[t] # "search"
    <3>1. (t < i + 1 => t = i \/ t < i) /\ (t >= i + 1 => t # i /\ ~(t < i))
          /\ t \in Nat
      BY <1>0 DEF TypeOK, Threads
    <3>2. CASE t = i
      <4>1. job'[t] = Phase /\ job[t] = "idle"
        BY <1>0, <2>1, <3>2 DEF TypeOK
      <4>. QED
        BY <1>a, <2>4, <3>1, <3>2, <4>1 DEF JobAt
    <3>3. CASE t # i
      <4>1. job'[t] = job[t]
        BY <1>0, <2>1, <3>3 DEF TypeOK
      <4>. QED
        BY <1>a, <2>1, <2>2, <2>4, <3>1, <3>3, <4>1 DEF JobAt, Parked
    <3>. QED
      BY <3>2, <3>3
  <2>6. CASE i + 1 < size
    <3>1. i' = i + 1 /\ UNCHANGED <<cmd, k>>
      BY <2>1, <2>6 DEF NextThread
    <3>2. Phase' = Phase /\ (Front' <=> Front)
      BY <3>1 DEF Phase, Front, Active, Reading, Over
    <3>3. ASSUME NEW t \in Threads PROVE JobAt(t)'
      <4>1. t >= i + 1 \/ t < i + 1
        BY <1>0 DEF TypeOK, Threads
      <4>. QED
        BY <2>1, <2>2, <2>3, <2>4, <2>5, <3>1, <3>2, <4>1 DEF JobAt
    <3>4. \A h \in Threads \ {0} : HelperAt(h)'
      BY <1>0, <2>1, <2>2, <2>3, <3>2 DEF HelperAt
    <3>. QED
      BY <1>0, <2>1, <2>3, <3>3, <3>4 DEF JobInv
  <2>7. CASE ~(i + 1 < size)
    <3>1. NextPhase
      BY <2>1, <2>7 DEF NextThread
    <3>2. Phase' = "join" /\ ~Front' /\ i' = 0 /\ k' = k + 1 /\ cmd' = cmd
      BY <1>0, <2>1, <3>1, PhaseStep DEF Follows, Ends, HandsOut, Rewrites
    <3>3. Plan[cmd'][k' - 1] = Phase
      BY <1>0, <2>1, <3>2, PhaseNow, PlanFacts DEF TypeOK, Active
    <3>4. ASSUME NEW t \in Threads PROVE JobAt(t)'
      <4>1. (t >= i + 1 \/ t < i + 1) /\ t >= 0
        BY <1>0 DEF TypeOK, Threads
      <4>. QED
        BY <2>1, <2>3, <2>5, <3>2, <3>3, <4>1 DEF JobAt, Parked, HandsOut
    <3>5. \A h \in Threads \ {0} : HelperAt(h)'
      BY <1>0, <2>1, <2>2, <2>3, <3>2 DEF HelperAt
    <3>. QED
      BY <1>0, <2>1, <2>3, <3>4, <3>5 DEF JobInv
  <2>. QED
    BY <2>6, <2>7
<1>6. CASE Destroy
  <2>1. /\ Active /\ Phase = "destroy" /\ NextThread /\ UNCHANGED <<at, m>>
        /\ size' = IF i + 1 < size THEN size ELSE 0
        /\ job' = [job EXCEPT ![i] = "absent"] /\ i < size
    BY <1>0, <1>6, PhaseNow DEF Destroy, SizeInv, Loops
  <2>2. ~Front
    BY <1>0, <2>1, PhaseNow
  <2>3. \A t \in Threads : at[t] = "off" /\ job[t] \in Parked
    BY <2>1, <2>2, Quiet DEF Front, HandsOut
  <2>4. ASSUME NEW t \in Threads
        PROVE  job'[t] \in Parked
               /\ (job'[t] = "absent" <=> t >= size \/ t < i + 1)
    <3>1. t < i + 1 <=> t = i \/ t < i
      BY <1>0 DEF TypeOK, Threads
    <3>. QED
      BY <1>0, <1>a, <2>1, <2>3, <3>1 DEF TypeOK, JobAt, Parked
  <2>5. CASE i + 1 < size
    <3>1. i' = i + 1 /\ size' = size /\ UNCHANGED <<cmd, k>>
      BY <2>1, <2>5 DEF NextThread
    <3>2. Phase' = Phase /\ (Front' <=> Front)
      BY <3>1 DEF Phase, Front, Active, Reading, Over
    <3>3. ASSUME NEW t \in Threads PROVE JobAt(t)'
      BY <2>1, <2>2, <2>3, <2>4, <3>1, <3>2 DEF JobAt, HandsOut, Parked
    <3>4. \A h \in Threads \ {0} : HelperAt(h)'
      BY <1>0, <2>1, <2>2, <2>3, <3>2 DEF HelperAt
    <3>. QED
      BY <1>0, <2>1, <2>3, <3>3, <3>4 DEF JobInv
  <2>6. CASE ~(i + 1 < size)
    <3>1. size' = 0 /\ NextPhase
      BY <2>1, <2>6 DEF NextThread
    <3>2. ASSUME NEW t \in Threads PROVE t >= 0 /\ (t >= size \/ t < i + 1)
      BY <1>0, <2>6 DEF TypeOK, Threads
    <3>. QED
      BY <2>1, <2>3, <2>4, <3>1, <3>2, QuietNext
  <2>. QED
    BY <2>5, <2>6
<1>7. CASE Create
  <2>1. /\ Active /\ Phase = "create" /\ UNCHANGED <<at, m>> /\ size' = size + 1
        /\ job' = [job EXCEPT ![size] = "idle"] /\ size < want
        /\ (NextPhase \/ UNCHANGED <<cmd, k, i>>)
    BY <1>0, <1>7, PhaseNow DEF Create, SizeInv
  <2>2. k # 1 \/ cmd = "startup"
    BY <1>0, <2>1, PhaseNow DEF Front
  <2>3. \A t \in Threads : at[t] = "off" /\ job[t] \in Parked
    BY <2>1, <2>2, Quiet DEF HandsOut
  <2>4. ASSUME NEW t \in Threads
        PROVE  job'[t] \in Parked /\ (job'[t] = "absent" <=> t >= size')
    <3>1. t >= size' <=> t >= size /\ t # size
      BY <1>0, <2>1 DEF TypeOK, Threads
    <3>. QED
      BY <1>0, <1>a, <2>1, <2>3, <3>1 DEF TypeOK, JobAt, Parked
  <2>5. CASE NextPhase
    BY <2>1, <2>3, <2>4, <2>5, QuietNext
  <2>6. CASE UNCHANGED <<cmd, k, i>>
    <3>1. Phase' = Phase /\ (Front' <=> Front) /\ ~Front
      BY <1>0, <2>1, <2>6, PhaseNow DEF Phase, Front, Active, Reading, Over
    <3>3. ASSUME NEW t \in Threads PROVE JobAt(t)'
      BY <2>1, <2>3, <2>4, <3>1 DEF JobAt, HandsOut, Parked
    <3>4. \A h \in Threads \ {0} : HelperAt(h)'
      BY <1>0, <2>1, <2>3, <3>1 DEF HelperAt
    <3>. QED
      BY <1>0, <2>1, <2>3, <3>3, <3>4 DEF JobInv
  <2>. QED
    BY <2>1, <2>5, <2>6
<1>. QED
  BY <1>1, <1>2, <1>3, <1>4, <1>5, <1>6, <1>7 DEF UciPhase

(* A pool thread moves, the UCI thread stays where it is: what remains to  *)
(* be shown of the threads that have moved.                                *)
LEMMA ThreadMoves ==
  ASSUME IInv, SamePlace, NEW t \in Threads, job' \in [Threads -> Jobs],
         \A u \in Threads \ {t} : job'[u] = job[u] /\ at'[u] = at[u],
         job'[t] = "absent" <=> job[t] = "absent",
         job'[t] = "search" <=> at'[t] # "off",
         \/ job[t] \in HandsOut /\ job'[t] = "done" /\ at'[t] = at[t]
         \/ job[t] = "done" /\ job'[t] = "idle" /\ at'[t] = at[t]
         \/ job[t] = "search" /\ job'[t] \in {"search", "done"}
  PROVE  \A u \in Threads : JobAt(u)'
<1>1. TypeOK /\ JobInv
  BY DEF IInv
<1>2. Phase' = Phase /\ (Front' <=> Front)
      /\ (Phase = "join" => Plan[cmd'][k'-1] = Plan[cmd][k-1])
  BY SamePlacePhase
<1>3. ASSUME NEW u \in Threads \ {t} PROVE JobAt(u)'
  BY <1>1, <1>2, <1>3 DEF JobInv, JobAt, SamePlace
<1>4. JobAt(t)'
  <2>1. JobAt(t)
    BY <1>1 DEF JobInv
  <2>2. CASE Front
    BY <1>2, <2>1, <2>2 DEF JobAt, SamePlace, Parked, HandsOut
  <2>3. CASE ~Front
    <3>1. job[t] # "search"
      BY <2>3, SearchAtFront
    <3>2. Phase = "join" => Plan[cmd][k-1] \in HandsOut
      BY <1>1, PhaseNow
    <3>. QED
      BY <1>2, <2>1, <2>3, <3>1, <3>2 DEF JobAt, SamePlace, Parked, HandsOut
  <2>. QED
    BY <2>2, <2>3
<1>. QED
  BY <1>3, <1>4

(* What the main thread does while it searches respects it. *)
LEMMA MainJobInv ==
  ASSUME IInv, MainStep \/ MctsBudget \/ LeaveLoop(0) \/ Deepen(0)
         \/ FinishIteration(0)
  PROVE  JobInv'
<1>. USE DEF uciVars, poolVars, mainVars, flagVars, ledger
<1>0. TypeOK /\ SizeInv /\ JobInv /\ 0 \in Threads
  BY BoundsAssumption DEF IInv, Threads
<1>a. /\ \A t \in Threads : JobAt(t)
      /\ \A h \in Threads \ {0} : HelperAt(h)
  BY <1>0 DEF JobInv
<1>b. SamePlace /\ at[0] # "off"
  BY
     DEF SamePlace, MainStep, BeginSearch, Launch, Timing, Verdict,
         MctsStopped, Hold, Gather, Report, MctsBudget, LeaveLoop, Deepen,
         FinishIteration
<1>c. Phase' = Phase /\ (Front' <=> Front) /\ Front /\ job[0] = "search"
      /\ size # 0
  BY <1>0, <1>a, <1>b, SamePlacePhase, SearchAtFront DEF JobAt
<1>1. CASE BeginSearch
  <2>1. \A h \in Threads \ {0} : job[h] \in Parked
    BY <1>1, <1>a, <1>c DEF HelperAt, BeginSearch
  <2>2. /\ job' \in [Threads -> Jobs]
           /\ \A u \in Threads \ {0} : job'[u] = job[u] /\ at'[u] = at[u]
        /\ at'[0] \in {"off", "mcts", "launch"}
        /\ IF at'[0] = "off" THEN job'[0] = "done" ELSE job'[0] = "search"
        /\ at'[0] = "launch" => m' = 1
    BY <1>0, <1>1, <1>c
       DEF BeginSearch, NothingToSearch, Leave, Goto, TypeOK, Jobs
  <2>3. \A t \in Threads : JobAt(t)'
    BY <1>0, <1>b, <1>c, <2>2, ThreadMoves
  <2>4. \A h \in Threads \ {0} : HelperAt(h)'
    BY <1>a, <2>1, <2>2 DEF HelperAt
  <2>5. 1 <= size'
    BY <1>0, <1>b, <1>c DEF SamePlace, TypeOK
  <2>. QED
    BY <2>2, <2>3, <2>4, <2>5 DEF JobInv
<1>2. CASE Launch
  <2>1. CASE m < size
    <3>1. m \in Threads \ {0} /\ m + 1 <= size
      BY <1>0, <2>1, BoundsAssumption DEF TypeOK, Threads
    <3>2. /\ job[m] = "idle" /\ job' = [job EXCEPT ![m] = "search"]
          /\ at' = [at EXCEPT ![m] = "loop"] /\ m' = m + 1 /\ at[0] = "launch"
      BY <1>2, <2>1 DEF Launch
    <3>3. ASSUME NEW u \in Threads PROVE JobAt(u)'
      BY <1>0, <1>a, <1>b, <1>c, <3>1, <3>2
         DEF JobAt, TypeOK, SamePlace, Parked
    <3>4. ASSUME NEW h \in Threads \ {0} PROVE HelperAt(h)'
      <4>1. h >= m' => h >= m /\ h # m
        BY <1>0, <3>2 DEF TypeOK, Threads
      <4>. QED
        BY <1>0, <1>a, <3>1, <3>2, <4>1 DEF HelperAt, TypeOK
    <3>. QED
      BY <1>b, <3>1, <3>2, <3>3, <3>4 DEF JobInv, SamePlace
  <2>2. CASE ~(m < size)
    <3>1. at' = [at EXCEPT ![0] = "loop"] /\ UNCHANGED <<job, m>>
      BY <1>2, <2>2 DEF Launch, Goto
    <3>2. \A t \in Threads : JobAt(t)'
      BY <1>0, <1>b, <1>c, <3>1, ThreadMoves DEF TypeOK
    <3>3. \A h \in Threads \ {0} : HelperAt(h)'
      BY <1>0, <1>a, <3>1 DEF HelperAt, TypeOK
    <3>. QED
      BY <1>0, <3>1, <3>2, <3>3 DEF JobInv, TypeOK
  <2>. QED
    BY <2>1, <2>2
<1>3. CASE Timing \/ Verdict \/ MctsStopped \/ MctsBudget \/ LeaveLoop(0)
           \/ Deepen(0) \/ FinishIteration(0)
  <2>1. /\ UNCHANGED job
        /\ \E p \in {"verdict", "loop", "hold", "tree", "timing"} :
              at' = [at EXCEPT ![0] = p]
    BY <1>3
       DEF Timing, Verdict, MctsStopped, MctsBudget, LeaveLoop, Deepen,
           FinishIteration, Goto
  <2>2. \A u \in Threads \ {0} : at'[u] = at[u]
    BY <1>0, <2>1 DEF TypeOK
  <2>3. at'[0] \in {"verdict", "loop", "hold", "tree", "timing"}
    BY <1>0, <2>1 DEF TypeOK
  <2>4. \A t \in Threads : JobAt(t)'
    BY <1>0, <1>b, <1>c, <2>1, <2>2, <2>3, ThreadMoves DEF TypeOK
  <2>5. \A h \in Threads \ {0} : HelperAt(h)'
    BY <1>0, <1>a, <2>1, <2>2, <2>3 DEF HelperAt
  <2>. QED
    BY <2>3, <2>4, <2>5 DEF JobInv
<1>4. CASE Hold
  <2>1. UNCHANGED job /\ at' = [at EXCEPT ![0] = "gather"] /\ m' = 1
    BY <1>4 DEF Hold, Goto
  <2>2. \A t \in Threads : JobAt(t)'
    BY <1>0, <1>b, <1>c, <2>1, ThreadMoves DEF TypeOK
  <2>3. ASSUME NEW h \in Threads \ {0} PROVE HelperAt(h)'
    <3>1. ~(h < 1)
      BY DEF Threads
    <3>. QED
      BY <1>0, <1>a, <2>1, <3>1 DEF HelperAt, TypeOK
  <2>4. 1 <= size'
    BY <1>0, <1>b, <1>c DEF SamePlace, TypeOK
  <2>. QED
    BY <2>1, <2>2, <2>3, <2>4 DEF JobInv
<1>5. CASE Gather
  <2>1. UNCHANGED job /\ at[0] = "gather"
    BY <1>5 DEF Gather
  <2>2. CASE m < size
    <3>1. job[m] = "idle" /\ m' = m + 1 /\ UNCHANGED at
      BY <1>5, <2>2 DEF Gather, HelperFree
    <3>2. ASSUME NEW h \in Threads \ {0} PROVE HelperAt(h)'
      <4>1. h < m' => h < m \/ h = m
        BY <1>0, <3>1 DEF TypeOK, Threads
      <4>. QED
        BY <1>a, <2>1, <3>1, <4>1 DEF HelperAt, Parked
    <3>3. \A t \in Threads : JobAt(t)'
      BY <1>a, <1>b, <1>c, <2>1, <3>1 DEF JobAt, SamePlace
    <3>4. m + 1 <= size
      BY <1>0, <2>2 DEF TypeOK
    <3>. QED
      BY <1>b, <3>1, <3>2, <3>3, <3>4 DEF JobInv, SamePlace
  <2>3. CASE ~(m < size)
    <3>1. UNCHANGED m /\ at' = [at EXCEPT ![0] = "report"]
      BY <1>5, <2>3 DEF Gather, Goto
    <3>2. \A t \in Threads : JobAt(t)'
      BY <1>0, <1>b, <1>c, <2>1, <3>1, ThreadMoves DEF TypeOK
    <3>3. ASSUME NEW h \in Threads \ {0} PROVE HelperAt(h)'
      <4>1. h < m \/ h >= size
        BY <1>0, <2>3 DEF TypeOK, Threads
      <4>2. job[h] \in Parked
        BY <1>a, <2>1, <4>1 DEF HelperAt, JobAt, Parked
      <4>. QED
        BY <1>0, <1>a, <2>1, <3>1, <4>2 DEF HelperAt, TypeOK
    <3>. QED
      BY <1>0, <3>1, <3>2, <3>3 DEF JobInv, TypeOK
  <2>. QED
    BY <2>2, <2>3
<1>6. CASE Report
  <2>1. /\ at[0] = "report" /\ at' = [at EXCEPT ![0] = "off"]
        /\ job' = [job EXCEPT ![0] = "done"]
    BY <1>6 DEF Report, Leave
  <2>2. \A t \in Threads : JobAt(t)'
    BY <1>0, <1>b, <1>c, <2>1, ThreadMoves DEF TypeOK, Jobs
  <2>3. \A h \in Threads \ {0} : HelperAt(h)'
    BY <1>0, <1>a, <1>c, <2>1 DEF HelperAt, TypeOK
  <2>. QED
    BY <1>0, <2>1, <2>2, <2>3 DEF JobInv, TypeOK
<1>. QED
  BY <1>1, <1>2, <1>3, <1>4, <1>5, <1>6 DEF MainStep

(* What any other thread does respects it, and so do the other jobs. *)
LEMMA HelperJobInv ==
  ASSUME IInv, NEW t \in Threads,
         RunJob(t) \/ Park(t)
         \/ (t # 0 /\ (LeaveLoop(t) \/ Deepen(t) \/ FinishIteration(t)))
  PROVE  JobInv'
<1>. USE DEF uciVars, poolVars, mainVars, flagVars, ledger
<1>0. TypeOK /\ SizeInv /\ JobInv /\ 0 \in Threads
  BY BoundsAssumption DEF IInv, Threads
<1>a. /\ \A u \in Threads : JobAt(u)
      /\ \A h \in Threads \ {0} : HelperAt(h)
  BY <1>0 DEF JobInv
<1>b. SamePlace /\ UNCHANGED m
  BY DEF SamePlace, RunJob, Park, LeaveLoop, Deepen, FinishIteration
<1>c. Front' <=> Front
  BY <1>b, SamePlacePhase
<1>1. CASE RunJob(t) \/ Park(t)
  <2>1. UNCHANGED at
        /\ (\/ job[t] \in HandsOut /\ job' = [job EXCEPT ![t] = "done"]
            \/ job[t] = "done" /\ job' = [job EXCEPT ![t] = "idle"])
    BY <1>1 DEF RunJob, Park, HandsOut
  <2>2. at[t] = "off" /\ job'[t] \notin {"absent", "search"}
        /\ job[t] \notin {"absent", "search"}
    BY <1>0, <1>a, <2>1 DEF JobAt, HandsOut, TypeOK
  <2>3. job' \in [Threads -> Jobs] /\ \A u \in Threads \ {t} : job'[u] = job[u]
    BY <1>0, <2>1 DEF TypeOK, Jobs
  <2>4. \A u \in Threads : JobAt(u)'
    <3>1. CASE job[t] \in HandsOut /\ job' = [job EXCEPT ![t] = "done"]
      BY <1>0, <1>b, <2>1, <2>2, <2>3, <3>1, ThreadMoves DEF TypeOK
    <3>2. CASE job[t] = "done" /\ job' = [job EXCEPT ![t] = "idle"]
      BY <1>0, <1>b, <2>1, <2>2, <2>3, <3>2, ThreadMoves DEF TypeOK
    <3>. QED
      BY <2>1, <3>1, <3>2
  <2>5. ASSUME NEW h \in Threads \ {0} PROVE HelperAt(h)'
    <3>1. job[h] \in Parked => job'[h] \in Parked
      BY <2>1, <2>3 DEF Parked, HandsOut
    <3>. QED
      BY <1>a, <1>b, <1>c, <2>1, <3>1 DEF HelperAt
  <2>. QED
    BY <1>0, <1>b, <2>1, <2>4, <2>5 DEF JobInv, SamePlace
<1>2. CASE t # 0 /\ (LeaveLoop(t) \/ Deepen(t) \/ FinishIteration(t))
  <2>1. /\ at[t] \in {"loop", "tree"}
        /\ \/ UNCHANGED job
              /\ \E p \in {"loop", "tree"} : at' = [at EXCEPT ![t] = p]
           \/ job' = [job EXCEPT ![t] = "done"] /\ at' = [at EXCEPT ![t] = "off"]
    BY <1>2 DEF LeaveLoop, Deepen, FinishIteration, Leave, Goto
  <2>2. job[t] = "search" /\ Front
    BY <1>a, <2>1, SearchAtFront DEF JobAt
  <2>3. /\ job' \in [Threads -> Jobs]
           /\ \A u \in Threads \ {t} : job'[u] = job[u] /\ at'[u] = at[u]
        /\ \/ at'[t] \in {"loop", "tree"} /\ job'[t] = "search"
           \/ at'[t] = "off" /\ job'[t] = "done"
    BY <1>0, <2>1, <2>2 DEF TypeOK, Jobs
  <2>4. \A u \in Threads : JobAt(u)'
    BY <1>b, <2>2, <2>3, ThreadMoves
  <2>5. ASSUME NEW h \in Threads \ {0} PROVE HelperAt(h)'
    <3>1. at'[0] = at[0] /\ job[t] \notin Parked /\ m' = m
      BY <1>0, <1>2, <1>b, <2>2, <2>3 DEF Parked
    <3>2. CASE h = t
      BY <1>a, <1>c, <2>3, <3>1, <3>2 DEF HelperAt
    <3>3. CASE h # t
      BY <1>a, <1>c, <2>3, <3>1, <3>3 DEF HelperAt
    <3>. QED
      BY <3>2, <3>3
  <2>. QED
    BY <1>0, <1>2, <1>b, <2>3, <2>4, <2>5 DEF JobInv, SamePlace
<1>. QED
  BY <1>1, <1>2

(* Every step respects what the threads may be doing. *)
LEMMA StepJobInv == IInv /\ [Next]_vars => JobInv'
<1> SUFFICES ASSUME IInv, [Next]_vars PROVE JobInv'
  OBVIOUS
<1>. USE DEF uciVars, poolVars, mainVars, flagVars, ledger
<1>0. TypeOK /\ JobInv /\ 0 \in Threads
  BY BoundsAssumption DEF IInv, Threads
<1>1. CASE UNCHANGED <<cmd, k, i, size, job, at, m>>
  <2>1. SamePlace
    BY <1>1 DEF SamePlace
  <2>2. \A t \in Threads : JobAt(t)'
    BY <1>0, <1>1, <2>1, SamePlacePhase DEF JobInv, JobAt
  <2>3. \A h \in Threads \ {0} : HelperAt(h)'
    BY <1>0, <1>1, <2>1, SamePlacePhase DEF JobInv, HelperAt
  <2>. QED
    BY <1>0, <1>1, <2>2, <2>3 DEF JobInv
<1>2. CASE ReadGo \/ ReadQuit \/ \E c \in Commands : ReadCommand(c)
  <2>1. Reading /\ UNCHANGED <<job, at, m, size>>
    BY <1>2 DEF ReadGo, ReadQuit, ReadCommand, MaySend
  <2>2. \/ UNCHANGED <<cmd, k, i>>
        \/ \E c \in DOMAIN Plan \ {"startup"} : Begin(c)
    BY <1>2, CommandsAssumption, PlanDomain DEF ReadGo, ReadQuit, ReadCommand
  <2>3. CASE UNCHANGED <<cmd, k, i>>
    BY <1>1, <2>1, <2>3
  <2>4. CASE \E c \in DOMAIN Plan \ {"startup"} : Begin(c)
    <3>1. Front' /\ Phase' # "destroy"
      BY <2>4, BeginPhase
    <3>2. Front /\ Phase # "destroy"
      BY <2>1, PlanDomain DEF Reading, Front, Active, Phase
    <3>. QED
      BY <2>1, <3>1, <3>2, FrontNext
  <2>. QED
    BY <2>2, <2>3, <2>4
<1>3. CASE MctsCrash
  <2>1. at[0] # "off" /\ cmd' = "crashed" /\ UNCHANGED <<job, at, m, size>>
    BY <1>3 DEF MctsCrash
  <2>2. Front /\ Phase # "destroy"
    BY <1>0, <2>1, SearchAtFront, PhaseNow
  <2>3. Front' /\ Phase' # "destroy"
    BY <2>1, PlanDomain DEF Front, Active, Phase, Reading, Over
  <2>. QED
    BY <2>1, <2>2, <2>3, FrontNext
<1>4. CASE ReadStop \/ ReadPonderhit \/ CheckTime \/ FailLow \/ Spend
  BY <1>1, <1>4 DEF ReadStop, ReadPonderhit, CheckTime, FailLow, Spend
<1>5. CASE UciPhase
  BY <1>5, UciJobInv
<1>6. CASE \/ MainStep \/ MctsBudget
           \/ \E t \in Threads : ThreadStep(t) \/ FinishIteration(t)
  BY <1>0, <1>6, MainJobInv, HelperJobInv DEF ThreadStep
<1>7. CASE Terminated \/ UNCHANGED vars
  BY <1>1, <1>7 DEF Terminated, vars
<1>. QED
  BY <1>2, <1>3, <1>4, <1>5, <1>6, <1>7 DEF Next

(* The UCI thread sets the same limits for every thread, one by one. *)
LEMMA UciLimitInv ==
  ASSUME IInv, UciPhase
  PROVE  LimitInv'
<1>. USE DEF uciVars, poolVars, mainVars, flagVars, ledger
<1>0. TypeOK /\ SizeInv /\ JobInv /\ LimitInv /\ 0 \in Threads
      /\ \A t \in Threads : JobAt(t)
  BY BoundsAssumption DEF IInv, Threads, JobInv
<1>a. Active /\ UNCHANGED <<asked, limits>>
  BY <1>0, PhaseNow
     DEF UciPhase, Await, Join, RunOnEach, Reset, Start, Destroy, Create,
         Rewrite, Rewrites
<1>b. Pool \subseteq Threads
  BY <1>0, BoundsAssumption DEF Pool, Threads, TypeOK
<1>1. CASE Await \/ Reset \/ Rewrite \/ Destroy \/ Create
  <2>1. UNCHANGED at /\ Phase \notin {"setup", "join", "start"} \cup HandsOut
        /\ (NextPhase \/ (NextThread /\ Phase = "destroy")
           \/ UNCHANGED <<cmd, k, i>>)
    BY <1>1 DEF Await, Reset, Rewrite, Destroy, Create, Rewrites, HandsOut
  <2>2. ~SettingUp' \/ (Phase' = "setup" /\ i' = 0)
    <3>1. CASE NextPhase
      BY <1>0, <1>a, <2>1, <3>1, PhaseStep DEF SettingUp, Follows
    <3>2. CASE NextThread /\ Phase = "destroy"
      BY <1>0, <1>a, <2>1, <3>2, PhaseStep
         DEF NextThread, SettingUp, Follows, Phase, Reading, Over
    <3>3. CASE UNCHANGED <<cmd, k, i>>
      BY <2>1, <3>3 DEF SettingUp, Phase, Reading, Over
    <3>. QED
      BY <2>1, <3>1, <3>2, <3>3
  <2>3. \A t \in Pool' : ~(t < 0)
    BY DEF Pool
  <2>4. at[0] = "off" \/ (UNCHANGED <<size, job>>)
    <3>1. CASE Await \/ Reset \/ Rewrite
      BY <3>1 DEF Await, Reset, Rewrite
    <3>2. CASE Destroy \/ Create
      <4>1. Phase \in {"destroy", "create"}
        BY <3>2 DEF Destroy, Create
      <4>2. ~Front
        BY <1>0, <4>1, PhaseNow
      <4>. QED
        BY <1>0, <1>a, <4>2, Quiet DEF Front
    <3>. QED
      BY <1>1, <3>1, <3>2
  <2>5. at'[0] # "off" => \A t \in Pool' : limits'[t] = limits'[0]
    BY <1>0, <1>a, <2>1, <2>4 DEF LimitInv, Pool
  <2>. QED
    BY <2>2, <2>3, <2>5 DEF LimitInv, SettingUp
<1>2. CASE Join \/ RunOnEach
  <2>1. UNCHANGED <<at, size>> /\ Phase \in HandsOut \cup {"join", "helpers"}
        /\ NextThread
    BY <1>2 DEF Join, RunOnEach, HandsOut
  <2>2. ~Front
    BY <1>0, <2>1, PhaseNow DEF HandsOut
  <2>3. at'[0] = "off"
    BY <1>0, <1>a, <2>1, <2>2, Quiet DEF Front
  <2>4. ASSUME cmd = "go", Phase \in {"setup", "join"}, NEW t \in Pool,
               t < i + 1, job'[t] # "setup"
        PROVE  limits[t] = asked
    <3>1. t \in Threads /\ (t = i \/ t < i)
      BY <1>0, <1>b, <2>4 DEF TypeOK, Threads
    <3>2. CASE Join
      <4>1. Phase = "join" /\ job' = job
        BY <2>4, <3>2 DEF Join
      <4>. QED
        BY <1>0, <2>4, <4>1 DEF LimitInv, SettingUp
    <3>3. CASE RunOnEach
      <4>1. Phase = "setup" /\ job' = [job EXCEPT ![i] = "setup"]
        BY <2>4, <3>3 DEF RunOnEach, NextJob
      <4>2. t # i /\ job'[t] = job[t]
        BY <1>0, <2>4, <3>1, <4>1 DEF TypeOK
      <4>. QED
        BY <1>0, <2>4, <3>1, <4>1, <4>2 DEF LimitInv, SettingUp
    <3>. QED
      BY <1>2, <3>2, <3>3
  <2>5. CASE i + 1 < size
    <3>1. i' = i + 1 /\ UNCHANGED <<cmd, k, size>>
      BY <2>1, <2>5 DEF NextThread
    <3>2. Phase' = Phase /\ Pool' = Pool
      BY <3>1 DEF Phase, Reading, Over, Pool
    <3>3. CASE Phase = "setup"
      BY <1>a, <2>3, <2>4, <3>1, <3>2, <3>3 DEF LimitInv, SettingUp
    <3>4. CASE Phase # "setup"
      <4>1. SettingUp => job' = job
        BY <1>2, <2>1, <3>4 DEF SettingUp, Join, RunOnEach, HandsOut
      <4>. QED
        BY <1>0, <1>a, <2>3, <3>1, <3>2, <3>4, <4>1 DEF LimitInv, SettingUp
    <3>. QED
      BY <3>3, <3>4
  <2>6. CASE ~(i + 1 < size)
    <3>1. NextPhase
      BY <2>1, <2>6 DEF NextThread
    <3>2. SettingUp' => cmd = "go" /\ Phase \in {"setup", "join"}
          /\ Phase' \in {"join", "start"}
      BY <1>0, <1>a, <2>1, <3>1, PhaseStep, PhaseNow
         DEF SettingUp, Follows, Owns, HandsOut
    <3>3. \A t \in Pool : t < i + 1
      BY <1>0, <1>b, <2>6 DEF Pool, TypeOK, Threads
    <3>4. Pool' = Pool
      BY <2>1 DEF Pool
    <3>. QED
      BY <1>a, <2>3, <2>4, <3>2, <3>3, <3>4 DEF LimitInv, SettingUp
  <2>. QED
    BY <2>5, <2>6
<1>3. CASE Start
  <2>1. Phase = "start" /\ NextPhase /\ UNCHANGED size
    BY <1>3 DEF Start
  <2>2. ~SettingUp'
    BY <1>0, <1>a, <2>1, PhaseStep DEF SettingUp, Follows
  <2>3. ~Front /\ cmd = "go"
    BY <1>0, <1>a, <2>1, PhaseNow DEF Owns
  <2>4. \A t \in Pool : job[t] # "setup"
    BY <1>0, <1>a, <1>b, <2>1, <2>3, Quiet DEF Front, HandsOut, Parked
  <2>5. \A t \in Pool : limits[t] = asked
    BY <1>0, <2>1, <2>3, <2>4 DEF LimitInv, SettingUp
  <2>6. 0 \in Pool
    BY <1>0, <2>1, <2>3 DEF SizeInv, Pool, TypeOK
  <2>. QED
    BY <1>a, <2>1, <2>2, <2>5, <2>6 DEF LimitInv, SettingUp, Pool
<1>. QED
  BY <1>1, <1>2, <1>3 DEF UciPhase

(* Every step preserves whose limits the threads have. *)
LEMMA StepLimitInv == IInv /\ [Next]_vars => LimitInv'
<1> SUFFICES ASSUME IInv, [Next]_vars PROVE LimitInv'
  OBVIOUS
<1>. USE DEF uciVars, poolVars, mainVars, flagVars, ledger
<1>0. TypeOK /\ SizeInv /\ JobInv /\ LimitInv /\ 0 \in Threads
      /\ \A t \in Threads : JobAt(t)
  BY BoundsAssumption DEF IInv, Threads, JobInv
<1>a. Pool \subseteq Threads
  BY <1>0, BoundsAssumption DEF Pool, Threads, TypeOK
<1>1. CASE /\ UNCHANGED <<size, limits>> /\ (at'[0] # "off" => at[0] # "off")
           /\ ~SettingUp'
  BY <1>0, <1>1 DEF LimitInv, Pool, SettingUp
<1>2. CASE ReadGo \/ ReadQuit \/ \E c \in Commands : ReadCommand(c)
  <2>1. Reading /\ UNCHANGED <<at, size, limits>>
    BY <1>2 DEF ReadGo, ReadQuit, ReadCommand, MaySend
  <2>2. \/ UNCHANGED <<cmd, k, i>>
        \/ \E c \in DOMAIN Plan \ {"startup"} : Begin(c)
    BY <1>2, CommandsAssumption, PlanDomain DEF ReadGo, ReadQuit, ReadCommand
  <2>3. ~SettingUp'
    BY <2>1, <2>2, BeginPhase DEF SettingUp, Reading
  <2>. QED
    BY <1>1, <2>1, <2>3
<1>3. CASE MctsCrash
  BY <1>1, <1>3 DEF MctsCrash, SettingUp
<1>4. CASE MainStep \/ MctsBudget
  <2>1. SamePlace /\ at[0] # "off" /\ UNCHANGED limits
    BY <1>4
       DEF SamePlace, MainStep, BeginSearch, Launch, Timing, Verdict,
           MctsStopped, Hold, Gather, Report, MctsBudget
  <2>2. Front /\ Front'
    BY <1>0, <2>1, SearchAtFront, SamePlacePhase
  <2>3. ~SettingUp'
    BY <1>0, <2>1, <2>2, PhaseNow, SamePlacePhase DEF SettingUp
  <2>. QED
    BY <1>1, <2>1, <2>3 DEF SamePlace
<1>5. ASSUME NEW t \in Threads, LeaveLoop(t) \/ Deepen(t) \/ FinishIteration(t)
      PROVE LimitInv'
  <2>1. SamePlace /\ at[t] # "off" /\ UNCHANGED limits
    BY <1>5 DEF SamePlace, LeaveLoop, Deepen, FinishIteration
  <2>2. Front /\ Front' /\ at[0] # "off"
    BY <1>0, <2>1, SearchAtFront, SamePlacePhase
  <2>3. ~SettingUp'
    BY <1>0, <2>1, <2>2, PhaseNow, SamePlacePhase DEF SettingUp
  <2>. QED
    BY <1>1, <2>1, <2>2, <2>3 DEF SamePlace
<1>6. ASSUME NEW t \in Threads, RunJob(t) \/ Park(t) PROVE LimitInv'
  <2>1. SamePlace /\ UNCHANGED <<at, asked>>
        /\ \E j \in {"done", "idle"} : job' = [job EXCEPT ![t] = j]
    BY <1>6 DEF RunJob, Park, SamePlace
  <2>2. Phase' = Phase /\ Pool' = Pool /\ i' = i /\ cmd' = cmd
    BY <2>1, SamePlacePhase DEF SamePlace, Pool
  <2>3. \/ UNCHANGED limits /\ job[t] # "setup"
        \/ limits' = [limits EXCEPT ![t] = asked] /\ job[t] \in HandsOut
    BY <1>6 DEF RunJob, Park, HandsOut
  <2>4. CASE UNCHANGED limits /\ job[t] # "setup"
    <3>1. \A u \in Pool : job'[u] # "setup" => job[u] # "setup"
      BY <1>0, <1>a, <2>1, <2>4 DEF TypeOK
    <3>. QED
      BY <1>0, <2>1, <2>2, <2>4, <3>1 DEF LimitInv, SettingUp
  <2>5. CASE limits' = [limits EXCEPT ![t] = asked] /\ job[t] \in HandsOut
    <3>1. ~Front
      BY <1>0, <2>5 DEF JobAt, HandsOut, Parked
    <3>2. at'[0] = "off"
      BY <1>0, <2>1, <3>1, SearchAtFront
    <3>3. \A u \in Pool : /\ limits'[u] = limits[u] \/ limits'[u] = asked
                          /\ u = t => limits'[u] = asked
                          /\ u # t => job'[u] = job[u]
      BY <1>0, <1>a, <2>1, <2>5 DEF TypeOK
    <3>. QED
      BY <1>0, <2>1, <2>2, <3>2, <3>3 DEF LimitInv, SettingUp
  <2>. QED
    BY <2>3, <2>4, <2>5
<1>7. CASE UciPhase
  BY <1>7, UciLimitInv
<1>8. CASE ReadStop \/ ReadPonderhit \/ CheckTime \/ FailLow \/ Spend
           \/ Terminated \/ UNCHANGED vars
  <2>1. UNCHANGED <<cmd, k, i, size, job, at, limits, asked>>
    BY <1>8
       DEF ReadStop, ReadPonderhit, CheckTime, FailLow, Spend, Terminated, vars
  <2>. QED
    BY <1>0, <2>1 DEF LimitInv, SettingUp, Phase, Reading, Over, Pool
<1>. QED
  BY <1>2, <1>3, <1>4, <1>5, <1>6, <1>7, <1>8 DEF Next, ThreadStep

(* One go for one answer, and one more while the main thread is at it. *)
LEMMA StepLedger == IInv /\ [Next]_vars => AnswerLedger'
<1> SUFFICES ASSUME IInv, [Next]_vars PROVE AnswerLedger'
  OBVIOUS
<1>. USE DEF uciVars, poolVars, mainVars, flagVars, ledger
<1>0. TypeOK /\ JobInv /\ AnswerLedger /\ 0 \in Threads /\ JobAt(0)
  BY BoundsAssumption DEF IInv, Threads, JobInv
<1>1. CASE UNCHANGED <<goes, answers>> /\ (at'[0] # "off" <=> at[0] # "off")
  BY <1>0, <1>1 DEF AnswerLedger
<1>2. CASE ReadGo
  <2>1. at' = at /\ (UNCHANGED <<goes, answers>>
        \/ (goes' = goes + 1 /\ answers' = answers + 1))
    BY <1>2 DEF ReadGo
  <2>. QED
    BY <1>0, <2>1 DEF AnswerLedger, TypeOK
<1>3. CASE ReadQuit \/ (\E c \in Commands : ReadCommand(c)) \/ MctsCrash
           \/ ReadStop \/ ReadPonderhit
           \/ CheckTime \/ FailLow \/ Spend \/ Terminated \/ UNCHANGED vars
  BY <1>1, <1>3
     DEF ReadQuit, ReadCommand, MctsCrash, ReadStop, ReadPonderhit, CheckTime,
         FailLow, Spend, Terminated, vars
<1>4. CASE UciPhase
  <2>1. CASE Start
    <3>1. at'[0] = "begin" /\ at[0] = "off" /\ goes' = goes + 1
          /\ answers' = answers
      BY <1>0, <2>1 DEF Start, JobAt, TypeOK
    <3>. QED
      BY <1>0, <3>1 DEF AnswerLedger, TypeOK
  <2>2. CASE ~Start
    <3>1. UNCHANGED <<goes, answers, at>>
      BY <1>4, <2>2
         DEF UciPhase, Await, Join, RunOnEach, Reset, Destroy, Create, Rewrite
    <3>. QED
      BY <1>1, <3>1
  <2>. QED
    BY <2>1, <2>2
<1>5. CASE MainStep \/ MctsBudget
  <2>1. CASE BeginSearch \/ Report
    <3>1. /\ at[0] # "off"
          /\ goes' = goes
          /\ \/ answers' = answers + 1 /\ at'[0] = "off"
             \/ answers' = answers /\ at'[0] # "off"
      BY <1>0, <2>1
         DEF BeginSearch, Report, NothingToSearch, Leave, Goto, TypeOK
    <3>. QED
      BY <1>0, <3>1 DEF AnswerLedger, TypeOK
  <2>2. CASE ~(BeginSearch \/ Report)
    <3>1. /\ UNCHANGED <<goes, answers>> /\ at[0] # "off"
          /\ \/ UNCHANGED at
             \/ \E p \in {"loop", "verdict", "hold", "gather", "report"} :
                   at' = [at EXCEPT ![0] = p]
             \/ \E u \in Threads \ {0} : at' = [at EXCEPT ![u] = "loop"]
      <4>1. CASE Launch
        <5>1. m < size => m \in Threads \ {0}
          BY <1>0, BoundsAssumption DEF TypeOK, Threads
        <5>. QED
          BY <4>1, <5>1 DEF Launch, Goto
      <4>2. CASE ~Launch
        BY <1>5, <2>2, <4>2
           DEF MainStep, Timing, Verdict, MctsStopped, MctsBudget, Hold,
               Gather, Goto
      <4>. QED
        BY <4>1, <4>2
    <3>. QED
      BY <1>0, <1>1, <3>1 DEF TypeOK
  <2>. QED
    BY <2>1, <2>2
<1>6. ASSUME NEW t \in Threads, ThreadStep(t) \/ FinishIteration(t)
      PROVE AnswerLedger'
  <2>1. /\ UNCHANGED <<goes, answers>>
        /\ \/ UNCHANGED at
           \/ at[t] # "off"
              /\ \E p \in {"loop", "tree", "hold", "timing"} :
                    at' = [at EXCEPT ![t] = p]
           \/ t # 0 /\ at' = [at EXCEPT ![t] = "off"]
    BY <1>6
       DEF ThreadStep, RunJob, Park, Deepen, LeaveLoop, FinishIteration, Goto,
           Leave
  <2>. QED
    BY <1>0, <1>1, <2>1 DEF TypeOK
<1>. QED
  BY <1>2, <1>3, <1>4, <1>5, <1>6 DEF Next
-----------------------------------------------------------------------------
(* The invariant holds initially. *)
LEMMA InitIInv == Init => IInv
<1> SUFFICES ASSUME Init PROVE IInv
  OBVIOUS
<1>. USE BoundsAssumption DEF Init
<1>1. 0 \in Threads /\ 1 \in 1 .. MaxThreads
  BY DEF Threads
<1>2. cmd \in DOMAIN Plan /\ k \in DOMAIN Plan[cmd] /\ Phase = "create"
  BY PlanDomain, PlanFacts DEF Begins, Phase, Reading, Over
<1>3. NoGo \in GoCommand
  BY DEF NoGo, GoCommand
<1>4. TypeOK
  <2>1. limits \in [Threads -> GoCommand]
    BY <1>3
  <2>2. job \in [Threads -> Jobs] /\ at \in [Threads -> Places]
    BY DEF Jobs, Places
  <2>3. depth \in [Threads -> 0 .. MaxPly]
    OBVIOUS
  <2>4. want \in 1 .. MaxThreads /\ size \in 0 .. MaxThreads
    BY <1>1
  <2>. QED
    BY <1>1, <1>2, <1>3, <2>1, <2>2, <2>3, <2>4 DEF TypeOK
<1>5. SizeInv
  BY <1>2, PlanDomain DEF SizeInv, Active, Loops
<1>6. JobInv
  <2>1. \A t \in Threads : t >= 0
    BY DEF Threads
  <2>. QED
    BY <1>1, <1>2, <2>1, PlanDomain
       DEF JobInv, JobAt, HelperAt, Parked, HandsOut, Front
<1>7. LimitInv /\ AnswerLedger
  BY <1>1 DEF LimitInv, SettingUp, AnswerLedger
<1>. QED
  BY <1>4, <1>5, <1>6, <1>7 DEF IInv

(* The invariant holds in every state. *)
THEOREM Invariance == Spec => []IInv
<1>1. IInv /\ [Next]_vars => IInv'
  BY StepTypeOK, StepSizeInv, StepJobInv, StepLimitInv, StepLedger DEF IInv
<1>. QED
  BY <1>1, InitIInv, PTL DEF Spec

(* Type correctness, for any number of threads and any commands. *)
THEOREM TypeCorrect == Spec => []TypeOK
<1>1. IInv => TypeOK
  BY DEF IInv
<1>. QED
  BY <1>1, Invariance, PTL

(* Each go is answered once: between a go and its bestmove the main thread *)
(* is at it, and only then.                                                *)
THEOREM OneAnswerPerGo == Spec => []AnswerLedger
<1>1. IInv => AnswerLedger
  BY DEF IInv
<1>. QED
  BY <1>1, Invariance, PTL

(* The UCI thread rewrites shared data, resizes the pool and hands out     *)
(* jobs only while no search runs; it never waits for a thread that the    *)
(* main thread waits for; and the best thread is chosen when all are done. *)
THEOREM Apart == Spec => []ThreadsApart
<1>1. ASSUME IInv PROVE ThreadsApart
  <2>0. /\ TypeOK /\ JobInv /\ 0 \in Threads
        /\ \A t \in Threads : JobAt(t)
        /\ \A h \in Threads \ {0} : HelperAt(h)
    BY <1>1, BoundsAssumption DEF IInv, JobInv, Threads
  <2>1. QuietReconfiguration
    <3>. SUFFICES ASSUME cmd # "export" PROVE QuietReconfiguration
      BY DEF QuietReconfiguration
    <3>1. ASSUME Phase \in Rewrites \cup {"reset", "destroy", "create", "start"}
          PROVE  \A t \in Threads : job[t] \in {"idle", "absent"}
      <4>1. ~Front /\ Active
        BY <2>0, <3>1, PhaseNow DEF Rewrites
      <4>. QED
        BY <1>1, <3>1, <4>1, Quiet DEF Front, HandsOut, Rewrites, Parked
    <3>2. ASSUME Phase \in {"setup", "clear", "ttclear", "join"} PROVE ~Searching
      <4>1. ~Front
        BY <2>0, <3>2, PhaseNow
      <4>. QED
        BY <1>1, <4>1, SearchAtFront DEF Searching
    <3>. QED
      BY <3>1, <3>2 DEF QuietReconfiguration
  <2>2. OneCallerPerThread
    <3>1. CASE at[0] \notin {"launch", "gather"}
      BY <3>1 DEF OneCallerPerThread, MainUses
    <3>2. CASE at[0] \in {"launch", "gather"}
      <4>1. Front
        BY <1>1, <2>0, <3>2, SearchAtFront
      <4>2. UciUses \subseteq {0}
        BY <2>0, <4>1, PhaseNow DEF UciUses, Loops
      <4>3. m # 0
        BY <2>0 DEF TypeOK
      <4>. QED
        BY <3>2, <4>2, <4>3 DEF OneCallerPerThread, MainUses
    <3>. QED
      BY <3>1, <3>2
  <2>3. ReportAlone
    <3>. SUFFICES ASSUME at[0] = "report", NEW t \in Helpers PROVE job[t] = "idle"
      BY DEF ReportAlone
    <3>1. t \in Threads \ {0} /\ ~(t >= size)
      BY <2>0, BoundsAssumption DEF Helpers, Pool, Threads, TypeOK
    <3>2. Front
      BY <1>1, <2>0, SearchAtFront
    <3>3. job[t] \in Parked
      BY <2>0, <3>1, <3>2 DEF HelperAt
    <3>4. job[t] # "absent"
      BY <2>0, <3>1, <3>2, PhaseNow DEF JobAt
    <3>. QED
      BY <3>3, <3>4 DEF Parked
  <2>. QED
    BY <2>1, <2>2, <2>3 DEF ThreadsApart
<1>. QED
  BY <1>1, Invariance, PTL

(* The replicas are dropped only by plans that put them back.              *)
LEMMA StepReplicaInv ==
  ASSUME "export" \notin Commands
  PROVE  IInv /\ ReplicaInv /\ [Next]_vars => ReplicaInv'
<1> SUFFICES ASSUME IInv, ReplicaInv, [Next]_vars PROVE ReplicaInv'
  OBVIOUS
<1>. USE DEF uciVars, poolVars, mainVars, flagVars, ledger
<1>0. TypeOK /\ 0 \in Threads /\ cmd # "export"
  BY BoundsAssumption DEF IInv, ReplicaInv, Threads
<1>1. CASE UNCHANGED <<cmd, k, replicated>>
  BY <1>1 DEF ReplicaInv
<1>2. CASE ReadGo \/ ReadQuit \/ \E c \in Commands : ReadCommand(c)
  <2>1. replicated' = replicated /\ cmd = "none"
    BY <1>2 DEF ReadGo, ReadQuit, ReadCommand, MaySend, Reading
  <2>2. cmd' \in Commands \cup {"none", "go", "quit"}
    BY <1>2, <2>1 DEF ReadGo, ReadQuit, ReadCommand, Begin
  <2>. QED
    BY <2>1, <2>2 DEF ReplicaInv
<1>3. CASE UciPhase
  <2>1. CASE NextPhase /\ (replicated' = replicated \/ Rewrite)
    <3>1. Active
      BY <1>0, <1>3, PhaseNow
         DEF UciPhase, Await, Join, RunOnEach, Reset, Start, Destroy, Create,
             Rewrite, Rewrites
    <3>2. CASE k < Len(Plan[cmd]) /\ cmd' = cmd /\ k' = k + 1
      <4>1. k' > 1 /\ (k > 1 => k' > 1)
        BY <1>0, <3>1, <3>2, PlanFacts DEF TypeOK, Active
      <4>2. replicated' \/ ~replicated \/ cmd \in {"numa", "evalfile"}
        <5>1. Phase = "network" => cmd \in {"numa", "evalfile"}
          BY <1>0, <3>1, PhaseNow DEF Owns
        <5>. QED
          BY <2>1, <5>1 DEF Rewrite, Replicas
      <4>. QED
        BY <3>2, <4>1, <4>2 DEF ReplicaInv
    <3>3. CASE k = Len(Plan[cmd]) /\ Ends(cmd, Phase)
               /\ cmd' = IF cmd = "quit" THEN "dead" ELSE "none"
      <4>1. replicated'
        <5>1. CASE cmd \in {"startup", "numa", "evalfile"}
          <6>1. Phase = "replicate"
            BY <3>3, <5>1 DEF Ends
          <6>2. Rewrite
            BY <1>3, <6>1
               DEF UciPhase, Await, Join, RunOnEach, Reset, Start, Destroy,
                   Create
          <6>. QED
            BY <6>1, <6>2 DEF Rewrite, Replicas
        <5>2. CASE cmd \notin {"startup", "numa", "evalfile"}
          <6>1. replicated /\ Phase # "network"
            BY <1>0, <3>1, <5>2, PhaseNow DEF ReplicaInv, Owns
          <6>. QED
            BY <2>1, <6>1 DEF Rewrite, Replicas
        <5>. QED
          BY <5>1, <5>2
      <4>. QED
        BY <3>3, <4>1 DEF ReplicaInv
    <3>. QED
      BY <1>0, <2>1, <3>1, <3>2, <3>3, PhaseStep
  <2>. QED
    BY <1>1, <1>3, <2>1
       DEF UciPhase, Await, Join, RunOnEach, Reset, Start, Destroy, Create,
           Rewrite, NextThread
<1>4. CASE MctsCrash
  <2>1. Front /\ replicated' = replicated /\ cmd' = "crashed" /\ k' = k
    BY <1>0, <1>4, SearchAtFront DEF MctsCrash
  <2>2. replicated
    BY <1>0, <2>1, PlanDomain DEF ReplicaInv, Front, Active
  <2>. QED
    BY <2>1, <2>2 DEF ReplicaInv
<1>5. CASE \/ ReadStop \/ ReadPonderhit \/ MainStep \/ CheckTime \/ FailLow
              \/ MctsBudget \/ Spend
           \/ \E t \in Threads : ThreadStep(t) \/ FinishIteration(t)
  BY <1>1, <1>5
     DEF ReadStop, ReadPonderhit, MainStep, BeginSearch, Launch, Timing,
         Verdict, MctsStopped, Hold, Gather, Report, CheckTime, FailLow,
         MctsBudget, Spend, ThreadStep, RunJob, Park, Deepen, LeaveLoop,
         FinishIteration
<1>6. CASE Terminated \/ UNCHANGED vars
  BY <1>1, <1>6 DEF Terminated, vars
<1>. QED
  BY <1>2, <1>3, <1>4, <1>5, <1>6 DEF Next

(* All threads search what was asked for, no job outlives the call that    *)
(* handed it out and whose locals it uses, and, unless export_net is used, *)
(* the network is replicated before a search.                              *)
THEOREM AsAsked ==
  ASSUME "export" \notin Commands
  PROVE  Spec => []SearchesAsAsked
<1>1. ASSUME IInv, ReplicaInv PROVE SearchesAsAsked
  <2>0. TypeOK /\ LimitInv /\ 0 \in Threads /\ \A t \in Threads : JobAt(t)
    BY <1>1, BoundsAssumption DEF IInv, JobInv, Threads
  <2>1. ASSUME NEW t \in Threads, job[t] \in {"setup", "ttclear"}
        PROVE  /\ Active /\ (Phase = job[t]
                  \/ (Phase = "join" /\ Plan[cmd][k-1] = job[t]))
    BY <2>0, <2>1, PhaseNow DEF JobAt, Parked
  <2>2. Phase = "join" /\ Plan[cmd][k-1] = "setup" => cmd = "go"
    <3>. SUFFICES ASSUME Phase = "join", Plan[cmd][k-1] = "setup" PROVE cmd = "go"
      OBVIOUS
    <3>1. Active /\ ~Front /\ cmd # "startup"
      <4>1. Active /\ ~Front
        BY <2>0, PhaseNow
      <4>2. CASE cmd = "startup"
        <5>1. k \in 1 .. 9
          BY <2>0, <4>1, <4>2 DEF TypeOK, Active, Plan
        <5>2. Plan["startup"][k - 1] # "setup" \/ k = 1
          BY <5>1 DEF Plan
        <5>3. Plan["startup"][1] = "create"
          BY DEF Plan
        <5>. QED
          BY <2>0, <4>1, <4>2, <5>2, <5>3, PhaseNow
      <4>. QED
        BY <4>1, <4>2
    <3>2. k - 1 \in DOMAIN Plan[cmd]
      BY <2>0, <3>1, PlanFacts DEF TypeOK, Active, Front
    <3>3. Owns(cmd, Plan[cmd][k-1])
      BY <3>1, <3>2, PlanFacts DEF Active
    <3>. QED
      BY <3>3 DEF Owns
  <2>3. FrameAlive
    <3>1. ASSUME NEW t \in Threads, job[t] = "setup"
          PROVE cmd = "go" /\ Phase \in {"setup", "join"}
      BY <2>0, <2>1, <2>2, <3>1, PhaseNow DEF Owns
    <3>2. ASSUME NEW t \in Threads, job[t] = "ttclear"
          PROVE Phase \in {"ttclear", "join"}
      BY <2>1, <3>2
    <3>. QED
      BY <3>1, <3>2 DEF FrameAlive
  <2>4. SameLimits
    <3>1. ASSUME NEW t \in Threads, job[t] = "search" PROVE limits[t] = limits[0]
      <4>1. at[0] # "off"
        BY <1>1, <3>1, SearchAtFront
      <4>2. t \in Pool
        BY <2>0, <3>1 DEF JobAt, Pool, Threads, TypeOK
      <4>. QED
        BY <2>0, <4>1, <4>2 DEF LimitInv
    <3>2. at[0] = "begin" => \A t \in Pool : limits[t] = limits[0]
      BY <2>0 DEF LimitInv
    <3>. QED
      BY <3>1, <3>2 DEF SameLimits
  <2>5. ReplicatedBeforeSearch
    <3>. SUFFICES ASSUME NEW t \in Threads, job[t] = "search" PROVE replicated
      BY DEF ReplicatedBeforeSearch, Searching
    <3>1. Front
      BY <1>1, SearchAtFront
    <3>. QED
      BY <1>1, <3>1, PlanDomain DEF Front, Active, ReplicaInv
  <2>. QED
    BY <2>3, <2>4, <2>5 DEF SearchesAsAsked
<1>2. Init => ReplicaInv
  BY DEF Init, ReplicaInv
<1>. QED
  BY <1>1, <1>2, StepReplicaInv, Invariance, PTL DEF Spec

(* A stop raised during a search is not withdrawn before the search ends. *)
THEOREM StopIsHeld == Spec => StopHeld
<1>1. ASSUME IInv, [Next]_vars, stop, Searching PROVE stop'
  <2>1. ~Reset
    <3>1. PICK t \in Threads : job[t] = "search"
      BY <1>1 DEF Searching
    <3>2. Front
      BY <1>1, <3>1, SearchAtFront
    <3>. QED
      BY <1>1, <3>2, PhaseNow DEF Reset, IInv
  <2>. QED
    BY <1>1, <2>1
       DEF Next, uciVars, poolVars, mainVars, flagVars, ledger, vars, ReadGo,
           ReadCommand, ReadStop, ReadPonderhit, ReadQuit, UciPhase, Await,
           Join, RunOnEach, Start, Destroy, Create, Rewrite, MainStep,
           BeginSearch, Launch, Timing, Verdict, MctsStopped, Hold, Gather,
           Report, CheckTime, FailLow, MctsBudget, MctsCrash, Spend,
           ThreadStep, RunJob, Park, Deepen, LeaveLoop, FinishIteration,
           Terminated
<1>2. IInv /\ [Next]_vars => [stop /\ Searching => stop']_vars
  BY <1>1
<1>. QED
  BY <1>2, Invariance, PTL DEF Spec, StopHeld
-----------------------------------------------------------------------------
(* What ToldInv says of the main thread's search.                          *)
ToldAt == /\ limits[0] \in Goes
          /\ HoldsBack(limits[0]) /\ stop => told
          /\ limits[0].ponder /\ ~ponder => told
          /\ limits[0].ponder /\ at[0] = "verdict" /\ ~saw => told
          /\ at[0] = "verdict" => limits[0].timed
          /\ at[0] \in {"gather", "report"} => stop

(* A book move is printed while no search runs. *)
LEMMA BookAlone ==
  ASSUME IInv, BookInTurn, ReadGo, goes' # goes
  PROVE  at[0] = "off" /\ goes = answers
<1>1. \E g \in Goes : g.book
  BY DEF ReadGo, ledger
<1>2. Disciplined
  BY <1>1 DEF BookInTurn
<1>3. goes = answers
  BY <1>2 DEF ReadGo, MaySend
<1>. QED
  BY <1>3 DEF IInv, AnswerLedger, TypeOK

(* The UCI thread raises and lowers flags; where it sets up a search none  *)
(* is running, and where one starts its flags are those it was given.      *)
LEMMA UciToldInv ==
  ASSUME IInv, ToldInv, UciPhase
  PROVE  ToldInv'
<1>. USE DEF uciVars, poolVars, mainVars, flagVars, ledger
<1>0. /\ TypeOK /\ SizeInv /\ LimitInv /\ 0 \in Threads /\ Active
      /\ \A t \in Threads : JobAt(t)
  BY BoundsAssumption, PhaseNow
     DEF IInv, JobInv, Threads, UciPhase, Await, Join, RunOnEach, Reset, Start,
         Destroy, Create, Rewrite, Rewrites
<1>1. /\ UNCHANGED <<asked, limits>>
      /\ cmd' # cmd => cmd' # "go"
  BY <1>0, PhaseStep, PlanDomain
     DEF UciPhase, Await, Join, RunOnEach, Reset, Start, Destroy, Create,
         Rewrite, NextThread, Active
<1>2. cmd' = "go" => asked' \in Goes
  BY <1>1 DEF ToldInv
<1>3. CASE Start
  <2>1. Phase = "start" /\ NextPhase /\ at[0] = "off"
    BY <1>0, <1>3 DEF Start, JobAt
  <2>2. ~Front /\ SettingUp /\ ~SettingUp'
    BY <1>0, <2>1, PhaseNow, PhaseStep DEF Owns, SettingUp, Follows
  <2>3. \A t \in Threads : job[t] \in Parked
    BY <1>0, <2>1, <2>2, Quiet DEF Front, HandsOut
  <2>4. limits[0] = asked
    <3>1. 0 \in Pool
      BY <1>0, <2>1, <2>2 DEF SizeInv, Pool, TypeOK, SettingUp
    <3>. QED
      BY <1>0, <2>1, <2>2, <2>3, <3>1 DEF LimitInv, Parked
  <2>5. at'[0] = "begin" /\ ~stop' /\ ponder' = asked.ponder /\ asked \in Goes
    BY <1>0, <1>3, <2>2 DEF Start, TypeOK, ToldInv, SettingUp
  <2>6. ToldAt'
    BY <1>1, <2>4, <2>5 DEF ToldAt
  <2>. QED
    BY <1>2, <2>2, <2>6 DEF ToldInv, ToldAt
<1>4. CASE ~Start
  <2>1. UNCHANGED <<at, told, saw>>
    BY <1>4
       DEF UciPhase, Await, Join, RunOnEach, Reset, Destroy, Create, Rewrite
  <2>2. CASE Reset
    <3>1. Phase = "reset" /\ ~stop' /\ ponder' = asked.ponder
      BY <2>2 DEF Reset
    <3>2. ~Front
      BY <1>0, <3>1, PhaseNow
    <3>3. at'[0] = "off"
      BY <1>0, <2>1, <3>2, SearchAtFront
    <3>. QED
      BY <1>1, <1>2, <3>1, <3>3 DEF ToldInv
  <2>3. CASE ~Reset
    <3>1. UNCHANGED <<stop, ponder>>
      BY <1>4, <2>3
         DEF UciPhase, Await, Join, RunOnEach, Destroy, Create, Rewrite
    <3>2. Phase # "reset" /\ Phase # "start"
      BY <1>4, <2>3
         DEF UciPhase, Await, Join, RunOnEach, Destroy, Create, Rewrite,
             Rewrites
    <3>3. SettingUp' => SettingUp
      <4>1. CASE NextPhase
        BY <1>0, <1>1, <3>2, <4>1, PhaseStep, PhaseNow
           DEF SettingUp, Follows, HandsOut, Owns
      <4>2. CASE UNCHANGED <<cmd, k>>
        BY <4>2 DEF SettingUp, Phase, Reading, Over
      <4>. QED
        BY <4>1, <4>2
           DEF UciPhase, Await, Join, RunOnEach, Reset, Start, Destroy, Create,
               Rewrite, NextThread
    <3>. QED
      BY <1>1, <1>2, <2>1, <3>1, <3>3 DEF ToldInv
  <2>. QED
    BY <2>2, <2>3
<1>. QED
  BY <1>3, <1>4

(* While the answer is held back the search does not raise stop itself. *)
LEMMA SearchToldInv ==
  ASSUME IInv, ToldInv, HeldGoes,
         \/ MainStep \/ CheckTime \/ FailLow \/ MctsBudget \/ Spend
         \/ \E t \in Threads : ThreadStep(t) \/ FinishIteration(t)
  PROVE  ToldInv'
<1>. USE DEF uciVars, poolVars, mainVars, flagVars, ledger
<1>0. TypeOK /\ LimitInv /\ 0 \in Threads /\ \A t \in Threads : JobAt(t)
  BY BoundsAssumption DEF IInv, JobInv, Threads
<1>a. SamePlace /\ UNCHANGED asked
  BY
     DEF SamePlace, MainStep, BeginSearch, Launch, Timing, Verdict,
         MctsStopped, Hold, Gather, Report, CheckTime, FailLow, MctsBudget,
         Spend, ThreadStep, RunJob, Park, Deepen, LeaveLoop, FinishIteration
<1>b. SettingUp' <=> SettingUp
  BY <1>a, SamePlacePhase DEF SamePlace, SettingUp
<1>c. UNCHANGED <<ponder, told>>
  BY
     DEF MainStep, BeginSearch, Launch, Timing, Verdict, MctsStopped, Hold,
         Gather, Report, CheckTime, FailLow, MctsBudget, Spend, ThreadStep,
         RunJob, Park, Deepen, LeaveLoop, FinishIteration
<1>d. ASSUME NEW t \in Threads, at[t] # "off"
      PROVE  ToldAt /\ limits[t] = limits[0] /\ ~SettingUp /\ at[0] # "off"
  <2>1. Front /\ at[0] # "off" /\ job[t] = "search"
    BY <1>0, <1>d, SearchAtFront DEF JobAt
  <2>2. t \in Pool
    BY <1>0, <2>1 DEF JobAt, Pool, Threads, TypeOK
  <2>3. ~SettingUp
    BY <1>0, <2>1, PhaseNow DEF SettingUp
  <2>. QED
    BY <1>0, <2>1, <2>2, <2>3 DEF LimitInv, ToldInv, ToldAt
<1>e. ASSUME ToldAt, ~SettingUp, ToldAt' \/ at'[0] = "off" PROVE ToldInv'
  BY <1>a, <1>b, <1>e DEF ToldInv, ToldAt, SamePlace
<1>1. CASE \E t \in Threads : RunJob(t) \/ Park(t)
  <2>1. UNCHANGED <<at, stop, saw>>
        /\ (limits' = limits \/ \E t \in Threads : job[t] \in HandsOut)
    BY <1>1 DEF RunJob, Park, HandsOut
  <2>2. CASE limits' = limits
    BY <1>a, <1>b, <1>c, <2>1, <2>2 DEF ToldInv, SamePlace
  <2>3. CASE \E t \in Threads : job[t] \in HandsOut
    <3>1. ~Front
      BY <1>0, <2>3 DEF JobAt, HandsOut, Parked
    <3>2. at'[0] = "off"
      BY <1>0, <2>1, <3>1, SearchAtFront
    <3>. QED
      BY <1>a, <1>b, <1>c, <2>1, <3>2 DEF ToldInv, SamePlace
  <2>. QED
    BY <2>1, <2>2, <2>3
<1>2. ASSUME NEW t \in Threads, Deepen(t) \/ LeaveLoop(t) PROVE ToldInv'
  <2>1. at[t] # "off" /\ UNCHANGED <<stop, saw, limits>>
        /\ (\E p \in {"tree", "hold", "off"} : at' = [at EXCEPT ![t] = p])
    BY <1>2 DEF Deepen, LeaveLoop, Goto, Leave
  <2>2. at'[0] \in {at[0], "tree", "hold", "off"}
    BY <1>0, <2>1 DEF TypeOK
  <2>3. ToldAt' \/ at'[0] = "off"
    BY <1>c, <1>d, <2>1, <2>2 DEF ToldAt
  <2>. QED
    BY <1>d, <1>e, <2>1, <2>3
<1>3. ASSUME NEW t \in Threads, FinishIteration(t) PROVE ToldInv'
  <2>1. /\ at[t] # "off" /\ UNCHANGED <<saw, limits>>
        /\ \E p \in {"timing", "loop"} : at' = [at EXCEPT ![t] = p]
        /\ (stop' = stop \/ (limits[t].mate /\ stop'))
    BY <1>3 DEF FinishIteration, Goto
  <2>2. at'[0] \in {at[0], "timing", "loop"}
    BY <1>0, <2>1 DEF TypeOK
  <2>3. HoldsBack(limits[0]) /\ stop' => stop
    BY <1>d, <2>1 DEF HeldGoes, ToldAt
  <2>4. stop => stop'
    BY <2>1
  <2>5. ToldAt'
    BY <1>c, <1>d, <2>1, <2>2, <2>3, <2>4 DEF ToldAt
  <2>. QED
    BY <1>d, <1>e, <2>1, <2>5
<1>4. CASE CheckTime
  <2>1. at[0] # "off" /\ UNCHANGED <<saw, limits, at>> /\ stop' /\ OutOfTime
    BY <1>4 DEF CheckTime
  <2>2. ToldAt
    BY <1>0, <1>d, <2>1
  <2>3. HoldsBack(limits[0]) => told
    <3>1. ~ponder /\ (limits[0].timed \/ limits[0].capped)
      BY <2>1 DEF OutOfTime
    <3>2. limits[0].ponder => told
      BY <2>2, <3>1 DEF ToldAt
    <3>3. ~limits[0].infinite \/ ~HoldsBack(limits[0])
      BY <2>2, <3>1 DEF HeldGoes, ToldAt
    <3>. QED
      BY <3>2, <3>3 DEF HoldsBack
  <2>4. ToldAt'
    BY <1>c, <2>1, <2>2, <2>3 DEF ToldAt
  <2>. QED
    BY <1>0, <1>d, <1>e, <2>1, <2>4
<1>5. CASE FailLow \/ Spend
  <2>1. UNCHANGED <<stop, saw, limits, at>>
    BY <1>5 DEF FailLow, Spend
  <2>. QED
    BY <1>a, <1>b, <1>c, <2>1 DEF ToldInv, SamePlace
<1>6. CASE BeginSearch \/ Launch \/ MctsStopped \/ MctsBudget \/ Report
  <2>1. /\ at[0] # "off" /\ UNCHANGED <<stop, saw, limits>>
        /\ \/ \E p \in {"off", "mcts", "launch", "loop", "hold"} :
                at' = [at EXCEPT ![0] = p]
           \/ \E u \in Threads \ {0} : at' = [at EXCEPT ![u] = "loop"]
    <3>1. m < size => m \in Threads \ {0}
      BY <1>0, BoundsAssumption DEF TypeOK, Threads
    <3>. QED
      BY <1>6, <3>1
         DEF BeginSearch, NothingToSearch, Leave, Goto, Launch, MctsStopped,
             MctsBudget, Report
  <2>2. at'[0] \in {at[0], "off", "mcts", "launch", "loop", "hold"}
    BY <1>0, <2>1 DEF TypeOK
  <2>3. ToldAt' \/ at'[0] = "off"
    BY <1>0, <1>c, <1>d, <2>1, <2>2 DEF ToldAt
  <2>. QED
    BY <1>0, <1>d, <1>e, <2>1, <2>3
<1>7. CASE Timing
  <2>1. /\ at[0] # "off" /\ UNCHANGED <<stop, limits>>
        /\ \/ at' = [at EXCEPT ![0] = "verdict"] /\ saw' = ponder
              /\ limits[0].timed
           \/ at' = [at EXCEPT ![0] = "loop"] /\ saw' = saw
    BY <1>7 DEF Timing, Goto
  <2>2. \/ at'[0] = "verdict" /\ saw' = ponder /\ limits[0].timed
        \/ at'[0] = "loop" /\ saw' = saw
    BY <1>0, <2>1 DEF TypeOK
  <2>3. ToldAt'
    BY <1>0, <1>c, <1>d, <2>1, <2>2 DEF ToldAt
  <2>. QED
    BY <1>0, <1>d, <1>e, <2>1, <2>3
<1>8. CASE Verdict
  <2>1. /\ at[0] = "verdict" /\ UNCHANGED <<saw, limits>> /\ at'[0] = "loop"
        /\ (stop' = stop \/ (~saw /\ stop'))
    BY <1>0, <1>8 DEF Verdict, Goto, TypeOK
  <2>2. ToldAt
    BY <1>0, <1>d, <2>1
  <2>3. ~saw /\ HoldsBack(limits[0]) => told
    BY <2>1, <2>2 DEF ToldAt, HeldGoes, HoldsBack
  <2>4. ToldAt'
    BY <1>c, <2>1, <2>2, <2>3 DEF ToldAt
  <2>. QED
    BY <1>0, <1>d, <1>e, <2>1, <2>4
<1>9. CASE Hold
  <2>1. at[0] = "hold" /\ UNCHANGED <<saw, limits>> /\ at'[0] = "gather"
        /\ stop' /\ Released
    BY <1>0, <1>9 DEF Hold, Goto, TypeOK
  <2>2. ToldAt
    BY <1>0, <1>d, <2>1
  <2>3. HoldsBack(limits[0]) => told
    BY <2>1, <2>2 DEF ToldAt, HoldsBack, Released
  <2>4. ToldAt'
    BY <1>c, <2>1, <2>2, <2>3 DEF ToldAt
  <2>. QED
    BY <1>0, <1>d, <1>e, <2>1, <2>4
<1>10. CASE Gather
  <2>1. at[0] = "gather" /\ UNCHANGED <<stop, saw, limits>>
        /\ at'[0] \in {"gather", "report"}
    BY <1>0, <1>10 DEF Gather, Goto, TypeOK
  <2>2. ToldAt'
    BY <1>0, <1>c, <1>d, <2>1 DEF ToldAt
  <2>. QED
    BY <1>0, <1>d, <1>e, <2>1, <2>2
<1>. QED
  BY <1>1, <1>2, <1>3, <1>4, <1>5, <1>6, <1>7, <1>8, <1>9, <1>10
     DEF MainStep, ThreadStep

(* Every step preserves ToldInv. *)
LEMMA StepToldInv ==
  ASSUME HeldGoes, BookInTurn
  PROVE  IInv /\ ToldInv /\ [Next]_vars => ToldInv'
<1> SUFFICES ASSUME IInv, ToldInv, [Next]_vars PROVE ToldInv'
  OBVIOUS
<1>. USE DEF uciVars, poolVars, mainVars, flagVars, ledger
<1>0. TypeOK /\ 0 \in Threads
  BY BoundsAssumption DEF IInv, Threads
<1>1. CASE ReadGo
  <2>1. /\ cmd = "none" /\ UNCHANGED <<at, stop, ponder, saw, limits>>
           /\ asked' \in Goes
        /\ \/ UNCHANGED <<told, goes>>
           \/ goes' = goes + 1
        /\ UNCHANGED <<cmd, k, i>> \/ Begin("go")
    BY <1>1 DEF ReadGo, MaySend, Reading
  <2>2. ~SettingUp'
    BY <2>1, BeginPhase, PlanDomain DEF SettingUp
  <2>3. CASE UNCHANGED <<told, goes>>
    BY <2>1, <2>2, <2>3 DEF ToldInv
  <2>4. CASE goes' = goes + 1
    <3>1. at'[0] = "off"
      BY <1>0, <1>1, <2>1, <2>4, BookAlone DEF TypeOK
    <3>. QED
      BY <2>1, <2>2, <3>1 DEF ToldInv
  <2>. QED
    BY <2>1, <2>3, <2>4
<1>2. CASE ReadStop \/ ReadPonderhit \/ ReadQuit
  <2>1. /\ cmd = "none" /\ UNCHANGED <<at, saw, limits>> /\ told' /\ cmd' # "go"
        /\ (stop => stop')
    BY <1>2 DEF ReadStop, ReadPonderhit, ReadQuit, Reading, Begin
  <2>. QED
    BY <2>1 DEF ToldInv, SettingUp
<1>3. CASE \E c \in Commands : ReadCommand(c)
  <2>1. UNCHANGED <<at, saw, limits, stop, ponder, told>> /\ cmd' # "go"
    BY <1>3, CommandsAssumption DEF ReadCommand, Begin
  <2>. QED
    BY <2>1 DEF ToldInv, SettingUp
<1>4. CASE MctsCrash
  BY <1>4 DEF MctsCrash, ToldInv, SettingUp
<1>5. CASE UciPhase
  BY <1>5, UciToldInv
<1>6. CASE \/ MainStep \/ CheckTime \/ FailLow \/ MctsBudget \/ Spend
           \/ \E t \in Threads : ThreadStep(t) \/ FinishIteration(t)
  BY <1>6, SearchToldInv
<1>7. CASE Terminated \/ UNCHANGED vars
  <2>1. UNCHANGED <<cmd, k, i, at, saw, limits, stop, ponder, told, asked>>
    BY <1>7 DEF Terminated, vars
  <2>. QED
    BY <2>1 DEF ToldInv, SettingUp, Phase, Reading, Over
<1>. QED
  BY <1>1, <1>2, <1>3, <1>4, <1>5, <1>6, <1>7 DEF Next
-----------------------------------------------------------------------------
(* What UciProtocol is told of as `holding`. *)
Held == Owing /\ (limits[0].infinite \/ limits[0].ponder)

(* The ledger tells whether a search is being answered. *)
LEMMA HeldSearch ==
  ASSUME IInv, ToldInv
  PROVE  /\ goes \in Nat /\ answers \in Nat
         /\ Owing <=> at[0] # "off"
         /\ Owing => goes = answers + 1 /\ ToldAt
         /\ Held => HoldsBack(limits[0])
         /\ Held \in BOOLEAN /\ Held' \in BOOLEAN
BY DEF IInv, TypeOK, AnswerLedger, Owing, Held, HoldsBack, ToldInv, ToldAt

(* A step that is neither the reading of a go, nor its start, nor its      *)
(* answer, is stop, ponderhit or quit, or nothing to the protocol.         *)
LEMMA QuietStep ==
  ASSUME IInv, UNCHANGED <<goes, answers>>, told' = told \/ told' = TRUE,
         at[0] # "off" => limits'[0] = limits[0]
  PROVE  [Protocol!Next]_(Protocol!vars)
<1>1. Held' = Held
  <2>1. CASE at[0] = "off"
    BY <2>1 DEF IInv, AnswerLedger, TypeOK, Held, Owing
  <2>2. CASE at[0] # "off"
    BY <2>2 DEF Held, Owing
  <2>. QED
    BY <2>1, <2>2
<1>. QED
  BY <1>1 DEF Protocol!Next, Protocol!Tell, Protocol!vars, Held

(* Every step of the program is one of the protocol, or none. *)
LEMMA StepSimulation ==
  ASSUME HeldGoes, BookInTurn
  PROVE  IInv /\ ToldInv /\ [Next]_vars => [Protocol!Next]_(Protocol!vars)
<1> SUFFICES ASSUME IInv, ToldInv, [Next]_vars
             PROVE  [Protocol!Next]_(Protocol!vars)
  OBVIOUS
<1>. USE DEF uciVars, poolVars, mainVars, flagVars, ledger
<1>0. TypeOK /\ 0 \in Threads /\ \A t \in Threads : JobAt(t)
  BY BoundsAssumption DEF IInv, JobInv, Threads
<1>1. CASE ReadGo
  <2>1. CASE goes' = goes
    <3>1. UNCHANGED <<goes, answers, told, limits>>
      BY <1>0, <1>1, <2>1 DEF ReadGo, TypeOK
    <3>. QED
      BY <3>1, QuietStep
  <2>2. CASE goes' # goes
    <3>1. goes = answers
      BY <1>1, <2>2, BookAlone
    <3>2. goes' = goes + 1 /\ answers' = answers + 1 /\ told' = FALSE
      BY <1>1, <2>2 DEF ReadGo
    <3>3. ~Owing /\ ~Owing'
      BY <3>1, <3>2 DEF Owing
    <3>4. Protocol!AtOnce
      BY <3>1, <3>2, <3>3 DEF Protocol!AtOnce
    <3>. QED
      BY <3>4 DEF Protocol!Next
  <2>. QED
    BY <2>1, <2>2
<1>2. CASE ReadStop \/ ReadPonderhit \/ ReadQuit
  <2>1. UNCHANGED <<goes, answers, limits>> /\ told' = TRUE
    BY <1>2 DEF ReadStop, ReadPonderhit, ReadQuit
  <2>. QED
    BY <2>1, QuietStep
<1>3. CASE (\E c \in Commands : ReadCommand(c)) \/ MctsCrash
  <2>1. UNCHANGED <<goes, answers, told, limits>>
    BY <1>3 DEF ReadCommand, MctsCrash
  <2>. QED
    BY <2>1, QuietStep
<1>4. CASE Start
  <2>1. at[0] = "off" /\ goes' = goes + 1 /\ told' = FALSE /\ answers' = answers
    BY <1>0, <1>4 DEF Start, JobAt
  <2>2. goes = answers
    BY <1>0, <2>1 DEF IInv, AnswerLedger, TypeOK
  <2>3. Held' \in BOOLEAN
    BY HeldSearch
  <2>4. Protocol!Accept
    BY <2>1, <2>2, <2>3 DEF Protocol!Accept, Held
  <2>. QED
    BY <2>4 DEF Protocol!Next
<1>5. CASE UciPhase /\ ~Start
  <2>1. UNCHANGED <<goes, answers, told, limits>>
    BY <1>5
       DEF UciPhase, Await, Join, RunOnEach, Reset, Destroy, Create, Rewrite
  <2>. QED
    BY <2>1, QuietStep
<1>6. CASE (BeginSearch /\ answers' # answers) \/ Report
  <2>1. /\ at[0] \in {"begin", "report"} /\ answers' = answers + 1
           /\ UNCHANGED <<goes, told>>
        /\ at[0] = "begin" => ~limits[0].legal
    BY <1>6 DEF BeginSearch, Report
  <2>2. goes = answers + 1 /\ ToldAt
    BY <2>1, HeldSearch
  <2>3. Held => told
    BY <2>1, <2>2, HeldSearch DEF ToldAt, HeldGoes
  <2>4. ~Owing'
    BY <2>1, <2>2 DEF Owing
  <2>5. Protocol!Answer
    BY <2>1, <2>2, <2>3, <2>4 DEF Protocol!Answer, Held
  <2>. QED
    BY <2>5 DEF Protocol!Next
<1>7. CASE BeginSearch /\ answers' = answers
  <2>1. UNCHANGED <<goes, answers, told, limits>>
    BY <1>7 DEF BeginSearch
  <2>. QED
    BY <2>1, QuietStep
<1>8. CASE Launch \/ Timing \/ Verdict \/ MctsStopped \/ Hold \/ Gather
  <2>1. UNCHANGED <<goes, answers, told, limits>>
    BY <1>8 DEF Launch, Timing, Verdict, MctsStopped, Hold, Gather
  <2>. QED
    BY <2>1, QuietStep
<1>9. CASE CheckTime \/ FailLow \/ MctsBudget \/ Spend
  <2>1. UNCHANGED <<goes, answers, told, limits>>
    BY <1>9 DEF CheckTime, FailLow, MctsBudget, Spend
  <2>. QED
    BY <2>1, QuietStep
<1>10. ASSUME NEW t \in Threads, Park(t) \/ Deepen(t) \/ LeaveLoop(t)
              \/ FinishIteration(t)
       PROVE  [Protocol!Next]_(Protocol!vars)
  <2>1. UNCHANGED <<goes, answers, told, limits>>
    BY <1>10 DEF Park, Deepen, LeaveLoop, FinishIteration
  <2>. QED
    BY <2>1, QuietStep
<1>11. ASSUME NEW t \in Threads, RunJob(t) PROVE [Protocol!Next]_(Protocol!vars)
  <2>1. UNCHANGED <<goes, answers, told>> /\ job[t] \in HandsOut
    BY <1>11 DEF RunJob, HandsOut
  <2>2. ~Front
    BY <1>0, <2>1 DEF JobAt, HandsOut, Parked
  <2>3. at[0] = "off"
    BY <1>0, <2>2, SearchAtFront
  <2>. QED
    BY <2>1, <2>3, QuietStep
<1>12. CASE Terminated \/ UNCHANGED vars
  <2>1. UNCHANGED <<goes, answers, told, limits>>
    BY <1>12 DEF Terminated, vars
  <2>. QED
    BY <2>1, QuietStep
<1>. QED
  BY <1>1, <1>2, <1>3, <1>4, <1>5, <1>6, <1>7, <1>8, <1>9, <1>10, <1>11, <1>12
     DEF Next, MainStep, ThreadStep

(* From outside, a session is one of UciProtocol. *)
THEOREM Refinement ==
  ASSUME HeldGoes, BookInTurn
  PROVE  Spec => ImplementsProtocol
<1>1. Init => ToldInv /\ Protocol!Init
  <2>. USE BoundsAssumption DEF Init, Threads
  <2>1. Init => ToldInv
    BY DEF ToldInv, SettingUp
  <2>2. Init => Protocol!Init
    BY DEF Protocol!Init, Owing
  <2>. QED
    BY <2>1, <2>2
<1>. QED
  BY <1>1, StepToldInv, StepSimulation, Invariance, PTL
     DEF Spec, ImplementsProtocol, Protocol!Spec

(* HoldsBestmove: an answer that is held back until the GUI's word comes   *)
(* after it.                                                               *)
THEOREM HeldBack ==
  ASSUME HeldGoes, BookInTurn, \A g \in Goes : HoldsBack(g) => ~g.book
  PROVE  Spec => HoldsBestmove
<1>1. Init => ToldInv
  BY BoundsAssumption DEF Init, Threads, ToldInv, SettingUp
<1>2. IInv /\ ToldInv /\ [Next]_vars =>
        [answers' # answers /\ (AnsweredGo.infinite \/ AnsweredGo.ponder)
        => told']_vars
  <2> SUFFICES ASSUME IInv, ToldInv, [Next]_vars, answers' # answers,
                      AnsweredGo.infinite \/ AnsweredGo.ponder
               PROVE  told'
    BY DEF IInv
  <2>1. Protocol!Answer \/ Protocol!AtOnce
    <3>1. [Protocol!Next]_(Protocol!vars)
      BY StepSimulation
    <3>. QED
      BY <3>1 DEF Protocol!Next, Protocol!vars, Protocol!Accept, Protocol!Tell
  <2>2. CASE Protocol!Answer
    <3>1. UNCHANGED <<goes, told>> /\ (Held => told) /\ goes = answers + 1
      BY <2>2 DEF Protocol!Answer, Held
    <3>2. Held
      BY <3>1, HeldSearch DEF AnsweredGo, Held, Owing
    <3>. QED
      BY <3>1, <3>2
  <2>3. CASE goes' # goes
    <3>1. ReadGo
      <4>. USE DEF uciVars, poolVars, mainVars, flagVars, ledger
      <4>1. ~UciPhase
        BY <2>3
           DEF UciPhase, Await, Join, RunOnEach, Reset, Start, Destroy, Create,
               Rewrite
      <4>2. ~MainStep
        BY <2>3
           DEF MainStep, BeginSearch, Launch, Timing, Verdict, MctsStopped,
               Hold, Gather, Report
      <4>3. \A t \in Threads : ~ThreadStep(t) /\ ~FinishIteration(t)
        BY <2>3
           DEF ThreadStep, RunJob, Park, Deepen, LeaveLoop, FinishIteration
      <4>4. /\ ~(CheckTime \/ FailLow \/ MctsBudget \/ MctsCrash \/ Spend)
            /\ ~(ReadStop \/ ReadPonderhit \/ ReadQuit \/ Terminated
               \/ UNCHANGED vars)
            /\ \A c \in Commands : ~ReadCommand(c)
        BY <2>3
           DEF CheckTime, FailLow, MctsBudget, MctsCrash, Spend, ReadStop,
               ReadPonderhit, ReadQuit, ReadCommand, Terminated, vars
      <4>. QED
        BY <4>1, <4>2, <4>3, <4>4 DEF Next
    <3>2. asked' \in Goes /\ asked'.book
      BY <2>3, <3>1 DEF ReadGo, ledger
    <3>. QED
      BY <2>3, <3>2 DEF AnsweredGo, HoldsBack
  <2>4. Protocol!AtOnce => goes' # goes
    BY HeldSearch DEF Protocol!AtOnce
  <2>. QED
    BY <2>1, <2>2, <2>3, <2>4
<1>. QED
  BY <1>1, <1>2, StepToldInv, Invariance, PTL DEF Spec, HoldsBestmove
=============================================================================
