---------------------------- MODULE SearchControl ----------------------------
(***************************************************************************)
(* How a `go` becomes a `bestmove`: the UCI loop (uci.cpp), Engine         *)
(* (engine.cpp), ThreadPool (thread.cpp) and the control part of a search, *)
(* SearchManager and Worker (search.cpp).                                  *)
(*                                                                         *)
(* Processes: the UCI thread, which reads one command at a time and works  *)
(* through its plan; the pool's threads 0..size-1, of which 0 is the main  *)
(* one.  A pool thread is a slot that takes one job at a time (JobSlot):   *)
(* "idle" when it is parked, else the job it has, else "done" between the  *)
(* end of the job and its return to idle_loop.                             *)
(*                                                                         *)
(* Time, nodes and mates are events: a limit is spent at some moment, an   *)
(* iteration may prove a mate.  The tree search itself is one phase.       *)
(***************************************************************************)
EXTENDS Naturals, Sequences

CONSTANTS MaxThreads,   \* bound: largest value of the Threads option
          MaxPly,       \* MAX_PLY: iterations stop below it
          MaxGoes,      \* bound: go commands read
          Goes,         \* the go commands a GUI may send, see GoCommand
          Commands,     \* the other commands it may send, names of plans
          Disciplined   \* the GUI sends only stop, ponderhit and quit while
                        \* it waits for a bestmove

ASSUME BoundsAssumption == /\ MaxThreads \in Nat \ {0} /\ MaxPly \in Nat \ {0}
                           /\ MaxGoes \in Nat /\ Disciplined \in BOOLEAN

(* LimitsType, and what the command finds when it is executed: `timed` is  *)
(* use_time_management(), `capped` stands for movetime and nodes, `legal`  *)
(* says that there is a root move, `book` that a polybook has a move,      *)
(* `mcts` that the MCTS strategy is selected.                              *)
GoCommand == [infinite : BOOLEAN, ponder : BOOLEAN, timed : BOOLEAN,
              capped : BOOLEAN, mate : BOOLEAN, depth : Nat,
              legal : BOOLEAN, book : BOOLEAN, mcts : BOOLEAN]

ASSUME GoesAssumption == Goes \subseteq GoCommand

NoGo == [infinite |-> FALSE, ponder |-> FALSE, timed |-> FALSE,
         capped |-> FALSE, mate |-> FALSE, depth |-> 0,
         legal |-> FALSE, book |-> FALSE, mcts |-> FALSE]

VARIABLES cmd,       \* UCI thread: the plan being executed, or none
          k,         \* ... the phase of the plan
          i,         \* ... the thread its loop has reached
          want,      \* options["Threads"]
          asked,     \* the limits of the last go read
          size,      \* threads.size()
          job,       \* what each pool thread is doing
          limits,    \* each Worker's limits
          at,        \* where each searching thread is
          depth,     \* each Worker's rootDepth
          m,         \* main thread: the helper its loop has reached
          saw,       \* main thread: the value of `ponder` it has just read
          stop,      \* ThreadPool::stop
          ponder,    \* SearchManager::ponder
          stopOnPonderhit,
          spent,     \* a time or node limit of this search is exhausted
          replicated,\* every thread's NUMA node has its network replica
          told,      \* the GUI has sent stop, ponderhit or quit since the go
          goes, answers  \* go commands accepted, bestmoves printed

uciVars  == <<cmd, k, i, want, asked>>
poolVars == <<size, job, limits>>
mainVars == <<m, saw>>
flagVars == <<stop, ponder, stopOnPonderhit, spent>>
ledger   == <<told, goes, answers>>
vars == <<cmd, k, i, want, asked, size, job, limits, at, depth, m, saw, stop,
          ponder, stopOnPonderhit, spent, replicated, told, goes, answers>>

Threads == 0 .. MaxThreads - 1
Pool    == 0 .. size - 1
Helpers == Pool \ {0}

(* The plans: for each command, the phases the UCI thread goes through, in *)
(* the order of the calls; a phase named in Loops visits every thread.     *)
(* "await" is main_thread()->wait_for_search_finished(), "join" the same   *)
(* for every thread, "helpers" for every thread but the main one.          *)
Loops == {"setup", "join", "helpers", "clear", "ttclear", "destroy"}

Plan ==
  [startup  |-> <<"create", "clear", "join", "await", "await", "ttresize",
                  "ttclear", "join", "replicate">>,
   go       |-> <<"await", "reset", "setup", "join", "start">>,
   newgame  |-> <<"await", "ttclear", "join", "clear", "join", "newgame">>,
   threads  |-> <<"await", "options", "helpers", "await", "destroy", "create",
                  "clear", "join", "await", "await", "ttresize", "ttclear",
                  "join", "replicate">>,
   numa     |-> <<"await", "options", "network", "helpers", "await", "destroy",
                  "create", "clear", "join", "await", "await", "ttresize",
                  "ttclear", "join", "replicate", "replicate">>,
   hash     |-> <<"await", "options", "await", "ttresize", "ttclear", "join">>,
   evalfile |-> <<"await", "options", "network", "clear", "join", "replicate">>,
   option   |-> <<"await", "options">>,
   export   |-> <<"network">>,
   quit     |-> <<"await", "await", "destroy">>]

ASSUME CommandsAssumption == Commands \subseteq DOMAIN Plan \ {"startup", "go", "quit"}

Reading == cmd = "none"
Over    == cmd \in {"dead", "crashed"}
Phase   == IF Reading \/ Over THEN "read" ELSE Plan[cmd][k]

Init ==
  /\ cmd = "startup" /\ k = 1 /\ i = 0 /\ want = 1 /\ asked = NoGo
  /\ size = 0 /\ job = [t \in Threads |-> "absent"]
  /\ limits = [t \in Threads |-> NoGo]
  /\ at = [t \in Threads |-> "off"] /\ depth = [t \in Threads |-> 0]
  /\ m = 1 /\ saw = FALSE
  /\ stop = FALSE /\ ponder = FALSE /\ stopOnPonderhit = FALSE
  /\ spent = FALSE /\ replicated = FALSE
  /\ told = FALSE /\ goes = 0 /\ answers = 0
-----------------------------------------------------------------------------
(* The UCI thread: reading a command (UCIEngine::loop, Engine::go).        *)

(* A disciplined GUI has had the answer to its last go. *)
MaySend == Reading /\ (Disciplined => goes = answers)

Begin(c) == cmd' = c /\ k' = 1 /\ i' = 0

(* go: a book move is printed at once, else start_thinking. *)
ReadGo ==
  /\ MaySend /\ goes < MaxGoes
  /\ \E g \in Goes :
       /\ asked' = g
       /\ \/ /\ g.book
             /\ goes' = goes + 1 /\ answers' = answers + 1 /\ told' = FALSE
             /\ UNCHANGED <<cmd, k, i>>
          \/ /\ ~g.book
             /\ Begin("go")
             /\ UNCHANGED ledger
  /\ UNCHANGED <<want, at, depth, replicated, poolVars, mainVars, flagVars>>

ReadCommand(c) ==
  /\ MaySend /\ Begin(c)
  /\ want' \in (IF c = "threads" THEN 1 .. MaxThreads ELSE {want})
  /\ UNCHANGED <<asked, at, depth, replicated, poolVars, mainVars, flagVars, ledger>>

ReadStop ==
  /\ Reading
  /\ stop' = TRUE /\ told' = TRUE
  /\ UNCHANGED <<uciVars, poolVars, at, depth, mainVars, ponder,
                 stopOnPonderhit, spent, replicated, goes, answers>>

ReadPonderhit ==
  /\ Reading
  /\ ponder' = FALSE /\ told' = TRUE
  /\ UNCHANGED <<uciVars, poolVars, at, depth, mainVars, stop,
                 stopOnPonderhit, spent, replicated, goes, answers>>

(* quit, or the end of the input: stop, leave the loop, ~Engine and        *)
(* ~ThreadPool.                                                            *)
ReadQuit ==
  /\ Reading
  /\ stop' = TRUE /\ told' = TRUE /\ Begin("quit")
  /\ UNCHANGED <<want, asked, poolVars, at, depth, mainVars, ponder,
                 stopOnPonderhit, spent, replicated, goes, answers>>
-----------------------------------------------------------------------------
(* The UCI thread: the phases of a plan.                                   *)

NextPhase == IF k < Len(Plan[cmd])
             THEN cmd' = cmd /\ k' = k + 1 /\ i' = 0
             ELSE /\ cmd' = IF cmd = "quit" THEN "dead" ELSE "none"
                  /\ k' = 1 /\ i' = 0

(* The loop of a phase has dealt with thread i. *)
NextThread == IF i + 1 < size THEN i' = i + 1 /\ UNCHANGED <<cmd, k>>
                              ELSE NextPhase

(* Thread::wait_for_search_finished returns.  Mutant: it does not wait. *)
FreeAlways(t) == t \in Threads
Free(t) == job[t] = "idle"

(* wait_for_search_finished on the main thread. *)
Await ==
  /\ Phase = "await" /\ Free(0)
  /\ NextPhase
  /\ UNCHANGED <<want, asked, poolVars, at, depth, mainVars, flagVars,
                 replicated, ledger>>

(* wait_for_search_finished on each thread, or on each but the main one. *)
Join ==
  /\ \/ Phase = "join" /\ Free(i)
     \/ Phase = "helpers" /\ (i = 0 \/ Free(i))
  /\ NextThread
  /\ UNCHANGED <<want, asked, poolVars, at, depth, mainVars, flagVars,
                 replicated, ledger>>

(* What the loop hands to thread t.  Mutant: only the main one is set up. *)
NextJobSetsUpMain(t) == IF Phase = "setup" /\ t # 0 THEN job[t] ELSE Phase
NextJob(t) == Phase

(* run_custom_job on each thread in turn: it waits for the thread first. *)
RunOnEach ==
  /\ Phase \in {"setup", "clear", "ttclear"} /\ job[i] = "idle"
  /\ job' = [job EXCEPT ![i] = NextJob(i)]
  /\ NextThread
  /\ UNCHANGED <<want, asked, size, limits, at, depth, mainVars, flagVars,
                 replicated, ledger>>

(* The flags of the search to come (ThreadPool::start_thinking). *)
Reset ==
  /\ Phase = "reset"
  /\ stop' = FALSE /\ stopOnPonderhit' = FALSE /\ ponder' = asked.ponder
  /\ NextPhase
  /\ UNCHANGED <<want, asked, poolVars, at, depth, mainVars, spent, replicated,
                 ledger>>

(* main_thread()->start_searching(). *)
Start ==
  /\ Phase = "start" /\ job[0] = "idle"
  /\ job' = [job EXCEPT ![0] = "search"]
  /\ at' = [at EXCEPT ![0] = "begin"]
  /\ spent' = FALSE
  /\ goes' = goes + 1 /\ told' = FALSE
  /\ NextPhase
  /\ UNCHANGED <<want, asked, size, limits, depth, mainVars, stop, ponder,
                 stopOnPonderhit, replicated, answers>>

(* ~Thread, for each thread of the vector. *)
Destroy ==
  /\ Phase = "destroy" /\ job[i] = "idle"
  /\ job' = [job EXCEPT ![i] = "absent"]
  /\ size' = IF i + 1 < size THEN size ELSE 0
  /\ NextThread
  /\ UNCHANGED <<want, asked, limits, at, depth, mainVars, flagVars,
                 replicated, ledger>>

(* The pool is as large as requested.  Mutant: off by one. *)
CompleteLate(n) == n > want
Complete(n) == n >= want

(* Thread's constructor, until there are as many as requested. *)
Create ==
  /\ Phase = "create"
  /\ job' = [job EXCEPT ![size] = "idle"]
  /\ size' = size + 1
  /\ IF Complete(size') THEN NextPhase ELSE UNCHANGED <<cmd, k, i>>
  /\ UNCHANGED <<want, asked, limits, at, depth, mainVars, flagVars,
                 replicated, ledger>>

(* What the UCI thread rewrites by itself: option values and what their    *)
(* handlers load, the hash table, the network and its replicas, the        *)
(* experience and the tablebase files.                                     *)
Rewrites == {"options", "ttresize", "network", "replicate", "newgame"}

(* prepare_replicate_from empties the replicas, ensure_network_replicated  *)
(* touches them all.                                                       *)
Replicas == Phase = "replicate" \/ (replicated /\ Phase # "network")

Rewrite ==
  /\ Phase \in Rewrites
  /\ replicated' = Replicas
  /\ NextPhase
  /\ UNCHANGED <<want, asked, poolVars, at, depth, mainVars, flagVars, ledger>>
-----------------------------------------------------------------------------
(* A pool thread executes a job other than a search, and parks.            *)

RunJob(t) ==
  /\ job[t] \in {"setup", "clear", "ttclear"}
  /\ job' = [job EXCEPT ![t] = "done"]
  /\ IF job[t] = "setup"
     THEN /\ limits' = [limits EXCEPT ![t] = asked]
          /\ depth' = [depth EXCEPT ![t] = 0]
     ELSE UNCHANGED <<limits, depth>>
  /\ UNCHANGED <<uciVars, size, at, mainVars, flagVars, replicated, ledger>>

Park(t) ==
  /\ job[t] = "done"
  /\ job' = [job EXCEPT ![t] = "idle"]
  /\ UNCHANGED <<uciVars, size, limits, at, depth, mainVars, flagVars,
                 replicated, ledger>>
-----------------------------------------------------------------------------
(* The search: Worker::start_searching and iterative_deepening.            *)

Goto(t, place) == at' = [at EXCEPT ![t] = place]

(* The job is over, the thread on its way back to idle_loop. *)
Leave(t) == /\ at' = [at EXCEPT ![t] = "off"]
            /\ job' = [job EXCEPT ![t] = "done"]


(* The bestmove of a position without legal moves is all there is to say.  *)
(* Mutant: start_searching does not return after it.                       *)
NothingToSearchGoesOn == Goto(0, "hold") /\ UNCHANGED job
NothingToSearch == Leave(0)

(* The main thread begins: no legal move, MCTS on its own, or alpha-beta   *)
(* with the helpers.                                                       *)
BeginSearch ==
  /\ at[0] = "begin"
  /\ \/ /\ ~limits[0].legal
        /\ answers' = answers + 1
        /\ NothingToSearch /\ UNCHANGED m
     \/ /\ limits[0].legal /\ limits[0].mcts
        /\ Goto(0, "mcts") /\ UNCHANGED <<job, m, answers>>
     \/ /\ limits[0].legal /\ ~limits[0].mcts
        /\ Goto(0, "launch") /\ m' = 1 /\ UNCHANGED <<job, answers>>
  /\ UNCHANGED <<uciVars, size, limits, depth, saw, flagVars, replicated, told, goes>>

(* ThreadPool::start_searching. *)
Launch ==
  /\ at[0] = "launch"
  /\ IF m < size
     THEN /\ job[m] = "idle"
          /\ job' = [job EXCEPT ![m] = "search"]
          /\ at' = [at EXCEPT ![m] = "loop"]
          /\ m' = m + 1
     ELSE Goto(0, "loop") /\ UNCHANGED <<job, m>>
  /\ UNCHANGED <<uciVars, size, limits, depth, saw, flagVars, replicated, ledger>>

(* The condition of iterative_deepening's loop. *)
Deeper(t) == /\ depth[t] + 1 < MaxPly /\ ~stop
             /\ ~(limits[t].depth # 0 /\ t = 0 /\ depth[t] >= limits[t].depth)

Deepen(t) ==
  /\ at[t] = "loop" /\ Deeper(t)
  /\ depth' = [depth EXCEPT ![t] = @ + 1]
  /\ Goto(t, "tree")
  /\ UNCHANGED <<uciVars, poolVars, mainVars, flagVars, replicated, ledger>>

LeaveLoop(t) ==
  /\ at[t] = "loop" /\ ~Deeper(t)
  /\ IF t = 0 THEN Goto(0, "hold") /\ UNCHANGED job ELSE Leave(t)
  /\ UNCHANGED <<uciVars, size, limits, depth, mainVars, flagVars, replicated, ledger>>


(* SearchManager::check_time's tests. *)
OutOfTime == ~ponder /\ \/ limits[0].timed /\ (spent \/ stopOnPonderhit)
                        \/ limits[0].capped /\ spent

(* check_time, called by the main thread at every node. *)
CheckTime ==
  /\ at[0] = "tree" /\ OutOfTime
  /\ stop' = TRUE
  /\ UNCHANGED <<uciVars, poolVars, at, depth, mainVars, ponder,
                 stopOnPonderhit, spent, replicated, ledger>>

(* A root search fails low and is repeated with a wider window. *)
FailLow ==
  /\ at[0] = "tree" /\ ~stop
  /\ stopOnPonderhit' = FALSE
  /\ UNCHANGED <<uciVars, poolVars, at, depth, mainVars, stop, ponder, spent,
                 replicated, ledger>>

(* The end of an iteration: any thread that has proved the mate asked for  *)
(* stops them all; the main thread goes on to look at the clock.           *)
FinishIteration(t) ==
  /\ at[t] = "tree"
  /\ \/ UNCHANGED stop
     \/ limits[t].mate /\ ~stop /\ stop' = TRUE
  /\ Goto(t, IF t = 0 THEN "timing" ELSE "loop")
  /\ UNCHANGED <<uciVars, poolVars, depth, mainVars, ponder, stopOnPonderhit,
                 spent, replicated, ledger>>

(* Is there time for another iteration?  totalTime and the scores decide,  *)
(* and the answer is no once the maximum is spent.  `ponder` is read last. *)
Timing ==
  /\ at[0] = "timing"
  /\ \/ /\ limits[0].timed /\ ~stop /\ ~stopOnPonderhit
        /\ saw' = ponder /\ Goto(0, "verdict")
     \/ /\ ~(limits[0].timed /\ ~stop /\ ~stopOnPonderhit /\ spent)
        /\ UNCHANGED saw /\ Goto(0, "loop")
  /\ UNCHANGED <<uciVars, poolVars, depth, m, flagVars, replicated, ledger>>

(* Time is up: stop, or keep it in mind until the ponderhit. *)
Verdict ==
  /\ at[0] = "verdict"
  /\ IF saw THEN stopOnPonderhit' = TRUE /\ UNCHANGED stop
            ELSE stop' = TRUE /\ UNCHANGED stopOnPonderhit
  /\ Goto(0, "loop")
  /\ UNCHANGED <<uciVars, poolVars, depth, mainVars, ponder, spent, replicated,
                 ledger>>

(* run_monte_carlo returns: told to stop, or its budget is used up. *)
MctsStopped == /\ at[0] = "mcts" /\ stop
               /\ Goto(0, "hold")
               /\ UNCHANGED <<uciVars, poolVars, depth, mainVars, flagVars,
                              replicated, ledger>>
MctsBudget == /\ at[0] = "mcts"
              /\ (limits[0].timed \/ limits[0].capped) => spent
              /\ Goto(0, "hold")
              /\ UNCHANGED <<uciVars, poolVars, depth, mainVars, flagVars,
                             replicated, ledger>>

(* compute_budget, unless the search is infinite, reads the option         *)
(* "Minimum Thinking Time", which Engine never registers: past the end of  *)
(* the map, where the build may crash.                                     *)
MctsCrash == /\ at[0] = "begin" /\ limits[0].legal /\ limits[0].mcts
             /\ ~limits[0].infinite
             /\ cmd' = "crashed"
             /\ UNCHANGED <<k, i, want, asked, poolVars, at, depth, mainVars,
                            flagVars, replicated, ledger>>



(* The condition of the busy wait.  Mutants: a stop does not end it;       *)
(* pondering is forgotten.                                                 *)
ReleasedByHit  == ~(ponder \/ limits[0].infinite)
ReleasedPondering == stop \/ ~limits[0].infinite
Released == stop \/ ~(ponder \/ limits[0].infinite)

(* The busy wait, and the stop that ends it for everybody. *)
Hold ==
  /\ at[0] = "hold" /\ Released
  /\ stop' = TRUE
  /\ Goto(0, "gather") /\ m' = 1
  /\ UNCHANGED <<uciVars, poolVars, depth, saw, ponder, stopOnPonderhit, spent,
                 replicated, ledger>>

(* The main thread's wait for a helper is over. *)
HelperFree(t) == job[t] = "idle"

(* ThreadPool::wait_for_search_finished: the helpers. *)
Gather ==
  /\ at[0] = "gather"
  /\ IF m < size THEN HelperFree(m) /\ m' = m + 1 /\ UNCHANGED at
                 ELSE Goto(0, "report") /\ UNCHANGED m
  /\ UNCHANGED <<uciVars, poolVars, depth, saw, flagVars, replicated, ledger>>

(* get_best_thread, Experience::on_search_complete, onBestmove. *)
Report ==
  /\ at[0] = "report"
  /\ answers' = answers + 1
  /\ Leave(0)
  /\ UNCHANGED <<uciVars, size, limits, depth, mainVars, flagVars, replicated,
                 told, goes>>

(* The clock or the node counter reaches a limit of the search. *)
Spend ==
  /\ job[0] = "search" /\ ~spent
  /\ limits[0].timed \/ limits[0].capped
  /\ spent' = TRUE
  /\ UNCHANGED <<uciVars, poolVars, at, depth, mainVars, stop, ponder,
                 stopOnPonderhit, replicated, ledger>>
-----------------------------------------------------------------------------
Terminated == Over /\ UNCHANGED vars

UciPhase == Await \/ Join \/ RunOnEach \/ Reset \/ Start \/ Destroy \/ Create
            \/ Rewrite

MainStep == \/ BeginSearch \/ Launch \/ Timing \/ Verdict \/ MctsStopped
            \/ Hold \/ Gather \/ Report

ThreadStep(t) == RunJob(t) \/ Park(t) \/ Deepen(t) \/ LeaveLoop(t)

Running == cmd # "crashed"

Next == \/ /\ Running
           /\ \/ ReadGo \/ ReadStop \/ ReadPonderhit \/ ReadQuit
              \/ \E c \in Commands : ReadCommand(c)
              \/ UciPhase \/ MainStep
              \/ CheckTime \/ FailLow \/ MctsBudget \/ MctsCrash \/ Spend
              \/ \E t \in Threads : ThreadStep(t) \/ FinishIteration(t)
        \/ Terminated

Spec == Init /\ [][Next]_vars

(* Threads run.  A tree search is over soon after stop is raised, which    *)
(* every node tests; without it, it may go on for as long as it likes.     *)
(* Limits get spent.  What the GUI sends, and when MCTS has had enough     *)
(* simulations, is nobody's obligation.                                    *)
Fairness == /\ WF_vars(Running /\ UciPhase)
            /\ WF_vars(Running /\ MainStep)
            /\ WF_vars(Running /\ CheckTime)
            /\ WF_vars(Running /\ Spend)
            /\ WF_vars(Running /\ spent /\ MctsBudget)
            /\ \A t \in Threads :
                 /\ WF_vars(Running /\ ThreadStep(t))
                 /\ WF_vars(Running /\ stop /\ FinishIteration(t))

FairSpec == Spec /\ Fairness
-----------------------------------------------------------------------------
Jobs   == {"absent", "idle", "setup", "clear", "ttclear", "search", "done"}
Places == {"off", "begin", "mcts", "launch", "loop", "tree", "timing",
           "verdict", "hold", "gather", "report"}

(* Types.  goes is bounded by MaxGoes in ReadGo, size by MaxThreads. *)
TypeOK ==
  /\ cmd \in DOMAIN Plan \cup {"none", "dead", "crashed"}
  /\ cmd \in DOMAIN Plan => k \in DOMAIN Plan[cmd]
  /\ i \in Threads /\ want \in 1 .. MaxThreads
  /\ size \in 0 .. MaxThreads /\ m \in 1 .. MaxThreads
  /\ asked \in GoCommand /\ limits \in [Threads -> GoCommand]
  /\ job \in [Threads -> Jobs] /\ at \in [Threads -> Places]
  /\ depth \in [Threads -> 0 .. MaxPly]
  /\ saw \in BOOLEAN /\ stop \in BOOLEAN /\ ponder \in BOOLEAN
  /\ stopOnPonderhit \in BOOLEAN /\ spent \in BOOLEAN
  /\ replicated \in BOOLEAN /\ told \in BOOLEAN
  /\ goes \in Nat /\ answers \in Nat

Owing == goes # answers

Searching == \E t \in Threads : job[t] = "search"

(* Between a go and its bestmove the main thread is at it, and only then:  *)
(* no go is forgotten, none is answered twice (search.cpp start_searching  *)
(* has two places that print a bestmove, engine.cpp go a third).           *)
AnswerLedger ==
  goes = answers + (IF at[0] # "off" THEN 1 ELSE 0)

(* Whatever the UCI thread rewrites or destroys, it does while every pool  *)
(* thread is parked, and it hands out jobs only when none is searching:    *)
(* the waits it does are for the main thread alone (engine.cpp             *)
(* wait_for_search_finished), which must not end before its helpers.       *)
(* export_net is the exception, see the README.                            *)
QuietReconfiguration ==
  cmd # "export" =>
    /\ Phase \in Rewrites \cup {"reset", "destroy", "create", "start"}
         => \A t \in Threads : job[t] \in {"idle", "absent"}
    /\ Phase \in {"setup", "clear", "ttclear", "join"} => ~Searching

(* Two callers of one Thread at a time could lose a wakeup (module         *)
(* ThreadHandshake): the UCI thread and the main thread never wait for, or *)
(* submit to, the same thread.                                             *)
UciUses == CASE Phase \in {"await", "start"} -> {0}
             [] Phase \in Loops              -> {i}
             [] OTHER                        -> {}
MainUses == IF at[0] \in {"launch", "gather"} THEN {m} ELSE {}
OneCallerPerThread == UciUses \cap MainUses = {}

(* The best thread is chosen, and its root moves read and stored, when no  *)
(* helper is running (thread.cpp get_best_thread takes no lock).           *)
ReportAlone == at[0] = "report" => \A t \in Helpers : job[t] = "idle"

(* The UCI thread and the search never touch the same state at once: the   *)
(* three ways in which they are kept apart.                                *)
ThreadsApart == QuietReconfiguration /\ OneCallerPerThread /\ ReportAlone

(* A setup job holds references to start_thinking's locals, a ttclear job  *)
(* to the table that resize has just allocated: such a job is never left   *)
(* behind when the function that submitted it has returned.                *)
FrameAlive ==
  /\ \A t \in Threads : job[t] = "setup"
        => cmd = "go" /\ Phase \in {"setup", "join"}
  /\ \A t \in Threads : job[t] = "ttclear" => Phase \in {"ttclear", "join"}

(* All threads of a search work on the same go, the one last asked for.    *)
SameLimits ==
  /\ \A t \in Threads : job[t] = "search" => limits[t] = limits[0]
  /\ at[0] = "begin" /\ cmd # "go" => \A t \in Pool : limits[t] = limits[0]

(* A stop raised during a search is not withdrawn before the search ends.  *)
StopHeld == [][stop /\ Searching => stop']_vars

(* The go that an answering step answers. *)
AnsweredGo == IF goes' # goes THEN asked' ELSE limits[0]

(* "... if we are pondering or in an infinite search, the UCI protocol     *)
(* states that we shouldn't print the best move before the GUI sends a     *)
(* stop or ponderhit command" (search.cpp start_searching).                *)
HoldsBestmove ==
  [][answers' # answers /\ (AnsweredGo.infinite \/ AnsweredGo.ponder) => told']_vars

(* "Access once to force lazy initialization.  We do this because we want  *)
(* to avoid initialization during search" (search.cpp                      *)
(* ensure_network_replicated).                                             *)
ReplicatedBeforeSearch == Searching => replicated

(* What start_thinking owes a search: every thread works on the go that    *)
(* was asked for, nothing refers to a frame that is gone, and the network  *)
(* is at hand.                                                             *)
SearchesAsAsked == FrameAlive /\ SameLimits /\ ReplicatedBeforeSearch

(* Once stop is raised, by whomever, the bestmove comes. *)
StopAnswered == (Owing /\ stop) ~> ~Owing

(* A clock, movetime or nodes limit ends the search by itself as soon as   *)
(* it does not ponder (any more).                                          *)
Limited == limits[0].timed \/ limits[0].capped
LimitAnswered == (Owing /\ Limited /\ ~ponder /\ ~limits[0].infinite) ~> ~Owing

(* Whatever its limits, a go that neither ponders nor is infinite is       *)
(* answered, at its depth or at MAX_PLY, if iterations end by themselves.  *)
FiniteGoAnswered ==
  (\A t \in Threads : WF_vars(Running /\ FinishIteration(t)))
    => ((Owing /\ ~ponder /\ ~limits[0].infinite) ~> ~Owing)

(* quit ends the process, in whatever state it is read. *)
QuitEnds == (cmd = "quit") ~> (cmd = "dead")

(* Every go is answered: when stop is raised, when its limit is spent, or  *)
(* at its end (search.cpp check_time, iterative_deepening, and the wait of *)
(* start_searching); and quit ends the process.                            *)
EveryGoAnswered == StopAnswered /\ LimitAnswered /\ FiniteGoAnswered /\ QuitEnds

(* The protocol as the GUI sees it. *)
Protocol == INSTANCE UciProtocol WITH
              holding <- Owing /\ (limits[0].infinite \/ limits[0].ponder)

ImplementsProtocol == Protocol!Spec
=============================================================================
