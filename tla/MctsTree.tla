------------------------------- MODULE MctsTree -------------------------------
(***************************************************************************)
(* The Monte Carlo search: MCTS::analyze and rollout (mcts.cpp) on one     *)
(* shared position, and what run_monte_carlo (search.cpp) makes of the     *)
(* result.  A game is a graph of positions.  Which child the formula       *)
(* explores is left open; values are integers, an average is a total and   *)
(* a number of visits.                                                     *)
(***************************************************************************)
EXTENDS Integers, Sequences, FiniteSets, SequencesExt

CONSTANTS Games,   \* sequences of positions: [moves: the positions they lead to, check, material]
          Trials,  \* [game, rootMoves, depth: rolloutDepth, simulations]
          Mated,   \* VALUE_MATED_IN_MAX_PLY, negative
          MaxIterations \* bounds a search without a limit of its own

VARIABLES job, out

Root == 1
NoReport == [none |-> TRUE]

(* A node of the tree; "unexpanded" and "children" as sets and in order.   *)
NewNode(game, at, move) ==
    [at |-> at, move |-> move, unexpanded |-> game[at].moves, children |-> << >>, total |-> 0, visits |-> 0,
     own |-> 0, ran |-> 0]
Terminal(game, node) == game[node.at].moves = {}

(* line: the positions from the root to the current one, every move of it  *)
(* made on the shared position.                                            *)
Current == Last(job.line)
Game == Games[job.trial.game]
Ply == Len(job.line) - 1

(* is_draw(0): only a third occurrence counts. *)
IsDraw == Cardinality({i \in DOMAIN job.line : job.line[i] = Current}) >= 3

MctsInit ==
    /\ job \in {[trial |-> t, tree |-> <<NewNode(Games[t.game], 1, 0)>>, path |-> << >>, line |-> <<1>>,
                 played |-> 0, iterations |-> 0, stopped |-> FALSE, step |-> "loop", aborted |-> 0] : t \in Trials}
    /\ out = NoReport

(* stopRequested, or the end of the budget's time, seen wherever the code  *)
(* looks.                                                                  *)
Stop == ~job.stopped /\ job.step \notin {"done", "thrown"} /\ job' = [job EXCEPT !.stopped = TRUE] /\ UNCHANGED out

Spent ==
    \/ job.stopped
    \/ job.trial.simulations > 0 /\ job.iterations >= job.trial.simulations
Begin ==
    /\ job.step = "loop" /\ ~Spent /\ job.iterations < MaxIterations
    /\ job' = [job EXCEPT !.path = <<Root>>, !.step = "descend"]
    /\ UNCHANGED out

Leaf == job.tree[Last(job.path)]
Expand(to) ==
    LET id == Len(job.tree) + 1
        parent == Last(job.path)
    IN  /\ job.step = "descend" /\ to \in Leaf.unexpanded
        /\ job' = [job EXCEPT !.tree = Append([@ EXCEPT ![parent].unexpanded = @ \ {to}, ![parent].children = Append(@, id)],
                                              NewNode(Game, to, to)),
                              !.path = Append(@, id), !.line = Append(@, to), !.step = "evaluate"]
        /\ UNCHANGED out
Explore(n) ==
    LET child == Leaf.children[n]
    IN  /\ job.step = "descend" /\ Leaf.unexpanded = {} /\ n \in DOMAIN Leaf.children
        /\ job' = [job EXCEPT !.path = Append(@, child), !.line = Append(@, job.tree[child].at),
                              !.step = IF Terminal(Game, job.tree[child]) THEN "evaluate" ELSE "descend"]
        /\ UNCHANGED out

-------------------------------------------------------------------------------
(* Back up the path: every second node sees the value from the other side. *)
BackedUp(tree, path, value) ==
    [i \in DOMAIN tree |->
        IF i \notin ToSet(path) THEN tree[i]
        ELSE LET above == Len(path) - (CHOOSE n \in DOMAIN path : path[n] = i)
             IN  [tree[i] EXCEPT !.visits = @ + 1, !.total = @ + (IF above % 2 = 0 THEN value ELSE -value),
                                 !.own = @ + (IF above = 0 THEN value ELSE 0), !.ran = @ + (IF above = 0 THEN 1 ELSE 0)]]

(* A mutant of Undone: only the moves of the rollout are taken back.       *)
UndoneRollout == SubSeq(job.line, 1, Len(job.line) - job.played)
(* The moves of the rollout are taken back, then those of the path.        *)
Undone == SubSeq(job.line, 1, Len(job.line) - job.played - (Len(job.path) - 1))
Evaluated(value) ==
    /\ job' = [job EXCEPT !.tree = BackedUp(@, job.path, value), !.iterations = @ + 1, !.line = Undone,
                          !.path = << >>, !.played = 0, !.step = "loop"]
    /\ UNCHANGED out
TerminalValue == IF Game[Current].check THEN Mated ELSE 0

EvaluateTerminal == job.step = "evaluate" /\ Terminal(Game, Leaf) /\ Evaluated(TerminalValue)

(* rollout: at most rolloutDepth plies counted from the root.  A tree that *)
(* is deeper asks for a vector of a negative size, and throws.             *)
MaxDepth == job.trial.depth - (Len(job.path) - 1)
StartRollout ==
    /\ job.step = "evaluate" /\ ~Terminal(Game, Leaf)
    /\ job' = [job EXCEPT !.step = IF MaxDepth < 0 THEN "thrown" ELSE "rollout"]
    /\ UNCHANGED out
Rolls == job.step = "rollout" /\ job.played < MaxDepth
Abort ==
    /\ Rolls /\ job.stopped
    /\ job' = [job EXCEPT !.line = Undone, !.aborted = Last(job.path), !.path = << >>, !.played = 0, !.step = "over"]
    /\ UNCHANGED out
RollToEnd ==
    /\ Rolls /\ ~job.stopped
    /\ IsDraw \/ Game[Current].moves = {}
    /\ Evaluated(IF IsDraw THEN 0 ELSE TerminalValue)
Roll(to) ==
    /\ Rolls /\ ~job.stopped /\ ~IsDraw /\ to \in Game[Current].moves
    /\ job' = [job EXCEPT !.line = Append(@, to), !.played = @ + 1]
    /\ UNCHANGED out
(* Material, for the side that is to move when the rollout ends. *)
RollOut ==
    /\ job.step = "rollout" /\ job.played >= MaxDepth
    /\ Evaluated(IF Ply % 2 = 0 THEN Game[Current].material ELSE -Game[Current].material)

-------------------------------------------------------------------------------
(* The report.  A child that was not visited counts as an average of zero. *)
Visits(node) == IF node.visits = 0 THEN 1 ELSE node.visits
Above(a, b) == a.total * Visits(b) < b.total * Visits(a)
Best(nodes) == CHOOSE n \in DOMAIN nodes : \A m \in DOMAIN nodes : IF m < n THEN Above(nodes[n], nodes[m]) ELSE ~Above(nodes[m], nodes[n])
Children(tree, id) == [n \in DOMAIN tree[id].children |-> tree[tree[id].children[n]]]
Variation(tree, id, depth) ==
    LET follow[i \in 1..Len(tree), left \in 0..depth] ==
            LET visited == SelectSeq(tree[i].children, LAMBDA c : tree[c].visits > 0)
                best == visited[Best([n \in DOMAIN visited |-> tree[visited[n]]])]
            IN  <<tree[i].move>> \o IF left = 0 \/ visited = << >> THEN << >> ELSE follow[best, left - 1]
    IN  follow[id, depth]

(* run_monte_carlo: the root moves get their averages, those without one   *)
(* minus infinity, the best one its variation; they are sorted.            *)
Scored(tree, rootMoves) ==
    [n \in DOMAIN rootMoves |->
        LET own == SelectSeq(Children(tree, Root), LAMBDA c : c.move = rootMoves[n])
        IN  [pv |-> <<rootMoves[n]>>, known |-> own # << >>, stat |-> IF own = << >> THEN tree[Root] ELSE own[1]]]
Ahead(a, b) == a.known /\ (~b.known \/ Above(a.stat, b.stat))
Sorted(rms) ==
    LET place(n) == 1 + Cardinality({m \in DOMAIN rms : Ahead(rms[m], rms[n]) \/ (m < n /\ ~Ahead(rms[n], rms[m]))})
    IN  [p \in DOMAIN rms |-> rms[CHOOSE n \in DOMAIN rms : place(n) = p]]
Report ==
    LET tree == job.tree
        children == tree[Root].children
        best == children[Best(Children(tree, Root))]
        pv == IF children = << >> THEN << >> ELSE Variation(tree, best, job.trial.depth - 1)
        rms == Scored(tree, job.trial.rootMoves)
    IN  /\ (job.step = "loop" /\ Spent) \/ job.step = "over"
        /\ job' = [job EXCEPT !.step = "done"]
        /\ out' = [rootMoves |-> Sorted([n \in DOMAIN rms |-> IF pv # << >> /\ rms[n].pv[1] = pv[1] THEN [rms[n] EXCEPT !.pv = pv] ELSE rms[n]])]

MctsNext ==
    \/ Begin \/ StartRollout \/ EvaluateTerminal \/ Abort \/ RollToEnd \/ RollOut \/ Report \/ Stop
    \/ \E to \in UNION {Game[p].moves : p \in DOMAIN Game} : Expand(to) \/ Roll(to)
    \/ \E n \in DOMAIN job.tree : Explore(n)

-------------------------------------------------------------------------------
(* Between simulations, and however one ends, the shared position is the   *)
(* root again.                                                             *)
PositionPutBack == job.step \in {"loop", "over", "done"} => job.line = <<1>>

(* The ledger of the tree: a node was visited once for itself (a terminal  *)
(* one every time) and once for each visit below it, and what it gained is *)
(* its own evaluation less what its children gained.                       *)
SumOver(tree, ids, f(_)) == FoldLeft(LAMBDA x, c : x + f(tree[c]), 0, ids)
TreeAdds ==
    \A i \in DOMAIN job.tree :
        LET node == job.tree[i]
        IN  /\ node.visits = node.ran + SumOver(job.tree, node.children, LAMBDA c : c.visits)
            /\ node.total = node.own - SumOver(job.tree, node.children, LAMBDA c : c.total)
            /\ node.ran <= 1 \/ Terminal(Game, node)
            /\ node.ran = 1 \/ i \in {Root, job.aborted} \/ Terminal(Game, node) \/ job.step \in {"evaluate", "rollout", "thrown"}

(* What is played is a root move with a variation that can be played on,   *)
(* the best of the averages; a move no simulation finished with comes      *)
(* first only when one was cut short or none was made.                     *)
AnswerStands ==
    "rootMoves" \in DOMAIN out =>
        LET first == out.rootMoves[1]
            game == Game
        IN  /\ {rm.pv[1] : rm \in ToSet(out.rootMoves)} = ToSet(job.trial.rootMoves)
            /\ \A rm \in ToSet(out.rootMoves) :
                /\ rm.pv[1] \in game[1].moves
                /\ \A i \in 2..Len(rm.pv) : rm.pv[i] \in game[rm.pv[i - 1]].moves
                /\ ~Ahead(rm, first)
            /\ first.stat.visits = 0 =>
                job.aborted # 0 \/ \A rm \in ToSet(out.rootMoves) : ~rm.known

(* It throws only with the tree deeper than rolloutDepth. *)
MctsSound == PositionPutBack /\ TreeAdds /\ AnswerStands /\ (job.step = "thrown" => Len(job.path) - 1 > job.trial.depth)
===============================================================================
