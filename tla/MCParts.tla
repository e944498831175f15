-------------------------------- MODULE MCParts --------------------------------
(***************************************************************************)
(* Instances of the parts of a search and of what surrounds it, one part   *)
(* at a time: the tree, the root moves and the answer here, the tables and *)
(* the setting in modules of their own.                                    *)
(***************************************************************************)
EXTENDS Integers, Sequences, FiniteSets, TLC, AccumulatorStack

VARIABLES part,
    game, prunings, calls, frames, line, table, ret, rootMoves, stop, aborted, nmpMinPly,
    problem, rms, rootDepth, pvIdx, pvFirst, pvLast, window, last, best, step,
    job, out

treeVars == <<game, prunings, calls, frames, line, table, ret, rootMoves, aborted, nmpMinPly>>
rootVars == <<problem, rms, rootDepth, pvIdx, pvFirst, pvLast, window, last, best, step>>

-------------------------------------------------------------------------------
(* Games for the tree.  In the first a mate in three hides behind captures *)
(* and a cycle; in the second a check is evaded back to the root; the      *)
(* third ends in captures; two more are scored by tablebases.              *)
Q(to) == [to |-> to, cap |-> FALSE]
C(to) == [to |-> to, cap |-> TRUE]
N(moves, check, eval, pass) ==
    [moves |-> moves, check |-> check, eval |-> eval, pass |-> pass, pieces |-> TRUE, wdl |-> 42]
MateGame ==
    << N(<<C(3), Q(2)>>, FALSE, 0, 2), N(<<C(5), Q(4)>>, FALSE, 1, 6), N(<<Q(4)>>, TRUE, -1, 4),
       N(<<Q(8), Q(7)>>, FALSE, 2, 8), N(<<Q(8)>>, FALSE, -2, 8), N(<<Q(7), Q(2)>>, FALSE, 3, 2),
       N(<< >>, TRUE, 0, 5), N(<<Q(5), Q(4)>>, FALSE, 0, 5) >>
CheckGame ==
    << N(<<Q(2), Q(5)>>, FALSE, 0, 5), N(<<Q(3), Q(4)>>, TRUE, 0, 3), N(<<Q(5), Q(6)>>, FALSE, 1, 5),
       N(<<Q(5)>>, FALSE, -1, 5), N(<<C(7), Q(1)>>, FALSE, 1, 7), N(<< >>, TRUE, 0, 1), N(<<Q(5)>>, FALSE, -2, 5) >>
CaptureGame ==
    << N(<<Q(2)>>, FALSE, 0, 2), N(<<C(3), C(4)>>, FALSE, -5, 1), N(<<Q(6), C(5)>>, FALSE, 1, 2),
       N(<<Q(6)>>, FALSE, -1, 2), [N(<<Q(4)>>, FALSE, -3, 4) EXCEPT !.wdl = 0], N(<<Q(4), Q(3)>>, FALSE, 0, 4) >>
LostGame == [MateGame EXCEPT ![3].wdl = -2, ![5].wdl = 0]
HeldGame ==
    [LostGame EXCEPT ![1].moves = <<Q(2)>>, ![2].moves = <<C(5), Q(9)>>] \o <<N(<<Q(2), C(3)>>, FALSE, -1, 2)>>
TheGames == <<MateGame, CheckGame, CaptureGame, LostGame, HeldGame>>

Shallow == {"shallow", "lmr"}
Node == {"razor", "futility", "null", "verify", "iir"}
Tactics == {"probcut", "singular"}
Stopped == {"shallow", "probcut", "stop"}
TbScored == {"tb", "lmr", "razor"}
Full(d) == [alpha |-> -41, beta |-> 41, depth |-> d]
Deepening == <<Full(1), Full(2), Full(3), [alpha |-> -2, beta |-> 2, depth |-> 4]>>
(* With reductions as deep as negative ones allow, and prunings besides,   *)
(* two of the games are searched less often.                               *)
Looks(games, groups, searches) ==
    {[game |-> g, prunings |-> p, calls |-> searches] : g \in games, p \in groups}
TheSetups ==
    Looks({1, 2}, {Node, Tactics, Stopped}, Deepening) \cup Looks({3}, {Tactics, Stopped}, Deepening)
    \cup Looks({4, 5}, {TbScored}, Deepening) \cup Looks({2}, {Shallow}, Deepening)
    \cup Looks({1, 3}, {{"shallow"}}, Deepening) \cup Looks({1}, {{"lmr"}}, Deepening)
    \cup Looks({1}, {Shallow}, <<Full(1), Full(3)>>) \cup Looks({3}, {Shallow}, SubSeq(Deepening, 1, 3))
Tree == INSTANCE TreeSearch WITH
    Games <- TheGames, Setups <- TheSetups, MaxPly <- 6, Mate <- 40, Fifty <- 4, Margin <- 1

-------------------------------------------------------------------------------
(* Two root moves; a loss, a draw and a win of each length.                *)
Prob(truth, tb, lines, mate) ==
    [truth |-> truth, tb |-> tb, multiPV |-> lines, mate |-> mate, book |-> << >>]
BookMove(move, score) == [move |-> move, score |-> score]
TheProblems ==
    {Prob(<<"loss", "loss">>, <<0, 0>>, 2, FALSE), Prob(<<"loss", "open">>, <<0, 0>>, 2, FALSE),
     Prob(<<"open", "win">>, <<0, 0>>, 1, TRUE), Prob(<<"open", "loss">>, <<1, 0>>, 2, FALSE),
     [Prob(<<"open", "open">>, <<1, 0>>, 1, FALSE) EXCEPT !.book = <<BookMove(2, 0), BookMove(1, 10)>>],
     [Prob(<<"open", "open">>, <<0, 0>>, 2, FALSE) EXCEPT !.book = <<BookMove(2, -10), BookMove(1, -11)>>]}
Root == INSTANCE RootOrder WITH
    Problems <- TheProblems, Values <- {-11, -10, 0, 10}, Mate <- 12, Decisive <- 10, MaxDepth <- 2

(* Three threads: not one move searched, a loss that is a bound, draws of  *)
(* two lengths, a mate that is exact and one that is a bound.              *)
Th(move, score, bound, len) == [move |-> move, score |-> score, bound |-> bound, len |-> len]
Firsts(mates) ==
    {Th(m, -32001, FALSE, 1) : m \in 1..2} \cup {Th(m, -31990, TRUE, 2) : m \in 1..2}
    \cup {Th(m, v, FALSE, n) : m \in 1..2, v \in {0, 20}, n \in 1..2}
    \cup {Th(m, v, b, 2) : m \in 1..2, v \in mates, b \in BOOLEAN}
TheElections ==
    [1..3 -> Firsts({31990, 31995})]
    \cup [1..3 -> {Th(m, v, FALSE, 2) : m \in 1..2, v \in {-31990, -31995}} \cup {Th(1, 0, TRUE, 2)}]
TheHandicaps ==
    {[level |-> l, scores |-> s] : l \in {0, 10, 19}, s \in [1..3 -> {-32001, -31990, -250, 0, 100}]}
Choice == INSTANCE RootChoice WITH Elections <- TheElections, Handicaps <- TheHandicaps

-------------------------------------------------------------------------------
Tables == INSTANCE MCTables
Setting == INSTANCE MCSetting
Limits == INSTANCE MCLimits
TheLines == Setting!TheLines

(* A part that is not looked at stands still. *)
NoTree ==
    /\ game = 0 /\ prunings = {} /\ calls = << >> /\ frames = << >> /\ line = << >> /\ table = << >>
    /\ ret = 0 /\ rootMoves = << >> /\ aborted = FALSE /\ nmpMinPly = 0
NoRoot ==
    /\ problem = 0 /\ rms = << >> /\ rootDepth = 0 /\ pvIdx = 0 /\ pvFirst = 0 /\ pvLast = 0
    /\ window = 0 /\ last = 0 /\ best = {} /\ step = "none"
NoJob == job = 0 /\ out = 0
NoWorker == worker = [searching |-> FALSE, evaluated |-> FALSE, cache |-> << >>]
Jobs == {"choice", "probe", "index", "files", "numa", "book", "mcts", "options", "clock", "histories"}

Init ==
    \/ part = "tree" /\ Tree!Init /\ NoRoot /\ NoJob /\ NoWorker
    \/ part = "root" /\ Root!Init /\ NoTree /\ NoJob /\ NoWorker
    \/ part = "accumulators" /\ AccInit /\ NoTree /\ NoRoot /\ NoJob /\ stop = FALSE
    \/ /\ part \in Jobs /\ NoTree /\ NoRoot /\ stop = FALSE /\ NoWorker
       /\ \/ part = "choice" /\ Choice!ChoiceInit
          \/ part = "probe" /\ Tables!Probe!ProbeInit
          \/ part = "index" /\ Tables!Index!IndexInit
          \/ part = "files" /\ Tables!File!FileInit
          \/ part = "numa" /\ Setting!Numa!NumaInit
          \/ part = "book" /\ Setting!Book!BookInit
          \/ part = "mcts" /\ Setting!Mcts!MctsInit
          \/ part = "options" /\ Setting!Choices!OptInit
          \/ part = "clock" /\ Limits!Clocks!ClockInit
          \/ part = "histories" /\ Limits!Statistics!HistInit
JobNext ==
    \/ part = "choice" /\ Choice!ChoiceNext
    \/ part = "probe" /\ Tables!Probe!ProbeNext
    \/ part = "index" /\ Tables!Index!IndexNext
    \/ part = "files" /\ Tables!File!FileNext
    \/ part = "numa" /\ Setting!Numa!NumaNext
    \/ part = "book" /\ Setting!Book!BookNext
    \/ part = "mcts" /\ Setting!Mcts!MctsNext
    \/ part = "options" /\ Setting!Choices!OptNext
    \/ part = "clock" /\ Limits!Clocks!ClockNext
    \/ part = "histories" /\ Limits!Statistics!HistNext
Next ==
    /\ UNCHANGED part
    /\ \/ part = "tree" /\ Tree!Next /\ UNCHANGED rootVars /\ UNCHANGED <<job, out, worker>>
       \/ part = "root" /\ Root!Next /\ UNCHANGED treeVars /\ UNCHANGED <<job, out, worker>>
       \/ part = "accumulators" /\ AccNext /\ UNCHANGED treeVars /\ UNCHANGED rootVars /\ UNCHANGED <<stop, job, out>>
       \/ JobNext /\ UNCHANGED treeVars /\ UNCHANGED rootVars /\ UNCHANGED <<stop, worker>>
Spec == Init /\ [][Next]_<<part, treeVars, rootVars, stop, job, out, worker>>

-------------------------------------------------------------------------------
(* The assertions of search and qsearch about windows, position and null   *)
(* moves hold, and the principal variation of a root move can be played.   *)
SearchAsserts == part = "tree" => Tree!SearchAsserts /\ Tree!PvLegal

(* A decisive score that search returns or keeps in the hash table is a    *)
(* proof, whatever it pruned.                                              *)
DecisiveSound == part = "tree" => Tree!DecisiveSound

(* Once a call of search has been cut short, no root move changes.         *)
NothingAfterStop == [][part = "tree" /\ aborted => UNCHANGED rootMoves \/ frames = << >>]_<<part, treeVars>>

(* What iterative_deepening tells of the root moves is true, wherever it   *)
(* was stopped; the thread that is elected has the shortest proven mate or *)
(* the most votes; a handicapped program does not throw the game away.     *)
RootSound ==
    /\ part = "root" => Root!RootSound
    /\ part = "choice" => Choice!ChoiceSound

(* Probes of the Syzygy tables tell the truth, ranks keep the result of    *)
(* the root within the 50 moves, and an extended line ends the game.       *)
(* Positions that no symmetry of their table relates have different        *)
(* indices, every value of a file is read back as it was written, and      *)
(* every material is found in its own table.                               *)
TablesSound ==
    /\ part = "probe" => Tables!Probe!TablesSound
    /\ part = "index" => Tables!Index!IndexExact
    /\ part = "files" => Tables!File!FilesSound

(* A NUMA configuration holds every processor once, and every thread is    *)
(* bound to a node that has the network of its own.                        *)
NumaSound == part = "numa" => Setting!Numa!NumaSound

(* What the options set is in force: a book answers with a legal move of   *)
(* the position that was asked, from the files of its slots; every option  *)
(* can be read as its type says; a search runs with the network that was   *)
(* asked for, and an exported one is read back.                            *)
SettingsSound ==
    /\ part = "book" => Setting!Book!BookSound
    /\ part = "options" => Setting!Choices!OptionsSound

(* The Monte Carlo search puts the position back after every iteration,    *)
(* and what its tree has counted adds up.                                  *)
MctsSound == part = "mcts" => Setting!Mcts!MctsSound

(* A search that is out of time or nodes notices it soon, is stopped by    *)
(* nothing else, and a game in nodestime keeps to its nodes; no update     *)
(* takes a statistic out of its range, and all but one fit an int.         *)
LimitsSound ==
    /\ part = "clock" => Limits!Clocks!ClockSound
    /\ part = "histories" => Limits!Statistics!HistoriesSound

(* The comment in search that "overflows happen for multipliers larger     *)
(* than 900": with the multipliers of the code, every product is an int.   *)
ProductsFit == part = "histories" => Limits!Statistics!ProductsFit
================================================================================
