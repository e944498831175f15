# A TLA+ verification of Wordfish

Wordfish is a UCI chess engine derived from Stockfish. This directory holds
TLA+ models of the parts of it that keep state, run concurrently or are hard to
get right, TLC configurations that check them on small instances, and theorems
about them that TLAPS proves for every instance. Paths below are relative to the repository's
`src/` directory.

## 1. The system

A GUI writes commands to the engine's standard input. The **UCI thread** reads
them in `UCIEngine::loop` (`uci.cpp`) and calls `Engine` (`engine.cpp`), which
owns the option map, the root position, the `ThreadPool`, the transposition
table, the network replicas and the polybooks. The pool (`thread.cpp`) owns the
`Thread`s; each has a native thread parked in `idle_loop` and a
`Search::Worker`. Thread 0 is the main thread: its worker has the
`SearchManager` (clock, `ponder`, `stopOnPonderhit`) and starts and joins the
other workers. They share `ThreadPool::stop` and the transposition table. The
experience store (`experience.cpp`) is a process-wide table behind a mutex, with
a file.

| component | state | operations | interacts with |
|---|---|---|---|
| `Thread` | `searching`, `exit`, `jobFunc`, mutex, condition variable | constructor, `run_custom_job`, `wait_for_search_finished`, `idle_loop`, destructor | the UCI thread, the main thread |
| `ThreadPool` | vector of threads, `stop`, `increaseDepth`, `setupStates` | `set`, `clear`, `start_thinking`, `start_searching`, `wait_for_search_finished`, `get_best_thread` | `Thread`, `Worker` |
| `UCIEngine` | current command | `loop`, `go`, `setoption`, `position`, `bench` | `Engine` |
| `Engine` | options, position, networks, books | `go`, `stop`, `search_clear`, `resize_threads`, `set_tt_size`, `load_network`, `save_network`, `set_ponderhit` | everything |
| search control | `limits`, `rootDepth`, `ponder`, `stopOnPonderhit`, `callsCnt` | `start_searching`, `iterative_deepening`, `check_time`, `run_monte_carlo` | pool, clock, experience |
| time management | `optimumTime`, `maximumTime`, `availableNodes` | `init`, `elapsed`, `advance_nodes_time`, `clear` | options, limits |
| experience store | `settings`, `table`, `lru`, `lruIndex`, `stats`, `dirty`, `pendingFlush`, a file | `update_settings`, `on_new_position`, `on_search_complete`, `new_game`, `flush` | options, search, file system |
| Monte Carlo search | a tree, a budget | `analyze`, `rollout`, `compute_budget` | position, `stop` |
| transposition table | clusters of entries, generation | `probe`, `save`, `new_search`, `resize`, `clear` | all workers, without locks |
| NUMA replication, shared memory | replicas per node, shared images | `modify_and_replicate`, `ensure_present`, `open` | network |
| options | map of options with callbacks | `add`, `setoption`, `operator[]` | `Engine` |
| position | `board`, `sideToMove`, a chain of `StateInfo` | `set`, `do_move`, `undo_move`, null moves, `legal`, `pseudo_legal`, `gives_check`, `see_ge`, repetitions | every search, network features |
| move generation | none | `generate` for five kinds of moves | position, move picker |
| move picker | the moves of a node, five pointers, a stage, `skipQuiets` | `next_move`, `skip_quiet_moves` | position, tree search |
| tree search | a stack of frames, the position, `rootMoves`, `nmpMinPly` | `search`, `qsearch`, `iterative_deepening`, `output_pv`, `pick_best` | position, hash table, tablebases, statistics |
| statistics | history tables of a worker, two shared by a NUMA node | `operator<<`, `update_all_stats` and its parts, `clear_range` | tree search, move picker |
| NNUE | a stack of accumulators, a refresh cache, a network and its file | `push`, `pop`, `evaluate`, `load`, `save`, `verify` | position, `Engine`, NUMA |
| tablebases | a hash table of tables, mapped files | `init`, `probe_wdl`, `probe_dtz`, `rank_root_moves`, `syzygy_extend_pv` | root moves, tree search |
| opening books | two slots with a sorted file each | `set_options`, `probe`, `generate` | `Engine::go`, options |

The hard behaviours are: a hand-made thread pool whose parked workers and
callers share one condition variable and `notify_one`; references to a caller's
locals inside jobs; waits that look at the main thread only; flags written by
two threads (`stop`, `ponder`) that decide when a `bestmove` may, and must, be
printed; lazily initialized replicas; a file that is rewritten in place; processes that
share a memory image and are killed at any point; a position whose keys,
checkers, pins and network features are kept up to date move by move, apart from
the board; accumulators that are computed late, from whichever neighbour or
cache is at hand; a search whose prunings return what they did not prove, which
is stopped between any two nodes and must still answer with something true;
files whose formats know shortcuts for what can be told without them; and
clocks, counts and statistics that are left over from one search for the
next. The
hazards are listed in `PROJECT.json`, at the line where each one bites, with the
properties that answer it.

## 2. Modules

| module | models | how |
|---|---|---|
| `JobSlot` | what a `Thread` promises | a slot that takes one job at a time: Submit, Execute, Park, Close, Retire |
| `ThreadHandshake` | `thread.cpp` 47-141, `thread.h` 73-108 | one `Thread` and its callers; an action is a critical section. `Asleep` is the condition variable, `NotifyOne` picks any sleeper, `SpuriousWake` is allowed. Jobs are tickets |
| `ThreadHandshakeProofs` | | the theorems about it |
| `UciProtocol` | what a GUI is promised about `go` | Accept, Tell, Answer, AtOnce |
| `SearchControl` | `uci.cpp`, `engine.cpp`, `thread.cpp` (pool), control part of `search.cpp`, termination of `mcts.cpp` | see below |
| `SearchControlProofs` | | the theorems about it |
| `MCSearchControl` | | the `go` commands of the runs |
| `ExperienceStore` | `experience.cpp` | see below |
| `ExperienceStoreProofs` | | the theorems about it |
| `Induction` | | induction over naturals and intervals, and recursive functions, for the proofs |
| `MCExperienceStore` | | the initial files of the runs |
| `SharedNetwork` | `shm_unix.h`, `shm.h`, the part of `numa.h` that opens and drops images | see below |
| `Squares` | `types.h`, `attacks.h`, `attacks.cpp`, `bitboard.h` | squares, pieces, attacks, lines and rays on the real 8x8 board |
| `Position` | `position.cpp`, `position.h` | a board, a side to move and a chain of states; `set`, `do_move`, `undo_move`, null moves, keys, repetitions |
| `MoveGen` | `movegen.cpp` and the tests of moves in `position.cpp` | `generate`, `legal`, `pseudo_legal`, `gives_check`, `upcoming_repetition` |
| `Exchange` | `Position::see_ge` | a recursive function over the captures on one square |
| `DirtyThreats` | `update_piece_threats`, `full_threats.cpp`, `half_ka_v2_hm.cpp` | what `do_move` reports to the network |
| `Chess` | the rules of the game, written from the rules | the abstract specification of the next module |
| `GameTree` | `Worker::do_move`, `undo_move` and the null move of `search.cpp` | a search walks up and down a tree on one `Position` |
| `GameTreeProofs` | | the theorems about it, but for the next |
| `ChessProofs` | | `GameTree` implements `Chess`, and its moves are exactly the legal ones |
| `MCGameTree` | | twenty root positions |
| `MovePicker` | `movepick.cpp` | one node's picker: an array of moves, its pointers and stages; an action is a case of `next_move` or a turn of its loops |
| `TranspositionTable` | `tt.cpp` | one cluster of entries, probed and written by nodes that do not wait for each other |
| `NodeProofs` | | the theorems about both |
| `MCNode` | | `MovePicker` and `TranspositionTable`, each in a part of its own |
| `TreeSearch` | `Worker::search`, `qsearch`, `search.cpp` 696-1940 | one frame per call on a small game graph; every Step of the code is an action |
| `RootOrder` | `iterative_deepening`, `output_pv`, `Experience::on_new_position` | root moves through iterations, lines and aspiration windows; a tree search is its contract |
| `RootChoice` | `get_best_thread`, `Skill::pick_best` | functions over what the threads hold |
| `TbProbe` | `tbprobe.cpp` (probes, root ranking), `syzygy_extend_pv` | an ending is a graph, its tables what their generator would write |
| `TbIndex` | `tbprobe.cpp` (`init`'s maps, `set_groups`, `do_probe_table`) | squares and binomials as in the code |
| `TbFile` | `tbprobe.cpp` (`decompress_pairs`, `TBTables`, `mapped`) | words of 8 bits, a hash table of 4 buckets |
| `NumaConfig` | `numa.h`, `ThreadPool::set`, `set_numa_config_from_option` | CPU sets and the strings they are read from |
| `AccumulatorStack` | `nnue_accumulator.cpp`, `half_ka_v2_hm.cpp` | a sum of weights is a bag of features |
| `NetworkProofs` | | the theorems about `SharedNetwork` and `AccumulatorStack` |
| `PolyBook` | `polybook.cpp` | a file is a sorted sequence of entries |
| `MctsTree` | `mcts.cpp`, `run_monte_carlo` | a tree over a game graph, one shared position |
| `Options` | `ucioption.cpp`, `nnue/network.cpp` (files) | a map of options, with the network's file behind one of them |
| `Clock` | `timeman.cpp`, `check_time` | the searches of a game, what one leaves to the next |
| `Histories` | `history.h` and the updates in `search.cpp` | the arithmetic of every update in 32 bits |
| `MCTables`, `MCSetting`, `MCLimits`, `MCParts` | | instances of the last thirteen models, each a part of `MCParts`, which extends `AccumulatorStack` |

`ThreadHandshake` implements `JobSlot` (`ImplementsJobSlot`, checked and
proved). `SearchControl` is written against the slot: a pool thread is "idle",
has a job, or is "done" with it and on its way back, and a wait is a guard
`job[t] = "idle"`. What it owes the slot in return, that the UCI thread and the
main thread are never callers of the same `Thread` at a time, is its invariant
`OneCallerPerThread`. `SearchControl` implements `UciProtocol`, and `GameTree`
implements `Chess` (both checked and proved too).

**SearchControl.** The UCI thread executes a *plan*: the sequence of phases
that a command goes through, in the order of the calls (`Plan`; for example `go`
is await, reset, setup, join, start). A phase named in `Loops` visits the
threads one by one. A searching thread goes through `begin`, `launch` (main
only), `loop` and `tree` (an iteration), `timing` and `verdict` (main only),
`hold` (the busy wait), `gather` and `report`. Data is abstracted: a `go` is a
record of eight facts about its limits and its position; time, nodes and mates
are events (`Spend`, the mate disjunct of `FinishIteration`); the tree search is
what happens between `Deepen` and `FinishIteration`. The read of `ponder` and
the write of `stopOnPonderhit` or `stop` after it are two steps (`Timing`,
`Verdict`), because the UCI thread may run in between. Shared data that only the
UCI thread rewrites (options, hash table, network, experience, replicas) is the
set of phases `Rewrites`.

**ExperienceStore.** `mem` holds the table, the `lru` list and the number of
entries; `disk` the lines of each file; `lruIndex` is a position in `lru` and has
no state of its own. A call is one step, under the mutex, except
`on_search_complete`: opening the file truncates it, each line is a step, and
`Crash` may come between two lines or within one (`Torn`: what
`load_text_format` makes of half a line). `Merge` serves both searching and
loading, which treat an entry alike: the larger depth and the sum of the visits,
at most 65535. An entry's score and evaluation are left out, as are searches that the
filters of `on_search_complete` turn away.

**SharedNetwork.** A process has one instance of `SharedMemory` per NUMA node or
L3 domain (`NumSlots`), all with one socket path, named by the process id. An
action is a group of system calls that no other process can take apart: take the
`flock`, list the peers, connect, receive the descriptor or run out of time,
create and fill a new memfd, map it, bind and listen, unlink. `Die` kills a
process anywhere, with its lock and its server threads; `Start` may use its id
again. Images are numbered, and `filled` says which were written to the end. The
history flags `late` and `failed` record that a peer has been passed over or a
system call has failed: the fallbacks exist for these cases, and a second image
is then allowed.

**Position and its readers.** Boards are real: a function from the occupied
squares, of 64, to pieces, with kings, pins and all. A key is the *set* of
Zobrist numbers that are in it and `++` is exclusive or, so that two keys are
equal exactly if no two numbers collide. Magic numbers and PEXT tables are
modelled by the walk that fills them (`sliding_attack`). A `Position` is a
record; `do_move` carries out at most four board operations (`Operations`, `Carry`) and makes the new
`StateInfo`, field by field, as the code computes it from the old one (`KeyAfter`,
`MaterialKeyAfter`, `EpAfter` ...). `Chess`
is written from the rules of the game and shares only the geometry of `Squares`
with the code.

`GameTree` keeps in `trail` the game as a player sees it. A scene bounds the
walk: `plies` deep, moves only to squares of its `arena`, null moves or not.
`undo_move` must restore the board from the move and the captured piece alone.
`ScenesAssumption` says what is a FEN: that `Accepted` ones are `Readable`, pieces on squares, tokens
for castling, and, unless the game is Chess960, rights of a king on the e-file with a rook
in the corner. `set` takes others in silence, and `legal` is wrong about them: it leaves the shielding
rook aside for standard chess (`src/position.cpp:692`).

**MovePicker.** A position is what the picker sees of it: captures, quiet moves,
a score for each, and whether `see_ge` likes a capture; all of them are chosen
freely in `Init`, with any hash move. The search asks for the next move, or gives
up the quiet moves first. The quiet moves overwrite nothing but what has been
looked at, the bad captures are swapped to the front, and the array is read
three times.

**TranspositionTable.** The *threads* are nodes of the search, on any thread:
those of one thread nest, those of two run side by side. `Decide` is what `save`
reads, `Store` one of its stores; the stores of a call come in any order. A value
is the number of its save in `log`, so that what a hit tells can be traced to who said it.
`raced` remembers where two nodes were at an entry at the same time.

**TreeSearch.** A game is a graph of at most nine positions: moves, whether the
side to move is in check, an evaluation, the position after a pass. A frame is
one call, `pc` the Step it is at; `line` is the position with its null moves and
its 50-move count; `table` is the hash table without replacement. A threshold on
an evaluation, a depth, a reduction or a statistic decides only how likely a
pruning is to be right, so it is left open; every other guard is the code's (not
at the root, not in check, not with a decisive score, not after a null move, not at
a node that is or was on a principal variation, `ttPv` ...). A reduction is any
number: the move is searched at every depth from 1 to two plies beyond the one of
its own, and its node may take a ply of that back (`Hindsight`); a singular move
gets one to three plies more.
A setup names the prunings that may fire, so that the combinations are looked at
in groups. `stop` may be raised anywhere. Tablebase scores claim the outcome with a fresh
50-move count, as the code uses them. A ProbCut may write to the hash table
without looking at `stop` first; the bound it writes is never decisive.

**RootOrder.** Each root move has the scores, flags, lines and rank that
`RootMove` has. `SearchMove` gives a move any score that an honest tree search
may return (`Honest` is what `TreeSearch` checks of it). A line remembers the
score it was found with. `OnNewPosition` is the experience book: the move it
prefers comes first whatever its tablebase rank, and moves of the book have
scores before any search.

**TbProbe, TbIndex, TbFile.** `Truth` is retrograde analysis with and without
the 50-move rule; `StoredWdl` and `StoredDtz` are what a generator writes:
anything, where a capture settles the result; one side to move only; distances
in plies or in moves. The probes and the ranking are the code's. `TbIndex`
numbers placements of three and four pieces on the real board as `encode` does;
the stronger side is white already. `TbFile` has the canonical code, the sparse
index, the hash table with displacement and the mapping of a file by several
threads.

**NumaConfig.** `FromString`, `FromSystem`, the grouping by L3 domains and
`NodeString` on machines of eight processors; a session of `setoption`s keeps
threads, their nodes and the replicas. What the operating system answers is
external and assumed consistent with what it enforces. In the choice of the
least filled node the fraction is compared exactly.

**AccumulatorStack.** `stack` holds dirty pieces and threats, `cache` an entry
per king square and side. `Evaluated` is `evaluate` with its walk back, forward
updates, backward updates, refreshes and the hybrid of both; the threshold of
pieces for the hybrid is scaled. Additions commute and wrap modulo 2^16, so that the
tiles and the vector code change nothing. Threats along a rank stand for all
threats: which features a board has is `DirtyThreats`' business. `Parameters` says what boards and moves a line is made of, as
`Position::do_move` asserts and reports them: one king a side, no king is taken, a
king that does not castle goes to another square and takes what stands there.

**PolyBook, MctsTree.** Keys are sums of Zobrist features, moves their 16 bits
in both encodings. A slot keeps its options, file and entries; loading may fail.
The Monte Carlo tree has visits and totals as integers; which child the formula
prefers is left open; a simulation may be aborted at every step.

**Options.** A text is a record of what the parsers tell apart: the number it
begins with, whether something follows, its lower case. A file is the sections
of a network that can be read from it, the last of which may break off.

**Clock.** A visit is a node of the main thread. `credit` counts the nodes that the searches
of a game were granted. The formulas of `init` are kept where they bound a
result (the caps by 0.194 and 0.88 of the time, 0.81 of the time less the
overhead, 6.873 times the optimum), and left open below. An iteration may ask for
the end (`SoftStop`), and a fail low withdraw that while the search ponders (`FailLow`). `undefined` marks the
conversion of an infinity.

**Histories.** Every call of every update with its constants, at the ends of the
ranges of what it reads. Where a product does not fit an int, the processor keeps
32 bits of it. An unsigned 64-bit factor makes the division of a negative bonus
round down. Two threads may be between the read and the write of a shared entry.

## 3. Runs

| run | question | bounds | states |
|---|---|---|---|
| `handshake` | one caller: safe, live, implements `JobSlot`? | 4 jobs | 131 |
| `session` | do stop, limits, the end of the search and quit end every search, and is `UciProtocol` implemented? | 2 threads, 2 goes of 8 kinds, `MaxPly` 3 | 288667 |
| `pool` | any command at any time: is shared data safe, is every go answered once? | 3 threads, 2 goes, `MaxPly` 2 | 838497 |
| `book`, `mcts` | two documented promises the code breaks | 2 threads, 2 goes | |
| `store` | consistency, persistence, readonly, with crashes and failing opens | 3 keys, 2 moves, 2 depths, limit 2, 16-bit maximum 2, 2 searches, 2 files | 1560079 |
| `store_sync` | does Experience Sync flush? It does not | 2 searches, 2 files | |
| `network` | is one image shared, complete, and is nobody blocked by the dead? | 2 processes, 2 instances, 3 calls of `open` | 88760 |
| `node` | does the picker offer every move once and in order, and may a hash hit be believed? | 3 captures, 3 quiet moves, 3 depths; 2 entries and one node at a time; 1 entry and 2 nodes; 2 keys, 2 saves | 2170136 |
| `parts` | does each part of the search, and of what surrounds it, keep its promise? | see below | 542422 |
| `overflow` | do the products of the statistics fit an int? One does not | the part `histories` | |
| `tree` | is it chess, and is what is kept beside the board right? | 20 scenes, 1 to 8 plies | 3703 |

Why the bounds are enough to be interesting. Two threads give one helper, three
give two helpers of which one may still search while the other is parked. Two
goes are needed for anything left over from one search to reach the next, with a
reconfiguration in between. `MaxPly` 3 allows two iterations: one that ends and
one that is stopped. In the store the limit of two positions is reached by
loading (the foreign file has three) and by searching; the saturating count is
reached by merging and by searching. The initial file holds the same move twice
and an entry with no visits. Three calls of `open` let a process open two
instances while another one is killed, comes back and opens its own; with four
(722357 states) nothing changes. The scores of `node` lie at the threshold for good
quiet moves and above it; its depths put the limit of the sort above both, between
them and below both; three moves are needed to swap past one that is skipped. Two saves
of two keys, one of them with the tag of an empty entry, let every save meet
an entry of its own key, of another one, an aged one and an empty one. The scenes are positions in which the hard
rules are one or two moves away: every castling, through attacks, over a rook
that shields the king and with king and rook changing places; en passant that is
pinned along the rank, the file and the diagonal, that answers a check or
gives one; promotions that capture, check and take a right; double checks;
batteries; knights and rooks that go back and forth, with null moves and lost
rights in between, across the steps of the fifty-move part of the key; and a
crowded middle game.

`parts` is thirteen models that share no state, checked one at a time in one run;
an invariant names the part it is about.

| part | module | instance |
|---|---|---|
| `tree` | `TreeSearch` | 5 games (a mate in three behind captures and a cycle; an evasion; captures; two scored by tablebases) with 1 to 5 groups of prunings, depths 1 to 4 (to 3 where reductions and prunings of moves come together in the first and third), `MaxPly` 6 |
| `root` | `RootOrder` | 2 root moves, 2 iterations, 1 or 2 lines, 4 scores with two lengths of loss; equal and different ranks; two books |
| `choice` | `RootChoice` | 3 threads, 2 moves, scores on either side of every comparison; 3 lines |
| `probe` | `TbProbe` | 2 endings of 13 positions, 7 sets of tables, every root and 50-move count of interest, the 50 moves being 5 plies |
| `index` | `TbIndex` | 5 materials, placements along whole diagonals, files and ranks |
| `files` | `TbFile` | 3 codes with messages of up to 3 blocks, up to 3 tables of 6 keys in 4 buckets, 3 threads |
| `numa` | `NumaConfig` | 15 Linux hosts, 360 Windows systems, 4 custom strings, sessions with 8 policies and up to 5 threads |
| `accumulators` | `AccumulatorStack` | 2 lines with king moves across the mirror, castling, captures, en passant, a promotion; 4 accumulators, 7 steps |
| `book` | `PolyBook` | books of 0 to 24 entries, longer than the window of the search; 3 steps of options, generation, questions |
| `mcts` | `MctsTree` | 2 games, up to 5 simulations |
| `options` | `Options` | one option of each type, 9 texts, 4 disks with whole and broken networks of 3 sections, 3 commands |
| `clock` | `Clock` | 7 kinds of limits, 2 settings, 2 searches of up to 14 nodes, a look at the clock every second visit |
| `histories` | `Histories` | every update at the extremes of depth, score and history, 2 racing threads, tables for 1 to 16 threads |

The margins that matter are inside these bounds: a mate that is one ply longer
than the one known, a loss that only a cut search reports, a distance one ply
below the 50 moves, a node without processors, a key whose entries fill more than a
window, a search that begins with the count another one left. Scores of the
tree are scaled (`VALUE_MATE` 40, `MAX_PLY` 6) and keep their order.

`CHECK_DEADLOCK FALSE` in `pool`: a GUI that sends `setoption`, `ucinewgame` or
`go` while a search is infinite makes the UCI thread wait for that search on the
thread that would read its `stop`. The engine really stops there. In `node` a picker ends with its moves, and the saves are bounded. `session`
uses a GUI that waits for its `bestmove` (`Disciplined`). In `tree` a root
position may be mate with nothing to undo. The parts of `parts` come to an end.

With two callers of one `Thread`, `CallsReturn` is false: a caller's
`notify_one` may wake the other caller instead of the parked worker. The safety
theorems hold for any number of callers, and `OneCallerPerThread` shows that the
engine never has two.

**Fairness.** The operating system runs every thread (`WF` of `UciPhase`,
`MainStep`, `ThreadStep`), the clock advances (`Spend`), and the main thread
calls `check_time` at every node (`CheckTime`). Once `stop` is set a tree search
ends, since every node tests it; without `stop` it may go on for ever, except
where `FiniteGoAnswered` asks the other question and states the fairness it needs as its
premise. What a GUI sends is never assumed. The
busy wait needs no fairness of its own: it is enabled when it can end.
`ThreadHandshake` assumes weak fairness of the worker and of callers inside a
call. `SharedNetwork` assumes that a process that is inside `open` or closing
goes on, or dies (`WF` of `OpenStep`, `CloseStep`); whether one opens, exits or
is killed is nobody's obligation.

## 4. What the properties say

*ThreadHandshake.* `IdleMeansQuiescent`: `searching = false` means that nothing
runs and the slot is empty. `WaitSeesEveryJob`: a wait returns only when every
job is done. `CallsReturn`: no wakeup is lost, and the destructor joins.
`ImplementsJobSlot`: jobs run once, in the order of submission, and the worker
leaves with none left.

Several properties are conjunctions, whose parts are defined, and named below,
in the modules.

*SearchControl.* `AnswerLedger`: between a `go` and its `bestmove` the main
thread is at it, and only then. `ThreadsApart` has three parts. `QuietReconfiguration`: the UCI thread rewrites,
destroys and creates only while no thread works, although it waits for the main
thread only. `ReportAlone`: root moves are read when no helper runs. `OneCallerPerThread`: see above.
`SearchesAsAsked`: threads search the go that was asked for, with no reference to a dead
frame and with the network in place. `ImplementsProtocol`: one answer to each
go, held back while the GUI has not released it. `EveryGoAnswered`
(`StopAnswered`, `LimitAnswered`, `FiniteGoAnswered`, `QuitEnds`): stop, limits, depth and quit end a search.

*ExperienceStore.* `StoreConsistent`: table, order and count describe one store
within its limit. `FileHoldsTable` has three parts. `StoreIsItsFile`: an enabled store holds what its file holds,
and after a search whatever happened before. `RoundTrip`: what is saved is what
is loaded, order included. `NothingInvented`: no crash makes up a position or a move.
`ReadonlyNeverWrites`; `OnlyLearns`: no
entry loses depth or visits, and only the least recently used position leaves.

*SharedNetwork.* `ReadsComplete`: no process maps an image that was not written
to its end. `OneImage`: while no peer was late and no call failed, processes
that use a shared image use the same one. `OnlyDeadRemoved`: a socket file is
unlinked by others only when nobody listens behind it. `OpenReturns`: `open`
ends, whoever is killed with the lock in hand.

*GameTree.* `ImplementsChess`: every step is a legal move, a pass or a move
taken back, with the castling rights and the en passant square of the rules.
`MovesExact` has two parts. `MovesComplete`: the generated legal moves are the legal moves, and the stages of
the picker partition them. `HashMoveSafe`: of all 4032 pairs of squares, those that
`pseudo_legal` and `legal` let pass are the legal moves. `StateAgrees`:
keys, material, checkers and pins kept by `do_move` are those of `set_state`, and the
prefetched key is the next one. `RepetitionsExact`: `RepetitionExact`, `repetition` and
`has_repeated` against the game in `trail`. `UpcomingExact`:
`upcoming_repetition` is true exactly if a legal move makes a repetition that
counts. `AttacksExact`: `DirtyExact`, removed and added pieces and threats turn the features
of one board into those of the next, none twice; `ExchangeExact`, `see_ge` answers
the threshold question of `Worth`, a plain recursion over captures without the
early exits and the running balance of the code, for thresholds around the value and around zero.

*MovePicker.* `PicksInOrder` includes `PicksEachOnce`: no move is offered twice or out of nowhere, and
only moves that were to be skipped are missing in the end, wherever the hash move is and whenever
`skip_quiet_moves` is called. The order is: hash move, good captures, good
quiet moves, bad captures, bad quiet moves, each by score, the quiet ones as far as the limit
of the depth sorts them. `PointersSet` says that no pointer is read that was never set:
`endGenerated` may be without a value when it is copied, but is not looked at then.

*TranspositionTable.* `HitsAreSaved`: where no two nodes were at an entry at the
same time, a hit is what one save stored, for this key or one that looks like it,
perhaps with less depth, and its move was saved for such a key too. `TypeOK`: no
race makes a depth larger than any that was saved, or wraps it below zero.

*TreeSearch.* `SearchAsserts`: the assertions about windows, plies and
consecutive null moves hold in every frame, moves and null moves are taken back
on every way out, and the line of a root move can be played. `DecisiveSound`: a
win that is returned as a lower bound, or a loss as an upper one, is forced
within the plies it tells, whatever was pruned and wherever the table's entry
came from, at any 50-move count. `NothingAfterStop`: no root move changes after
a call was cut.

*RootSound.* `LossProven`: a loss that is told without a bound mark is a loss, on
the first line for every move of its rank. `MateKept`: a mate of a completed
iteration is not forgotten or told longer. `LineOfScore`: a mate comes with the
line it was found with. `RankOrder`: ranks keep their order, a book move in
front. `MateIsElected`: the shortest proven mate wins the vote. `HandicapKeepsGame`: a
handicapped engine does not choose to be mated. (In the parts below the first
line a loss is told of the move itself; that other moves are no better is not
claimed there, because an iteration that is cut in its first line may let an
exact loss of the iteration before move up.)

*TablesSound.* `ProbesTell`: win, draw, loss and distance are the truth, the
distance one ply less where it is stored in moves. `RanksKeep`: a move ranked as
a certain win wins within the 50 moves, the first move keeps the result of the
root. `PvExtended`: an extended line is a game that ends as the score says.
`IndexExact`: placements that no symmetry of their table relates have different
indices inside the table, and with three pieces related ones have the same. `FilesSound`: values survive compression, every material is filed and
found under both keys, a file is mapped once and used only when set up.

*NumaSound.* `SystemKept`, `WindowsKept`: nodes share out the processors that
the process may use, none split and none empty, and the printed string
gives the same configuration back. `ReplicasCurrent`: between commands
every thread has a place of its own on a node that exists, with the present
network.

*AccumulatorsExact*: an accumulator marked as computed is the sum over the
features of its own position, and a cache entry of the pieces it remembers.

*SettingsSound.* `KeysFound`, `AnswersSound`, `SlotsLoaded`: a book's entries
are all found, an answer is a legal move of the position asked about, a slot
holds its file. `OptionsReadable`: no text gets an option into a state its
readers cannot read. `NetworkWhole`: a search runs with the network that was
asked for. `ExportsRead`: an exported network is read back.

*MctsSound.* `PositionPutBack`, `TreeAdds`, `AnswerStands`: the shared position
is the root again after every simulation, visits and totals add up, and the
reported move is one of the root moves with the best average.

*LimitsSound.* `Noticed`: a limit that is reached is noticed within the visits between
two looks. `PlansWithinClock`: the maximum of a search is at most 0.88 of its
clock (or 1 ms). `StoppedByLimit`: a search ends early only for its own limits,
but for the case of only the opponent's clock. `WithinBudget`: searches with
nodes as time use what they were granted, and what passes between two looks.
`Bounded`: no update takes an entry out of its range or against its bonus,
with another thread in between. `FitsButFailLow`: the only product that does not
fit an int is the one of finding 4. `RangesHold`, `SharesPartition`.

**Disagreements found** (the runs with `expect` violation):
1. `book`: the comment at `src/search.cpp:248` says that an infinite or
   pondering search prints no bestmove before stop or ponderhit. A book move is
   printed at once. (A node or mate limit beside `infinite` also raises `stop`
   and ends the wait, which is why `session` has no such `go`.)
2. `mcts`: `compute_budget` (`src/mcts.cpp:88`) reads `Minimum Thinking Time`,
   which the README lists and the engine does not register. The look-up
   dereferences the end of the map; the model lets the process crash or go on.
3. `store_sync`: a save that cannot open its file is taken for done
   (`src/experience.cpp:529`), so that Experience Sync has nothing to do.
4. `overflow`: the comment at `src/search.cpp:1643` bounds `scaledBonus` with an
   eye on the multiplications beside it. `update_continuation_histories`
   multiplies again, by a weight and a multiplier (`src/search.cpp:2093`): a node
   that fails low at depth 7 or more, after a quiet move with a `statScore`
   below -26000, exceeds an int, and a bonus becomes a malus.

**Observations** that the models had to take into account, each at the guard or
exemption it explains:
- `export_net` empties the lazy network replicas and nobody touches them before
  the next search, against the comment at `src/search.cpp:202`; it takes more
  than one NUMA node to see it. `pool` has no `export_net`; with `"export"` among
  its `Commands` TLC finds `ReplicatedBeforeSearch` violated.
- A network is read over the one in use (`src/nnue/network.cpp:329`). A file
  that breaks off, or has something after its end, is turned down when parts of
  it, or all of it, are in place under the old name; setting `EvalFile` back does
  not load again, and `verify` lets the search start (`broken` in `Options`).
- A book move of `on_new_position` is in front of a better tablebase rank, and
  with one line it is the only move searched.
- With only the opponent's clock set, a search is managed by the maximum of an
  earlier one, or of none. With nodes as time and less than a millisecond of nodes left,
  `log10(0)` times a negative adjustment is converted to an integer. With a clock of
  the own side and no nodes left, no limit applies. In nodes as time `movetime`
  is compared with nodes.
- The first look at the clock of a search may be late by the interval of the
  one before, since only a new game resets `callsCnt`.
- NUMA: `remove_empty_numa_nodes` (`src/numa.h:983`) does not renumber the node
  of a processor; one without an L3 file is dropped; an L3 sibling outside the
  system's nodes throws; a range that ends at the largest `usize` never ends; an
  invalid `NumaPolicy` is kept as the option's value and takes effect with the next `Threads`.
- Books: a promotion is never matched; an entry that is illegal or promotes, next to
  others, sends `Move::none()` to the draw check; weights that are all zero divide
  by zero; a file that `book generate` has written again is not read again; an
  empty file reads its first key (past the end of what was allocated; whatever is
  there, the window that is left is empty, which is what `Narrowed` says). `README.md:75` says that a higher width
  explores more; the code becomes more selective.
- Monte Carlo: a rollout's value is taken from the side to move at its end and is not
  turned for odd lengths; a child whose simulation was aborted has no visits and
  average 0, and may be reported; a tree deeper than `rolloutDepth` throws;
  `searchmoves` does not limit what is explored.
- `root_probe_wdl` applies the 50-move draw also with Syzygy50MoveRule off
  (`src/syzygy/tbprobe.cpp:1760`).
- `README.md:28` says that `ucinewgame` clears the experience buffers; `new_game` writes
  them. `README.md:29` lists options that are not registered.

## 5. Proofs

All theorems are about the specifications as they are checked, for every value
of the constants that the named assumptions allow.

*ThreadHandshakeProofs* (assumptions `ClientsAssumption`, `MaxJobsAssumption`).
The inductive invariant relates the flag, the slot and the worker's place:
`searching` is false only if the worker is parked or waking with an empty slot,
and the ticket that is outstanding is in the slot or in the worker's local.
`InOrderOnce` (jobs run in order, none twice) alone is not inductive, since nothing in it says that a slot is
empty when it is filled. From it follow `TypeCorrect`, `JobsInOrderOnce`,
`Quiescence`, `LeavesClean` and the action property `WaitIsABarrier`.
`WakeupsNotLost` needs one conjunct more, about who may sleep while a signal is
due, and one caller. `Refinement` maps the initial state, and each step to a step
of `JobSlot` or to a stutter.

*SearchControlProofs* (`BoundsAssumption`, `GoesAssumption`, and
`CommandsAssumption`: the commands besides `go` and `quit` have plans). None of
the promises is inductive alone: that a wait for the main thread is a wait for
everybody (`ThreadsApart`) holds because a helper searches only while the main
thread is between `launch` and `gather`, because the main thread searches only
while the UCI thread reads or is at the first phase of a plan, and because a
phase that hands out jobs is followed by one that joins them. `IInv` says so:
`SizeInv` (the size of the pool and the loop's place in it), `JobInv` (what each
thread may be doing, by phase, and what the helpers may, by the place of the
main thread), `LimitInv` (whose limits the threads have, in the middle of a
setup too) and `AnswerLedger`. `PlanFacts` is all the proofs know of the plans: which
phase may follow which. From `IInv` follow `TypeCorrect`, `OneAnswerPerGo`,
`Apart` and the action property `StopIsHeld`; `AsAsked` needs `ReplicaInv` in
addition and supposes that there is no `export` among the commands (the first observation
above). `Refinement` needs `ToldInv`: while the answer is held back, stop has
been raised, or pondering ended, only at the GUI's word; this has to be known
through the moment between the read of `ponder` and the verdict on it. It
supposes `HeldGoes`, that a held go has a move to search and neither a mate
limit nor, when infinite, a clock, movetime or nodes, and `BookInTurn`, that no book move is
printed during a search; without these the code does print early (disagreement
1). `HeldBack` states what the comment at `src/search.cpp:248` says, for goes
that no book answers.

*ExperienceStoreProofs* (`SizesAssumption`, `NamesAssumption`, `DiskAssumption`; the first two theorems need none). `IInv` says that a file is
open only in an enabled session that may write, that a session that has not been
initialized is not readonly, that a disabled store is empty, and that nothing is
dirty at rest; one step per action. `NothingPending` is a conjunct of it: `ucinewgame`,
Experience Sync and a change of file find nothing left to write;
`ReadonlyIsReadonly` proves the action property for files and table.

What a whole file is read as needs a second invariant, `SInv`, and lemmas about
the store's recursive functions, which are functions on an initial segment of the
naturals so that induction reaches them (`Induction`). `SoundStore` is
`StoreConsistent` for any table: `MergeSound` keeps it for a line of any
file, `EnforceSound` for an eviction (the list and the domain are the same set, so
that as many keys go as there are too many), hence `LoadedSound` gives it to
whatever file is read. `ReadBack` is the round trip: of a sound
store, `Merged(Saved(m)) = m`, by induction over the keys and, within a key, over
its lines; a key is new when its first line is read because the list has
no repetition, and a move is new because a key holds it once. `SInv` adds what
ties the file to the table while a save is under way and across crashes: what a half-written
file has and the lines that are left make up the table (`HalfWritten`), a file that
cannot be opened counts as disturbed (`LockedIsDisturbed`), the position found last is
last in the list (`FoundIsLast`), and all that is in table and files
was seen (`AllSeen`). From it follow `TypeCorrect`, `Consistent`,
`FileAndTable` and the action property `Learns`: no entry loses
visits or depth, and a probed position survives the eviction.

*NodeProofs.* The hash table (assumption `TableAssumption`: there are keys, the
cluster has entries and generations, what is saved is deeper than `DEPTH_NONE`). The
entries are read and written field by field by threads that do not wait for each
other. The inductive invariant says of a thread in a save what it has still to store
(`WorkInv`) and that nothing is deeper than what was saved (`SavedInv`); of an entry nobody
raced on, that it is one save, aged or not (`Whole`), or will be when the
one thread that writes to it has stored the rest (`WholeInv`); and of a reader, that
the entry still has the key that matched unless the reader is known to be disturbed
(`ReadInv`). `TypeCorrect` holds whatever races
there are; `HitsSaved` where no two threads were at the entry at a time.

The move picker (`PickerAssumption`: finitely many captures and quiet moves,
disjoint, with scores of 32 bits). `PicksInOrder` is far from inductive: what comes
next is decided by what the array holds. The invariant `PickInv` says it stage by
stage (`Stagewise`): between which pointers lie the captures set aside, the captures to
come and the quiet moves, that each of these parts is a list without repetition
of exactly those moves (`Holds`), sorted (`Descending`), and which moves have
come so far. The lemmas it rests on are about lists: `partial_insertion_sort` is a
recursive function and the loop's invariant an induction over it (`SortRec`,
`SortFacts`): the sorted part is descending, the values left behind are below the
limit, and nothing is lost or doubled, also where the displaced element changes places
with one from behind. A capture that is set aside changes places with one
that was returned or set aside before, so the bad captures keep their order.
From it follow `StagesHold`, and `PickerInOrder`, which is `PicksInOrder`.

*NetworkProofs: the accumulators* (`LinesAssumption`: the boards and moves of the lines are
sound). The invariant `AccInv` says that a line consists of sound boards, each made of the one
before by the move on the stack (`SoundLine`), that every accumulator marked as computed
is exact (`Exact`) and, in and between searches, so is the cache (`CacheExact`). Sums
are compared feature by feature: `Apply` and `Combine` are additions of counts
(`ApplyFacts`, `CombineFacts`), no two squares of a board are one feature
(`TurnedApart`), so an exchange of pieces is the same exchange in the sums
(`PiecesExchanged`, `ThreatsExchanged`). Hence a step to a neighbour is exact in
either direction if the king of the side stays (`ScratchStep`), a cache entry is brought
to any board (`BroughtSum`), and the hybrid of both is exact (`HybridSum`): the
board it makes up is the one before the move (`BeforeIs`), and threats look the same from
both squares only because the king stays on its half (`SameHalf`). Between the accumulator
`find_last_usable_accumulator` finds and the end of the line no king of the side moves
(`LastUsableFacts`, `KingAlong`), so the walks in both directions fill the line with
exact sums (`ForwardIs`, `BackwardIs`, by induction along it). `Exactness` is the result:
`AccumulatorsExact` for lines of any length over any boards.

*NetworkProofs: the shared network.* `IInv` joins six invariants: types; who may hold the
lock (`LockInv`); what each instance may be while it is opened and closed
(`KindInv`); that whatever is mapped, offered or served is filled, but for the
one its creator is filling (`FullInv`); that the dead hold nothing (`DeadInv`);
and that a process that uses a shared image serves it at its path while nothing has
failed (`ImageInv`). `CompleteNetwork`, `StaysReachable`, `RemovesOnlyDead` and
`TypeCorrect` follow from it. `SharesOneImage` needs in addition that all served
images agree (`AgreeInv`) and that whoever holds the lock and has passed over a
peer has found it dead (`HolderInv`): without them two processes could each
create an image.

*GameTreeProofs* (`ScenesAssumption`). `StateAgrees` is not inductive: the checkers are looked
up only if `gives_check` says so, from squares computed for the position before, the keys are
changed by what the move is taken to do, and all of it is true only of a move that a sound
generator made on a sound position. `Level` is what is known of a board and its
state: pawns on their ranks, one king a side, keys, material, checkers, blockers, pinners and check
squares as if computed from scratch, castling rights with king and rook at home
(`RightsSound`), an en passant square behind an enemy pawn that can be taken without harm unless
the taker is pinned (`EpSound`), and the king of the side that has moved not attacked. `IInv`
says it of the position and of each situation in `trail` with its state on the stack, and that each is
linked with the next by the move on the path (`Link`).

The proof has four layers. The first is geometry on the 64 squares: `Toward`, `Inside` and `OnLine`
are coordinates, to which `Seen`, `BetweenBB` and `LineBB` are reduced once (`SlidingIs`, `BetweenIs`,
`LineIs`). The second is the board operations: what `Carry` makes of each kind of move
(`MovedBoard`, `CastledBoard`), of its Zobrist keys and its counts of pieces, and that
`undo_move` carries it back. The third is chess: what `generate` may produce (`Generated`), that
`legal`, asked only of `Suspect` moves, leaves no king attacked (`KingMoveSafe`, `OtherMoveSafe`, `PassingSafe`,
`CastlingSafe`, the last for every Chess960 setup), that `gives_check` misses no check
(`MoveChecks`, `PassingChecks`, `CastlingChecks`), and that a pawn given as capturable in passing is
(`PushSafe`). The fourth puts `set`, `do_move`, the null move and their inverses together
(`SetSound`, `AfterDoMove`, `Extended`, `WalksBack`). `TypeCorrect`, `StateStaysTrue` and
`MovesAreTakenBack` follow for every scene, whatever its depth.

*ChessProofs.* `Refinement` is `ImplementsChess` for every scene and every walk: `Homes` and
the situations of the trail, with that on the board at the end (`Game`), are a behaviour of
`Chess`. The rules have no tables: a piece hits a square if files and ranks fit and
the squares between are empty, and a move is safe if the king is not hit on the board it
leaves. So the proof is a translation, made from `IInv`. Attacks: `TowardApart` and
`RulesHits` reduce both sides to coordinates, `RulesCheck` follows. Moves: `RulesPieceGoes`,
`RulesPawnGoes` and `RulesCastlings` find the moves of the rules to be those the
generators are allowed to make, and `RulesSafe` that those which passed `legal` are safe, from the layers
of `GameTreeProofs`. Boards: `RulesPlayed` and `RulesCastled` find what `Carry` makes of the operations
to be what the rules put on the squares. Rights: `castlingRightsMask` drops exactly
the rights whose king or rook square a move touches; for castling the code looks at the square
where the king arrives and the rules at the rook it takes, and no right of either side tells
them apart (`RulesRights`). The en passant square is the hard part. `do_move` decides from blockers
and `LineBB` of the position before the push whether a capture will be possible, the rules
by making every capture and looking at the king (`Takeable`). If it sets a square, the pawn it
found can capture (`PushTakeable`, from `PushBares`); if it sets none
although a pawn stands there, either the pushed pawn or the one that captures was pinned
(`EpFails`), the sniper behind the blocker that stands alone (`BlockerAlone`, `Shielded`) then
sees the king after the capture (`Unshielded`), and so no capture is legal
(`PushNotTakeable`). What this needs of the position before the push is that the king of the
side not to move is not attacked.

`MovesAreExact` is `MovesExact` for every scene and every walk. That nothing illegal is
generated is `LegalIsMove` and `RulesSafe`; the other direction starts from a move that is safe
by the rules. No piece that stays hits the king past the squares that
changed (`StillHits`), so the move answers every check (`SafeAnswers`) and does not leave
the line of its pin, as behind every blocker there is a sniper that it alone holds
off, or one that gives check already (`Behind`). Hence it ends on a target of `generate<EVASIONS>`
(`AnswerTarget`), is made by the generators (`AllHas`) and is let through by `legal`. Two
cases need more. A capture in passing is left out if the square the pushed pawn came
from is between king and checker. It would answer such a check along the file
only, and there the pushed pawn itself would stand in between (`FileThrough`); and if
that pawn is the checker, nothing is between it and the king. So it is not safe
(`PassingEvades`). And a castling
rook of Chess960 that is pinned (`PinnedRook`): whoever would hit the king behind the
rook hits it also where it arrives. For moves of the hash table
`PseudoLegalIs` finds `pseudo_legal` to ask what the generators know, and `LegalAll` that
`legal` refuses no move `generate<LEGAL>` does not ask it about. The stages follow from
what each kind of generation puts together (`StagesSplit`).

Only model-checked: of `GameTree`, repetitions
and the features of the network (`RepetitionsExact`, `AttacksExact`); the parts of `MCParts`
other than `accumulators`, and liveness everywhere (the prover has no fairness). Induction is done with sets in
place of predicates, over functions on `0..n`; what
`TbProbe`, `TbIndex`, `TbFile` and `NumaConfig` compute with RECURSIVE operators is out of
reach, as the prover has no arithmetic in a module with one.

## 6. Not modelled

- Evaluation as a number: the layers of the network, their inference and
  quantization, `evaluate`'s scaling. Reductions, margins and move scores are
  left open, not computed; no promise of the search depends on them.
- Of the tablebases: the layout of a header, the frequency map of DTZ values, the
  repetition test at the root (a constant of the instance), the online tablebase
  (compiled only with `USE_LIVEBOOK`). The value that `optimum()` gets below its
  caps. NUMA queries of L3 caches on Windows.
- Of the hash table: `hashfull`, `first_entry` (clusters do not interact), and how threads
  share the work of `clear`. Of the move picker: how scores are computed.
- Of `Position`: the text of a FEN, `flip`, the codes of endgames, `is_draw` and the
  fifty-move rule, a FEN that names the same castling right twice, a position with
  more than 96 changed threats. Of the network features: their numbers, which
  `AccumulatorStack` takes as weights. A null move pushes no accumulator.
- `bench`, `benchmark`, `perft`, the `book` and `experience` console commands,
  one-shot command lines, text output, logging.
- A write to the experience file that fails after a successful open, gzip and the
  two binary formats.
- Shared memory on Windows (`shm_win.h`). `flock` has no timeout: a process that
  is suspended, not killed, with the lock in hand blocks every other one at
  start. When a second `open` of a process fails it unlinks the path its first
  instance listens at; the model has this step, and it ends the promise of
  `OneImage`.
- `mcts/montecarlo.cpp` is not compiled; `sparsehash/` and `incbin/` are
  third-party.

## 7. Plan

All the modules of section 2 are built and checked; the handshake, the pool and the
search control, the store, the shared network, the hash table, the move picker, the
accumulators and the position have proofs. Next, in this order:

1. `GameTree`: that `repetition` in the state is the distance in the game (`RepetitionExact`,
   a part of `RepetitionsExact`), from the history the inductive invariant already has.
2. `Histories`: `Moved` stays within its range for every bonus and every entry (a
   lemma on integers), and so does a shared entry of racing threads.
3. `MctsTree`: `PositionPutBack` for any game. `Clock`: `WithinBudget` for any limits.
