------------------------------- MODULE PolyBook -------------------------------
(***************************************************************************)
(* The two slots for opening books in PolyGlot's format (polybook.cpp):    *)
(* loading a file when an option changes, writing one with "book           *)
(* generate", and the probe that "go" and the command "book" begin with.   *)
(* A file is a sequence of entries sorted by key, as 16-byte records       *)
(* without their byte order; a move is its 16 bits.  Which positions a     *)
(* move leads to, and whether they are draws, is the position's business.  *)
(***************************************************************************)
EXTENDS Integers, Sequences, FiniteSets

CONSTANTS Contents,    \* what may be on a disk at first: files and their entries
          Settings,    \* options of a slot: [file, active, bestOnly, maxDepth, width]
          Asked,       \* positions asked about
          Generations, \* [path, at, moves] of "book generate"
          MaxSteps     \* bounds a behaviour

VARIABLES job, out

NoAnswer == [none |-> TRUE]
Slots == {0, 1}

-------------------------------------------------------------------------------
(* polyglot_key: an en passant square counts only if a pawn can take there *)
(* The Zobrist numbers of distinct features do not cancel out.             *)
PolyglotKey(p) ==
    2 * (9 * (16 * p.board + p.rights) + (IF p.canTake THEN p.epFile + 1 ELSE 0)) + (IF p.white THEN 1 ELSE 0)

(* Bits 0-5 to, 6-11 from; PolyGlot's 12-14 promote to (knight 1); the     *)
(* engine's 12-13 promote to (knight 0), 14-15 tell the kind of move.      *)
Promotion == 1
Kind(raw) == raw \div 16384
ToPg(m) == (IF Kind(m) = Promotion THEN 4096 * (((m \div 4096) % 4) + 1) ELSE 0) + (m % 4096)
Masked(m) == m % 16384
FromPg(p, pg) ==
    LET pt == (pg \div 4096) % 8
        move == IF pt # 0 THEN (16384 + 4096 * (pt - 1) + (pg % 4096)) % 65536 ELSE pg
        same == {m \in p.legal : Masked(m) = move}
    IN  IF same = {} THEN 0 ELSE CHOOSE m \in same : TRUE

-------------------------------------------------------------------------------
(* find_first_key.  Entries are numbered from 0.  While the window is wide *)
(* it is halved; a hit narrows it to the eight entries around.  Of a file  *)
(* without entries the code reads one all the same; however its key        *)
(* compares, the window <<0, 0>> is what is left.                          *)
At(book, i) == book[i + 1]
Narrowed(book, key) ==
    LET Half(w) ==
            LET mid == (w[1] + w[2]) \div 2
            IN  IF At(book, mid).key < key THEN <<mid, w[2]>>
                ELSE IF At(book, mid).key > key THEN <<w[1], mid>>
                ELSE <<IF mid > 4 THEN mid - 4 ELSE 0, IF mid + 4 < Len(book) THEN mid + 4 ELSE Len(book)>>
        loop[w \in (0..Len(book)) \X (0..Len(book))] ==
            LET h == Half(w) IN IF h[2] - h[1] < 9 THEN h ELSE loop[h]
    IN  IF book = << >> THEN <<0, 0>> ELSE loop[<<0, Len(book)>>]

(* From the first hit of the window back to the first of the file. *)
FirstOfWindow(book, i) == i
FirstOfKey(book, i) ==
    CHOOSE f \in 0..i :
        /\ \A j \in f..i : At(book, j).key = At(book, i).key
        /\ f > 0 => At(book, f - 1).key # At(book, i).key

(* get_key_data: how many, and the first of the greatest weight. *)
KeyData(book, first) ==
    LET last == CHOOSE l \in first..(Len(book) - 1) :
                    /\ \A j \in first..l : At(book, j).key = At(book, first).key
                    /\ l + 1 < Len(book) => At(book, l + 1).key # At(book, first).key
        weight(i) == At(book, i).weight
    IN  [first |-> first, count |-> last - first + 1,
         best |-> CHOOSE i \in first..last :
                    \A j \in first..last : weight(j) < weight(i) \/ (weight(j) = weight(i) /\ i <= j)]
Missing == [first |-> 0, count |-> 0, best |-> 0]
FindFirstKey(book, key) ==
    LET w == Narrowed(book, key)
        hits == {i \in w[1]..(w[2] - 1) : At(book, i).key = key}
    IN  IF hits = {} THEN Missing
        ELSE KeyData(book, FirstOfKey(book, CHOOSE i \in hits : \A j \in hits : i <= j))

-------------------------------------------------------------------------------
(* probe: the set of its outcomes; a move, 0 for Move::none(), or Broken.  *)
(* Broken: the sum of weights is zero and a random number is taken modulo  *)
(* it, or Move::none() is made on the board to see whether it draws.       *)
Broken == -1

(* Weight to the power of 1 + (width - 1) / 2, and a random point of the   *)
(* sum; the point 0 selects the first entry whatever its weight.           *)
Drawn(book, k) ==
    {k.first} \cup {i \in k.first..(k.first + k.count - 1) : At(book, i).weight > 0}
Total(book, k) == \E i \in k.first..(k.first + k.count - 1) : At(book, i).weight > 0

DrawChecked(s, p, k, i) ==
    LET move(j) == FromPg(p, At(s.book, j).move)
        other == IF move(i) = move(k.first) THEN k.first + 1 ELSE k.first
    IN  IF k.count = 1 THEN move(i)
        ELSE IF move(i) = 0 THEN Broken
        ELSE IF move(i) \notin p.draws THEN move(i)
        ELSE IF move(other) = 0 THEN Broken
        ELSE IF move(other) \notin p.draws THEN move(other)
        ELSE 0
Probe(s, p, forced) ==
    LET k == FindFirstKey(s.book, PolyglotKey(p))
        limit == IF s.maxDepth > 1 THEN s.maxDepth ELSE 1
    IN  IF ~s.enabled \/ (~s.active /\ ~forced) \/ p.ply >= limit THEN {0}
        ELSE IF k.count < 1 THEN {0}
        ELSE (IF Total(s.book, k) THEN {} ELSE {Broken})
             \cup {DrawChecked(s, p, k, i) : i \in IF s.bestOnly \/ k.count = 1 THEN {k.best} ELSE Drawn(s.book, k)}

-------------------------------------------------------------------------------
(* init(bookfile).  fault: the memory or the file runs short.  A file that *)
(* is still loaded is not read again.  "reread" is the model's note of     *)
(* what the file has become since.                                         *)
Unloaded(s) == [s EXCEPT !.loaded = FALSE, !.book = << >>, !.enabled = FALSE]
InitSlot(s, file, disk, fault) ==
    IF file = "" THEN [Unloaded(s) EXCEPT !.path = ""]
    ELSE IF file = s.path /\ s.loaded THEN [s EXCEPT !.enabled = TRUE]
    ELSE IF file \notin DOMAIN disk \/ fault # "none" THEN Unloaded(s)
    ELSE [s EXCEPT !.loaded = TRUE, !.book = disk[file], !.enabled = TRUE, !.path = file, !.rewritten = FALSE]

NewSlot ==
    [enabled |-> FALSE, active |-> FALSE, bestOnly |-> FALSE, maxDepth |-> 255, width |-> 1,
     path |-> "", loaded |-> FALSE, book |-> << >>, rewritten |-> FALSE]
Configured(s, o, disk, fault) ==
    InitSlot([s EXCEPT !.active = o.active, !.bestOnly = o.bestOnly, !.maxDepth = o.maxDepth, !.width = o.width],
             o.file, disk, fault)
Default == [file |-> "", active |-> FALSE, bestOnly |-> FALSE, maxDepth |-> 255, width |-> 1]

BookInit ==
    /\ job \in {[disk |-> d, options |-> [i \in Slots |-> Default], slot |-> [i \in Slots |-> NewSlot], steps |-> 0] : d \in Contents}
    /\ out = NoAnswer

Goes(next) == job' = [next EXCEPT !.steps = job.steps + 1]

(* An option of a slot changes: both slots are set up (PolyBook::init). *)
SetOption(i, o, fault) ==
    LET options == [job.options EXCEPT ![i] = o]
    IN  /\ o # job.options[i]
        /\ Goes([job EXCEPT !.options = options,
                            !.slot = [j \in Slots |-> Configured(job.slot[j], options[j], job.disk, fault)]])
        /\ out' = NoAnswer

(* "book generate": entries of weight 1, sorted by move, then slot 0 takes *)
(* the file.  A write may come to nothing half way.                        *)
Written(g) ==
    LET moves == {ToPg(g.moves[n]) : n \in 1..Len(g.moves)}
        nth(n) == CHOOSE m \in moves : Cardinality({x \in moves : x < m}) = n - 1
    IN  [n \in 1..Cardinality(moves) |-> [key |-> PolyglotKey(g.at), move |-> nth(n), weight |-> 1]]
Rewrites(slots, path) == [i \in Slots |-> [slots[i] EXCEPT !.rewritten = @ \/ slots[i].path = path]]
Generate(g, written) ==
    LET disk == [f \in DOMAIN job.disk \cup {g.path} |-> IF f = g.path THEN written ELSE job.disk[f]]
        slots == Rewrites(job.slot, g.path)
    IN  /\ \A n \in 1..Len(g.moves) : g.moves[n] \in g.at.legal
        /\ Goes([job EXCEPT !.disk = disk,
                            !.slot = IF written = Written(g) THEN [slots EXCEPT ![0] = InitSlot(@, g.path, disk, "none")] ELSE slots])
        /\ out' = NoAnswer

(* Engine::go and the command "book": slot 0, then slot 1. *)
Ask(p, forced) ==
    /\ \E first \in Probe(job.slot[0], p, forced) :
        \E move \in IF first = 0 THEN Probe(job.slot[1], p, forced) ELSE {first} :
            out' = [at |-> p, forced |-> forced, slot |-> IF first = 0 THEN 1 ELSE 0, move |-> move]
    /\ Goes(job)

BookNext ==
    /\ job.steps < MaxSteps
    /\ \/ \E i \in Slots, o \in Settings, fault \in {"none", "fails"} : SetOption(i, o, fault)
       \/ \E g \in Generations : \E written \in {Written(g), << >>} : Generate(g, written)
       \/ \E p \in Asked, forced \in BOOLEAN : Ask(p, forced)

-------------------------------------------------------------------------------
(* The search of a sorted file finds all the entries of a key, whether     *)
(* they fill more than a window or stand at its ends.                      *)
KeysFound ==
    \A i \in Slots : job.slot[i].enabled =>
        \A p \in Asked :
            LET book == job.slot[i].book
                entries == {j \in 0..(Len(book) - 1) : At(book, j).key = PolyglotKey(p)}
                k == FindFirstKey(book, PolyglotKey(p))
            IN  entries = IF k.count = 0 THEN {} ELSE k.first..(k.first + k.count - 1)

(* A slot answers with a legal move that its book gives for the position,  *)
(* never one that draws at once unless it is the only one, the heaviest if *)
(* asked to; it breaks only on a book with weights of zero or with a move  *)
(* that is not legal or promotes, next to others.                          *)
AnswersSound ==
    "move" \in DOMAIN out =>
        LET s == job.slot[out.slot]
            p == out.at
            entries == {j \in 1..Len(s.book) : s.book[j].key = PolyglotKey(p)}
            heaviest == {j \in entries : \A l \in entries : s.book[l].weight <= s.book[j].weight}
        IN  /\ out.move > 0 =>
                /\ s.enabled /\ (out.forced \/ s.active) /\ out.move \in p.legal
                /\ \E j \in entries : Masked(out.move) = s.book[j].move
                /\ out.move \in p.draws => Cardinality(entries) = 1
                /\ s.bestOnly => \/ \E j \in heaviest : Masked(out.move) = s.book[j].move
                                 \/ \E j \in heaviest : \E m \in p.draws : Masked(m) = s.book[j].move
            /\ out.move = Broken =>
                \/ \A j \in entries : s.book[j].weight = 0
                \/ Cardinality(entries) > 1 /\ \E j \in entries : \A m \in p.legal : Kind(m) # Promotion => ToPg(m) # s.book[j].move

(* An enabled slot holds what its file held when it was last written, or   *)
(* an earlier text of a file that has been written again under it; and it  *)
(* is the file of its option, but for a book just generated.               *)
SlotsLoaded ==
    \A i \in Slots : job.slot[i].enabled =>
        /\ job.slot[i].rewritten \/ job.slot[i].book = job.disk[job.slot[i].path]
        /\ i = 1 => job.slot[i].path = job.options[i].file

BookSound == KeysFound /\ AnswersSound /\ SlotsLoaded
===============================================================================
