-------------------------------- MODULE TbFile --------------------------------
(***************************************************************************)
(* The files of the Syzygy tables (tbprobe.cpp): which of them             *)
(* Tablebases::init looks for, the hash table that finds them again, the   *)
(* mapping of a file by the first thread that probes it, and the           *)
(* decompression of a value, with words of Width bits.                     *)
(***************************************************************************)
EXTENDS Integers, Sequences, FiniteSets, SequencesExt

CONSTANTS
    Books,          \* [minLen, lowest, tree]: a canonical code and what its symbols stand for
    Messages,       \* [book, blocks, span, single]: the symbols of every block
    Filings,        \* sequences of [key, key2] of the tables found
    Mappers,        \* [exists, intact]: files to be mapped
    Probers,        \* the threads that probe one table
    Size            \* buckets of the hash table, 4096 in the code

VARIABLES job, out
Nothing == [none |-> 0]

Width == 8

-------------------------------------------------------------------------------
(* set_sizes and set_symlen.                                               *)
Lens(b) == 1..Len(b.lowest)                      \* index of a length: its bits are minLen + index - 1
Bits(b, i) == b.minLen + i - 1
RECURSIVE Base(_, _)
Base(b, i) == IF i = Len(b.lowest) THEN 0 ELSE (Base(b, i + 1) + b.lowest[i] - b.lowest[i + 1]) \div 2
Base64(b, i) == (Base(b, i) * 2 ^ (Width - Bits(b, i))) % 2 ^ Width
Leaf(b, s) == b.tree[s].right = 4095
RECURSIVE Symlen(_, _)
Symlen(b, s) == IF Leaf(b, s) THEN 0 ELSE Symlen(b, b.tree[s].left) + Symlen(b, b.tree[s].right) + 1

(* What the generator, outside the code, writes of a message: its bits, the*)
(* lengths of the blocks, and where every span values the middle one is.   *)
RECURSIVE Expand(_, _)
Expand(b, s) == IF Leaf(b, s) THEN <<b.tree[s].left>> ELSE Expand(b, b.tree[s].left) \o Expand(b, b.tree[s].right)
Written(b, symbols) == FlattenSeq([i \in DOMAIN symbols |-> Expand(b, symbols[i])])
LengthOf(b, s) == CHOOSE i \in Lens(b) : b.lowest[i] <= s /\ \A j \in 1..i - 1 : b.lowest[j] > s
CodeWord(b, s) ==
    LET i == LengthOf(b, s)
        n == Bits(b, i)
        v == Base(b, i) + s - b.lowest[i]
    IN [k \in 1..n |-> (v \div 2 ^ (n - k)) % 2]
Padding == 3
File(m) ==
    LET b == Books[m.book]
        held == [i \in DOMAIN m.blocks |-> Len(Written(b, m.blocks[i]))]
        lengths == held \o [i \in 1..Padding |-> 4]
        before(i) == FoldLeft(+, 0, SubSeq(lengths, 1, i - 1))
        all == FoldLeft(+, 0, held)
        sparse(k) == LET at == k * m.span + m.span \div 2
                         i == CHOOSE i \in DOMAIN lengths : before(i) <= at /\ at < before(i) + lengths[i]
                     IN [block |-> i, offset |-> at - before(i)]
    IN [blockLength |-> [i \in DOMAIN lengths |-> lengths[i] - 1],
        sparseIndex |-> [k \in 1..(all + m.span - 1) \div m.span |-> sparse(k - 1)],
        data |-> [i \in DOMAIN m.blocks |-> FlattenSeq([s \in DOMAIN m.blocks[i] |-> CodeWord(b, m.blocks[i][s])])],
        size |-> all]

-------------------------------------------------------------------------------
(* decompress_pairs.                                                       *)
RECURSIVE Settle(_, _, _)
Word(bits, from, n) ==
    LET bit(i) == IF i <= Len(bits) THEN bits[i] ELSE 0
        v[k \in 0..n] == IF k = 0 THEN 0 ELSE 2 * v[k - 1] + bit(from + k - 1)
    IN v[n]
(* The block of an offset that may lie before or behind the one it is      *)
(* counted from.                                                           *)
Settle(f, block, offset) ==
    IF offset < 0 THEN Settle(f, block - 1, offset + f.blockLength[block - 1] + 1)
    ELSE IF offset > f.blockLength[block] THEN Settle(f, block + 1, offset - (f.blockLength[block] + 1))
    ELSE [block |-> block, offset |-> offset]
RECURSIVE Symbol(_, _, _, _, _, _)
Symbol(b, bits, buf, held, next, offset) ==
    LET i == CHOOSE l \in Lens(b) : buf >= Base64(b, l) /\ \A j \in 1..l - 1 : buf < Base64(b, j)
        sym == (buf - Base64(b, i)) \div 2 ^ (Width - Bits(b, i)) + b.lowest[i]
        kept == (buf * 2 ^ Bits(b, i)) % 2 ^ Width
        left == held - Bits(b, i)
        refill == left <= Width \div 2
        size == IF refill THEN left + Width \div 2 ELSE left
    IN IF offset < Symlen(b, sym) + 1 THEN [sym |-> sym, offset |-> offset]
       ELSE Symbol(b, bits,
                   IF refill THEN kept + Word(bits, next, Width \div 2) * 2 ^ (Width - size) ELSE kept,
                   size, IF refill THEN next + Width \div 2 ELSE next, offset - (Symlen(b, sym) + 1))
RECURSIVE Value(_, _)
Value(b, at) ==
    IF Leaf(b, at.sym) THEN b.tree[at.sym].left
    ELSE LET left == b.tree[at.sym].left IN
         IF at.offset < Symlen(b, left) + 1 THEN Value(b, [at EXCEPT !.sym = left])
         ELSE Value(b, [sym |-> b.tree[at.sym].right, offset |-> at.offset - (Symlen(b, left) + 1)])
DecompressPairs(m, f, idx) ==
    LET b == Books[m.book]
        k == f.sparseIndex[idx \div m.span + 1]
        at == Settle(f, k.block, k.offset + (idx % m.span) - m.span \div 2)
        bits == f.data[at.block]
    IN IF m.single # "no" THEN m.single
       ELSE Value(b, Symbol(b, bits, Word(bits, 1, Width), Width, Width + 1, at.offset))
Decompress ==
    /\ job.kind = "message" /\ out = Nothing /\ UNCHANGED job
    /\ \E f \in {File(job.m)} : out' = [values |-> [idx \in 1..f.size |-> DecompressPairs(job.m, f, idx - 1)]]

-------------------------------------------------------------------------------
(* TBTables.  A bucket holds a key and the table inserted under it, 0 for  *)
(* none; the last one stays empty.                                         *)
Buckets == 0..Size
Home(key) == key % Size
Free == [key |-> 0, table |-> 0]
RECURSIVE Insert(_, _, _)
Insert(hash, entry, bucket) ==
    IF bucket = Size THEN [hash |-> hash, ok |-> FALSE]
    ELSE LET other == hash[bucket] IN
         IF other.key = entry.key \/ other.table = 0
         THEN [hash |-> [hash EXCEPT ![bucket] = entry], ok |-> TRUE]
         ELSE IF Home(other.key) > Home(entry.key)
         THEN Insert([hash EXCEPT ![bucket] = entry], other, bucket + 1)
         ELSE Insert(hash, entry, bucket + 1)
Get(hash, key) ==
    LET hit == CHOOSE b \in Home(key)..Size :
                  /\ hash[b].key = key \/ hash[b].table = 0
                  /\ \A c \in Home(key)..b - 1 : hash[c].key # key /\ hash[c].table # 0
    IN hash[hit].table
Add(acc, table, key) ==
    IF ~acc.ok THEN acc ELSE Insert(acc.hash, [key |-> key, table |-> table], Home(key))
Fill ==
    /\ job.kind = "filing" /\ out = Nothing /\ UNCHANGED job
    /\ out' = FoldLeft(LAMBDA acc, t : Add(Add(acc, t, job.tables[t].key), t, job.tables[t].key2),
                       [hash |-> [b \in Buckets |-> Free], ok |-> TRUE],
                       [t \in DOMAIN job.tables |-> t])

-------------------------------------------------------------------------------
(* The tables init looks for, as the pieces of either side from PAWN (1)   *)
(* to QUEEN (5), the names of their files, and the name that mapped opens  *)
(* for a position.                                                         *)
Pt == 1..5
Falling(n) == {p \in [1..n -> Pt] : \A i \in 1..n - 1 : p[i + 1] <= p[i]}
AddedTables ==
    ((UNION {Falling(n) : n \in 1..5}) \X {<< >>})
    \cup ((UNION {Falling(n) : n \in 2..4}) \X Falling(1))
    \cup (Falling(3) \X Falling(2))
    \cup {<<<<p[1]>>, <<p[2]>>>> : p \in Falling(2)}
    \cup {p \in Falling(2) \X Falling(2) :
             p[2][1] <= p[1][1] /\ p[2][2] <= (IF p[1][1] = p[2][1] THEN p[1][2] ELSE p[2][1])}
(* The leading colour has the fewer pawns, if it has any.                  *)
Pawns(side) == Cardinality({i \in DOMAIN side : side[i] = 1})
PawnCount(t) ==
    LET w == Pawns(t[1]) b == Pawns(t[2]) IN
    IF b = 0 \/ (w > 0 /\ b >= w) THEN <<w, b>> ELSE <<b, w>>
Look(k) ==
    /\ job.kind = "list" /\ out = Nothing /\ UNCHANGED job
    /\ out' = [lists |-> {t \in AddedTables : Len(t[1]) + Len(t[2]) = k}]

-------------------------------------------------------------------------------
(* mapped, by several threads; out is what they share.                     *)
Mapping == job.kind = "mapping"
At(t, pc) == Mapping /\ out.pc[t] = pc /\ UNCHANGED job
Go(t, pc) == [out EXCEPT !.pc[t] = pc]
Returns(t, shared) == [shared EXCEPT !.pc[t] = "done", !.got[t] = shared.base, !.holder = IF @ = t THEN 0 ELSE @]
SeeReady(t) ==
    At(t, "look") /\ out' = IF out.ready THEN Returns(t, out) ELSE Go(t, "lock")
LockFile(t) == At(t, "lock") /\ out.holder = 0 /\ out' = [Go(t, "again") EXCEPT !.holder = t]
LookAgain(t) ==
    At(t, "again") /\ out' = IF out.ready THEN Returns(t, out) ELSE Go(t, "map")
MapFile(t) ==
    /\ At(t, "map")
    /\ LET whole == job.exists /\ job.intact IN
       out' = [Go(t, IF whole THEN "set" ELSE "publish") EXCEPT
                  !.base = IF whole THEN "address" ELSE "null", !.maps = @ + 1]
SetTable(t) == At(t, "set") /\ out' = [Go(t, "publish") EXCEPT !.set = TRUE]
Publish(t) == At(t, "publish") /\ out' = [Returns(t, out) EXCEPT !.ready = TRUE]

-------------------------------------------------------------------------------
FileInit ==
    \/ job \in {[kind |-> "message", m |-> m] : m \in Messages} /\ out = Nothing
    \/ job \in {[kind |-> "filing", tables |-> f] : f \in Filings} /\ out = Nothing
    \/ job = [kind |-> "list"] /\ out = Nothing
    \/ /\ job \in {[kind |-> "mapping", exists |-> m.exists, intact |-> m.intact] : m \in Mappers}
       /\ out = [pc |-> [t \in Probers |-> "look"], got |-> [t \in Probers |-> "none"], holder |-> 0,
                 ready |-> FALSE, base |-> "null", set |-> FALSE, maps |-> 0]
FileNext ==
    \/ Decompress \/ Fill \/ \E k \in 1..5 : Look(k)
    \/ \E t \in Probers : SeeReady(t) \/ LockFile(t) \/ LookAgain(t) \/ MapFile(t) \/ SetTable(t) \/ Publish(t)

-------------------------------------------------------------------------------
(* Every value of a message comes out as it went in.                       *)
ValuesKept ==
    "values" \in DOMAIN out =>
        LET m == job.m IN
        \A i \in DOMAIN out.values :
            out.values[i] = IF m.single # "no" THEN m.single ELSE Written(Books[m.book], FlattenSeq(m.blocks))[i]
(* Every table that could be filed is found under both its keys, nothing   *)
(* is found under another, and no search runs off the end.                 *)
TablesFound ==
    "hash" \in DOMAIN out /\ out.ok =>
        /\ out.hash[Size] = Free
        /\ \A key \in 1..3 * Size :
              Get(out.hash, key) =
                 LET of == {t \in DOMAIN job.tables : key \in {job.tables[t].key, job.tables[t].key2}} IN
                 IF of = {} THEN 0 ELSE CHOOSE t \in of : TRUE
(* Every balance of pieces is looked for once, under one of its two names. *)
EveryMaterial ==
    "lists" \in DOMAIN out =>
        LET k == CHOOSE k \in 1..5 : \A t \in out.lists : Len(t[1]) + Len(t[2]) = k IN
        /\ \A n \in 0..k : \A w \in Falling(n), b \in Falling(k - n) :
              (<<w, b>> \in out.lists) # (<<b, w>> \in out.lists) \/ (w = b /\ <<w, b>> \in out.lists)
        /\ \A t \in out.lists : LET c == PawnCount(t) IN c[2] > 0 => c[1] > 0 /\ c[1] <= c[2]
(* A thread that gets an address finds the table set up, and the file is   *)
(* mapped once.                                                            *)
MappedOnce ==
    Mapping =>
        /\ out.maps <= 1
        /\ \A t \in Probers : out.got[t] = "address" => out.set /\ out.ready
        /\ \A t \in Probers : out.pc[t] = "done" => out.got[t] = IF job.exists /\ job.intact THEN "address" ELSE "null"
FilesSound == ValuesKept /\ TablesFound /\ EveryMaterial /\ MappedOnce
===============================================================================
