------------------------------- MODULE Histories -------------------------------
(***************************************************************************)
(* The statistics of a search: what search adds to them, computed in 32    *)
(* bits by update_all_stats and the other updates (search.cpp), the entry  *)
(* they go to (StatsEntry, history.h), which two threads of a NUMA node    *)
(* may read and write at once, and the share of a table that each of them  *)
(* clears.  Where a product does not fit, the processor keeps its 32 bits. *)
(***************************************************************************)
EXTENDS Integers, Sequences, FiniteSets

CONSTANTS Updates, \* the calls looked at: [of: a name of Calls, and the facts it reads]
          Races,   \* [of, bonuses]: two threads at one shared entry
          Tables   \* [unit, threads]: tables shared by threads

VARIABLES job, out

NoUpdate == << >>
MaxInt == 2147483647
Abs(a) == IF a < 0 THEN -a ELSE a
Least(a, b) == IF a < b THEN a ELSE b
Most(a, b) == IF a > b THEN a ELSE b
Clamp(v, low, high) == Most(low, Least(v, high))
Flag(b) == IF b THEN 1 ELSE 0
(* Integer division of C++ rounds towards zero. *)
Quotient(a, b) == IF a < 0 THEN -((-a) \div b) ELSE a \div b

(* D of each table: no entry leaves [-D, D]. *)
Limit == [main |-> 7183, lowPly |-> 7183, capture |-> 10692, cont |-> 30000, pawn |-> 8192,
          correction |-> 1024, ttMove |-> 8192]

(* operator<<, without and with another thread between its read and write. *)
Moved(D, val, bonus) ==
    LET clamped == Clamp(bonus, -D, D) IN val + clamped - Quotient(val * Abs(clamped), D)

-------------------------------------------------------------------------------
(* fits: whether every product of the update is an int. *)
Fits(a, b) == b = 0 \/ Abs(a) <= MaxInt \div Abs(b)
To(table, bonus) == [table |-> table, bonus |-> bonus, fits |-> TRUE]
Scaled(table, bonus, num, den) ==
    IF Fits(bonus, num) THEN To(table, Quotient(bonus * num, den))
    ELSE [table |-> table, bonus |-> 0, fits |-> FALSE]

(* a * m / 131072 for 0 <= a, when a * m needs up to 32 bits: the product  *)
(* is negative for the processor.                                          *)
WrappedQuotient(a, m) ==
    LET low == (a % 32768) * m
        high == (a \div 32768) * m + low \div 32768
        whole == high % 4 = 0 /\ low % 32768 = 0
    IN  (high \div 4 + IF whole THEN 0 ELSE 1) - 32768

(* update_continuation_histories.  known: the moves before that are moves; *)
(* positive: those whose entry is positive.                                *)
Weight == <<1040, 780, 290, 502, 132, 418>>
Multiplier == <<94, 103, 110, 106, 119, 126, 121>>
ContUpdate(bonus, i, m) ==
    LET a == bonus * Weight[i]
        q == IF Fits(a, m) THEN Quotient(a * m, 131072) ELSE WrappedQuotient(a, m)
    IN  [table |-> "cont", bonus |-> q + 73 * Flag(i < 2), fits |-> Fits(a, m)]
ContUpdates(bonus, u) ==
    LET seen == {i \in 1..6 : i \in u.known /\ (u.inCheck => i <= 2)}
        count(i) == Cardinality({j \in seen \cap u.positive : j <= i})
        update(i) == IF i \in seen THEN <<ContUpdate(bonus, i, Multiplier[count(i) + 1])>> ELSE << >>
    IN  update(1) \o update(2) \o update(3) \o update(4) \o update(5) \o update(6)

QuietUpdates(bonus, u) ==
    <<To("main", bonus), Scaled("lowPly", bonus, 712, 1024)>>
    \o ContUpdates(Quotient(bonus * 750, 1024), u)
    \o <<Scaled("pawn", bonus, IF bonus > -4 THEN 1104 ELSE 459, 1024)>>

(* statScore of the move before, from the entries it was read from. *)
StatScore(s) ==
    IF s.capture THEN Quotient(873 * s.value, 128) + s.history
    ELSE Quotient(2252 * s.main + 1126 * s.cont1 + 1093 * s.cont2, 1024)

(* update_all_stats.  A negative bonus times an unsigned count is divided  *)
(* as a number below 2^64: its low 32 bits are the quotient rounded down.  *)
Bonus(u) ==
    LET plain == Least(133 * u.depth - 81, 1487) + 364 * Flag(u.isTT) + Quotient(StatScore(u.before), 28)
    IN  plain + IF u.pv THEN 0 ELSE (plain * (u.quiets + u.captures)) \div 256
Malus(u) == Least(968 * u.depth - 235, 2244)
QuietMalus(u) ==
    LET after[n \in 0..u.quiets] ==
            IF n = 0 THEN Quotient(Malus(u) * 1159, 1024) ELSE Quotient(after[n - 1] * 921, 1024)
    IN  after
AllStats(u) ==
    LET bonus == Bonus(u)
        malus == QuietMalus(u)
    IN  (IF u.bestQuiet
         THEN QuietUpdates(Quotient(bonus * 899, 1024), u)
              \o (IF u.quiets > 0 THEN QuietUpdates(-malus[1], u) \o QuietUpdates(-malus[u.quiets], u) ELSE << >>)
         ELSE <<Scaled("capture", bonus, 1427, 1024)>>)
        \o (IF u.early THEN ContUpdates(Quotient(-Malus(u) * 713, 1024), u) ELSE << >>)
        \o (IF u.captures > 0 THEN <<Scaled("capture", -Malus(u), 1489, 1024)>> ELSE << >>)
        \o (IF u.pv THEN << >> ELSE <<To("ttMove", IF u.isTT THEN 918 ELSE -747)>>)

(* A node that failed low: a bonus for the quiet move before. *)
BonusScale(u) ==
    Most(0, -241 - Quotient(StatScore(u.before), 98) + Least(59 * u.depth, 420) + 186 * Flag(u.late)
            + 142 * Flag(u.worse) + 159 * Flag(u.worseBefore))
ScaledBonus(u) == Least(150 * u.depth - 85, 1337) * BonusScale(u)
FailLow(u) ==
    ContUpdates(Quotient(ScaledBonus(u) * 263, 16384), u)
    \o <<Scaled("main", ScaledBonus(u), 215, 32768), Scaled("pawn", ScaledBonus(u), 324, 8192)>>

(* An early cutoff from the hash table; a re-search after a reduction; the *)
(* evaluation before and after; a singular move refuted; a capture before. *)
Cutoff(u) == QuietUpdates(Least(112 * u.depth, 695), u) \o ContUpdates(-2210, u)
Research(u) == ContUpdates(1334, u)
EvalDiff(u) ==
    LET diff == Clamp(-u.evals, -189, 194) + 60 IN <<To("main", diff * 11), To("pawn", diff * 13)>>
Refuted(u) == <<To("ttMove", -421 - 110 * u.depth), To("capture", 892)>>

(* update_correction_history; correction_value adds up what it reads. *)
Corrected(u) ==
    LET error == Quotient(u.error * u.depth * u.rate, 128)
        bonus == Quotient(1061 * Clamp(error, -256, 256), 1024)
    IN  <<To("correction", bonus), Scaled("correction", bonus, 150, 128), Scaled("correction", bonus, 186, 128),
          Scaled("correction", bonus, 130, 128), Scaled("correction", bonus, 70, 128)>>
CorrectionValue(c, known) ==
    15341 * c + 10569 * c + 12906 * (c + c) + IF known THEN 8761 * (c + c) ELSE 64049

Called(u) ==
    CASE u.of = "allStats" -> AllStats(u) [] u.of = "failLow" -> FailLow(u) [] u.of = "cutoff" -> Cutoff(u)
      [] u.of = "research" -> Research(u) [] u.of = "evalDiff" -> EvalDiff(u) [] u.of = "refuted" -> Refuted(u)
      [] u.of = "corrected" -> Corrected(u)

-------------------------------------------------------------------------------
(* clear_range: the share of one thread. *)
Share(t, i) ==
    LET size == t.unit * (CHOOSE p \in {1, 2, 4, 8, 16} : p >= t.threads /\ p < 2 * t.threads)
        start == (i * size) \div t.threads
        end == IF i + 1 = t.threads THEN size ELSE ((i + 1) * size) \div t.threads
    IN  [size |-> size, cells |-> start..(end - 1)]

Reader == [read |-> FALSE, val |-> 0, left |-> << >>]
HistInit ==
    /\ \/ job \in {[kind |-> "update", call |-> u] : u \in Updates}
       \/ job \in {[kind |-> "clear", table |-> t] : t \in Tables}
       \/ job \in {[kind |-> "race", of |-> r.of, entry |-> e,
                    at |-> [t \in {1, 2} |-> [Reader EXCEPT !.left = r.bonuses[t]]]] :
                     r \in Races, e \in {-586, 0}}
    /\ out = NoUpdate

Update ==
    /\ job.kind = "update" /\ out = NoUpdate
    /\ out' = Called(job.call) /\ UNCHANGED job
Clear ==
    /\ job.kind = "clear" /\ out = NoUpdate
    /\ out' = [i \in 1..job.table.threads |-> Share(job.table, i - 1)] /\ UNCHANGED job
ReadEntry(t) ==
    /\ job.kind = "race" /\ ~job.at[t].read /\ job.at[t].left # << >>
    /\ job' = [job EXCEPT !.at[t].read = TRUE, !.at[t].val = job.entry]
    /\ UNCHANGED out
WriteEntry(t) ==
    /\ job.kind = "race" /\ job.at[t].read
    /\ job' = [job EXCEPT !.entry = Moved(Limit[job.of], job.at[t].val, Head(job.at[t].left)),
                          !.at[t] = [Reader EXCEPT !.left = Tail(job.at[t].left)]]
    /\ UNCHANGED out
HistNext == Update \/ Clear \/ \E t \in {1, 2} : job.kind = "race" /\ (ReadEntry(t) \/ WriteEntry(t))

-------------------------------------------------------------------------------
(* An update moves an entry towards its bonus and never out of its range,  *)
(* whatever the entry was, and does so too if another thread has written   *)
(* in between.                                                             *)
Entries(D) == {-D, -D + 1, -586, -1, 0, 1, 73, D - 1, D}
Bounded ==
    /\ job.kind = "update" => \A n \in DOMAIN out :
        LET D == Limit[out[n].table] IN
        \A val \in Entries(D) :
            LET new == Moved(D, val, out[n].bonus) IN
            /\ Abs(new) <= D
            /\ out[n].bonus >= 0 => new >= val
            /\ out[n].bonus <= 0 => new <= val
    /\ job.kind = "race" => Abs(job.entry) <= Limit[job.of]

(* "overflows happen for multipliers larger than 900": as a rule, every    *)
(* product is an int.                                                      *)
ProductsFit == job.kind = "update" => \A n \in DOMAIN out : out[n].fits
(* The exception: a node that fails low at depth, after a quiet move of    *)
(* bad statistics.                                                         *)
FitsButFailLow ==
    job.kind = "update" /\ ~ProductsFit =>
        /\ job.call.of = "failLow" /\ ~job.call.before.capture /\ job.call.depth >= 7
        /\ ScaledBonus(job.call) > 1248850 /\ StatScore(job.call.before) < -26000
(* "scaledBonus ranges from 0 to roughly 2.3M", and a correction is small  *)
(* against the scores of tablebases.                                       *)
RangesHold ==
    /\ job.kind = "update" /\ job.call.of = "failLow" => ScaledBonus(job.call) \in 0..2300000
    /\ \A c \in {-1024, 1024}, known \in BOOLEAN : Abs(CorrectionValue(c, known)) \div 131072 < 1000

(* The threads of a node clear every cell of their table, each its own. *)
SharesPartition ==
    job.kind = "clear" /\ out # NoUpdate =>
        /\ UNION {out[i].cells : i \in DOMAIN out} = 0..(out[1].size - 1)
        /\ \A i, j \in DOMAIN out : i # j => out[i].cells \cap out[j].cells = {}
        /\ \A i \in DOMAIN out : out[i].cells # {}

HistoriesSound == Bounded /\ FitsButFailLow /\ RangesHold /\ SharesPartition
================================================================================
