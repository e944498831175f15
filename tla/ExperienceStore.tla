--------------------------- MODULE ExperienceStore ---------------------------
(***************************************************************************)
(* The experience store (experience.cpp): what the engine has learnt about *)
(* positions, kept in memory with a least-recently-used order and in a     *)
(* text file that is rewritten after every search worth recording.         *)
(*                                                                         *)
(* Callers: the UCI thread (setoption, start_thinking, ucinewgame) and the *)
(* main search thread (on_search_complete).  One mutex serializes them, so *)
(* a call is one step, but for on_search_complete: the file it rewrites is *)
(* written a line at a time, and the process may die between two lines.    *)
(*                                                                         *)
(* An entry keeps its move, depth and visits; its score and evaluation go  *)
(* wherever its depth goes and are left out.  A search that the filters of *)
(* on_search_complete reject changes nothing and is left out too.          *)
(***************************************************************************)
EXTENDS Naturals, FiniteSets, SequencesExt

CONSTANTS Keys,        \* what compute_key makes of positions
          Moves,       \* best moves
          Depths,      \* searched depths
          Files,       \* values of "Experience File"
          DefaultFile, \* its default value
          NoFile,      \* its empty value
          MaxVisits,   \* numeric_limits<uint16_t>::max()
          MaxEntries,  \* Settings::maxEntries, 0 is no limit
          InitialDisk, \* what the files may hold at first
          MaxSearches  \* bound: searches recorded

ASSUME SizesAssumption == /\ Depths \subseteq Nat \ {0}
                          /\ MaxVisits \in Nat \ {0} /\ MaxEntries \in Nat
                          /\ MaxSearches \in Nat
ASSUME NamesAssumption == NoFile \notin Files /\ DefaultFile \in Files

Entry  == [move : Moves, depth : Depths, visits : 0 .. MaxVisits]
Record == [key : Keys, move : Moves, depth : Depths, visits : 0 .. MaxVisits]

ASSUME DiskAssumption == InitialDisk \subseteq [Files -> Seq(Record)]

VARIABLES settings,    \* the options, as update_settings left them
          initialized, \* settingsInitialized
          mem,         \* table, lru, and the number of entries (stats)
          dirty, pendingFlush,
          disk,        \* the lines of each file; an absent file has none
          writing,     \* a file is open and being written
          out,         \* the lines still to be written
          writable,    \* files can be opened for writing
          disturbed,   \* they could not be, once
          recent,      \* the last call to return, and the key of a probe
          searches,    \* searches recorded
          seen         \* what searches or the first files have recorded

callVars == <<dirty, pendingFlush, recent>>
fileVars == <<writing, out>>
vars == <<settings, initialized, mem, dirty, pendingFlush, disk, writing, out,
          writable, disturbed, recent, searches, seen>>

Settings == [enabled : BOOLEAN, readonly : BOOLEAN, book : BOOLEAN,
             file : Files \cup {NoFile}]
Empty == [table |-> <<>>, lru |-> <<>>, unique |-> 0]

Rest == ~writing
-----------------------------------------------------------------------------
(* The table and its order.                                                *)

Least(a, b)    == IF a < b THEN a ELSE b
Greatest(a, b) == IF a < b THEN b ELSE a

Entries(t, key) == IF key \in DOMAIN t THEN t[key] ELSE <<>>

(* The place of a move among the entries of a key, or 0. *)
Find(es, move) == IF \E n \in DOMAIN es : es[n].move = move
                  THEN CHOOSE n \in DOMAIN es : es[n].move = move
                  ELSE 0

(* touch_lru: the key becomes the last to go.  Mutant: the first time only. *)
TouchNew(lru, key) == IF \E n \in DOMAIN lru : lru[n] = key
                      THEN lru ELSE Append(lru, key)
Touch(lru, key) == IF \E n \in DOMAIN lru : lru[n] = key
                   THEN Append(RemoveAt(lru, CHOOSE n \in DOMAIN lru : lru[n] = key), key)
                   ELSE Append(lru, key)

(* How many entries the keys have. *)
Total(t, keys) ==
  LET sum[n \in 0 .. Len(keys)] == IF n = 0 THEN 0 ELSE sum[n - 1] + Len(t[keys[n]])
  IN sum[Len(keys)]

(* The visits of an entry seen again.  Mutants: they wrap around, or grow. *)
VisitsGrow(a, b) == a + b
VisitsWrap(a, b) == (a + b) % (MaxVisits + 1)
Visits(a, b) == Least(a + b, MaxVisits)

(* An entry is added to those of its key, or merged with the one it has. *)
Merge(m, r) ==
  LET es == Entries(m.table, r.key)
      n  == Find(es, r.move)
      again == [es EXCEPT ![n].depth  = Greatest(@, r.depth),
                          ![n].visits = Visits(@, r.visits)]
      first == Append(es, [move |-> r.move, depth |-> r.depth,
                           visits |-> r.visits])
  IN [table  |-> [key \in DOMAIN m.table \cup {r.key} |->
                   IF key # r.key THEN m.table[key] ELSE IF n = 0 THEN first ELSE again],
      lru    |-> Touch(m.lru, r.key),
      unique |-> m.unique + IF n = 0 THEN 1 ELSE 0]

(* How many keys are too many.  Mutant: one more may stay. *)
ExcessLate(m) == IF MaxEntries = 0 THEN 0
                 ELSE Greatest(Cardinality(DOMAIN m.table), MaxEntries + 1) - (MaxEntries + 1)
Excess(m) == IF MaxEntries = 0 THEN 0
             ELSE Greatest(Cardinality(DOMAIN m.table), MaxEntries) - MaxEntries

(* enforce_limit: the keys at the front of lru go. *)
Enforce(m) ==
  LET gone == {m.lru[n] : n \in 1 .. Excess(m)}
      count == Total(m.table, SubSeq(m.lru, 1, Excess(m)))
  IN [table  |-> [key \in DOMAIN m.table \ gone |-> m.table[key]],
      lru    |-> SubSeq(m.lru, Excess(m) + 1, Len(m.lru)),
      unique |-> Greatest(m.unique, count) - count]

(* The keys in the order in which save_table_unlocked visits them.         *)
Order(m) == m.lru

(* save_table_unlocked: the lines it writes. *)
Lines(t, key) == [n \in 1 .. Len(t[key]) |->
                   [key |-> key, move |-> t[key][n].move, depth |-> t[key][n].depth,
                    visits |-> t[key][n].visits]]
Saved(m) ==
  LET keys == Order(m)
      lines[n \in 0 .. Len(keys)] ==
        IF n = 0 THEN <<>> ELSE lines[n - 1] \o Lines(m.table, keys[n])
  IN lines[Len(keys)]

(* load_table_unlocked: the table a file is read into. *)
Merged(lines) ==
  LET m[n \in 0 .. Len(lines)] == IF n = 0 THEN Empty ELSE Merge(m[n - 1], lines[n])
  IN m[Len(lines)]
Loaded(d, file) == IF file = NoFile THEN Empty ELSE Enforce(Merged(d[file]))

(* The file can be rewritten. *)
Opens(s) == ~s.readonly /\ s.file # NoFile /\ writable
-----------------------------------------------------------------------------
Default == [enabled |-> TRUE, readonly |-> FALSE, book |-> FALSE,
            file |-> DefaultFile]

Init ==
  /\ disk \in InitialDisk
  /\ settings = Default
  /\ initialized = FALSE /\ mem = Empty
  /\ dirty = FALSE /\ pendingFlush = 0
  /\ writing = FALSE /\ out = <<>>
  /\ writable = TRUE /\ disturbed = FALSE /\ recent = <<"start">> /\ searches = 0
  /\ seen = UNION {{<<r.key, r.move>> : r \in ToSet(disk[f])} : f \in Files}

(* A table that is dropped is saved first, if it needs to be.              *)
SavesFirst(new) ==
  /\ settings.enabled /\ dirty /\ ~settings.readonly
  /\ ~new.enabled \/ new.file # settings.file \/ new.readonly

(* A table has to be read.  Mutant: not when the store is enabled again. *)
ReadsOnce(new) == ~initialized \/ new.file # settings.file
Reads(new) == ~initialized \/ new.file # settings.file \/ ~settings.enabled

(* update_settings: Engine's constructor calls it, then each setoption. *)
UpdateSettings(new) ==
  /\ Rest
  /\ disk' = IF SavesFirst(new) /\ Opens(settings)
             THEN [disk EXCEPT ![settings.file] = Saved(mem)] ELSE disk
  /\ settings' = new /\ initialized' = TRUE
  /\ IF new.enabled /\ ~Reads(new)
     THEN UNCHANGED <<mem, dirty, pendingFlush>>
     ELSE /\ mem' = IF new.enabled THEN Loaded(disk', new.file) ELSE Empty
          /\ dirty' = FALSE /\ pendingFlush' = 0
  /\ recent' = <<"update">>
  /\ UNCHANGED <<fileVars, writable,
                 disturbed, searches, seen>>

Startup == ~initialized /\ UpdateSettings(settings)

(* setoption changes one option. *)
SetOption ==
  /\ initialized
  /\ \/ \E b \in BOOLEAN : \/ UpdateSettings([settings EXCEPT !.enabled = b])
                           \/ UpdateSettings([settings EXCEPT !.readonly = b])
                           \/ UpdateSettings([settings EXCEPT !.book = b])
     \/ \E f \in Files \cup {NoFile} :
          UpdateSettings([settings EXCEPT !.file = f])

(* on_new_position: the book finds the position, which is fresh again. *)
OnNewPosition(key) ==
  /\ Rest /\ initialized
  /\ settings.enabled /\ settings.book /\ key \in DOMAIN mem.table
  /\ mem' = [mem EXCEPT !.lru = Touch(mem.lru, key)]
  /\ recent' = <<"probe", key>>
  /\ UNCHANGED <<settings, initialized, dirty, pendingFlush, disk, fileVars,
                 writable, disturbed, searches, seen>>

(* Who may record.  Mutant: readonly is not asked. *)
RecordsReadonly == settings.enabled
Records == settings.enabled /\ ~settings.readonly

(* flush_unlocked returns. *)
Flushed == pendingFlush' = 0 /\ dirty' = FALSE

(* on_search_complete, up to the opening of the file, which truncates it.  *)
(* Its last statement flushes always, so that pendingFlush never gets near *)
(* FlushInterval and the flush that this would trigger is left out.        *)
OnSearchComplete(key, move, depth) ==
  /\ Rest /\ initialized /\ Records /\ searches < MaxSearches
  /\ mem' = Enforce(Merge(mem, [key |-> key, move |-> move, depth |-> depth,
                                visits |-> 1]))
  /\ \/ /\ Opens(settings)
        /\ disk' = [disk EXCEPT ![settings.file] = <<>>]
        /\ writing' = TRUE /\ out' = Saved(mem')
        /\ dirty' = TRUE /\ pendingFlush' = pendingFlush + 1
        /\ UNCHANGED recent
     \/ /\ ~Opens(settings)
        /\ Flushed /\ recent' = <<"search">>
        /\ UNCHANGED <<disk, fileVars>>
  /\ searches' = searches + 1
  /\ seen' = seen \cup {<<key, move>>}
  /\ UNCHANGED <<settings, initialized, writable, disturbed>>

(* A line of the file. *)
WriteLine ==
  /\ ~Rest /\ out # <<>>
  /\ disk' = [disk EXCEPT ![settings.file] = Append(@, Head(out))]
  /\ out' = Tail(out)
  /\ UNCHANGED <<settings, initialized, mem, writing, callVars, writable,
                 disturbed, searches, seen>>

(* The file is closed and on_search_complete returns. *)
CloseFile ==
  /\ ~Rest /\ out = <<>>
  /\ writing' = FALSE /\ Flushed /\ recent' = <<"search">>
  /\ UNCHANGED <<settings, initialized, mem, disk, out, writable,
                 disturbed, searches, seen>>

(* flush_unlocked, for ucinewgame and for the button "Experience Sync".  A *)
(* save that cannot open its file says nothing.                            *)
Flush ==
  /\ Rest /\ initialized
  /\ disk' = IF dirty /\ Opens(settings)
             THEN [disk EXCEPT ![settings.file] = Saved(mem)] ELSE disk
  /\ Flushed /\ recent' = <<"sync">>
  /\ UNCHANGED <<settings, initialized, mem, fileVars, writable,
                 disturbed, searches, seen>>

(* What load_text_format makes of a line that was cut off: nothing if the  *)
(* depth is missing, one visit if the visits are, else a smaller number.   *)
Torn(r) == {[r EXCEPT !.depth = d, !.visits = 1] :
              d \in {x \in Depths : x <= r.depth}}
           \cup {[r EXCEPT !.visits = v] : v \in 0 .. r.visits}

(* The process is killed, between two lines or within one, and started     *)
(* again with the default options.                                         *)
Crash ==
  /\ initialized
  /\ \/ UNCHANGED disk
     \/ /\ ~Rest /\ out # <<>>
        /\ \E r \in Torn(Head(out)) :
             disk' = [disk EXCEPT ![settings.file] = Append(@, r)]
  /\ settings' = Default
  /\ initialized' = FALSE /\ mem' = Empty /\ dirty' = FALSE
  /\ pendingFlush' = 0 /\ writing' = FALSE /\ out' = <<>> /\ recent' = <<"start">>
  /\ UNCHANGED <<writable, disturbed, searches, seen>>

(* Another program locks the files, and releases them. *)
Disturb ==
  /\ writable' = ~writable /\ disturbed' = TRUE /\ recent' = <<"disturb">>
  /\ UNCHANGED <<settings, initialized, mem, dirty, pendingFlush, disk, fileVars,
                 searches, seen>>

Next == \/ Startup \/ SetOption \/ WriteLine \/ CloseFile \/ Flush \/ Crash
        \/ Disturb
        \/ \E key \in Keys :
             \/ OnNewPosition(key)
             \/ \E move \in Moves, depth \in Depths :
                  OnSearchComplete(key, move, depth)

Spec == Init /\ [][Next]_vars
-----------------------------------------------------------------------------
(* Types; the values an entry may have are those of Record. *)
TypeOK ==
  /\ settings \in Settings /\ initialized \in BOOLEAN
  /\ DOMAIN mem.table \subseteq Keys /\ mem.unique \in Nat
  /\ \A key \in DOMAIN mem.table :
       \A n \in DOMAIN mem.table[key] : mem.table[key][n] \in Entry
  /\ dirty \in BOOLEAN /\ pendingFlush \in {0, 1}
  /\ \A f \in Files : \A n \in DOMAIN disk[f] : disk[f][n] \in Record
  /\ writable \in BOOLEAN /\ disturbed \in BOOLEAN /\ searches \in 0 .. MaxSearches

(* The table, the order and the statistics describe the same store: every  *)
(* key is in the order once, has at least one entry and no two for a move; *)
(* unique counts them; there are not too many (experience.cpp keeps the    *)
(* three by hand in on_search_complete, enforce_limit and loading).        *)
StoreConsistent ==
  LET t == mem.table
  IN /\ IsInjective(mem.lru) /\ ToSet(mem.lru) = DOMAIN t
     /\ \A key \in DOMAIN t :
          /\ t[key] # <<>>
          /\ \A a, b \in DOMAIN t[key] : t[key][a].move = t[key][b].move => a = b
     /\ mem.unique = Total(t, mem.lru)
     /\ MaxEntries # 0 => Cardinality(DOMAIN t) <= MaxEntries

(* The table the file would be read into. *)
OnDisk == Loaded(disk, settings.file).table

(* "Make sure the experience file is persisted after each completed search *)
(* so external GUIs that immediately inspect the file observe the freshly  *)
(* recorded moves": when on_search_complete has returned, the file holds   *)
(* the whole table, if it could be written at all.                         *)
PersistedAfterSearch ==
  recent = <<"search">> /\ Rest /\ writable /\ settings.file # NoFile
    => OnDisk = mem.table

(* A file that has been read again after any history of searches, book     *)
(* probes and evictions gives back the same table, in the same order and   *)
(* with the same count: what save_table_unlocked writes,                   *)
(* load_table_unlocked and merge_entry_for_load read.                      *)
RoundTrip ==
  Rest => LET again == [d \in Files |-> Saved(mem)]
          IN \A f \in Files : Loaded(again, f) = mem

(* Nothing waits in memory for a flush: ucinewgame, Experience Sync, a     *)
(* change of file and a clean exit have nothing left to write.             *)
CleanAtRest == Rest => ~dirty /\ pendingFlush = 0

(* "Experience Readonly permits analysis without mutating the store": no   *)
(* step of a readonly session writes a file, and none but a change of      *)
(* settings or a crash alters the table.                                   *)
ReadonlyNeverWrites ==
  [][settings.readonly => /\ disk' = disk
                          /\ settings' = settings => mem'.table = mem.table]_vars

(* While a store is in use it only learns: no entry gets fewer visits or   *)
(* less depth, and the only key to leave is the least recently used one,   *)
(* which the position the book has just found is not.                      *)
OnlyLearns ==
  [][settings.enabled /\ initialized /\ settings' = settings /\ initialized'
       => \A key \in DOMAIN mem.table :
            IF key \in DOMAIN mem'.table
            THEN \A n \in DOMAIN mem.table[key] :
                   /\ mem'.table[key][n].move = mem.table[key][n].move
                   /\ mem'.table[key][n].depth >= mem.table[key][n].depth
                   /\ mem'.table[key][n].visits >= mem.table[key][n].visits
            ELSE /\ key = Head(mem.lru)
                 /\ MaxEntries > 1 => recent # <<"probe", key>>]_vars

(* As long as every save can open its file, an enabled store holds what    *)
(* its file holds, whatever options were changed in whatever order: it is  *)
(* read again whenever update_settings has dropped it or the file is       *)
(* another one.  After a search that could write its file they agree       *)
(* whatever has gone before.                                               *)
InStep == initialized /\ settings.enabled /\ settings.file # NoFile /\ Rest
StoreIsItsFile == /\ InStep /\ ~disturbed => OnDisk = mem.table
                  /\ PersistedAfterSearch

(* No position and no move comes out of nowhere, though a crash may cut a  *)
(* line in two.                                                            *)
NothingInvented ==
  /\ \A f \in Files : {<<r.key, r.move>> : r \in ToSet(disk[f])} \subseteq seen
  /\ \A key \in DOMAIN mem.table :
       \A e \in ToSet(mem.table[key]) : <<key, e.move>> \in seen

(* The table and its file stand for each other: what is written is read    *)
(* back the same, at rest they agree, and neither holds what was not seen. *)
FileHoldsTable == RoundTrip /\ StoreIsItsFile /\ NothingInvented

(* "Experience Sync forces an immediate flush" (README): after it, the     *)
(* file holds the table, if it can be written now.                         *)
SyncForcesFlush ==
  recent = <<"sync">> /\ writable /\ InStep /\ ~settings.readonly
    => OnDisk = mem.table
=============================================================================
