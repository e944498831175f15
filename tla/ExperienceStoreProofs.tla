------------------------ MODULE ExperienceStoreProofs ------------------------
(***************************************************************************)
(* What is proved of ExperienceStore for any keys, moves, depths, files    *)
(* and limits.  In this order: the control (nothing is left to write at    *)
(* rest, a readonly session alters nothing); counting the entries of some  *)
(* keys; what touch_lru, merge_entry_for_load and enforce_limit make of a  *)
(* consistent store; that the lines save_table_unlocked writes are read    *)
(* back as the same store; and, from these, the invariant SInv and the     *)
(* theorems on types, consistency, the file and learning.                  *)
(***************************************************************************)
EXTENDS ExperienceStore, Induction, SequenceTheorems, FiniteSetTheorems

(* A file is open for writing only in a writable, running session; what    *)
(* has not been initialized, or is disabled, holds nothing.                *)
WritesOnlyWhenAllowed == ~Rest => initialized /\ settings.enabled
                                              /\ ~settings.readonly
NothingBeforeStartup == ~initialized => ~settings.readonly
DisabledIsEmpty == initialized /\ ~settings.enabled => mem.table = <<>>
MemRecord == mem = [table |-> mem.table, lru |-> mem.lru, unique |-> mem.unique]

IInv == /\ WritesOnlyWhenAllowed
        /\ NothingBeforeStartup
        /\ DisabledIsEmpty
        /\ MemRecord
        /\ CleanAtRest

(* What enforce_limit and loading give is a record of the three parts. *)
LEMMA EnforceIsRecord ==
  ASSUME NEW x
  PROVE  Enforce(x) = [table  |-> Enforce(x).table, lru |-> Enforce(x).lru,
                       unique |-> Enforce(x).unique]
BY DEF Enforce

(* ... and so is the table read from a file. *)
LEMMA LoadedIsRecord ==
  ASSUME NEW d, NEW file
  PROVE  Loaded(d, file) = [table  |-> Loaded(d, file).table,
                            lru    |-> Loaded(d, file).lru,
                            unique |-> Loaded(d, file).unique]
BY EnforceIsRecord DEF Loaded, Empty

(* The store starts closed and empty. *)
LEMMA InitIInv == Init => IInv
<1> SUFFICES ASSUME Init PROVE IInv
  OBVIOUS
<1>1. WritesOnlyWhenAllowed
  BY DEF Init, WritesOnlyWhenAllowed, Rest
<1>2. NothingBeforeStartup
  BY DEF Init, NothingBeforeStartup, Default
<1>3. DisabledIsEmpty
  BY DEF Init, DisabledIsEmpty
<1>4. MemRecord
  BY DEF Init, MemRecord, Empty
<1>5. CleanAtRest
  BY DEF Init, CleanAtRest
<1>. QED
  BY <1>1, <1>2, <1>3, <1>4, <1>5 DEF IInv

(* update_settings, with whatever settings. *)
LEMMA UpdateIInv ==
  ASSUME IInv, NEW new, UpdateSettings(new)
  PROVE  IInv'
<1>1. CASE new.enabled /\ ~Reads(new)
  <2>1. UNCHANGED <<mem, dirty, pendingFlush, writing>> /\ settings' = new
        /\ initialized'
    BY <1>1 DEF UpdateSettings, fileVars
  <2>. QED
    BY <2>1, <1>1 DEF IInv, UpdateSettings, WritesOnlyWhenAllowed, Rest, MemRecord,
       NothingBeforeStartup, DisabledIsEmpty, CleanAtRest
<1>2. CASE ~(new.enabled /\ ~Reads(new))
  <2>1. /\ mem' = IF new.enabled THEN Loaded(disk', new.file) ELSE Empty
        /\ dirty' = FALSE /\ pendingFlush' = 0 /\ writing' = writing
        /\ settings' = new /\ initialized' /\ Rest
    BY <1>2 DEF UpdateSettings, fileVars
  <2>2. MemRecord'
    BY <2>1, LoadedIsRecord DEF MemRecord, Empty
  <2>3. DisabledIsEmpty'
    BY <2>1 DEF DisabledIsEmpty, Empty
  <2>. QED
    BY <2>1, <2>2, <2>3 DEF IInv, WritesOnlyWhenAllowed, Rest,
       NothingBeforeStartup, CleanAtRest
<1>. QED
  BY <1>1, <1>2

(* Every step keeps the invariant. *)
LEMMA StepIInv == IInv /\ [Next]_vars => IInv'
<1> SUFFICES ASSUME IInv, [Next]_vars PROVE IInv'
  OBVIOUS
<1>. USE DEF IInv, WritesOnlyWhenAllowed, NothingBeforeStartup, DisabledIsEmpty,
             CleanAtRest, Rest, fileVars
<1>1. CASE Startup
  BY <1>1, UpdateIInv DEF Startup
<1>2. CASE SetOption
  BY <1>2, UpdateIInv DEF SetOption
<1>3. CASE WriteLine
  BY <1>3 DEF WriteLine, callVars, MemRecord
<1>4. CASE CloseFile
  BY <1>4 DEF CloseFile, Flushed, MemRecord
<1>5. CASE Flush
  BY <1>5 DEF Flush, Flushed, MemRecord
<1>6. CASE Crash
  <2>1. settings'.readonly = FALSE
    BY <1>6 DEF Crash, Default
  <2>. QED
    BY <1>6, <2>1 DEF Crash, MemRecord, Empty
<1>7. CASE Disturb
  BY <1>7 DEF Disturb, MemRecord
<1>8. ASSUME NEW key \in Keys, OnNewPosition(key)
      PROVE  IInv'
  <2>1. mem' = [table |-> mem.table, lru |-> Touch(mem.lru, key),
                unique |-> mem.unique]
    BY <1>8 DEF OnNewPosition, MemRecord
  <2>. QED
    BY <1>8, <2>1 DEF OnNewPosition, MemRecord
<1>9. ASSUME NEW key \in Keys, NEW move \in Moves, NEW depth \in Depths,
             OnSearchComplete(key, move, depth)
      PROVE  IInv'
  <2>1. MemRecord'
    BY <1>9, EnforceIsRecord DEF OnSearchComplete, MemRecord
  <2>2. UNCHANGED <<settings, initialized>> /\ initialized /\ settings.enabled
        /\ ~settings.readonly
    BY <1>9 DEF OnSearchComplete, Records
  <2>3. CleanAtRest'
    <3>1. CASE ~Opens(settings)
      BY <1>9, <3>1 DEF OnSearchComplete, Flushed
    <3>2. CASE Opens(settings)
      BY <1>9, <3>2 DEF OnSearchComplete
    <3>. QED
      BY <3>1, <3>2
  <2>. QED
    BY <2>1, <2>2, <2>3
<1>10. CASE UNCHANGED vars
  BY <1>10 DEF vars, MemRecord
<1>. QED
  BY <1>1, <1>2, <1>3, <1>4, <1>5, <1>6, <1>7, <1>8, <1>9, <1>10 DEF Next
-----------------------------------------------------------------------------
(* The invariant holds in every state. *)
THEOREM Invariance == Spec => []IInv
<1>. QED
  BY InitIInv, StepIInv, PTL DEF Spec

(* on_search_complete returns with everything flushed, so that no other    *)
(* call ever finds something to flush.                                     *)
THEOREM NothingPending == Spec => []CleanAtRest
<1>1. IInv => CleanAtRest
  BY DEF IInv
<1>. QED
  BY <1>1, Invariance, PTL

(* A step of a readonly session writes no file. *)
LEMMA StepKeepsDisk ==
  IInv /\ [Next]_vars /\ settings.readonly => disk' = disk
<1> SUFFICES ASSUME IInv, [Next]_vars, settings.readonly PROVE disk' = disk
  OBVIOUS
<1>1. initialized /\ Rest
  BY DEF IInv, WritesOnlyWhenAllowed, NothingBeforeStartup
<1>2. ASSUME NEW new, UpdateSettings(new) PROVE disk' = disk
  BY <1>2 DEF UpdateSettings, SavesFirst
<1>3. CASE Startup \/ SetOption
  BY <1>2, <1>3 DEF Startup, SetOption
<1>4. CASE Flush
  BY <1>4 DEF Flush, Opens
<1>5. CASE Crash
  BY <1>1, <1>5 DEF Crash
<1>6. CASE WriteLine \/ CloseFile
  BY <1>1, <1>6 DEF WriteLine, CloseFile
<1>7. ASSUME NEW key \in Keys, NEW move \in Moves, NEW depth \in Depths,
             OnNewPosition(key) \/ OnSearchComplete(key, move, depth)
      PROVE  disk' = disk
  BY <1>7 DEF OnNewPosition, OnSearchComplete, Records
<1>8. ASSUME NEW key \in Keys, OnNewPosition(key) PROVE disk' = disk
  BY <1>8 DEF OnNewPosition
<1>9. CASE Disturb \/ UNCHANGED vars
  BY <1>9 DEF Disturb, vars
<1>. QED
  BY <1>3, <1>4, <1>5, <1>6, <1>7, <1>8, <1>9 DEF Next

(* Nor does it alter the table, unless it changes the settings. *)
LEMMA StepKeepsTable ==
  IInv /\ [Next]_vars /\ settings.readonly /\ settings' = settings
    => mem'.table = mem.table
<1> SUFFICES ASSUME IInv, [Next]_vars, settings.readonly, settings' = settings
             PROVE  mem'.table = mem.table
  OBVIOUS
<1>1. initialized /\ Rest
  BY DEF IInv, WritesOnlyWhenAllowed, NothingBeforeStartup
<1>2. ASSUME NEW new, UpdateSettings(new) PROVE mem'.table = mem.table
  <2>1. new = settings
    BY <1>2 DEF UpdateSettings
  <2>2. CASE settings.enabled
    BY <1>1, <1>2, <2>1, <2>2 DEF UpdateSettings, Reads
  <2>3. CASE ~settings.enabled
    <3>1. mem' = Empty
      BY <1>2, <2>1, <2>3 DEF UpdateSettings
    <3>2. mem.table = <<>>
      BY <1>1, <2>3 DEF IInv, DisabledIsEmpty
    <3>. QED
      BY <3>1, <3>2 DEF Empty
  <2>. QED
    BY <2>2, <2>3
<1>3. CASE Startup \/ SetOption
  BY <1>2, <1>3 DEF Startup, SetOption
<1>4. CASE Crash
  <2>1. settings'.readonly = FALSE
    BY <1>4 DEF Crash, Default
  <2>. QED
    BY <2>1
<1>5. CASE Flush \/ Disturb \/ UNCHANGED vars
  BY <1>5 DEF Flush, Disturb, vars
<1>6. CASE WriteLine \/ CloseFile
  BY <1>1, <1>6 DEF WriteLine, CloseFile
<1>7. ASSUME NEW key \in Keys, OnNewPosition(key)
      PROVE  mem'.table = mem.table
  <2>1. mem' = [table |-> mem.table, lru |-> Touch(mem.lru, key),
                unique |-> mem.unique]
    BY <1>7 DEF IInv, OnNewPosition, MemRecord
  <2>. QED
    BY <2>1
<1>8. ASSUME NEW key \in Keys, NEW move \in Moves, NEW depth \in Depths,
             OnSearchComplete(key, move, depth)
      PROVE  mem'.table = mem.table
  BY <1>8 DEF OnSearchComplete, Records
<1>. QED
  BY <1>3, <1>4, <1>5, <1>6, <1>7, <1>8 DEF Next

(* Readonly sessions: no file is written, no entry learnt. *)
THEOREM ReadonlyIsReadonly == Spec => ReadonlyNeverWrites
<1>1. IInv /\ [Next]_vars
        => [settings.readonly => /\ disk' = disk
                                 /\ settings' = settings
                                      => mem'.table = mem.table]_vars
  BY StepKeepsDisk, StepKeepsTable
<1>. QED
  BY <1>1, Invariance, PTL DEF Spec, ReadonlyNeverWrites
-----------------------------------------------------------------------------
(* Counting the entries of some keys: what the loop adds up. *)
Counts(t, keys) == \A n \in DOMAIN keys : Len(t[keys[n]]) \in Nat

(* The count comes about one key after the other: Total is the last of the *)
(* sums, and each sum adds the entries of one more key.                    *)
LEMMA TotalRec ==
  ASSUME NEW S, NEW keys \in Seq(S), NEW t, Counts(t, keys)
  PROVE  \E sum \in [0 .. Len(keys) -> Nat] :
           /\ sum[0] = 0 /\ Total(t, keys) = sum[Len(keys)]
           /\ \A n \in 1 .. Len(keys) : sum[n] = sum[n - 1] + Len(t[keys[n]])
<1>. DEFINE N == Len(keys)
            Def(f) == f = [n \in 0 .. N |-> IF n = 0 THEN 0 ELSE f[n - 1] + Len(t[keys[n]])]
            sum == CHOOSE f : Def(f)
            step == [n \in 1 .. N |-> [x \in Nat |-> x + Len(t[keys[n]])]]
<1>1. N \in Nat /\ DOMAIN keys = 1 .. N
  OBVIOUS
<1>2. step \in [1 .. N -> [Nat -> Nat]]
  BY <1>1 DEF Counts
<1>3. PICK f \in [0 .. N -> Nat] : f[0] = 0
      /\ \A n \in 1 .. N : f[n] = step[n][f[n - 1]]
  <2>1. 0 \in Nat /\ step \in Steps(N, Nat)
    BY <1>2 DEF Steps
  <2>. HIDE DEF step, N
  <2>2. \E f : Recursive(f, N, Nat, 0, step)
    BY <1>1, <2>1, RecExists
  <2>. QED
    BY <2>2 DEF Recursive
<1>4. Def(f)
  <2>1. \A n \in 0 .. N : n # 0 => n \in 1 .. N /\ n - 1 \in 0 .. N
    BY <1>1
  <2>2. \A n \in 0 .. N : n # 0 => f[n] = f[n - 1] + Len(t[keys[n]])
    <3>1. \A n \in 1 .. N, x \in Nat : step[n][x] = x + Len(t[keys[n]])
      OBVIOUS
    <3>. HIDE DEF step, N
    <3>. QED
      BY <1>3, <2>1, <3>1
  <2>3. f = [n \in 0 .. N |-> f[n]]
    OBVIOUS
  <2>. HIDE DEF step
  <2>. QED
    BY <1>3, <2>2, <2>3
<1>5. Def(sum)
  <2>. HIDE DEF Def
  <2>. QED
    BY <1>4
<1>. HIDE DEF sum
<1>6. /\ DOMAIN sum = 0 .. N /\ sum[0] = 0
      /\ \A n \in 1 .. N : sum[n] = sum[n - 1] + Len(t[keys[n]])
  BY <1>1, <1>5
<1>7. \A n \in 0 .. N : sum[n] \in Nat
  <2>. DEFINE T == {n \in 0 .. N : sum[n] \in Nat}
  <2>1. 0 \in T
    BY <1>1, <1>6
  <2>2. ASSUME NEW n \in 0 .. (N - 1), n \in T PROVE n + 1 \in T
    <3>1. n + 1 \in 1 .. N /\ n + 1 - 1 = n
      BY <1>1
    <3>2. sum[n + 1] = sum[n] + Len(t[keys[n + 1]])
      BY <1>6, <3>1
    <3>. QED
      BY <1>1, <2>2, <3>1, <3>2 DEF Counts
  <2>. HIDE DEF T, N
  <2>3. 0 .. N \subseteq T
    BY <1>1, <2>1, <2>2, UpTo
  <2>. QED
    BY <2>3 DEF T
<1>8. Total(t, keys) = sum[N]
  BY DEF Total, sum
<1>9. sum \in [0 .. N -> Nat]
  <2>1. sum = [n \in 0 .. N |-> sum[n]]
    BY <1>5
  <2>. QED
    BY <1>7, <2>1
<1>. HIDE DEF Def
<1>. QED
  BY <1>6, <1>8, <1>9

(* The count is a number. *)
LEMMA TotalNat ==
  ASSUME NEW S, NEW keys \in Seq(S), NEW t, Counts(t, keys)
  PROVE  Total(t, keys) \in Nat
<1>1. Len(keys) \in 0 .. Len(keys)
  OBVIOUS
<1>. QED
  BY <1>1, TotalRec

(* Whatever adds them up comes to the same number. *)
LEMMA TotalUnique ==
  ASSUME NEW S, NEW keys \in Seq(S), NEW t, Counts(t, keys), NEW f, f[0] = 0,
         \A n \in 1 .. Len(keys) : f[n] = f[n - 1] + Len(t[keys[n]])
  PROVE  Total(t, keys) = f[Len(keys)] /\ Total(t, keys) \in Nat
<1>. DEFINE N == Len(keys)
<1>1. N \in Nat
  OBVIOUS
<1>2. PICK sum \in [0 .. N -> Nat] :
           /\ sum[0] = 0 /\ Total(t, keys) = sum[N]
           /\ \A n \in 1 .. N : sum[n] = sum[n - 1] + Len(t[keys[n]])
  BY TotalRec
<1>. DEFINE T == {n \in 0 .. N : sum[n] = f[n]}
<1>3. 0 \in T
  BY <1>1, <1>2
<1>4. ASSUME NEW n \in 0 .. (N - 1), n \in T PROVE n + 1 \in T
  <2>1. n + 1 \in 1 .. N /\ n + 1 - 1 = n
    BY <1>1
  <2>2. sum[n + 1] = sum[n] + Len(t[keys[n + 1]])
        /\ f[n + 1] = f[n] + Len(t[keys[n + 1]])
    BY <1>2, <2>1
  <2>. QED
    BY <1>4, <2>1, <2>2
<1>5. 0 .. N \subseteq T
  <2>. HIDE DEF T, N
  <2>. QED
    BY <1>1, <1>3, <1>4, UpTo
<1>. QED
  BY <1>1, <1>2, <1>5

(* No keys have no entries. *)
LEMMA TotalEmpty == ASSUME NEW t PROVE Total(t, <<>>) = 0
<1>1. Counts(t, <<>>) /\ <<>> \in Seq({0}) /\ Len(<<>>) = 0
  BY DEF Counts
<1>2. [n \in {0} |-> 0][0] = 0
  OBVIOUS
<1>. DEFINE f == [n \in {0} |-> 0]
<1>3. \A n \in 1 .. Len(<<>>) : f[n] = f[n - 1] + Len(t[<<>>[n]])
  BY <1>1
<1>. HIDE DEF f
<1>4. f[0] = 0
  BY <1>2 DEF f
<1>. QED
  BY <1>1, <1>3, <1>4, TotalUnique

(* Only the numbers count. *)
LEMMA TotalSame ==
  ASSUME NEW S, NEW keys \in Seq(S), NEW t, NEW u, Counts(t, keys),
         \A n \in DOMAIN keys : Len(u[keys[n]]) = Len(t[keys[n]])
  PROVE  Total(u, keys) = Total(t, keys) /\ Total(t, keys) \in Nat
<1>1. PICK sum \in [0 .. Len(keys) -> Nat] :
           /\ sum[0] = 0 /\ Total(t, keys) = sum[Len(keys)]
           /\ \A n \in 1 .. Len(keys) : sum[n] = sum[n - 1] + Len(t[keys[n]])
  BY TotalRec
<1>2. Counts(u, keys) /\ DOMAIN keys = 1 .. Len(keys) /\ Len(keys) \in Nat
  BY DEF Counts
<1>3. \A n \in 1 .. Len(keys) : sum[n] = sum[n - 1] + Len(u[keys[n]])
  BY <1>1, <1>2
<1>. QED
  BY <1>1, <1>2, <1>3, TotalUnique

(* One key has its own entries. *)
LEMMA TotalOne ==
  ASSUME NEW S, NEW key \in S, NEW t, Len(t[key]) \in Nat
  PROVE  Counts(t, <<key>>) /\ Total(t, <<key>>) = Len(t[key])
<1>. DEFINE one == <<key>>
            f == [i \in 0 .. 1 |-> IF i = 0 THEN 0 ELSE Len(t[key])]
<1>1. one \in Seq(S) /\ Len(one) = 1 /\ one[1] = key /\ DOMAIN one = 1 .. 1
  OBVIOUS
<1>2. f[0] = 0 /\ f[1] = Len(t[key])
  OBVIOUS
<1>. HIDE DEF one, f
<1>3. Counts(t, one)
  BY <1>1 DEF Counts
<1>4. \A i \in 1 .. Len(one) : f[i] = f[i - 1] + Len(t[one[i]])
  BY <1>1, <1>2
<1>5. \A g : g[0] = 0 /\ (\A i \in 1 .. Len(one) : g[i] = g[i - 1] + Len(t[one[i]]))
               => Total(t, one) = g[Len(one)]
  BY <1>1, <1>3, TotalUnique
<1>6. Total(t, one) = f[Len(one)]
  BY <1>2, <1>4, <1>5
<1>. QED
  BY <1>1, <1>2, <1>3, <1>6 DEF one

(* One sequence of keys after another. *)
LEMMA TotalConcat ==
  ASSUME NEW S, NEW a \in Seq(S), NEW b \in Seq(S), NEW t, Counts(t, a), Counts(t, b)
  PROVE  Counts(t, a \o b) /\ Total(t, a \o b) = Total(t, a) + Total(t, b)
<1>. DEFINE la == Len(a)
            lb == Len(b)
            c == a \o b
<1>1. /\ la \in Nat /\ lb \in Nat /\ c \in Seq(S) /\ Len(c) = la + lb
         /\ DOMAIN c = 1 .. (la + lb)
      /\ \A n \in 1 .. (la + lb) : c[n] = IF n <= la THEN a[n] ELSE b[n - la]
      /\ DOMAIN a = 1 .. la /\ DOMAIN b = 1 .. lb
  OBVIOUS
<1>2. PICK f \in [0 .. la -> Nat] :
           /\ f[0] = 0 /\ Total(t, a) = f[la]
           /\ \A n \in 1 .. la : f[n] = f[n - 1] + Len(t[a[n]])
  BY TotalRec
<1>3. PICK g \in [0 .. lb -> Nat] :
           /\ g[0] = 0 /\ Total(t, b) = g[lb]
           /\ \A n \in 1 .. lb : g[n] = g[n - 1] + Len(t[b[n]])
  BY TotalRec
<1>. DEFINE h == [n \in 0 .. (la + lb) |-> IF n <= la THEN f[n] ELSE f[la] + g[n - la]]
<1>. HIDE DEF la, lb, c
<1>4. Counts(t, c)
  BY <1>1 DEF Counts
<1>5. h[0] = 0
  BY <1>1, <1>2
<1>6. ASSUME NEW n \in 1 .. (la + lb) PROVE h[n] = h[n - 1] + Len(t[c[n]])
  <2>1. CASE n <= la
    <3>1. h[n] = f[n] /\ h[n - 1] = f[n - 1] /\ n \in 1 .. la /\ c[n] = a[n]
      BY <1>1, <2>1
    <3>. QED
      BY <1>2, <3>1
  <2>2. CASE n = la + 1
    <3>1. h[n] = f[la] + g[1] /\ h[n - 1] = f[la] /\ c[n] = b[1]
          /\ 1 \in 1 .. lb /\ 1 - 1 = 0
      BY <1>1, <2>2
    <3>2. g[1] = g[0] + Len(t[b[1]]) /\ Len(t[b[1]]) \in Nat
      BY <1>1, <1>3, <3>1 DEF Counts
    <3>3. f[la] \in Nat
      BY <1>1, <1>2
    <3>. QED
      BY <1>3, <3>1, <3>2, <3>3
  <2>3. CASE n > la + 1
    <3>1. /\ n - la \in 1 .. lb /\ n - la - 1 \in 0 .. lb
             /\ n - 1 - la = n - la - 1
          /\ h[n] = f[la] + g[n - la] /\ h[n - 1] = f[la] + g[n - la - 1]
             /\ c[n] = b[n - la]
      <4>1. n \in Int /\ n <= la + lb /\ ~(n <= la) /\ ~(n - 1 <= la)
            /\ n - 1 \in 0 .. (la + lb)
            /\ n \in 0 .. (la + lb) /\ n - 1 - la = n - la - 1
        BY <1>1, <2>3
      <4>2. h[n] = f[la] + g[n - la] /\ h[n - 1] = f[la] + g[n - 1 - la]
        BY <4>1
      <4>. HIDE DEF h
      <4>. QED
        BY SMTT(30), <1>1, <2>3, <4>1, <4>2
    <3>2. g[n - la] = g[n - la - 1] + Len(t[b[n - la]])
          /\ Len(t[b[n - la]]) \in Nat
      BY <1>1, <1>3, <3>1 DEF Counts
    <3>3. f[la] \in Nat /\ g[n - la - 1] \in Nat
      BY <1>1, <1>2, <1>3, <3>1
    <3>. QED
      BY SMTT(30), <3>1, <3>2, <3>3
  <2>. QED
    BY <1>1, <2>1, <2>2, <2>3
<1>7. h[la + lb] = f[la] + g[lb]
  <2>1. CASE lb = 0
    BY <1>1, <1>2, <1>3, <2>1
  <2>2. CASE lb # 0
    BY <1>1, <2>2
  <2>. QED
    BY <2>1, <2>2
<1>. HIDE DEF h
<1>8. Total(t, c) = h[la + lb]
  <2>1. \A n \in 1 .. Len(c) : h[n] = h[n - 1] + Len(t[c[n]])
    BY <1>1, <1>6
  <2>2. Total(t, c) = h[Len(c)]
    BY <1>1, <1>4, <1>5, <2>1, TotalUnique
  <2>. QED
    BY <1>1, <2>2
<1>. QED
  BY <1>2, <1>3, <1>4, <1>7, <1>8 DEF la, lb, c
-----------------------------------------------------------------------------
(* What a table, its order and its count are made of. *)
Tables == UNION {[D -> Seq(Entry)] : D \in SUBSET Keys}
Mems   == [table : Tables, lru : Seq(Keys), unique : Nat]

(* A table maps some of the keys to sequences of entries. *)
LEMMA TableFacts ==
  ASSUME NEW t
  PROVE  t \in Tables <=> /\ DOMAIN t \subseteq Keys
         /\ t = [key \in DOMAIN t |-> t[key]]
                          /\ \A key \in DOMAIN t : t[key] \in Seq(Entry)
<1>1. ASSUME t \in Tables
      PROVE  /\ DOMAIN t \subseteq Keys /\ t = [key \in DOMAIN t |-> t[key]]
             /\ \A key \in DOMAIN t : t[key] \in Seq(Entry)
  <2>1. PICK D \in SUBSET Keys : t \in [D -> Seq(Entry)]
    BY <1>1 DEF Tables
  <2>. QED
    BY <2>1
<1>2. ASSUME /\ DOMAIN t \subseteq Keys /\ t = [key \in DOMAIN t |-> t[key]]
             /\ \A key \in DOMAIN t : t[key] \in Seq(Entry)
      PROVE  t \in Tables
  <2>1. t \in [DOMAIN t -> Seq(Entry)]
    BY <1>2
  <2>. QED
    BY <1>2, <2>1 DEF Tables
<1>. QED
  BY <1>1, <1>2

(* The elements of a sequence, and of one with an element more. *)
LEMMA SetFacts ==
  ASSUME NEW S, NEW s \in Seq(S), NEW x
  PROVE  /\ ToSet(s) \subseteq S /\ ToSet(Append(s, x)) = ToSet(s) \cup {x}
         /\ x \in ToSet(s) <=> \E n \in 1 .. Len(s) : s[n] = x
<1>1. DOMAIN s = 1 .. Len(s) /\ Len(s) \in Nat
  OBVIOUS
<1>2. ToSet(s) = {s[n] : n \in 1 .. Len(s)}
  BY <1>1 DEF ToSet
<1>3. /\ DOMAIN Append(s, x) = 1 .. (Len(s) + 1)
      /\ \A n \in 1 .. (Len(s) + 1) : Append(s, x)[n] = IF n = Len(s) + 1 THEN x ELSE s[n]
  <2>1. s \in Seq(S \cup {x}) /\ x \in S \cup {x}
    BY <1>1
  <2>. QED
    BY <1>1, <2>1
<1>4. ToSet(Append(s, x)) = {Append(s, x)[n] : n \in 1 .. (Len(s) + 1)}
  BY <1>3 DEF ToSet
<1>5. ToSet(Append(s, x)) = ToSet(s) \cup {x}
  <2>1. ASSUME NEW y \in ToSet(s) \cup {x} PROVE y \in ToSet(Append(s, x))
    <3>1. CASE y = x
      BY <1>1, <1>3, <1>4, <3>1
    <3>2. CASE y \in ToSet(s)
      <4>1. PICK n \in 1 .. Len(s) : s[n] = y
        BY <1>2, <3>2
      <4>2. n \in 1 .. (Len(s) + 1) /\ n # Len(s) + 1
        BY <1>1
      <4>. QED
        BY <1>3, <1>4, <4>1, <4>2
    <3>. QED
      BY <2>1, <3>1, <3>2
  <2>2. ASSUME NEW y \in ToSet(Append(s, x)) PROVE y \in ToSet(s) \cup {x}
    <3>1. PICK n \in 1 .. (Len(s) + 1) : Append(s, x)[n] = y
      BY <1>4
    <3>2. n # Len(s) + 1 => n \in 1 .. Len(s)
      BY <1>1
    <3>. QED
      BY <1>2, <1>3, <3>1, <3>2
  <2>. QED
    BY <2>1, <2>2
<1>. QED
  BY <1>1, <1>2, <1>5

(* A part of a sequence, place by place. *)
LEMMA PartFacts ==
  ASSUME NEW S, NEW s \in Seq(S), NEW m \in 1 .. (Len(s) + 1), NEW n \in (m - 1) .. Len(s)
  PROVE  /\ SubSeq(s, m, n) \in Seq(S) /\ Len(SubSeq(s, m, n)) = n - m + 1
         /\ \A i \in 1 .. (n - m + 1) : SubSeq(s, m, n)[i] = s[m + i - 1]
<1>1. m \in Int /\ n \in Int /\ (~(m <= n) => n - m + 1 = 0)
  OBVIOUS
<1>2. \A i \in m .. n : s[i] \in S
  OBVIOUS
<1>. QED
  BY <1>1, <1>2, SubSeqProperties

(* touch_lru puts the key last and leaves the order of the others. *)
LEMMA TouchFacts ==
  ASSUME NEW lru \in Seq(Keys), IsInjective(lru), NEW key \in Keys
  PROVE  \E rest \in Seq(Keys) :
           /\ Touch(lru, key) = Append(rest, key) /\ IsInjective(rest)
           /\ ToSet(rest) = ToSet(lru) \ {key}
           /\ key \notin ToSet(lru) => rest = lru
           /\ \A t : Counts(t, lru) => /\ Counts(t, rest)
                /\ Total(t, lru) = Total(t, rest) + IF key \in ToSet(lru) THEN Len(t[key]) ELSE 0
<1>1. DOMAIN lru = 1 .. Len(lru) /\ Len(lru) \in Nat
  OBVIOUS
<1>2. CASE key \notin ToSet(lru)
  <2>1. Touch(lru, key) = Append(lru, key) /\ ToSet(lru) = ToSet(lru) \ {key}
    BY <1>2 DEF Touch, ToSet
  <2>2. \A t : Counts(t, lru) => Total(t, lru) = Total(t, lru) + 0
    BY TotalRec
  <2>. QED
    BY <1>2, <2>1, <2>2
<1>3. CASE key \in ToSet(lru)
  <2>. DEFINE n == CHOOSE n \in DOMAIN lru : lru[n] = key
              a == SubSeq(lru, 1, n - 1)
              b == SubSeq(lru, n + 1, Len(lru))
              rest == a \o b
  <2>1. \E m \in DOMAIN lru : lru[m] = key
    BY <1>3 DEF ToSet
  <2>2. n \in 1 .. Len(lru) /\ lru[n] = key
        /\ Touch(lru, key) = Append(RemoveAt(lru, n), key)
    BY <1>1, <2>1 DEF Touch
  <2>3. RemoveAt(lru, n) = rest
    BY DEF RemoveAt
  <2>. HIDE DEF n
  <2>4. /\ a \in Seq(Keys) /\ Len(a) = n - 1
           /\ \A i \in 1 .. (n - 1) : a[i] = lru[i]
        /\ b \in Seq(Keys) /\ Len(b) = Len(lru) - n
           /\ \A i \in 1 .. (Len(lru) - n) : b[i] = lru[n + i]
    <3>1. n \in 1 .. Len(lru) /\ n - 1 \in 0 .. Len(lru)
          /\ n + 1 \in 1 .. (Len(lru) + 1)
          /\ Len(lru) \in (n + 1) - 1 .. Len(lru) /\ n - 1 \in 1 - 1 .. Len(lru)
             /\ 1 \in 1 .. (Len(lru) + 1)
      BY <1>1, <2>2
    <3>2. a \in Seq(Keys) /\ Len(a) = n - 1
          /\ \A i \in 1 .. (n - 1) : a[i] = lru[i]
      <4>1. /\ a \in Seq(Keys) /\ Len(a) = (n - 1) - 1 + 1
            /\ \A i \in 1 .. ((n - 1) - 1 + 1) : a[i] = lru[1 + i - 1]
        BY <3>1, PartFacts
      <4>. HIDE DEF a
      <4>2. (n - 1) - 1 + 1 = n - 1 /\ \A i \in 1 .. (n - 1) : 1 + i - 1 = i
        BY <3>1
      <4>. QED
        BY <4>1, <4>2
    <3>3. b \in Seq(Keys) /\ Len(b) = Len(lru) - n
          /\ \A i \in 1 .. (Len(lru) - n) : b[i] = lru[n + i]
      <4>1. /\ b \in Seq(Keys) /\ Len(b) = Len(lru) - (n + 1) + 1
            /\ \A i \in 1 .. (Len(lru) - (n + 1) + 1) : b[i] = lru[(n + 1) + i - 1]
        BY <3>1, PartFacts
      <4>. HIDE DEF b
      <4>2. Len(lru) - (n + 1) + 1 = Len(lru) - n
            /\ \A i \in 1 .. (Len(lru) - n) : (n + 1) + i - 1 = n + i
        BY <1>1, <3>1
      <4>. QED
        BY <4>1, <4>2
    <3>. QED
      BY <3>2, <3>3
  <2>. HIDE DEF a, b
  <2>5. /\ rest \in Seq(Keys) /\ Len(rest) = Len(lru) - 1
           /\ DOMAIN rest = 1 .. (Len(lru) - 1)
        /\ \A i \in 1 .. (Len(lru) - 1) : rest[i] = IF i < n THEN lru[i] ELSE lru[i + 1]
    <3>1. /\ rest \in Seq(Keys) /\ Len(rest) = Len(a) + Len(b)
          /\ \A i \in 1 .. (Len(a) + Len(b)) : rest[i] = IF i <= Len(a) THEN a[i] ELSE b[i - Len(a)]
      BY <2>4, ConcatProperties
    <3>. HIDE DEF rest
    <3>2. n \in 1 .. Len(lru) /\ Len(a) + Len(b) = Len(lru) - 1
      BY <1>1, <2>2, <2>4
    <3>3. DOMAIN rest = 1 .. (Len(lru) - 1)
      BY <3>1, <3>2
    <3>4. ASSUME NEW i \in 1 .. (Len(lru) - 1), i < n PROVE rest[i] = lru[i]
      <4>1. i <= Len(a) /\ i \in 1 .. (n - 1)
        BY <1>1, <2>4, <3>2, <3>4
      <4>. QED
        BY <2>4, <3>1, <3>2, <4>1
    <3>5. ASSUME NEW i \in 1 .. (Len(lru) - 1), ~(i < n)
          PROVE rest[i] = lru[i + 1]
      <4>1. ~(i <= Len(a)) /\ i - Len(a) \in 1 .. (Len(lru) - n)
            /\ n + (i - Len(a)) = i + 1
        BY <1>1, <2>4, <3>2, <3>5
      <4>. QED
        BY <2>4, <3>1, <3>2, <4>1
    <3>. QED
      BY <3>1, <3>2, <3>3, <3>4, <3>5
  <2>6. IsInjective(rest)
    <3>. SUFFICES ASSUME NEW i \in 1 .. (Len(lru) - 1), NEW j \in 1 .. (Len(lru) - 1), rest[i] = rest[j]
                  PROVE  i = j
      BY <2>5 DEF IsInjective
    <3>. DEFINE p(x) == IF x < n THEN x ELSE x + 1
    <3>1. /\ p(i) \in 1 .. Len(lru) /\ rest[i] = lru[p(i)]
          /\ p(j) \in 1 .. Len(lru) /\ rest[j] = lru[p(j)]
      <4>. HIDE DEF rest
      <4>. QED
        BY <1>1, <2>2, <2>5
    <3>2. p(i) = p(j)
      <4>. HIDE DEF p, rest
      <4>. QED
        BY <1>1, <3>1 DEF IsInjective
    <3>. QED
      BY <1>1, <2>2, <3>2
  <2>7. ToSet(rest) = ToSet(lru) \ {key}
    <3>. HIDE DEF rest
    <3>1. ASSUME NEW x \in ToSet(rest) PROVE x \in ToSet(lru) \ {key}
      <4>1. PICK i \in 1 .. (Len(lru) - 1) : rest[i] = x
        BY <2>5 DEF ToSet
      <4>2. PICK j \in 1 .. Len(lru) : j # n /\ lru[j] = x
        BY <1>1, <2>2, <2>5, <4>1
      <4>. QED
        BY <1>1, <2>2, <4>2 DEF ToSet, IsInjective
    <3>2. ASSUME NEW x \in ToSet(lru) \ {key} PROVE x \in ToSet(rest)
      <4>1. PICK j \in 1 .. Len(lru) : lru[j] = x /\ j # n
        BY <1>1, <2>2 DEF ToSet
      <4>2. CASE j < n
        <5>1. j \in 1 .. (Len(lru) - 1) /\ rest[j] = x
          BY <1>1, <2>2, <2>5, <4>1, <4>2
        <5>. QED
          BY <2>5, <5>1 DEF ToSet
      <4>3. CASE j > n
        <5>1. j - 1 \in 1 .. (Len(lru) - 1) /\ ~(j - 1 < n) /\ j - 1 + 1 = j
          BY <1>1, <2>2, <4>3
        <5>2. rest[j - 1] = x
          BY <2>5, <4>1, <5>1
        <5>. QED
          BY <2>5, <5>1, <5>2 DEF ToSet
      <4>. QED
        BY <1>1, <2>2, <4>1, <4>2, <4>3
    <3>. QED
      BY <3>1, <3>2
  <2>8. ASSUME NEW t, Counts(t, lru)
        PROVE  Counts(t, rest) /\ Total(t, lru) = Total(t, rest) + Len(t[key])
    <3>. DEFINE one == <<key>>
    <3>1. one \in Seq(Keys) /\ Len(one) = 1 /\ one[1] = key /\ DOMAIN one = 1 .. 1
      OBVIOUS
    <3>. HIDE DEF one
    <3>2. Counts(t, a) /\ Counts(t, b) /\ Counts(t, one)
      <4>1. Counts(t, a)
        BY <1>1, <2>2, <2>4, <2>8 DEF Counts
      <4>2. Counts(t, b)
        BY <1>1, <2>2, <2>4, <2>8 DEF Counts
      <4>3. Counts(t, one)
        BY <1>1, <2>2, <2>8, <3>1 DEF Counts
      <4>. QED
        BY <4>1, <4>2, <4>3
    <3>3. lru = a \o (one \o b)
      <4>1. n \in 1 .. Len(lru) /\ Len(lru) \in n .. Len(lru)
            /\ 1 \in 1 .. (Len(lru) + 1)
            /\ n - 1 \in 1 - 1 .. Len(lru) /\ Len(lru) \in n - 1 .. Len(lru)
               /\ (n - 1) + 1 = n
        BY <1>1, <2>2
      <4>2. SubSeq(lru, n, Len(lru)) = <<lru[n]>> \o SubSeq(lru, n + 1, Len(lru))
        BY <4>1, SubSeqRecursiveFirst
      <4>3. SubSeq(lru, 1, n - 1) \o SubSeq(lru, (n - 1) + 1, Len(lru)) = SubSeq(lru, 1, Len(lru))
        BY <4>1, ConcatAdjacentSubSeq
      <4>4. SubSeq(lru, 1, Len(lru)) = lru
        BY SubSeqFull
      <4>. QED
        BY <2>2, <4>1, <4>2, <4>3, <4>4 DEF a, b, one
    <3>4. Counts(t, one \o b) /\ Total(t, one \o b) = Total(t, one) + Total(t, b)
      BY <2>4, <3>1, <3>2, TotalConcat
    <3>5. one \o b \in Seq(Keys)
      BY <2>4, <3>1
    <3>6. Total(t, lru) = Total(t, a) + Total(t, one \o b)
      <4>. DEFINE c == one \o b
      <4>1. c \in Seq(Keys) /\ Counts(t, c) /\ lru = a \o c
        BY <3>3, <3>4, <3>5
      <4>. HIDE DEF c
      <4>2. Total(t, a \o c) = Total(t, a) + Total(t, c)
        BY <2>4, <3>2, <4>1, TotalConcat
      <4>. QED
        BY <4>1, <4>2 DEF c
    <3>7. Counts(t, rest) /\ Total(t, rest) = Total(t, a) + Total(t, b)
      BY <2>4, <3>2, TotalConcat
    <3>8. Total(t, one) = Len(t[key])
      <4>1. Len(t[key]) \in Nat
        BY <1>1, <2>2, <2>8 DEF Counts
      <4>. QED
        BY <4>1, TotalOne DEF one
    <3>9. Total(t, a) \in Nat /\ Total(t, b) \in Nat /\ Total(t, one) \in Nat
      BY <2>4, <3>1, <3>2, TotalNat
    <3>. QED
      BY <3>4, <3>6, <3>7, <3>8, <3>9
  <2>. HIDE DEF rest
  <2>. QED
    BY <1>3, <2>2, <2>3, <2>5, <2>6, <2>7, <2>8
<1>. QED
  BY <1>2, <1>3
-----------------------------------------------------------------------------
(* The entries of one key, with another line merged in. *)
Distinct(es) == \A i, j \in DOMAIN es : es[i].move = es[j].move => i = j
First(r) == [move |-> r.move, depth |-> r.depth, visits |-> r.visits]
With(es, r) ==
  IF Find(es, r.move) = 0 THEN Append(es, First(r))
  ELSE [es EXCEPT ![Find(es, r.move)].depth  = Greatest(@, r.depth),
                  ![Find(es, r.move)].visits = Visits(@, r.visits)]

(* Find gives 0 if no entry is for the move, else the place of one that is. *)
LEMMA FindFacts ==
  ASSUME NEW es \in Seq(Entry), NEW move
  PROVE  \/ Find(es, move) = 0 /\ \A i \in DOMAIN es : es[i].move # move
         \/ Find(es, move) \in DOMAIN es /\ Find(es, move) # 0
            /\ es[Find(es, move)].move = move
<1>1. DOMAIN es = 1 .. Len(es) /\ Len(es) \in Nat
  OBVIOUS
<1>2. CASE \E n \in DOMAIN es : es[n].move = move
  <2>1. Find(es, move) \in DOMAIN es /\ es[Find(es, move)].move = move
    BY <1>2 DEF Find
  <2>. QED
    BY <1>1, <2>1
<1>3. CASE ~ \E n \in DOMAIN es : es[n].move = move
  BY <1>3 DEF Find
<1>. QED
  BY <1>2, <1>3

(* An entry may only gain depth and visits. *)
NoLess(e, d) == e.move = d.move /\ e.depth >= d.depth /\ e.visits >= d.visits

(* Whatever line is merged into the entries of its key, they stay entries  *)
(* for distinct moves, none is lost or loses depth or visits (the sum is   *)
(* capped, not wrapped), and there is one more iff the move is new.        *)
LEMMA WithFacts ==
  ASSUME NEW es \in Seq(Entry), Distinct(es), NEW r \in Record
  PROVE  /\ With(es, r) \in Seq(Entry) /\ Distinct(With(es, r))
            /\ With(es, r) # <<>>
         /\ \A i \in DOMAIN es : i \in DOMAIN With(es, r)
            /\ NoLess(With(es, r)[i], es[i])
         /\ \A i \in DOMAIN With(es, r) :
              With(es, r)[i].move = r.move
              \/ (i \in DOMAIN es /\ With(es, r)[i].move = es[i].move)
         /\ Len(With(es, r)) = Len(es) + IF Find(es, r.move) = 0 THEN 1 ELSE 0
<1>. DEFINE n == Find(es, r.move)
            new == With(es, r)
<1>1. /\ DOMAIN es = 1 .. Len(es) /\ Len(es) \in Nat /\ First(r) \in Entry
      /\ First(r).move = r.move
  BY DEF First, Entry, Record
<1>2. \A i \in DOMAIN es : /\ es[i] \in Entry /\ es[i].depth \in Nat
      /\ es[i].visits \in Nat
                           /\ NoLess(es[i], es[i])
  <2>. SUFFICES ASSUME NEW i \in DOMAIN es
                PROVE  /\ es[i] \in Entry /\ es[i].depth \in Nat
                          /\ es[i].visits \in Nat
                       /\ NoLess(es[i], es[i])
    OBVIOUS
  <2>1. es[i] \in Entry
    BY <1>1
  <2>2. es[i].depth \in Nat /\ es[i].visits \in Nat
    <3>1. es[i].depth \in Depths /\ es[i].visits \in 0 .. MaxVisits
      BY <2>1 DEF Entry
    <3>2. \A x \in Depths : x \in Nat
      BY SizesAssumption
    <3>. QED
      BY <3>1, <3>2
  <2>. QED
    BY <2>1, <2>2 DEF NoLess
<1>3. CASE n = 0
  <2>1. new = Append(es, First(r)) /\ \A i \in DOMAIN es : es[i].move # r.move
    BY <1>1, <1>3, FindFacts DEF With
  <2>. HIDE DEF n, new
  <2>2. /\ new \in Seq(Entry) /\ Len(new) = Len(es) + 1
           /\ DOMAIN new = 1 .. (Len(es) + 1)
        /\ \A i \in DOMAIN es : i \in DOMAIN new /\ new[i] = es[i]
        /\ new[Len(es) + 1] = First(r)
    BY <1>1, <2>1
  <2>3. \A i \in DOMAIN new : i \in DOMAIN es \/ i = Len(es) + 1
    BY <1>1, <2>2
  <2>4. Distinct(new)
    BY <1>1, <2>1, <2>2, <2>3 DEF Distinct
  <2>5. new # <<>>
    BY <1>1, <2>2
  <2>6. \A i \in DOMAIN es : i \in DOMAIN new /\ NoLess(new[i], es[i])
    BY <1>2, <2>2
  <2>7. \A i \in DOMAIN new : new[i].move = r.move
        \/ (i \in DOMAIN es /\ new[i].move = es[i].move)
    BY <1>1, <2>2, <2>3
  <2>. QED
    BY <1>3, <2>2, <2>4, <2>5, <2>6, <2>7 DEF n, new
<1>4. CASE n # 0
  <2>. DEFINE d == [es[n] EXCEPT !.depth = Greatest(@, r.depth), !.visits = Visits(@, r.visits)]
  <2>1. n \in DOMAIN es /\ es[n].move = r.move
    BY <1>4, FindFacts
  <2>2. new = [es EXCEPT ![n] = d]
    BY <1>1, <1>2, <1>4, <2>1 DEF With, Entry
  <2>3. d \in Entry /\ NoLess(d, es[n])
    <3>1. r.depth \in Depths /\ r.depth \in Nat /\ r.visits \in Nat
          /\ es[n] \in Entry
          /\ es[n].depth \in Nat /\ es[n].visits \in Nat
             /\ es[n].visits <= MaxVisits /\ MaxVisits \in Nat
          /\ es[n].depth \in Depths
      <4>1. r.depth \in Depths /\ r.visits \in 0 .. MaxVisits /\ es[n] \in Entry
        BY <1>2, <2>1 DEF Record
      <4>2. es[n].depth \in Depths /\ es[n].visits \in 0 .. MaxVisits
        BY <4>1 DEF Entry
      <4>3. \A x \in Depths : x \in Nat
        BY SizesAssumption
      <4>4. MaxVisits \in Nat
        BY SizesAssumption
      <4>. HIDE DEF n
      <4>. QED
        BY <4>1, <4>2, <4>3, <4>4
    <3>. HIDE DEF n
    <3>2. Greatest(es[n].depth, r.depth) \in Depths
          /\ Greatest(es[n].depth, r.depth) >= es[n].depth
      BY <3>1 DEF Greatest
    <3>3. Visits(es[n].visits, r.visits) \in 0 .. MaxVisits
          /\ Visits(es[n].visits, r.visits) >= es[n].visits
      BY <3>1 DEF Visits, Least
    <3>. QED
      BY <3>1, <3>2, <3>3 DEF Entry, NoLess
  <2>. HIDE DEF n, new, d
  <2>4. new \in Seq(Entry) /\ Len(new) = Len(es) /\ DOMAIN new = DOMAIN es
        /\ new[n] = d /\ \A i \in DOMAIN es : i # n => new[i] = es[i]
    BY <1>1, <2>1, <2>2, <2>3, ExceptSeq
  <2>5. \A i \in DOMAIN es : NoLess(new[i], es[i])
    BY <1>2, <2>3, <2>4
  <2>6. \A i \in DOMAIN es : new[i].move = es[i].move
    BY <2>5 DEF NoLess
  <2>7. Distinct(new) /\ new # <<>>
    BY <1>1, <2>1, <2>4, <2>6 DEF Distinct
  <2>. QED
    BY <1>1, <1>4, <2>4, <2>5, <2>6, <2>7 DEF n, new
<1>. QED
  BY <1>3, <1>4

(* The table, the order and the count describe the same store. *)
Sound(m) ==
  /\ IsInjective(m.lru) /\ ToSet(m.lru) = DOMAIN m.table
  /\ \A key \in DOMAIN m.table : m.table[key] # <<>> /\ Distinct(m.table[key])
  /\ m.unique = Total(m.table, m.lru)
Stores == {m \in Mems : Sound(m)}

(* The empty store is consistent. *)
LEMMA EmptyStore == Empty \in Stores
<1>1. <<>> \in Tables /\ DOMAIN <<>> = {}
  <2>1. \A key \in {} : FALSE
    OBVIOUS
  <2>2. DOMAIN <<>> = {} /\ <<>> = [key \in {} |-> <<>>[key]]
    OBVIOUS
  <2>. QED
    BY <2>2, TableFacts
<1>2. Empty \in Mems
  BY <1>1 DEF Empty, Mems
<1>3. IsInjective(<<>>) /\ ToSet(<<>>) = {}
  BY DEF IsInjective, ToSet
<1>. QED
  BY <1>1, <1>2, <1>3, TotalEmpty DEF Empty, Stores, Sound

(* The parts of a consistent store. *)
LEMMA StoreFacts ==
  ASSUME NEW m \in Stores
  PROVE  /\ m.table \in Tables /\ DOMAIN m.table \subseteq Keys
            /\ m.lru \in Seq(Keys)
         /\ m.unique \in Nat
            /\ m = [table |-> m.table, lru |-> m.lru, unique |-> m.unique]
         /\ \A key \in DOMAIN m.table : m.table[key] \in Seq(Entry)
         /\ Counts(m.table, m.lru)
         /\ \A n \in DOMAIN m.lru : m.lru[n] \in DOMAIN m.table
<1>1. m \in Mems /\ Sound(m)
  BY DEF Stores
<1>2. /\ m.table \in Tables /\ m.lru \in Seq(Keys) /\ m.unique \in Nat
      /\ m = [table |-> m.table, lru |-> m.lru, unique |-> m.unique]
  BY <1>1 DEF Mems
<1>3. DOMAIN m.table \subseteq Keys
      /\ \A key \in DOMAIN m.table : m.table[key] \in Seq(Entry)
  BY <1>2, TableFacts
<1>4. \A n \in DOMAIN m.lru : m.lru[n] \in DOMAIN m.table
  BY <1>1 DEF Sound, ToSet
<1>5. Counts(m.table, m.lru)
  <2>1. \A n \in DOMAIN m.lru : m.table[m.lru[n]] \in Seq(Entry)
    BY <1>3, <1>4
  <2>2. \A es \in Seq(Entry) : Len(es) \in Nat
    OBVIOUS
  <2>. QED
    BY <2>1, <2>2 DEF Counts
<1>. QED
  BY <1>2, <1>3, <1>4, <1>5

(* What a merged line makes of a store. *)
LEMMA MergeParts ==
  ASSUME NEW m \in Stores, NEW r \in Record
  PROVE  LET new == Merge(m, r)  es == Entries(m.table, r.key) IN
         /\ new = [table |-> new.table, lru |-> Touch(m.lru, r.key),
                   unique |-> m.unique + IF Find(es, r.move) = 0 THEN 1 ELSE 0]
         /\ DOMAIN new.table = DOMAIN m.table \cup {r.key} /\ new.table \in Tables
         /\ new.table[r.key] = With(es, r) /\ es \in Seq(Entry) /\ Distinct(es)
         /\ \A key \in DOMAIN m.table : key # r.key
            => new.table[key] = m.table[key]
<1>. DEFINE new == Merge(m, r)
            es == Entries(m.table, r.key)
<1>1. es \in Seq(Entry) /\ Distinct(es)
  <2>1. <<>> \in Seq(Entry) /\ DOMAIN <<>> = {}
    OBVIOUS
  <2>2. Distinct(<<>>)
    BY <2>1 DEF Distinct
  <2>3. CASE r.key \in DOMAIN m.table
    BY <2>3, StoreFacts DEF Entries, Stores, Sound
  <2>4. CASE r.key \notin DOMAIN m.table
    BY <2>1, <2>2, <2>4 DEF Entries
  <2>. QED
    BY <2>3, <2>4
<1>2. new = [table  |-> [key \in DOMAIN m.table \cup {r.key} |->
                         IF key = r.key THEN With(es, r) ELSE m.table[key]],
             lru    |-> Touch(m.lru, r.key),
             unique |-> m.unique + IF Find(es, r.move) = 0 THEN 1 ELSE 0]
  BY DEF Merge, With, First
<1>. HIDE DEF new, es
<1>3. /\ new.table = [key \in DOMAIN m.table \cup {r.key} |->
                         IF key = r.key THEN With(es, r) ELSE m.table[key]]
      /\ new = [table |-> new.table, lru |-> Touch(m.lru, r.key),
                unique |-> m.unique + IF Find(es, r.move) = 0 THEN 1 ELSE 0]
  BY <1>2
<1>4. /\ DOMAIN new.table = DOMAIN m.table \cup {r.key}
      /\ new.table[r.key] = With(es, r)
      /\ \A key \in DOMAIN m.table : key # r.key => new.table[key] = m.table[key]
      /\ new.table = [key \in DOMAIN new.table |-> new.table[key]]
  BY <1>3
<1>5. new.table \in Tables
  <2>1. r.key \in Keys
    BY DEF Record
  <2>2. \A key \in DOMAIN new.table : new.table[key] \in Seq(Entry)
    BY <1>1, <1>4, StoreFacts, WithFacts
  <2>. QED
    BY SMTT(30), <1>4, <2>1, <2>2, StoreFacts, TableFacts
<1>. QED
  BY <1>1, <1>3, <1>4, <1>5 DEF new, es

(* One more key at the end. *)
LEMMA TotalAppend ==
  ASSUME NEW S, NEW s \in Seq(S), NEW t, Counts(t, s), NEW key \in S, Len(t[key]) \in Nat
  PROVE  /\ Counts(t, Append(s, key))
            /\ Total(t, Append(s, key)) = Total(t, s) + Len(t[key])
         /\ Total(t, s) \in Nat
<1>. DEFINE one == <<key>>
<1>1. one \in Seq(S) /\ Len(one) = 1 /\ one[1] = key /\ DOMAIN one = 1 .. 1
  OBVIOUS
<1>2. Append(s, key) = s \o one
  BY AppendIsConcat
<1>. HIDE DEF one
<1>3. Counts(t, one)
  BY TotalOne DEF one
<1>4. Total(t, one) = Len(t[key])
  BY TotalOne DEF one
<1>. QED
  BY <1>1, <1>2, <1>3, <1>4, TotalConcat, TotalNat

(* A line merged in leaves the store sound. *)
LEMMA MergeSound ==
  ASSUME NEW m \in Stores, NEW r \in Record
  PROVE  Merge(m, r) \in Stores
<1>. DEFINE new == Merge(m, r)
            es == Entries(m.table, r.key)
            key == r.key
            more == IF Find(es, r.move) = 0 THEN 1 ELSE 0
<1>1. /\ new = [table |-> new.table, lru |-> Touch(m.lru, r.key), unique |-> m.unique + more]
      /\ DOMAIN new.table = DOMAIN m.table \cup {r.key} /\ new.table \in Tables
      /\ new.table[r.key] = With(es, r) /\ es \in Seq(Entry) /\ Distinct(es)
      /\ \A k \in DOMAIN m.table : k # r.key => new.table[k] = m.table[k]
  BY MergeParts
<1>2. /\ With(es, r) \in Seq(Entry) /\ Distinct(With(es, r)) /\ With(es, r) # <<>>
      /\ Len(With(es, r)) = Len(es) + more
  BY <1>1, WithFacts
<1>3. key \in Keys /\ IsInjective(m.lru) /\ m.lru \in Seq(Keys)
      /\ Counts(m.table, m.lru)
      /\ ToSet(m.lru) = DOMAIN m.table /\ m.unique = Total(m.table, m.lru)
         /\ m.unique \in Nat
  BY StoreFacts DEF Record, Stores, Sound
<1>4. Entries(m.table, key) = es /\ Len(es) \in Nat
  BY <1>1
<1>. HIDE DEF new, es, key, more
<1>5. PICK rest \in Seq(Keys) :
           /\ Touch(m.lru, key) = Append(rest, key) /\ IsInjective(rest)
           /\ ToSet(rest) = ToSet(m.lru) \ {key}
           /\ key \notin ToSet(m.lru) => rest = m.lru
           /\ \A t : Counts(t, m.lru) => /\ Counts(t, rest)
                /\ Total(t, m.lru) = Total(t, rest)
                                     + IF key \in ToSet(m.lru) THEN Len(t[key]) ELSE 0
  BY <1>3, TouchFacts
<1>6. new.lru = Append(rest, key) /\ new.unique = m.unique + more
  BY <1>1, <1>5 DEF key
<1>7. Append(rest, key) \in Seq(Keys)
      /\ ToSet(Append(rest, key)) = DOMAIN new.table
  <2>1. ToSet(Append(rest, key)) = ToSet(rest) \cup {key}
    BY SetFacts
  <2>. QED
    BY <1>1, <1>3, <1>5, <2>1 DEF key
<1>8. IsInjective(Append(rest, key))
  <2>1. /\ DOMAIN rest = 1 .. Len(rest) /\ Len(rest) \in Nat
        /\ DOMAIN Append(rest, key) = 1 .. (Len(rest) + 1)
        /\ \A n \in 1 .. (Len(rest) + 1) :
             Append(rest, key)[n] = IF n = Len(rest) + 1 THEN key ELSE rest[n]
    BY <1>3
  <2>2. \A n \in 1 .. Len(rest) : rest[n] # key
    BY <1>5, <2>1 DEF ToSet
  <2>3. \A n \in 1 .. (Len(rest) + 1) : n # Len(rest) + 1 => n \in 1 .. Len(rest)
    BY <2>1
  <2>. QED
    BY <1>5, <2>1, <2>2, <2>3 DEF IsInjective
<1>9. \A k \in DOMAIN new.table : new.table[k] # <<>> /\ Distinct(new.table[k])
  <2>. SUFFICES ASSUME NEW k \in DOMAIN new.table
                PROVE new.table[k] # <<>> /\ Distinct(new.table[k])
    OBVIOUS
  <2>1. CASE k = r.key
    BY <1>1, <1>2, <2>1
  <2>2. CASE k # r.key
    BY <1>1, <2>2 DEF Stores, Sound
  <2>. QED
    BY <2>1, <2>2
<1>10. new.unique = Total(new.table, new.lru)
  <2>1. Counts(m.table, rest)
        /\ m.unique = Total(m.table, rest) + IF key \in DOMAIN m.table THEN Len(m.table[key]) ELSE 0
    BY <1>3, <1>5
  <2>2. (IF key \in DOMAIN m.table THEN Len(m.table[key]) ELSE 0) = Len(es)
    <3>1. Len(<<>>) = 0
      OBVIOUS
    <3>. QED
      BY <1>4, <3>1 DEF Entries
  <2>3. \A n \in DOMAIN rest : Len(new.table[rest[n]]) = Len(m.table[rest[n]])
    <3>1. \A n \in DOMAIN rest : rest[n] \in DOMAIN m.table /\ rest[n] # key
      BY <1>3, <1>5 DEF ToSet
    <3>. QED
      BY <1>1, <3>1 DEF key
  <2>4. Total(new.table, rest) = Total(m.table, rest)
        /\ Total(m.table, rest) \in Nat
    BY <2>1, <2>3, TotalSame
  <2>5. Counts(new.table, rest)
    BY <2>1, <2>3 DEF Counts
  <2>6. Len(new.table[key]) = Len(es) + more /\ Len(new.table[key]) \in Nat
    <3>1. new.table[key] = With(es, r) /\ Len(With(es, r)) \in Nat
      BY <1>1, <1>2 DEF key
    <3>. QED
      BY <1>2, <3>1
  <2>7. Total(new.table, Append(rest, key)) = Total(new.table, rest) + Len(new.table[key])
    BY <1>3, <2>5, <2>6, TotalAppend
  <2>8. more \in Nat
    BY DEF more
  <2>. QED
    BY SMTT(30), <1>3, <1>4, <1>6, <2>1, <2>2, <2>4, <2>6, <2>7, <2>8
<1>11. new \in Mems
  <2>1. new.unique \in Nat
    BY <1>3, <1>6 DEF more
  <2>2. new = [table |-> new.table, lru |-> new.lru, unique |-> new.unique]
    BY <1>1, <1>5, <1>6 DEF key
  <2>. QED
    BY <1>1, <1>6, <1>7, <2>1, <2>2 DEF Mems
<1>12. Sound(new)
  BY <1>6, <1>7, <1>8, <1>9, <1>10 DEF Sound
<1>. QED
  BY <1>11, <1>12 DEF Stores, new

(* A sequence without repetitions has as many elements as its length. *)
LEMMA Elements ==
  ASSUME NEW S, NEW s \in Seq(S), IsInjective(s)
  PROVE  IsFiniteSet(ToSet(s)) /\ Cardinality(ToSet(s)) = Len(s)
<1>. DEFINE n == Len(s)
            T == ToSet(s)
<1>1. n \in Nat /\ DOMAIN s = 1 .. n /\ s = [i \in 1 .. n |-> s[i]]
  OBVIOUS
<1>2. T = {s[i] : i \in 1 .. n}
  BY <1>1 DEF ToSet
<1>. HIDE DEF n, T
<1>3. s \in Bijection(1 .. n, T)
  <2>1. s \in [1 .. n -> T]
    BY <1>1, <1>2
  <2>2. s \in Injection(1 .. n, T)
    BY <2>1 DEF Injection
  <2>3. s \in Surjection(1 .. n, T)
    BY <1>2, <2>1 DEF Surjection
  <2>. QED
    BY <2>2, <2>3 DEF Bijection
<1>4. ExistsBijection(1 .. n, T)
  BY <1>3 DEF ExistsBijection
<1>5. IsFiniteSet(1 .. n) /\ Cardinality(1 .. n) = n
  <2>1. 1 \in Int /\ n \in Int /\ (IF 1 > n THEN 0 ELSE n - 1 + 1) = n
    BY <1>1
  <2>. QED
    BY <2>1, FS_Interval
<1>6. IsFiniteSet(T) /\ Cardinality(T) = Cardinality(1 .. n)
  BY <1>4, <1>5, FS_Bijection
<1>. QED
  BY <1>5, <1>6 DEF n, T

(* An order cut in two. *)
LEMMA Split ==
  ASSUME NEW s \in Seq(Keys), IsInjective(s), NEW e \in 0 .. Len(s)
  PROVE  LET a == SubSeq(s, 1, e)  b == SubSeq(s, e + 1, Len(s)) IN
         /\ a \in Seq(Keys) /\ b \in Seq(Keys) /\ s = a \o b
            /\ Len(b) = Len(s) - e
         /\ IsInjective(b) /\ ToSet(b) = ToSet(s) \ {s[n] : n \in 1 .. e}
         /\ DOMAIN a = 1 .. e /\ \A n \in 1 .. e : a[n] = s[n]
<1>. DEFINE a == SubSeq(s, 1, e)
            b == SubSeq(s, e + 1, Len(s))
            N == Len(s)
<1>1. /\ DOMAIN s = 1 .. N /\ N \in Nat /\ e \in Nat /\ e <= N
      /\ 1 \in 1 .. (N + 1) /\ e \in (1 - 1) .. N /\ e + 1 \in 1 .. (N + 1)
         /\ N \in (e + 1) - 1 .. N
      /\ N \in e .. N /\ 1 \in 1 .. N + 1
  OBVIOUS
<1>2. a \in Seq(Keys) /\ Len(a) = e /\ \A n \in 1 .. e : a[n] = s[n]
  <2>1. a \in Seq(Keys) /\ Len(a) = e - 1 + 1
        /\ \A n \in 1 .. (e - 1 + 1) : a[n] = s[1 + n - 1]
    BY <1>1, PartFacts
  <2>2. e - 1 + 1 = e /\ \A n \in 1 .. e : 1 + n - 1 = n
    BY <1>1
  <2>. HIDE DEF a
  <2>. QED
    BY <2>1, <2>2
<1>3. b \in Seq(Keys) /\ Len(b) = N - e /\ \A n \in 1 .. (N - e) : b[n] = s[e + n]
  <2>1. b \in Seq(Keys) /\ Len(b) = N - (e + 1) + 1
        /\ \A n \in 1 .. (N - (e + 1) + 1) : b[n] = s[(e + 1) + n - 1]
    BY <1>1, PartFacts
  <2>2. N - (e + 1) + 1 = N - e /\ \A n \in 1 .. (N - e) : (e + 1) + n - 1 = e + n
    BY <1>1
  <2>. HIDE DEF b
  <2>. QED
    BY <2>1, <2>2
<1>4. s = a \o b
  BY <1>1, ConcatAdjacentSubSeq, SubSeqFull
<1>. HIDE DEF a, b, N
<1>5. DOMAIN a = 1 .. e /\ DOMAIN b = 1 .. (N - e)
  BY <1>1, <1>2, <1>3
<1>6. \A n \in 1 .. (N - e) : e + n \in 1 .. N /\ e + n \notin 1 .. e
  BY <1>1
<1>7. IsInjective(b)
  <2>. SUFFICES ASSUME NEW i \in 1 .. (N - e), NEW j \in 1 .. (N - e), b[i] = b[j]
                PROVE i = j
    BY <1>5 DEF IsInjective
  <2>1. e + i = e + j
    BY <1>1, <1>3, <1>6 DEF IsInjective
  <2>. QED
    BY <1>1, <2>1
<1>8. ToSet(b) = ToSet(s) \ {s[n] : n \in 1 .. e}
  <2>1. ASSUME NEW x \in ToSet(b) PROVE x \in ToSet(s) \ {s[n] : n \in 1 .. e}
    <3>1. PICK n \in 1 .. (N - e) : x = s[e + n]
      BY <1>3, <1>5, <2>1 DEF ToSet
    <3>2. e + n \in 1 .. N /\ e + n \notin 1 .. e /\ 1 .. e \subseteq 1 .. N
      BY <1>1, <1>6
    <3>. QED
      BY <1>1, <3>1, <3>2 DEF ToSet, IsInjective
  <2>2. ASSUME NEW x \in ToSet(s) \ {s[n] : n \in 1 .. e} PROVE x \in ToSet(b)
    <3>1. PICK n \in 1 .. N : x = s[n]
      BY <1>1, <2>2 DEF ToSet
    <3>2. n - e \in 1 .. (N - e) /\ e + (n - e) = n
      BY <1>1, <2>2, <3>1
    <3>3. b[n - e] = x
      BY <1>3, <3>1, <3>2
    <3>. QED
      BY <1>5, <3>2, <3>3 DEF ToSet
  <2>. QED
    BY <2>1, <2>2
<1>. QED
  BY <1>2, <1>3, <1>4, <1>5, <1>7, <1>8 DEF a, b, N

(* No more keys than the limit. *)
Within(m) == MaxEntries # 0 => Cardinality(DOMAIN m.table) <= MaxEntries

(* How many keys have to go. *)
LEMMA ExcessFacts ==
  ASSUME NEW m \in Stores
  PROVE  /\ IsFiniteSet(DOMAIN m.table)
            /\ Cardinality(DOMAIN m.table) = Len(m.lru)
         /\ Excess(m) \in 0 .. Len(m.lru) /\ (Within(m) <=> Excess(m) = 0)
         /\ MaxEntries # 0 => Len(m.lru) - Excess(m) <= MaxEntries
         /\ Excess(m) # 0 => MaxEntries # 0 /\ Excess(m) = Len(m.lru) - MaxEntries
<1>1. m.lru \in Seq(Keys) /\ IsInjective(m.lru) /\ ToSet(m.lru) = DOMAIN m.table
  BY StoreFacts DEF Stores, Sound
<1>2. IsFiniteSet(DOMAIN m.table) /\ Cardinality(DOMAIN m.table) = Len(m.lru)
      /\ Len(m.lru) \in Nat
  BY <1>1, Elements
<1>3. MaxEntries \in Nat
  BY SizesAssumption
<1>. QED
  BY <1>2, <1>3 DEF Excess, Greatest, Within

(* enforce_limit drops the keys at the front and keeps the rest as it was. *)
LEMMA EnforceParts ==
  ASSUME NEW m \in Stores
  PROVE  LET new == Enforce(m)  e == Excess(m)  gone == {m.lru[n] : n \in 1 .. e}
             b == SubSeq(m.lru, e + 1, Len(m.lru)) IN
         /\ new = [table |-> new.table, lru |-> b, unique |-> Total(m.table, b)]
         /\ DOMAIN new.table = DOMAIN m.table \ gone /\ new.table \in Tables
         /\ \A key \in DOMAIN new.table : new.table[key] = m.table[key]
         /\ b \in Seq(Keys) /\ IsInjective(b) /\ ToSet(b) = DOMAIN m.table \ gone
         /\ Counts(m.table, b) /\ Len(b) = Len(m.lru) - e
<1>. DEFINE new == Enforce(m)
            e == Excess(m)
            gone == {m.lru[n] : n \in 1 .. e}
            a == SubSeq(m.lru, 1, e)
            b == SubSeq(m.lru, e + 1, Len(m.lru))
            count == Total(m.table, a)
<1>1. new = [table  |-> [key \in DOMAIN m.table \ gone |-> m.table[key]],
             lru    |-> b, unique |-> Greatest(m.unique, count) - count]
  BY DEF Enforce
<1>2. e \in 0 .. Len(m.lru) /\ m.lru \in Seq(Keys) /\ IsInjective(m.lru)
      /\ ToSet(m.lru) = DOMAIN m.table /\ Counts(m.table, m.lru)
  BY ExcessFacts, StoreFacts DEF Stores, Sound
<1>3. /\ a \in Seq(Keys) /\ b \in Seq(Keys) /\ m.lru = a \o b
         /\ Len(b) = Len(m.lru) - e
      /\ IsInjective(b) /\ ToSet(b) = DOMAIN m.table \ gone
      /\ DOMAIN a = 1 .. e /\ \A n \in 1 .. e : a[n] = m.lru[n]
  <2>. HIDE DEF e
  <2>. QED
    BY <1>2, Split
<1>. HIDE DEF new, e, gone, a, b
<1>4. Counts(m.table, a) /\ Counts(m.table, b)
  <2>1. \A key \in DOMAIN m.table : Len(m.table[key]) \in Nat
    <3>1. \A key \in DOMAIN m.table : m.table[key] \in Seq(Entry)
      BY StoreFacts
    <3>2. \A es \in Seq(Entry) : Len(es) \in Nat
      OBVIOUS
    <3>. QED
      BY <3>1, <3>2
  <2>2. \A n \in DOMAIN a : a[n] \in DOMAIN m.table
    <3>1. \A n \in 1 .. e : n \in DOMAIN m.lru
      BY <1>2
    <3>. QED
      BY <1>2, <1>3, <3>1 DEF ToSet
  <2>3. \A n \in DOMAIN b : b[n] \in DOMAIN m.table
    BY <1>3 DEF ToSet
  <2>. QED
    BY <2>1, <2>2, <2>3 DEF Counts
<1>5. m.unique = count + Total(m.table, b) /\ count \in Nat
      /\ Total(m.table, b) \in Nat
  <2>1. Total(m.table, a \o b) = Total(m.table, a) + Total(m.table, b)
    BY <1>3, <1>4, TotalConcat
  <2>2. m.unique = Total(m.table, a \o b)
    BY <1>3 DEF Stores, Sound
  <2>. QED
    BY <1>3, <1>4, <2>1, <2>2, TotalNat
<1>6. Greatest(m.unique, count) - count = Total(m.table, b)
  <2>. HIDE DEF count
  <2>. QED
    BY <1>5 DEF Greatest
<1>7. /\ new.table = [key \in DOMAIN m.table \ gone |-> m.table[key]]
      /\ new = [table |-> new.table, lru |-> b, unique |-> Total(m.table, b)]
  BY <1>1, <1>6
<1>8. /\ DOMAIN new.table = DOMAIN m.table \ gone
      /\ \A key \in DOMAIN new.table : new.table[key] = m.table[key]
      /\ new.table = [key \in DOMAIN new.table |-> new.table[key]]
  BY <1>7
<1>9. new.table \in Tables
  BY <1>8, StoreFacts, TableFacts
<1>. QED
  BY <1>3, <1>4, <1>7, <1>8, <1>9 DEF new, e, gone, b

(* The limit holds afterwards, and the store is still sound. *)
LEMMA EnforceSound ==
  ASSUME NEW m \in Stores
  PROVE  Enforce(m) \in Stores /\ Within(Enforce(m))
<1>. DEFINE new == Enforce(m)
            e == Excess(m)
            gone == {m.lru[n] : n \in 1 .. e}
            b == SubSeq(m.lru, e + 1, Len(m.lru))
<1>1. /\ new = [table |-> new.table, lru |-> b, unique |-> Total(m.table, b)]
      /\ DOMAIN new.table = DOMAIN m.table \ gone /\ new.table \in Tables
      /\ \A key \in DOMAIN new.table : new.table[key] = m.table[key]
      /\ b \in Seq(Keys) /\ IsInjective(b) /\ ToSet(b) = DOMAIN m.table \ gone
      /\ Counts(m.table, b) /\ Len(b) = Len(m.lru) - e
  BY EnforceParts
<1>2. new.lru = b /\ new.unique = Total(m.table, b)
  <2>. HIDE DEF new
  <2>. QED
    BY <1>1
<1>. HIDE DEF new, e, gone, b
<1>3. Total(new.table, b) = Total(m.table, b) /\ Total(m.table, b) \in Nat
  <2>1. \A n \in DOMAIN b : Len(new.table[b[n]]) = Len(m.table[b[n]])
    BY <1>1 DEF ToSet
  <2>. QED
    BY <1>1, <2>1, TotalSame
<1>4. new \in Mems
  <2>1. new = [table |-> new.table, lru |-> new.lru, unique |-> new.unique]
    BY <1>1, <1>2
  <2>. QED
    BY <1>1, <1>2, <1>3, <2>1 DEF Mems
<1>5. Sound(new)
  BY <1>1, <1>2, <1>3 DEF Sound, Stores
<1>6. Within(new)
  <2>1. MaxEntries # 0 => Len(m.lru) - e <= MaxEntries
    BY ExcessFacts DEF e
  <2>2. Cardinality(DOMAIN new.table) = Len(new.lru)
    BY <1>4, <1>5, ExcessFacts DEF Stores
  <2>. QED
    BY <1>1, <1>2, <2>1, <2>2 DEF Within
<1>. QED
  BY <1>4, <1>5, <1>6 DEF Stores, new

(* A store within the limit is left alone. *)
LEMMA EnforceNothing ==
  ASSUME NEW m \in Stores, Within(m)
  PROVE  Enforce(m) = m
<1>1. Excess(m) = 0 /\ m.lru \in Seq(Keys)
      /\ m = [table |-> m.table, lru |-> m.lru, unique |-> m.unique]
      /\ m.unique = Total(m.table, m.lru)
  BY ExcessFacts, StoreFacts DEF Stores, Sound
<1>2. SubSeq(m.lru, 0 + 1, Len(m.lru)) = m.lru
  BY <1>1, SubSeqFull
<1>3. {m.lru[n] : n \in 1 .. 0} = {}
  OBVIOUS
<1>4. /\ Enforce(m) = [table |-> Enforce(m).table, lru |-> m.lru, unique |-> Total(m.table, m.lru)]
      /\ DOMAIN Enforce(m).table = DOMAIN m.table /\ Enforce(m).table \in Tables
      /\ \A key \in DOMAIN Enforce(m).table : Enforce(m).table[key] = m.table[key]
  BY <1>1, <1>2, <1>3, EnforceParts
<1>5. Enforce(m).table = m.table
  BY <1>4, StoreFacts, TableFacts
<1>. QED
  BY <1>1, <1>4, <1>5

(* Of the keys a search may drive out: the one at the front, when the      *)
(* store was full and the position is a new one.                           *)
LEMMA OneLeaves ==
  ASSUME NEW m \in Stores, Within(m), NEW r \in Record,
         NEW key \in DOMAIN m.table, key \notin DOMAIN Enforce(Merge(m, r)).table
  PROVE  key = Head(m.lru) /\ MaxEntries # 0 /\ Len(m.lru) = MaxEntries
<1>. DEFINE big == Merge(m, r)
<1>1. big \in Stores
  BY MergeSound
<1>2. big.lru = Touch(m.lru, r.key) /\ DOMAIN big.table = DOMAIN m.table
      \cup {r.key} /\ r.key \in Keys
  <2>. HIDE DEF big
  <2>. QED
    BY MergeParts DEF big, Record
<1>. HIDE DEF big
<1>3. key \in {big.lru[n] : n \in 1 .. Excess(big)}
  BY <1>1, <1>2, EnforceParts DEF big
<1>4. /\ m.lru \in Seq(Keys) /\ IsInjective(m.lru)
         /\ ToSet(m.lru) = DOMAIN m.table
      /\ IsFiniteSet(DOMAIN m.table) /\ Cardinality(DOMAIN m.table) = Len(m.lru)
  BY StoreFacts, ExcessFacts DEF Stores, Sound
<1>5. Excess(big) \in Nat /\ Excess(big) # 0
  BY <1>1, <1>3, ExcessFacts
<1>6. MaxEntries # 0 /\ Excess(big) = Cardinality(DOMAIN big.table) - MaxEntries
  BY <1>1, <1>5, ExcessFacts
<1>7. Cardinality(DOMAIN big.table) = IF r.key \in DOMAIN m.table THEN Len(m.lru) ELSE Len(m.lru) + 1
  <2>1. CASE r.key \in DOMAIN m.table
    <3>1. DOMAIN big.table = DOMAIN m.table
      BY <1>2, <2>1
    <3>. QED
      BY <1>4, <2>1, <3>1
  <2>2. CASE r.key \notin DOMAIN m.table
    <3>1. Cardinality(DOMAIN m.table \cup {r.key}) = Cardinality(DOMAIN m.table) + 1
      BY <1>4, <2>2, FS_AddElement
    <3>. QED
      BY <1>2, <1>4, <2>2, <3>1
  <2>. QED
    BY <2>1, <2>2
<1>8. Len(m.lru) <= MaxEntries /\ Len(m.lru) \in Nat /\ MaxEntries \in Nat
  BY <1>4, <1>6, SizesAssumption DEF Within
<1>9. r.key \notin DOMAIN m.table /\ Excess(big) = 1 /\ Len(m.lru) = MaxEntries
  BY <1>5, <1>6, <1>7, <1>8
<1>10. big.lru = Append(m.lru, r.key)
  BY <1>2, <1>4, <1>9 DEF Touch, ToSet
<1>11. key = big.lru[1]
  BY <1>3, <1>9
<1>12. Len(m.lru) > 0 /\ Append(m.lru, r.key)[1] = m.lru[1]
       /\ Head(m.lru) = m.lru[1]
  <2>1. m.lru # <<>>
    BY <1>4 DEF ToSet
  <2>2. Len(m.lru) > 0 /\ Head(m.lru) = m.lru[1]
    BY <1>4, <2>1
  <2>3. 1 \in 1 .. Len(m.lru)
    BY <1>4, <2>2
  <2>. QED
    BY <1>2, <1>4, <2>2, <2>3, AppendProperties
<1>. QED
  BY <1>6, <1>9, <1>10, <1>11, <1>12

(* ... and of those that stay, no entry loses anything. *)
LEMMA NothingLost ==
  ASSUME NEW m \in Stores, NEW r \in Record,
         NEW key \in DOMAIN m.table, key \in DOMAIN Enforce(Merge(m, r)).table,
         NEW n \in DOMAIN m.table[key]
  PROVE  NoLess(Enforce(Merge(m, r)).table[key][n], m.table[key][n])
<1>. DEFINE big == Merge(m, r)
            es == Entries(m.table, r.key)
<1>1. big \in Stores
  BY MergeSound
<1>2. big.table[r.key] = With(es, r) /\ es \in Seq(Entry) /\ Distinct(es)
      /\ \A k \in DOMAIN m.table : k # r.key => big.table[k] = m.table[k]
  BY MergeParts
<1>. HIDE DEF big
<1>3. Enforce(big).table[key] = big.table[key]
  BY <1>1, EnforceParts DEF big
<1>4. CASE key = r.key
  <2>1. es = m.table[key]
    BY <1>4 DEF Entries
  <2>. HIDE DEF es
  <2>. QED
    BY <1>2, <1>3, <1>4, <2>1, WithFacts DEF big
<1>5. CASE key # r.key
  <2>1. m.table[key] \in Seq(Entry)
    BY StoreFacts
  <2>2. m.table[key][n] \in Entry
    BY <2>1
  <2>3. NoLess(m.table[key][n], m.table[key][n])
    <3>1. m.table[key][n].depth \in Depths
          /\ m.table[key][n].visits \in 0 .. MaxVisits
      BY <2>2 DEF Entry
    <3>2. \A x \in Depths : x \in Nat
      BY SizesAssumption
    <3>. QED
      BY <3>1, <3>2 DEF NoLess
  <2>. QED
    BY <1>2, <1>3, <1>5, <2>3 DEF big
<1>. QED
  BY <1>4, <1>5

(* load_table_unlocked merges one line after the other. *)
LEMMA MergedRec ==
  ASSUME NEW lines \in Seq(Record)
  PROVE  \E f \in [0 .. Len(lines) -> Stores] :
           /\ f[0] = Empty /\ Merged(lines) = f[Len(lines)]
           /\ \A n \in 1 .. Len(lines) : f[n] = Merge(f[n - 1], lines[n])
<1>. DEFINE N == Len(lines)
            Def(f) == f = [n \in 0 .. N |-> IF n = 0 THEN Empty ELSE Merge(f[n - 1], lines[n])]
            m == CHOOSE f : Def(f)
            step == [n \in 1 .. N |-> [x \in Stores |-> Merge(x, lines[n])]]
<1>1. N \in Nat /\ DOMAIN lines = 1 .. N /\ \A n \in 1 .. N : lines[n] \in Record
  OBVIOUS
<1>2. step \in [1 .. N -> [Stores -> Stores]]
  BY <1>1, MergeSound
<1>3. PICK f \in [0 .. N -> Stores] : f[0] = Empty
      /\ \A n \in 1 .. N : f[n] = step[n][f[n - 1]]
  <2>1. Empty \in Stores /\ step \in Steps(N, Stores)
    BY <1>2, EmptyStore DEF Steps
  <2>. HIDE DEF step, N
  <2>2. \E f : Recursive(f, N, Stores, Empty, step)
    BY <1>1, <2>1, RecExists
  <2>. QED
    BY <2>2 DEF Recursive
<1>4. Def(f)
  <2>1. \A n \in 0 .. N : n # 0 => n \in 1 .. N /\ n - 1 \in 0 .. N
    BY <1>1
  <2>2. \A n \in 0 .. N : n # 0 => f[n] = Merge(f[n - 1], lines[n])
    <3>1. \A n \in 1 .. N, x \in Stores : step[n][x] = Merge(x, lines[n])
      OBVIOUS
    <3>. HIDE DEF step, N
    <3>. QED
      BY <1>3, <2>1, <3>1
  <2>3. f = [n \in 0 .. N |-> f[n]]
    OBVIOUS
  <2>. HIDE DEF step
  <2>. QED
    BY <1>3, <2>2, <2>3
<1>5. Def(m)
  <2>. HIDE DEF Def
  <2>. QED
    BY <1>4
<1>. HIDE DEF m
<1>6. /\ DOMAIN m = 0 .. N /\ m[0] = Empty
      /\ \A n \in 1 .. N : m[n] = Merge(m[n - 1], lines[n])
  BY <1>1, <1>5
<1>7. \A n \in 0 .. N : m[n] \in Stores
  <2>. DEFINE T == {n \in 0 .. N : m[n] \in Stores}
  <2>1. 0 \in T
    BY <1>1, <1>6, EmptyStore
  <2>2. ASSUME NEW n \in 0 .. (N - 1), n \in T PROVE n + 1 \in T
    <3>1. n + 1 \in 1 .. N /\ n + 1 - 1 = n
      BY <1>1
    <3>2. m[n + 1] = Merge(m[n], lines[n + 1]) /\ lines[n + 1] \in Record
      BY <1>1, <1>6, <3>1
    <3>. QED
      BY <1>1, <2>2, <3>1, <3>2, MergeSound
  <2>. HIDE DEF T, N
  <2>3. 0 .. N \subseteq T
    BY <1>1, <2>1, <2>2, UpTo
  <2>. QED
    BY <2>3 DEF T
<1>8. Merged(lines) = m[N]
  BY DEF Merged, m
<1>9. m \in [0 .. N -> Stores]
  <2>1. m = [n \in 0 .. N |-> m[n]]
    BY <1>5
  <2>. QED
    BY <1>7, <2>1
<1>. HIDE DEF Def
<1>. QED
  BY <1>6, <1>8, <1>9

(* What every merged line keeps, the loaded table has. *)
LEMMA MergedIn ==
  ASSUME NEW lines \in Seq(Record), NEW T, Empty \in T,
         \A m \in T \cap Stores, n \in 1 .. Len(lines) : Merge(m, lines[n]) \in T
  PROVE  Merged(lines) \in T \cap Stores
<1>. DEFINE N == Len(lines)
<1>1. PICK f \in [0 .. N -> Stores] :
           /\ f[0] = Empty /\ Merged(lines) = f[N]
           /\ \A n \in 1 .. N : f[n] = Merge(f[n - 1], lines[n])
  BY MergedRec
<1>2. N \in Nat
  OBVIOUS
<1>. DEFINE U == {n \in 0 .. N : f[n] \in T}
<1>3. 0 \in U
  BY <1>1, <1>2
<1>4. ASSUME NEW n \in 0 .. (N - 1), n \in U PROVE n + 1 \in U
  <2>1. n + 1 \in 1 .. N /\ n + 1 - 1 = n /\ n \in 0 .. N
    BY <1>2
  <2>2. f[n + 1] = Merge(f[n], lines[n + 1]) /\ f[n] \in T \cap Stores
    BY <1>1, <1>4, <2>1
  <2>. QED
    BY <1>2, <2>1, <2>2
<1>. HIDE DEF U, N
<1>5. 0 .. N \subseteq U
  BY <1>2, <1>3, <1>4, UpTo
<1>. QED
  BY <1>1, <1>2, <1>5 DEF U

(* load_table_unlocked makes a consistent store of any lines. *)
LEMMA MergedSound ==
  ASSUME NEW lines \in Seq(Record)
  PROVE  Merged(lines) \in Stores
BY MergedIn, EmptyStore, MergeSound

(* No lines make the empty store. *)
LEMMA MergedEmpty == Merged(<<>>) = Empty
<1>1. <<>> \in Seq(Record) /\ Len(<<>>) = 0
  OBVIOUS
<1>2. \A n \in 1 .. Len(<<>>) : FALSE
  BY <1>1
<1>3. Merged(<<>>) \in {Empty} \cap Stores
  BY <1>1, <1>2, MergedIn
<1>. QED
  BY <1>3

(* One line more. *)
LEMMA MergedAppend ==
  ASSUME NEW lines \in Seq(Record), NEW r \in Record
  PROVE  Merged(Append(lines, r)) = Merge(Merged(lines), r)
<1>. DEFINE N == Len(lines)
            more == Append(lines, r)
<1>1. /\ N \in Nat /\ more \in Seq(Record) /\ Len(more) = N + 1 /\ more[N + 1] = r
      /\ \A n \in 1 .. N : more[n] = lines[n]
  BY AppendProperties
<1>. HIDE DEF more
<1>2. PICK f \in [0 .. N -> Stores] :
           /\ f[0] = Empty /\ Merged(lines) = f[N]
           /\ \A n \in 1 .. N : f[n] = Merge(f[n - 1], lines[n])
  BY MergedRec
<1>3. PICK g \in [0 .. Len(more) -> Stores] :
           /\ g[0] = Empty /\ Merged(more) = g[Len(more)]
           /\ \A n \in 1 .. Len(more) : g[n] = Merge(g[n - 1], more[n])
  BY <1>1, MergedRec
<1>. DEFINE U == {n \in 0 .. N : f[n] = g[n]}
<1>4. 0 \in U
  BY <1>1, <1>2, <1>3
<1>5. ASSUME NEW n \in 0 .. (N - 1), n \in U PROVE n + 1 \in U
  <2>1. n + 1 \in 1 .. N /\ n + 1 - 1 = n /\ n + 1 \in 1 .. Len(more)
    BY <1>1
  <2>2. f[n + 1] = Merge(f[n], lines[n + 1])
        /\ g[n + 1] = Merge(g[n], more[n + 1])
    BY <1>2, <1>3, <2>1
  <2>. QED
    BY <1>1, <1>5, <2>1, <2>2
<1>. HIDE DEF U, N
<1>6. 0 .. N \subseteq U
  BY <1>1, <1>4, <1>5, UpTo
<1>7. g[N] = Merged(lines)
  BY <1>1, <1>2, <1>6 DEF U
<1>8. N + 1 \in 1 .. Len(more) /\ N + 1 - 1 = N
  BY <1>1
<1>9. g[N + 1] = Merge(g[N], r)
  BY <1>1, <1>3, <1>8
<1>. QED
  BY <1>1, <1>3, <1>7, <1>9 DEF more
-----------------------------------------------------------------------------
(* The lines of one key. *)
LEMMA LinesFacts ==
  ASSUME NEW m \in Stores, NEW key \in DOMAIN m.table
  PROVE  /\ Lines(m.table, key) \in Seq(Record)
         /\ Len(Lines(m.table, key)) = Len(m.table[key])
         /\ \A n \in 1 .. Len(m.table[key]) :
              /\ Lines(m.table, key)[n].key = key
              /\ Lines(m.table, key)[n].move = m.table[key][n].move
              /\ First(Lines(m.table, key)[n]) = m.table[key][n]
<1>. DEFINE es == m.table[key]
            N == Len(es)
            line == [n \in 1 .. N |-> [key |-> key, move |-> es[n].move, depth |-> es[n].depth,
                                       visits |-> es[n].visits]]
<1>1. es \in Seq(Entry) /\ key \in Keys
  BY StoreFacts
<1>. HIDE DEF es
<1>2. N \in Nat /\ \A n \in 1 .. N : es[n] \in Entry
  BY <1>1
<1>3. \A n \in 1 .. N : /\ line[n] \in Record /\ line[n].key = key
      /\ line[n].move = es[n].move
                        /\ First(line[n]) = es[n]
  <2>. SUFFICES ASSUME NEW n \in 1 .. N
                PROVE  /\ line[n] \in Record /\ line[n].key = key
                          /\ line[n].move = es[n].move
                       /\ First(line[n]) = es[n]
    OBVIOUS
  <2>1. line[n] = [key |-> key, move |-> es[n].move, depth |-> es[n].depth, visits |-> es[n].visits]
    OBVIOUS
  <2>. HIDE DEF line
  <2>2. es[n] \in Entry
    BY <1>2
  <2>. QED
    BY <1>1, <2>1, <2>2 DEF Record, Entry, First
<1>4. line \in Seq(Record) /\ Len(line) = N
  <2>1. line \in [1 .. N -> Record]
    <3>1. line = [n \in 1 .. N |-> line[n]]
      OBVIOUS
    <3>. HIDE DEF line
    <3>. QED
      BY <1>3, <3>1
  <2>. HIDE DEF line
  <2>. QED
    BY <1>2, <2>1
<1>5. Lines(m.table, key) = line
  BY DEF Lines, es
<1>. HIDE DEF line
<1>. QED
  BY <1>3, <1>4, <1>5 DEF es

(* save_table_unlocked writes the keys in their order. *)
LEMMA SavedRec ==
  ASSUME NEW m \in Stores
  PROVE  \E f \in [0 .. Len(m.lru) -> Seq(Record)] :
           /\ f[0] = <<>> /\ Saved(m) = f[Len(m.lru)]
           /\ \A n \in 1 .. Len(m.lru) : f[n] = f[n - 1] \o Lines(m.table, m.lru[n])
<1>. DEFINE N == Len(m.lru)
            Def(f) == f = [n \in 0 .. N |-> IF n = 0 THEN <<>> ELSE f[n - 1] \o Lines(m.table, m.lru[n])]
            sum == CHOOSE f : Def(f)
            step == [n \in 1 .. N |-> [x \in Seq(Record) |-> x \o Lines(m.table, m.lru[n])]]
<1>1. N \in Nat /\ \A n \in 1 .. N : m.lru[n] \in DOMAIN m.table
  <2>1. m.lru \in Seq(Keys) /\ \A n \in DOMAIN m.lru : m.lru[n] \in DOMAIN m.table
    BY StoreFacts
  <2>. QED
    BY <2>1
<1>2. \A n \in 1 .. N, x \in Seq(Record) : x \o Lines(m.table, m.lru[n]) \in Seq(Record)
  <2>. SUFFICES ASSUME NEW n \in 1 .. N, NEW x \in Seq(Record)
                PROVE  x \o Lines(m.table, m.lru[n]) \in Seq(Record)
    OBVIOUS
  <2>1. Lines(m.table, m.lru[n]) \in Seq(Record)
    BY <1>1, LinesFacts
  <2>. QED
    BY <2>1
<1>3. step \in [1 .. N -> [Seq(Record) -> Seq(Record)]]
  BY <1>2
<1>4. <<>> \in Seq(Record)
  OBVIOUS
<1>5. PICK f \in [0 .. N -> Seq(Record)] : f[0] = <<>>
      /\ \A n \in 1 .. N : f[n] = step[n][f[n - 1]]
  <2>1. step \in Steps(N, Seq(Record))
    BY <1>3 DEF Steps
  <2>. HIDE DEF step, N
  <2>2. \E f : Recursive(f, N, Seq(Record), <<>>, step)
    BY <1>1, <1>4, <2>1, RecExists
  <2>. QED
    BY <2>2 DEF Recursive
<1>6. Def(f)
  <2>1. \A n \in 0 .. N : n # 0 => n \in 1 .. N /\ n - 1 \in 0 .. N
    BY <1>1
  <2>2. \A n \in 0 .. N : n # 0 => f[n] = f[n - 1] \o Lines(m.table, m.lru[n])
    <3>1. \A n \in 1 .. N, x \in Seq(Record) : step[n][x] = x \o Lines(m.table, m.lru[n])
      OBVIOUS
    <3>. HIDE DEF step, N
    <3>. QED
      BY <1>5, <2>1, <3>1
  <2>3. f = [n \in 0 .. N |-> f[n]]
    OBVIOUS
  <2>. HIDE DEF step
  <2>. QED
    BY <1>5, <2>2, <2>3
<1>7. Def(sum)
  <2>. HIDE DEF Def
  <2>. QED
    BY <1>6
<1>. HIDE DEF sum
<1>8. /\ DOMAIN sum = 0 .. N /\ sum[0] = <<>>
      /\ \A n \in 1 .. N : sum[n] = sum[n - 1] \o Lines(m.table, m.lru[n])
  BY <1>1, <1>7
<1>9. \A n \in 0 .. N : sum[n] \in Seq(Record)
  <2>. DEFINE T == {n \in 0 .. N : sum[n] \in Seq(Record)}
              and(n, x) == x \o Lines(m.table, m.lru[n])
  <2>0. /\ sum[0] \in Seq(Record) /\ \A n \in 1 .. N : sum[n] = and(n, sum[n - 1])
        /\ \A n \in 1 .. N, x \in Seq(Record) : and(n, x) \in Seq(Record)
    BY <1>2, <1>4, <1>8, Zenon
  <2>. HIDE DEF and, N
  <2>1. 0 \in T
    BY <1>1, <2>0
  <2>2. ASSUME NEW n \in 0 .. (N - 1), n \in T PROVE n + 1 \in T
    <3>1. n + 1 \in 1 .. N /\ n + 1 - 1 = n
      BY <1>1
    <3>2. sum[n + 1] = and(n + 1, sum[n])
      BY <2>0, <3>1
    <3>. QED
      BY <1>1, <2>0, <2>2, <3>1, <3>2
  <2>. HIDE DEF T
  <2>3. 0 .. N \subseteq T
    BY <1>1, <2>1, <2>2, UpTo
  <2>. QED
    BY <2>3 DEF T
<1>10. Saved(m) = sum[N]
  BY DEF Saved, sum, Order
<1>11. sum \in [0 .. N -> Seq(Record)]
  <2>1. sum = [n \in 0 .. N |-> sum[n]]
    BY <1>7
  <2>. QED
    BY <1>9, <2>1
<1>. HIDE DEF Def
<1>. QED
  BY <1>8, <1>10, <1>11

(* The first elements of a sequence. *)
LEMMA Prefix ==
  ASSUME NEW S, NEW s \in Seq(S), NEW n \in 0 .. Len(s)
  PROVE  /\ SubSeq(s, 1, n) \in Seq(S) /\ Len(SubSeq(s, 1, n)) = n
         /\ \A i \in 1 .. n : SubSeq(s, 1, n)[i] = s[i]
         /\ n = 0 => SubSeq(s, 1, n) = <<>>
         /\ n < Len(s) => SubSeq(s, 1, n + 1) = Append(SubSeq(s, 1, n), s[n + 1])
<1>1. Len(s) \in Nat /\ n \in Nat /\ 1 \in 1 .. (Len(s) + 1)
      /\ n \in (1 - 1) .. Len(s)
      /\ n - 1 + 1 = n /\ \A i \in 1 .. n : 1 + i - 1 = i
  OBVIOUS
<1>. DEFINE p == SubSeq(s, 1, n)
<1>2. p \in Seq(S) /\ Len(p) = n /\ \A i \in 1 .. n : p[i] = s[i]
  <2>1. p \in Seq(S) /\ Len(p) = n - 1 + 1
        /\ \A i \in 1 .. (n - 1 + 1) : p[i] = s[1 + i - 1]
    BY <1>1, PartFacts
  <2>. HIDE DEF p
  <2>. QED
    BY <1>1, <2>1
<1>3. n = 0 => p = <<>>
  <2>. HIDE DEF p
  <2>. QED
    BY <1>2
<1>4. ASSUME n < Len(s) PROVE SubSeq(s, 1, n + 1) = Append(p, s[n + 1])
  <2>1. 1 \in 1 .. Len(s) /\ n + 1 \in 1 .. Len(s) /\ n + 1 - 1 = n
        /\ s[n + 1] \in S
    BY <1>1, <1>4
  <2>2. SubSeq(s, 1, n + 1) = SubSeq(s, 1, n + 1 - 1) \o <<s[n + 1]>>
    BY <2>1, SubSeqRecursiveSecond
  <2>. QED
    BY <1>2, <2>1, <2>2, AppendIsConcat
<1>. QED
  BY <1>2, <1>3, <1>4

(* Touching the last key again changes nothing. *)
LEMMA TouchLast ==
  ASSUME NEW s \in Seq(Keys), NEW key \in Keys, key \notin ToSet(s)
  PROVE  /\ Touch(s, key) = Append(s, key)
         /\ Touch(Append(s, key), key) = Append(s, key)
<1>. DEFINE N == Len(s)
            t == Append(s, key)
<1>1. /\ DOMAIN s = 1 .. N /\ N \in Nat /\ t \in Seq(Keys) /\ Len(t) = N + 1
         /\ t[N + 1] = key
      /\ DOMAIN t = 1 .. (N + 1) /\ \A n \in 1 .. N : t[n] = s[n]
  BY AppendProperties
<1>2. \A n \in 1 .. N : s[n] # key
  BY <1>1 DEF ToSet
<1>3. Touch(s, key) = Append(s, key)
  BY <1>1, <1>2 DEF Touch
<1>. HIDE DEF t
<1>4. \A n \in DOMAIN t : t[n] = key <=> n = N + 1
  <2>1. \A n \in DOMAIN t : n # N + 1 => n \in 1 .. N
    BY <1>1
  <2>. QED
    BY <1>1, <1>2, <2>1
<1>5. N + 1 \in DOMAIN t /\ (CHOOSE n \in DOMAIN t : t[n] = key) = N + 1
  <2>1. N + 1 \in DOMAIN t
    BY <1>1
  <2>. QED
    BY <1>4, <2>1
<1>6. Touch(t, key) = Append(RemoveAt(t, N + 1), key)
  BY <1>4, <1>5 DEF Touch
<1>7. RemoveAt(t, N + 1) = s
  <2>1. N + 1 - 1 = N /\ N \in 0 .. Len(t) /\ N + 2 > N + 1 /\ N + 1 + 1 = N + 2
        /\ N < Len(t)
    BY <1>1
  <2>2. RemoveAt(t, N + 1) = SubSeq(t, 1, N) \o SubSeq(t, N + 2, N + 1)
    BY <1>1, <2>1 DEF RemoveAt
  <2>3. SubSeq(t, N + 2, N + 1) = <<>>
    <3>1. N + 2 \in Int /\ N + 1 \in Int /\ N + 1 < N + 2
      BY <1>1
    <3>. QED
      BY <3>1, SubSeqEmpty
  <2>4. SubSeq(t, 1, N) = s
    <3>1. /\ SubSeq(t, 1, N) \in Seq(Keys) /\ Len(SubSeq(t, 1, N)) = N
          /\ \A i \in 1 .. N : SubSeq(t, 1, N)[i] = t[i]
      BY <1>1, <2>1, Prefix
    <3>2. \A i \in 1 .. Len(s) : SubSeq(t, 1, N)[i] = s[i]
      BY <1>1, <3>1
    <3>. QED
      BY <1>1, <3>1, <3>2, SeqEqual
  <2>. QED
    BY <2>2, <2>3, <2>4, ConcatEmptySeq
<1>. QED
  BY <1>3, <1>6, <1>7 DEF t
-----------------------------------------------------------------------------
(* What has been read back after n keys, and after j lines of the next. *)
Part(m, n) ==
  [table  |-> [k \in {m.lru[i] : i \in 1 .. n} |-> m.table[k]],
   lru    |-> SubSeq(m.lru, 1, n),
   unique |-> Total(m.table, SubSeq(m.lru, 1, n))]
Between(m, n, j) ==
  IF j = 0 THEN Part(m, n)
  ELSE [table  |-> [k \in {m.lru[i] : i \in 1 .. n} \cup {m.lru[n + 1]} |->
                     IF k = m.lru[n + 1] THEN SubSeq(m.table[k], 1, j) ELSE m.table[k]],
        lru    |-> Append(SubSeq(m.lru, 1, n), m.lru[n + 1]),
        unique |-> Total(m.table, SubSeq(m.lru, 1, n)) + j]

(* The keys read back so far, and the next one. *)
LEMMA PartKeys ==
  ASSUME NEW m \in Stores, NEW n \in 0 .. (Len(m.lru) - 1)
  PROVE  /\ m.lru[n + 1] \in DOMAIN m.table
            /\ m.lru[n + 1] \notin {m.lru[i] : i \in 1 .. n}
         /\ {m.lru[i] : i \in 1 .. n} \subseteq DOMAIN m.table
         /\ SubSeq(m.lru, 1, n) \in Seq(Keys)
            /\ ToSet(SubSeq(m.lru, 1, n)) = {m.lru[i] : i \in 1 .. n}
         /\ SubSeq(m.lru, 1, n + 1) = Append(SubSeq(m.lru, 1, n), m.lru[n + 1])
         /\ Counts(m.table, SubSeq(m.lru, 1, n))
<1>. DEFINE lru == m.lru
            p == SubSeq(lru, 1, n)
<1>1. lru \in Seq(Keys) /\ IsInjective(lru) /\ ToSet(lru) = DOMAIN m.table
      /\ \A i \in DOMAIN lru : lru[i] \in DOMAIN m.table
      /\ Counts(m.table, lru)
  BY StoreFacts DEF Stores, Sound
<1>. HIDE DEF lru
<1>2. DOMAIN lru = 1 .. Len(lru) /\ n + 1 \in 1 .. Len(lru)
      /\ n \in 0 .. Len(lru) /\ n < Len(lru)
      /\ n + 1 \notin 1 .. n /\ 1 .. n \subseteq 1 .. Len(lru)
  BY <1>1 DEF lru
<1>3. /\ p \in Seq(Keys) /\ Len(p) = n /\ \A i \in 1 .. n : p[i] = lru[i]
      /\ SubSeq(lru, 1, n + 1) = Append(p, lru[n + 1])
  BY <1>1, <1>2, Prefix
<1>. HIDE DEF p
<1>4. DOMAIN p = 1 .. n
  BY <1>3
<1>5. ToSet(p) = {lru[i] : i \in 1 .. n}
  BY <1>3, <1>4 DEF ToSet
<1>6. lru[n + 1] \notin {lru[i] : i \in 1 .. n}
  BY <1>1, <1>2 DEF IsInjective
<1>7. Counts(m.table, p)
  BY <1>1, <1>2, <1>3, <1>4 DEF Counts
<1>8. {lru[i] : i \in 1 .. n} \subseteq DOMAIN m.table
  BY <1>1, <1>2
<1>. QED
  BY <1>1, <1>2, <1>3, <1>5, <1>6, <1>7, <1>8 DEF lru, p

(* The next line of a key appends its next entry. *)
LEMMA NextLine ==
  ASSUME NEW m \in Stores, NEW n \in 0 .. (Len(m.lru) - 1),
         NEW j \in 0 .. (Len(m.table[m.lru[n + 1]]) - 1)
  PROVE  Merge(Between(m, n, j), Lines(m.table, m.lru[n + 1])[j + 1]) = Between(m, n, j + 1)
<1>. DEFINE key == m.lru[n + 1]
            es == m.table[key]
            b == Between(m, n, j)
            p == SubSeq(m.lru, 1, n)
            D == {m.lru[i] : i \in 1 .. n}
            r == Lines(m.table, key)[j + 1]
            es0 == SubSeq(es, 1, j)
<1>1. /\ key \in DOMAIN m.table /\ key \notin D /\ D \subseteq DOMAIN m.table
      /\ p \in Seq(Keys) /\ ToSet(p) = D /\ Counts(m.table, p) /\ key \in Keys
  BY PartKeys, StoreFacts
<1>2. es \in Seq(Entry) /\ Distinct(es) /\ DOMAIN es = 1 .. Len(es)
      /\ Len(es) \in Nat
  BY <1>1, StoreFacts DEF Stores, Sound
<1>. HIDE DEF key, es
<1>3. j \in 0 .. Len(es) /\ j < Len(es) /\ j + 1 \in 1 .. Len(es) /\ j \in Nat
      /\ j + 1 # 0
      /\ j + 1 \notin 1 .. j /\ 1 .. j \subseteq 1 .. Len(es)
  BY SMTT(30), <1>2 DEF key, es
<1>4. r.key = key /\ r.move = es[j + 1].move /\ First(r) = es[j + 1]
  BY <1>1, <1>3, LinesFacts DEF es
<1>. HIDE DEF r
<1>5. /\ es0 \in Seq(Entry) /\ Len(es0) = j /\ \A i \in 1 .. j : es0[i] = es[i]
      /\ (j = 0 => es0 = <<>>) /\ SubSeq(es, 1, j + 1) = Append(es0, es[j + 1])
  BY <1>2, <1>3, Prefix
<1>. HIDE DEF es0
<1>6. b.table = [k \in D
      \cup (IF j = 0 THEN {} ELSE {key}) |-> IF k = key THEN es0 ELSE m.table[k]]
      /\ b.lru = (IF j = 0 THEN p ELSE Append(p, key))
         /\ b.unique = Total(m.table, p) + j
  <2>. HIDE DEF p, D
  <2>1. CASE j = 0
    <3>1. b = Part(m, n)
      BY <2>1 DEF Between
    <3>2. D \cup {} = D /\ \A k \in D : k # key
      BY <1>1
    <3>3. Total(m.table, p) + 0 = Total(m.table, p)
      BY <1>1, TotalNat
    <3>4. b.table = [k \in D |-> m.table[k]] /\ b.lru = p
          /\ b.unique = Total(m.table, p)
      BY <3>1 DEF Part, D, p
    <3>. HIDE DEF b
    <3>. QED
      BY <2>1, <3>2, <3>3, <3>4
  <2>2. CASE j # 0
    BY <2>2 DEF Between, key, es, es0, p, D
  <2>. QED
    BY <2>1, <2>2
<1>. HIDE DEF b, p, D
<1>7. Entries(b.table, key) = es0
  <2>1. CASE j = 0
    BY <1>1, <1>5, <1>6, <2>1 DEF Entries
  <2>2. CASE j # 0
    BY <1>1, <1>6, <2>2 DEF Entries
  <2>. QED
    BY <2>1, <2>2
<1>8. Find(es0, r.move) = 0
  <2>1. DOMAIN es0 = 1 .. j
    BY <1>5
  <2>2. \A i \in 1 .. j : es0[i].move # r.move
    BY <1>2, <1>3, <1>4, <1>5 DEF Distinct
  <2>. QED
    BY <2>1, <2>2 DEF Find
<1>9. Touch(b.lru, key) = Append(p, key)
  <2>1. Touch(p, key) = Append(p, key)
        /\ Touch(Append(p, key), key) = Append(p, key)
    BY <1>1, TouchLast
  <2>. QED
    BY <1>6, <2>1
<1>10. DOMAIN b.table \cup {key} = D \cup {key}
  BY <1>6
<1>11. Append(es0, First(r)) = SubSeq(es, 1, j + 1)
  BY <1>4, <1>5
<1>12. Merge(b, r) = [table  |-> [k \in D \cup {key} |->
                                  IF k # key THEN b.table[k] ELSE SubSeq(es, 1, j + 1)],
                      lru    |-> Append(p, key), unique |-> b.unique + 1]
  BY <1>4, <1>7, <1>8, <1>9, <1>10, <1>11 DEF Merge, First
<1>13. [k \in D \cup {key} |-> IF k # key THEN b.table[k] ELSE SubSeq(es, 1, j + 1)]
       = [k \in D
       \cup {key} |-> IF k = key THEN SubSeq(m.table[k], 1, j + 1) ELSE m.table[k]]
  BY <1>6 DEF es
<1>14. b.unique + 1 = Total(m.table, p) + (j + 1)
  <2>1. Total(m.table, p) \in Nat
    BY <1>1, TotalNat
  <2>. QED
    BY <1>3, <1>6, <2>1
<1>. QED
  BY <1>3, <1>12, <1>13, <1>14 DEF Between, D, p, key, b, r

(* All the lines of a key. *)
LEMMA NextKey ==
  ASSUME NEW m \in Stores, NEW n \in 0 .. (Len(m.lru) - 1), NEW L \in Seq(Record),
         Merged(L) = Part(m, n)
  PROVE  Merged(L \o Lines(m.table, m.lru[n + 1])) = Part(m, n + 1)
<1>. DEFINE key == m.lru[n + 1]
            es == m.table[key]
            lines == Lines(m.table, key)
            N == Len(es)
<1>1. key \in DOMAIN m.table /\ key \in Keys
  BY PartKeys, StoreFacts
<1>2. es \in Seq(Entry) /\ es # <<>>
  BY <1>1, StoreFacts DEF Stores, Sound
<1>3. lines \in Seq(Record) /\ Len(lines) = N
  <2>. HIDE DEF key
  <2>. QED
    BY <1>1, LinesFacts
<1>4. N \in Nat /\ N # 0
  <2>. HIDE DEF es
  <2>. QED
    BY <1>2
<1>5. \A j \in 0 .. (N - 1) : Merge(Between(m, n, j), lines[j + 1]) = Between(m, n, j + 1)
  BY NextLine
<1>. HIDE DEF key, es, lines, N
<1>. DEFINE T == {j \in 0 .. N : Merged(L \o SubSeq(lines, 1, j)) = Between(m, n, j)}
<1>6. 0 \in T
  <2>1. 0 \in 0 .. N /\ 0 \in 0 .. Len(lines)
    BY <1>3, <1>4
  <2>2. SubSeq(lines, 1, 0) = <<>>
    BY <1>3, <2>1, Prefix
  <2>3. L \o <<>> = L
    BY ConcatEmptySeq
  <2>. QED
    BY <2>1, <2>2, <2>3 DEF Between
<1>7. ASSUME NEW j \in 0 .. (N - 1), j \in T PROVE j + 1 \in T
  <2>. DEFINE p == SubSeq(lines, 1, j)
  <2>1. j \in 0 .. Len(lines) /\ j < Len(lines) /\ j + 1 \in 0 .. N
        /\ j + 1 \in 1 .. Len(lines)
    BY <1>3, <1>4
  <2>2. p \in Seq(Record) /\ SubSeq(lines, 1, j + 1) = Append(p, lines[j + 1])
    BY <1>3, <2>1, Prefix
  <2>3. lines[j + 1] \in Record
    BY <1>3, <2>1
  <2>. HIDE DEF p
  <2>4. L \o Append(p, lines[j + 1]) = Append(L \o p, lines[j + 1])
        /\ L \o p \in Seq(Record)
    <3>. DEFINE one == <<lines[j + 1]>>
    <3>1. one \in Seq(Record) /\ L \o p \in Seq(Record)
      BY <2>2, <2>3
    <3>2. Append(p, lines[j + 1]) = p \o one
          /\ Append(L \o p, lines[j + 1]) = (L \o p) \o one
      BY <2>2, <2>3, <3>1, AppendIsConcat
    <3>. HIDE DEF one
    <3>3. (L \o p) \o one = L \o (p \o one)
      BY SMTT(30), <2>2, <3>1, ConcatAssociative
    <3>. QED
      BY <3>1, <3>2, <3>3
  <2>5. Merged(L \o SubSeq(lines, 1, j + 1)) = Merge(Merged(L \o p), lines[j + 1])
    <3>. DEFINE c == L \o p
    <3>1. c \in Seq(Record)
          /\ L \o SubSeq(lines, 1, j + 1) = Append(c, lines[j + 1])
      BY <2>2, <2>4
    <3>. HIDE DEF c
    <3>2. Merged(Append(c, lines[j + 1])) = Merge(Merged(c), lines[j + 1])
      BY <2>3, <3>1, MergedAppend
    <3>. QED
      BY <3>1, <3>2 DEF c
  <2>6. Merged(L \o p) = Between(m, n, j)
    BY <1>7 DEF p
  <2>. QED
    BY <1>5, <2>1, <2>5, <2>6
<1>. HIDE DEF T
<1>8. 0 .. N \subseteq T
  BY <1>4, <1>6, <1>7, UpTo
<1>9. Merged(L \o SubSeq(lines, 1, N)) = Between(m, n, N)
  BY <1>4, <1>8 DEF T
<1>10. SubSeq(lines, 1, N) = lines
  BY <1>3, SubSeqFull
<1>11. Between(m, n, N) = Part(m, n + 1)
  <2>. DEFINE D == {m.lru[i] : i \in 1 .. n}
              p == SubSeq(m.lru, 1, n)
  <2>1. /\ p \in Seq(Keys) /\ Counts(m.table, p)
           /\ SubSeq(m.lru, 1, n + 1) = Append(p, key)
    BY PartKeys DEF key
  <2>2. {m.lru[i] : i \in 1 .. (n + 1)} = D \cup {key}
    <3>1. 1 .. (n + 1) = 1 .. n \cup {n + 1}
      OBVIOUS
    <3>2. {m.lru[i] : i \in 1 .. n \cup {n + 1}} = D \cup {m.lru[n + 1]}
      OBVIOUS
    <3>. QED
      BY <3>1, <3>2 DEF key
  <2>. HIDE DEF D, p
  <2>3. Total(m.table, Append(p, key)) = Total(m.table, p) + N
    <3>1. Len(m.table[key]) \in Nat
      BY <1>4 DEF N, es
    <3>2. Total(m.table, Append(p, key)) = Total(m.table, p) + Len(m.table[key])
      BY <1>1, <2>1, <3>1, TotalAppend
    <3>. QED
      BY <3>2 DEF N, es
  <2>4. SubSeq(es, 1, N) = es
    BY <1>2, SubSeqFull DEF N
  <2>5. [k \in D \cup {key} |-> IF k = key THEN SubSeq(m.table[k], 1, N) ELSE m.table[k]]
        = [k \in D \cup {key} |-> m.table[k]]
    BY <2>4 DEF es
  <2>6. Between(m, n, N) =
          [table  |-> [k \in D
          \cup {key} |-> IF k = key THEN SubSeq(m.table[k], 1, N) ELSE m.table[k]],
           lru    |-> Append(p, key), unique |-> Total(m.table, p) + N]
    BY <1>4 DEF Between, D, p, key
  <2>7. Part(m, n + 1) = [table  |-> [k \in D \cup {key} |-> m.table[k]],
                          lru    |-> Append(p, key), unique |-> Total(m.table, Append(p, key))]
    BY <2>1, <2>2 DEF Part
  <2>. QED
    BY <2>3, <2>5, <2>6, <2>7
<1>. QED
  BY <1>9, <1>10, <1>11 DEF lines, key

(* What save_table_unlocked writes, load_table_unlocked reads back.        *)
LEMMA ReadBack ==
  ASSUME NEW m \in Stores
  PROVE  Saved(m) \in Seq(Record) /\ Merged(Saved(m)) = m
<1>. DEFINE N == Len(m.lru)
<1>1. /\ N \in Nat /\ m.lru \in Seq(Keys) /\ ToSet(m.lru) = DOMAIN m.table
      /\ m.unique = Total(m.table, m.lru) /\ DOMAIN m.lru = 1 .. N
      /\ m.table = [k \in DOMAIN m.table |-> m.table[k]]
      /\ m = [table |-> m.table, lru |-> m.lru, unique |-> m.unique]
  <2>1. m.lru \in Seq(Keys) /\ ToSet(m.lru) = DOMAIN m.table
        /\ m.unique = Total(m.table, m.lru)
        /\ m.table \in Tables
           /\ m = [table |-> m.table, lru |-> m.lru, unique |-> m.unique]
    BY StoreFacts DEF Stores, Sound
  <2>2. m.table = [k \in DOMAIN m.table |-> m.table[k]]
    BY <2>1, TableFacts
  <2>. QED
    BY <2>1, <2>2
<1>2. PICK f \in [0 .. N -> Seq(Record)] :
           /\ f[0] = <<>> /\ Saved(m) = f[N]
           /\ \A n \in 1 .. N : f[n] = f[n - 1] \o Lines(m.table, m.lru[n])
  BY SavedRec
<1>. DEFINE T == {n \in 0 .. N : Merged(f[n]) = Part(m, n)}
<1>3. Part(m, 0) = Empty
  <2>1. {m.lru[i] : i \in 1 .. 0} = {} /\ 0 \in 0 .. Len(m.lru)
    BY <1>1
  <2>2. SubSeq(m.lru, 1, 0) = <<>>
    BY <1>1, <2>1, Prefix
  <2>3. [k \in {} |-> m.table[k]] = <<>>
    OBVIOUS
  <2>. QED
    BY <2>1, <2>2, <2>3, TotalEmpty DEF Part, Empty
<1>4. 0 \in T
  BY <1>1, <1>2, <1>3, MergedEmpty
<1>5. ASSUME NEW n \in 0 .. (N - 1), n \in T PROVE n + 1 \in T
  <2>1. n + 1 \in 1 .. N /\ n + 1 - 1 = n /\ n \in 0 .. N /\ n + 1 \in 0 .. N
    BY <1>1
  <2>. DEFINE and(k, x) == x \o Lines(m.table, m.lru[k])
  <2>2. \A k \in 1 .. N : f[k] = and(k, f[k - 1])
    BY <1>2, Zenon
  <2>. HIDE DEF and
  <2>3. f[n + 1] = and(n + 1, f[n]) /\ f[n] \in Seq(Record)
    BY <1>2, <2>1, <2>2
  <2>4. Merged(f[n]) = Part(m, n)
    BY <1>5
  <2>5. Merged(and(n + 1, f[n])) = Part(m, n + 1)
    BY <2>3, <2>4, NextKey DEF and
  <2>. QED
    BY <2>1, <2>3, <2>5
<1>. HIDE DEF T, N
<1>6. 0 .. N \subseteq T
  BY <1>1, <1>4, <1>5, UpTo
<1>7. Merged(Saved(m)) = Part(m, N)
  BY <1>1, <1>2, <1>6 DEF T
<1>8. Part(m, N) = m
  <2>1. SubSeq(m.lru, 1, N) = m.lru
    BY <1>1, SubSeqFull DEF N
  <2>2. {m.lru[i] : i \in 1 .. N} = DOMAIN m.table
    BY <1>1 DEF ToSet
  <2>. QED
    BY <1>1, <2>1, <2>2 DEF Part
<1>. QED
  BY <1>1, <1>2, <1>7, <1>8

(* The empty store is consistent and within any limit. *)
LEMMA EmptyFacts == Empty \in Stores /\ Within(Empty) /\ Empty.table = <<>>
<1>1. DOMAIN Empty.table = {} /\ Empty.table = <<>>
  BY DEF Empty
<1>2. Cardinality({}) = 0 /\ MaxEntries \in Nat
  BY FS_EmptySet, SizesAssumption
<1>. QED
  BY <1>1, <1>2, EmptyStore DEF Within

(* A file is read into a sound store. *)
LEMMA LoadedSound ==
  ASSUME NEW d \in [Files -> Seq(Record)], NEW file \in Files \cup {NoFile}
  PROVE  Loaded(d, file) \in Stores /\ Within(Loaded(d, file))
<1>1. CASE file = NoFile
  BY <1>1, EmptyFacts DEF Loaded
<1>2. CASE file # NoFile
  <2>1. d[file] \in Seq(Record)
    BY <1>2
  <2>2. Merged(d[file]) \in Stores
    BY <2>1, MergedSound
  <2>. QED
    BY <1>2, <2>2, EnforceSound DEF Loaded
<1>. QED
  BY <1>1, <1>2

(* The file that a store has been saved to is read back as that store. *)
LEMMA LoadedSaved ==
  ASSUME NEW m \in Stores, Within(m), NEW d, NEW file \in Files, d[file] = Saved(m)
  PROVE  Loaded(d, file) = m
<1>1. file # NoFile
  BY NamesAssumption
<1>2. Merged(d[file]) = m
  BY ReadBack
<1>. QED
  BY <1>1, <1>2, EnforceNothing DEF Loaded

(* The book finds a position. *)
LEMMA ProbeSound ==
  ASSUME NEW m \in Stores, Within(m), NEW key \in DOMAIN m.table
  PROVE  LET new == [m EXCEPT !.lru = Touch(m.lru, key)] IN
         /\ new \in Stores /\ Within(new) /\ new.table = m.table
         /\ new.lru \in Seq(Keys) /\ Len(new.lru) > 0
            /\ new.lru[Len(new.lru)] = key
<1>. DEFINE new == [m EXCEPT !.lru = Touch(m.lru, key)]
<1>1. /\ m.table \in Tables /\ m.lru \in Seq(Keys) /\ m.unique \in Nat
         /\ key \in Keys
      /\ IsInjective(m.lru) /\ ToSet(m.lru) = DOMAIN m.table
         /\ Counts(m.table, m.lru)
      /\ m.unique = Total(m.table, m.lru)
      /\ m = [table |-> m.table, lru |-> m.lru, unique |-> m.unique]
      /\ \A k \in DOMAIN m.table : m.table[k] # <<>> /\ Distinct(m.table[k])
  BY StoreFacts DEF Stores, Sound
<1>2. PICK rest \in Seq(Keys) :
           /\ Touch(m.lru, key) = Append(rest, key) /\ IsInjective(rest)
           /\ ToSet(rest) = ToSet(m.lru) \ {key}
           /\ key \notin ToSet(m.lru) => rest = m.lru
           /\ \A t : Counts(t, m.lru) => /\ Counts(t, rest)
                /\ Total(t, m.lru) = Total(t, rest)
                                     + IF key \in ToSet(m.lru) THEN Len(t[key]) ELSE 0
  BY <1>1, TouchFacts
<1>. DEFINE lru == Append(rest, key)
<1>3. new = [table |-> m.table, lru |-> lru, unique |-> m.unique]
  <2>1. m = [table |-> m.table, lru |-> m.lru, unique |-> m.unique]
    BY <1>1
  <2>2. new = [table |-> m.table, lru |-> Touch(m.lru, key), unique |-> m.unique]
    BY <2>1
  <2>. QED
    BY <1>2, <2>2
<1>4. /\ lru \in Seq(Keys) /\ Len(lru) = Len(rest) + 1 /\ lru[Len(rest) + 1] = key
      /\ DOMAIN rest = 1 .. Len(rest) /\ Len(rest) \in Nat
         /\ DOMAIN lru = 1 .. (Len(rest) + 1)
      /\ \A n \in 1 .. Len(rest) : lru[n] = rest[n]
  BY <1>1, AppendProperties
<1>5. ToSet(lru) = ToSet(rest) \cup {key}
  BY SetFacts
<1>6. Total(m.table, lru) = Total(m.table, rest) + Len(m.table[key])
      /\ Counts(m.table, rest)
  <2>1. m.table[key] \in Seq(Entry)
    BY StoreFacts
  <2>2. Len(m.table[key]) \in Nat
    BY <2>1
  <2>. QED
    BY <1>1, <1>2, <2>2, TotalAppend
<1>7. m.unique = Total(m.table, lru)
  BY <1>1, <1>2, <1>6
<1>. HIDE DEF lru, new
<1>8. IsInjective(lru)
  <2>1. \A n \in 1 .. Len(rest) : rest[n] # key
    BY <1>2, <1>4 DEF ToSet
  <2>2. \A n \in DOMAIN lru : n = Len(rest) + 1 \/ n \in 1 .. Len(rest)
    BY <1>4
  <2>. QED
    BY <1>2, <1>4, <2>1, <2>2 DEF IsInjective
<1>9. new.table = m.table /\ new.lru = lru /\ new.unique = m.unique
  BY <1>3
<1>10. new \in Mems /\ Sound(new)
  <2>1. new \in Mems
    BY <1>1, <1>3, <1>4 DEF Mems
  <2>2. ToSet(lru) = DOMAIN m.table
    BY <1>1, <1>2, <1>5
  <2>. QED
    BY <1>1, <1>7, <1>8, <1>9, <2>1, <2>2 DEF Sound
<1>11. Len(lru) > 0 /\ lru[Len(lru)] = key
  BY <1>4
<1>. QED
  BY <1>4, <1>9, <1>10, <1>11 DEF Stores, Within, new
-----------------------------------------------------------------------------
(* All positions and moves of a table, and of some lines, are known. *)
Known(t, P)      == \A key \in DOMAIN t : \A n \in DOMAIN t[key] : <<key, t[key][n].move>> \in P
KnownLines(s, P) == \A n \in DOMAIN s : <<s[n].key, s[n].move>> \in P

(* A table into which a known line is merged has only known moves. *)
LEMMA KnownMerge ==
  ASSUME NEW P, NEW m \in Stores, Known(m.table, P), NEW r \in Record, <<r.key, r.move>> \in P
  PROVE  Known(Merge(m, r).table, P)
<1>. DEFINE new == Merge(m, r)
            es == Entries(m.table, r.key)
<1>1. /\ DOMAIN new.table = DOMAIN m.table \cup {r.key}
      /\ new.table[r.key] = With(es, r) /\ es \in Seq(Entry) /\ Distinct(es)
      /\ \A key \in DOMAIN m.table : key # r.key => new.table[key] = m.table[key]
  BY MergeParts
<1>. HIDE DEF new
<1>2. \A n \in DOMAIN es : <<r.key, es[n].move>> \in P
  BY DEF Known, Entries
<1>. HIDE DEF es
<1>3. \A n \in DOMAIN With(es, r) :
        With(es, r)[n].move = r.move
        \/ (n \in DOMAIN es /\ With(es, r)[n].move = es[n].move)
  BY <1>1, WithFacts
<1>4. ASSUME NEW key \in DOMAIN new.table, NEW n \in DOMAIN new.table[key]
      PROVE  <<key, new.table[key][n].move>> \in P
  <2>1. CASE key = r.key
    BY <1>1, <1>2, <1>3, <1>4, <2>1
  <2>2. CASE key # r.key
    BY <1>1, <1>4, <2>2 DEF Known
  <2>. QED
    BY <2>1, <2>2
<1>. QED
  BY <1>4 DEF Known, new

(* enforce_limit adds no move. *)
LEMMA KnownEnforce ==
  ASSUME NEW P, NEW m \in Stores, Known(m.table, P)
  PROVE  Known(Enforce(m).table, P)
<1>1. DOMAIN Enforce(m).table \subseteq DOMAIN m.table
      /\ \A key \in DOMAIN Enforce(m).table : Enforce(m).table[key] = m.table[key]
  BY EnforceParts
<1>. QED
  BY <1>1 DEF Known

(* What is read from files of known lines is known. *)
LEMMA KnownLoaded ==
  ASSUME NEW P, NEW d \in [Files -> Seq(Record)], NEW file \in Files
         \cup {NoFile},
         \A f \in Files : KnownLines(d[f], P)
  PROVE  Known(Loaded(d, file).table, P)
<1>1. Known(Empty.table, P)
  BY DEF Known, Empty
<1>2. CASE file = NoFile
  BY <1>1, <1>2 DEF Loaded
<1>3. CASE file # NoFile
  <2>. DEFINE T == {m \in Stores : Known(m.table, P)}
              s == d[file]
  <2>1. s \in Seq(Record) /\ KnownLines(s, P) /\ DOMAIN s = 1 .. Len(s)
    BY <1>3
  <2>. HIDE DEF s
  <2>2. \A n \in 1 .. Len(s) : s[n] \in Record /\ <<s[n].key, s[n].move>> \in P
    BY <2>1 DEF KnownLines
  <2>3. \A m \in T \cap Stores, n \in 1 .. Len(s) : Merge(m, s[n]) \in T
    BY <2>2, KnownMerge, MergeSound
  <2>4. Empty \in T
    BY <1>1, EmptyStore
  <2>. HIDE DEF T
  <2>5. Merged(s) \in T \cap Stores
    BY <2>1, <2>3, <2>4, MergedIn
  <2>6. Known(Enforce(Merged(s)).table, P)
    BY <2>5, KnownEnforce DEF T
  <2>. QED
    BY <1>3, <2>6 DEF Loaded, s
<1>. QED
  BY <1>2, <1>3

(* Known lines after known lines. *)
LEMMA KnownConcat ==
  ASSUME NEW P, NEW s \in Seq(Record), NEW t \in Seq(Record), KnownLines(s, P), KnownLines(t, P)
  PROVE  KnownLines(s \o t, P)
<1>. DEFINE c == s \o t
<1>1. /\ Len(s) \in Nat /\ Len(t) \in Nat /\ DOMAIN c = 1 .. (Len(s) + Len(t))
      /\ \A n \in 1 .. (Len(s) + Len(t)) : c[n] = IF n <= Len(s) THEN s[n] ELSE t[n - Len(s)]
      /\ DOMAIN s = 1 .. Len(s) /\ DOMAIN t = 1 .. Len(t)
  OBVIOUS
<1>. HIDE DEF c
<1>2. ASSUME NEW n \in DOMAIN c PROVE <<c[n].key, c[n].move>> \in P
  <2>1. CASE n <= Len(s)
    <3>1. n \in DOMAIN s /\ c[n] = s[n]
      BY <1>1, <2>1
    <3>. QED
      BY <3>1 DEF KnownLines
  <2>2. CASE ~(n <= Len(s))
    <3>1. n - Len(s) \in DOMAIN t /\ c[n] = t[n - Len(s)]
      BY <1>1, <2>2
    <3>. QED
      BY <3>1 DEF KnownLines
  <2>. QED
    BY <2>1, <2>2
<1>. QED
  BY <1>2 DEF KnownLines, c

(* save_table_unlocked writes only what the table has. *)
LEMMA KnownSaved ==
  ASSUME NEW P, NEW m \in Stores, Known(m.table, P)
  PROVE  KnownLines(Saved(m), P)
<1>. DEFINE N == Len(m.lru)
<1>1. N \in Nat /\ \A n \in 1 .. N : m.lru[n] \in DOMAIN m.table
  <2>1. m.lru \in Seq(Keys) /\ \A n \in DOMAIN m.lru : m.lru[n] \in DOMAIN m.table
    BY StoreFacts
  <2>. QED
    BY <2>1
<1>2. PICK f \in [0 .. N -> Seq(Record)] :
           /\ f[0] = <<>> /\ Saved(m) = f[N]
           /\ \A n \in 1 .. N : f[n] = f[n - 1] \o Lines(m.table, m.lru[n])
  BY SavedRec
<1>. DEFINE T == {n \in 0 .. N : KnownLines(f[n], P)}
            and(k, x) == x \o Lines(m.table, m.lru[k])
<1>3. \A k \in 1 .. N : f[k] = and(k, f[k - 1])
  BY <1>2, Zenon
<1>4. ASSUME NEW k \in 1 .. N, NEW x \in Seq(Record), KnownLines(x, P)
      PROVE KnownLines(and(k, x), P)
  <2>. DEFINE key == m.lru[k]
              s == Lines(m.table, key)
  <2>1. key \in DOMAIN m.table /\ m.table[key] \in Seq(Entry)
    BY <1>1, StoreFacts
  <2>. HIDE DEF key
  <2>2. /\ s \in Seq(Record) /\ Len(s) = Len(m.table[key])
        /\ \A n \in 1 .. Len(m.table[key]) : s[n].key = key
           /\ s[n].move = m.table[key][n].move
    BY <2>1, LinesFacts
  <2>. HIDE DEF s
  <2>3. DOMAIN s = DOMAIN m.table[key] /\ DOMAIN s = 1 .. Len(m.table[key])
    BY <2>1, <2>2
  <2>4. KnownLines(s, P)
    BY <2>1, <2>2, <2>3 DEF Known, KnownLines
  <2>5. KnownLines(x \o s, P)
    BY <1>4, <2>2, <2>4, KnownConcat
  <2>. QED
    BY <2>5 DEF s, key
<1>. HIDE DEF and
<1>5. 0 \in T
  <2>1. KnownLines(<<>>, P)
    BY DEF KnownLines
  <2>. QED
    BY <1>1, <1>2, <2>1
<1>6. ASSUME NEW n \in 0 .. (N - 1), n \in T PROVE n + 1 \in T
  <2>1. n + 1 \in 1 .. N /\ n + 1 - 1 = n /\ n \in 0 .. N /\ n + 1 \in 0 .. N
    BY <1>1
  <2>2. f[n + 1] = and(n + 1, f[n]) /\ f[n] \in Seq(Record) /\ KnownLines(f[n], P)
    BY <1>2, <1>3, <1>6, <2>1
  <2>. QED
    BY <1>4, <2>1, <2>2
<1>. HIDE DEF T, N
<1>7. 0 .. N \subseteq T
  BY <1>1, <1>5, <1>6, UpTo
<1>. QED
  BY <1>1, <1>2, <1>7 DEF T
-----------------------------------------------------------------------------
(* What the variables hold. *)
Kinds == /\ settings \in Settings /\ initialized \in BOOLEAN
/\ writing \in BOOLEAN
         /\ dirty \in BOOLEAN /\ writable \in BOOLEAN /\ disturbed \in BOOLEAN
         /\ pendingFlush \in {0, 1} /\ searches \in 0 .. MaxSearches
SoundStore == mem \in Stores /\ Within(mem)
SoundFiles == disk \in [Files -> Seq(Record)] /\ out \in Seq(Record)

(* While a file is written, what it has and what is left are the table. *)
HalfWritten == ~Rest => /\ settings.file \in Files
                        /\ disk[settings.file] \o out = Saved(mem)

(* A file that cannot be opened has been disturbed. *)
LockedIsDisturbed == ~disturbed => writable

(* The table, the files and the lines on their way hold what was recorded. *)
AllSeen == /\ Known(mem.table, seen) /\ KnownLines(out, seen)
           /\ \A f \in Files : KnownLines(disk[f], seen)

(* The position the book has just found is the last to go. *)
FoundIsLast == \A key \in Keys : recent = <<"probe", key>> /\ Rest
                 => Len(mem.lru) > 0 /\ mem.lru[Len(mem.lru)] = key

SInv == /\ Kinds /\ SoundStore /\ SoundFiles /\ HalfWritten /\ LockedIsDisturbed
        /\ AllSeen /\ FoundIsLast /\ StoreIsItsFile

(* The program starts with an empty store and files that were seen. *)
LEMMA InitSInv == Init => SInv
<1>. SUFFICES ASSUME Init PROVE SInv
  OBVIOUS
<1>1. Kinds
  <2>1. Default \in Settings
    BY NamesAssumption DEF Default, Settings
  <2>2. 0 \in 0 .. MaxSearches
    BY SizesAssumption
  <2>. QED
    BY <2>1, <2>2 DEF Init, Kinds
<1>2. SoundStore
  BY EmptyFacts DEF Init, SoundStore
<1>3. SoundFiles
  BY DiskAssumption DEF Init, SoundFiles
<1>4. HalfWritten /\ LockedIsDisturbed
  BY DEF Init, HalfWritten, LockedIsDisturbed, Rest
<1>5. AllSeen
  <2>1. Known(mem.table, seen)
    BY DEF Init, Known, Empty
  <2>2. KnownLines(out, seen)
    BY DEF Init, KnownLines
  <2>3. ASSUME NEW f \in Files PROVE KnownLines(disk[f], seen)
    BY DEF Init, KnownLines, ToSet
  <2>. QED
    BY <2>1, <2>2, <2>3 DEF AllSeen
<1>6. FoundIsLast
  BY DEF Init, FoundIsLast
<1>7. StoreIsItsFile
  BY DEF Init, StoreIsItsFile, InStep, PersistedAfterSearch
<1>. QED
  BY <1>1, <1>2, <1>3, <1>4, <1>5, <1>6, <1>7 DEF SInv

(* Nothing is left to save when the settings change. *)
LEMMA UpdateSInv ==
  ASSUME IInv, SInv, NEW new \in Settings, UpdateSettings(new)
  PROVE  SInv'
<1>1. /\ Rest /\ ~dirty /\ pendingFlush = 0 /\ disk' = disk /\ settings' = new
         /\ initialized' = TRUE
      /\ recent' = <<"update">>
      /\ UNCHANGED <<writing, out, writable, disturbed, searches, seen>>
  BY DEF UpdateSettings, SavesFirst, IInv, CleanAtRest, fileVars
<1>2. /\ Kinds /\ SoundStore /\ SoundFiles /\ HalfWritten /\ LockedIsDisturbed
      /\ AllSeen /\ FoundIsLast /\ StoreIsItsFile
  BY DEF SInv
<1>3. new.file \in Files \cup {NoFile} /\ new.enabled \in BOOLEAN
  BY DEF Settings
<1>4. \/ new.enabled /\ ~Reads(new) /\ UNCHANGED <<mem, dirty, pendingFlush>>
      \/ new.enabled /\ mem' = Loaded(disk, new.file) /\ dirty' = FALSE
         /\ pendingFlush' = 0
      \/ ~new.enabled /\ mem' = Empty /\ dirty' = FALSE /\ pendingFlush' = 0
  BY <1>1, <1>3 DEF UpdateSettings
<1>5. Kinds'
  BY <1>1, <1>2, <1>4 DEF Kinds
<1>6. SoundStore'
  BY <1>2, <1>3, <1>4, LoadedSound, EmptyFacts DEF SoundStore, SoundFiles
<1>7. SoundFiles' /\ LockedIsDisturbed'
  BY <1>1, <1>2 DEF SoundFiles, LockedIsDisturbed
<1>8. HalfWritten' /\ FoundIsLast'
  BY <1>1 DEF HalfWritten, Rest, FoundIsLast
<1>9. AllSeen'
  <2>1. Known(Loaded(disk, new.file).table, seen)
    BY <1>2, <1>3, KnownLoaded DEF AllSeen, SoundFiles
  <2>2. Known(Empty.table, seen)
    BY DEF Known, Empty
  <2>3. Known(mem'.table, seen)
    BY <1>2, <1>4, <2>1, <2>2 DEF AllSeen
  <2>. QED
    BY <1>1, <1>2, <2>3 DEF AllSeen
<1>10. StoreIsItsFile'
  <2>1. ASSUME InStep', ~disturbed' PROVE OnDisk' = mem'.table
    <3>1. new.enabled /\ new.file # NoFile
      BY <1>1, <2>1 DEF InStep
    <3>2. CASE mem' = Loaded(disk, new.file)
      BY <1>1, <3>2 DEF OnDisk
    <3>3. CASE ~Reads(new) /\ mem' = mem
      <4>1. initialized /\ new.file = settings.file /\ settings.enabled
        BY <3>3 DEF Reads
      <4>2. InStep /\ ~disturbed
        BY <1>1, <2>1, <3>1, <4>1 DEF InStep
      <4>3. OnDisk = mem.table
        BY <1>2, <4>2 DEF StoreIsItsFile
      <4>. QED
        BY <1>1, <3>3, <4>1, <4>3 DEF OnDisk
    <3>. QED
      BY <1>4, <3>1, <3>2, <3>3
  <2>2. PersistedAfterSearch'
    BY <1>1 DEF PersistedAfterSearch
  <2>. QED
    BY <2>1, <2>2 DEF StoreIsItsFile
<1>. QED
  BY <1>5, <1>6, <1>7, <1>8, <1>9, <1>10 DEF SInv

(* A search is recorded. *)
LEMMA SearchSInv ==
  ASSUME IInv, SInv, NEW key \in Keys, NEW move \in Moves, NEW depth \in Depths,
         OnSearchComplete(key, move, depth)
  PROVE  SInv'
<1>. DEFINE r == [key |-> key, move |-> move, depth |-> depth, visits |-> 1]
<1>1. r \in Record /\ r.key = key /\ r.move = move
  BY SizesAssumption DEF Record
<1>2. /\ mem' = Enforce(Merge(mem, r)) /\ seen' = seen \cup {<<key, move>>}
         /\ searches' = searches + 1
      /\ searches < MaxSearches /\ Rest /\ Records /\ initialized
      /\ UNCHANGED <<settings, initialized, writable, disturbed>>
  BY DEF OnSearchComplete
<1>. HIDE DEF r
<1>3. \/ /\ Opens(settings)
         /\ disk' = [disk EXCEPT ![settings.file] = <<>>]
         /\ writing' = TRUE /\ out' = Saved(mem')
         /\ dirty' = TRUE /\ pendingFlush' = pendingFlush + 1
         /\ UNCHANGED recent
      \/ /\ ~Opens(settings) /\ dirty' = FALSE /\ pendingFlush' = 0
            /\ recent' = <<"search">>
         /\ UNCHANGED <<disk, writing, out>>
  BY DEF OnSearchComplete, Flushed, fileVars
<1>4. /\ Kinds /\ SoundStore /\ SoundFiles /\ HalfWritten /\ LockedIsDisturbed
      /\ AllSeen /\ FoundIsLast /\ StoreIsItsFile /\ pendingFlush = 0
  BY <1>2 DEF SInv, IInv, CleanAtRest
<1>5. Merge(mem, r) \in Stores /\ mem \in Stores
  BY <1>1, <1>4, MergeSound DEF SoundStore
<1>6. mem' \in Stores /\ Within(mem')
  BY <1>2, <1>5, EnforceSound
<1>7. Known(mem'.table, seen')
  <2>1. Known(mem.table, seen') /\ <<r.key, r.move>> \in seen'
    BY <1>1, <1>2, <1>4 DEF AllSeen, Known
  <2>2. Known(Merge(mem, r).table, seen')
    BY <1>1, <1>5, <2>1, KnownMerge
  <2>. QED
    BY <1>2, <1>5, <2>2, KnownEnforce
<1>8. Saved(mem') \in Seq(Record) /\ KnownLines(Saved(mem'), seen')
  BY <1>6, <1>7, ReadBack, KnownSaved
<1>9. \A f \in Files : KnownLines(disk[f], seen')
  BY <1>2, <1>4 DEF AllSeen, KnownLines
<1>10. CASE Opens(settings)
  <2>1. /\ disk' = [disk EXCEPT ![settings.file] = <<>>]
        /\ writing' = TRUE /\ out' = Saved(mem')
        /\ dirty' = TRUE /\ pendingFlush' = pendingFlush + 1
        /\ settings.file \in Files
    BY <1>3, <1>4, <1>10 DEF Opens, Kinds, Settings
  <2>2. <<>> \in Seq(Record)
    OBVIOUS
  <2>3. disk' \in [Files -> Seq(Record)] /\ disk'[settings.file] = <<>>
    BY <1>4, <2>1, <2>2 DEF SoundFiles
  <2>4. <<>> \o Saved(mem') = Saved(mem')
    BY <1>8, ConcatEmptySeq
  <2>5. SoundFiles' /\ HalfWritten'
    BY <1>2, <1>8, <2>1, <2>3, <2>4 DEF SoundFiles, HalfWritten
  <2>6. AllSeen'
    <3>1. KnownLines(<<>>, seen')
      BY DEF KnownLines
    <3>2. \A f \in Files : disk'[f] = IF f = settings.file THEN <<>> ELSE disk[f]
      BY <1>4, <2>1 DEF SoundFiles
    <3>3. \A f \in Files : KnownLines(disk'[f], seen')
      BY <1>9, <3>1, <3>2
    <3>. QED
      BY <1>7, <1>8, <2>1, <3>3 DEF AllSeen
  <2>7. Kinds'
    <3>1. searches' \in 0 .. MaxSearches /\ pendingFlush' \in {0, 1}
      BY <1>2, <1>4, <2>1, SizesAssumption DEF Kinds
    <3>. QED
      BY <1>2, <1>4, <2>1, <3>1 DEF Kinds
  <2>8. FoundIsLast' /\ StoreIsItsFile' /\ LockedIsDisturbed'
    BY <1>2, <1>4, <2>1 DEF FoundIsLast, StoreIsItsFile, InStep, PersistedAfterSearch, Rest, LockedIsDisturbed
  <2>. QED
    BY <1>6, <2>5, <2>6, <2>7, <2>8 DEF SInv, SoundStore
<1>11. CASE ~Opens(settings)
  <2>1. dirty' = FALSE /\ pendingFlush' = 0 /\ recent' = <<"search">>
        /\ UNCHANGED <<disk, writing, out>>
    BY <1>3, <1>11
  <2>2. settings.file = NoFile \/ ~writable
    BY <1>2, <1>11 DEF Opens, Records
  <2>3. StoreIsItsFile'
    BY <1>2, <1>4, <2>1, <2>2 DEF StoreIsItsFile, InStep, PersistedAfterSearch, LockedIsDisturbed
  <2>4. Kinds'
    <3>1. searches' \in 0 .. MaxSearches
      BY <1>2, <1>4, SizesAssumption DEF Kinds
    <3>. QED
      BY <1>2, <1>4, <2>1, <3>1 DEF Kinds
  <2>5. AllSeen'
    <3>1. KnownLines(out', seen')
      BY <1>2, <1>4, <2>1 DEF AllSeen, KnownLines
    <3>. QED
      BY <1>7, <1>9, <2>1, <3>1 DEF AllSeen
  <2>6. SoundFiles' /\ HalfWritten' /\ LockedIsDisturbed'
    BY <1>2, <1>4, <2>1 DEF SoundFiles, HalfWritten, Rest, LockedIsDisturbed
  <2>7. FoundIsLast'
    BY <2>1 DEF FoundIsLast
  <2>. QED
    BY <1>6, <2>3, <2>4, <2>5, <2>6, <2>7 DEF SInv, SoundStore
<1>. QED
  BY <1>10, <1>11

(* A line is written. *)
LEMMA LineSInv ==
  ASSUME IInv, SInv, WriteLine
  PROVE  SInv'
<1>1. /\ ~Rest /\ out # <<>> /\ out' = Tail(out)
      /\ disk' = [disk EXCEPT ![settings.file] = Append(@, Head(out))]
      /\ UNCHANGED <<settings, initialized, mem, writing, dirty, pendingFlush, recent, writable,
                     disturbed, searches, seen>>
  BY DEF WriteLine, callVars
<1>2. /\ Kinds /\ SoundStore /\ SoundFiles /\ HalfWritten /\ LockedIsDisturbed
      /\ AllSeen /\ FoundIsLast /\ StoreIsItsFile
  BY DEF SInv
<1>. DEFINE d == disk[settings.file]
<1>3. settings.file \in Files /\ d \in Seq(Record) /\ out \in Seq(Record)
      /\ d \o out = Saved(mem)
  BY <1>1, <1>2 DEF HalfWritten, SoundFiles
<1>4. /\ Head(out) \in Record /\ Tail(out) \in Seq(Record)
         /\ Append(d, Head(out)) \in Seq(Record)
      /\ out = <<Head(out)>> \o Tail(out) /\ Head(out) = out[1]
         /\ 1 \in DOMAIN out
      /\ DOMAIN Tail(out) = 1 .. (Len(out) - 1) /\ DOMAIN out = 1 .. Len(out)
      /\ \A n \in 1 .. (Len(out) - 1) : Tail(out)[n] = out[n + 1]
  <2>. HIDE DEF d
  <2>1. /\ Head(out) \in Record /\ Tail(out) \in Seq(Record)
           /\ Append(d, Head(out)) \in Seq(Record)
        /\ Head(out) = out[1] /\ 1 \in DOMAIN out
        /\ DOMAIN Tail(out) = 1 .. (Len(out) - 1) /\ DOMAIN out = 1 .. Len(out)
        /\ \A n \in 1 .. (Len(out) - 1) : Tail(out)[n] = out[n + 1]
    BY <1>1, <1>3
  <2>2. out = <<Head(out)>> \o Tail(out)
    <3>1. 1 \in 1 .. Len(out) /\ Len(out) \in 1 .. Len(out)
      BY <1>1, <1>3
    <3>2. SubSeq(out, 1, Len(out)) = <<out[1]>> \o SubSeq(out, 1 + 1, Len(out))
      BY <1>3, <3>1, SubSeqRecursiveFirst
    <3>3. SubSeq(out, 1 + 1, Len(out)) = Tail(out)
          /\ SubSeq(out, 1, Len(out)) = out
      BY <1>1, <1>3, SubSeqFull
    <3>. QED
      BY <2>1, <3>2, <3>3
  <2>. QED
    BY <2>1, <2>2
<1>5. disk' \in [Files -> Seq(Record)]
      /\ disk'[settings.file] = Append(d, Head(out))
      /\ \A f \in Files : disk'[f] = IF f = settings.file THEN Append(d, Head(out)) ELSE disk[f]
  BY <1>1, <1>2, <1>3, <1>4 DEF SoundFiles
<1>. HIDE DEF d
<1>6. Append(d, Head(out)) \o Tail(out) = d \o out
  <2>. DEFINE one == <<Head(out)>>
  <2>1. one \in Seq(Record) /\ Append(d, Head(out)) = d \o one
        /\ out = one \o Tail(out)
    BY <1>3, <1>4, AppendIsConcat
  <2>. HIDE DEF one
  <2>2. (d \o one) \o Tail(out) = d \o (one \o Tail(out))
    BY SMTT(30), <1>3, <1>4, <2>1, ConcatAssociative
  <2>. QED
    BY <2>1, <2>2
<1>7. HalfWritten' /\ SoundFiles'
  BY <1>1, <1>3, <1>4, <1>5, <1>6 DEF HalfWritten, SoundFiles
<1>8. AllSeen'
  <2>1. KnownLines(out, seen) /\ KnownLines(d, seen)
        /\ \A f \in Files : KnownLines(disk[f], seen)
    BY <1>2, <1>3 DEF AllSeen, d
  <2>2. KnownLines(Tail(out), seen)
    <3>1. \A n \in 1 .. (Len(out) - 1) : n + 1 \in 1 .. Len(out)
      BY <1>3
    <3>. QED
      BY <1>4, <2>1, <3>1 DEF KnownLines
  <2>3. KnownLines(Append(d, Head(out)), seen)
    <3>. DEFINE one == <<Head(out)>>
    <3>1. one \in Seq(Record) /\ Append(d, Head(out)) = d \o one
          /\ DOMAIN one = {1} /\ one[1] = out[1]
      BY <1>3, <1>4, AppendIsConcat
    <3>. HIDE DEF one
    <3>2. KnownLines(one, seen)
      BY <1>4, <2>1, <3>1 DEF KnownLines
    <3>. QED
      BY <1>3, <2>1, <3>1, <3>2, KnownConcat
  <2>4. \A f \in Files : KnownLines(disk'[f], seen)
    BY <1>5, <2>1, <2>3
  <2>. QED
    BY <1>1, <1>2, <2>2, <2>4 DEF AllSeen
<1>9. Kinds' /\ SoundStore' /\ LockedIsDisturbed'
  BY <1>1, <1>2 DEF Kinds, SoundStore, LockedIsDisturbed
<1>10. FoundIsLast' /\ StoreIsItsFile'
  BY <1>1 DEF FoundIsLast, StoreIsItsFile, InStep, PersistedAfterSearch, Rest
<1>. QED
  BY <1>7, <1>8, <1>9, <1>10 DEF SInv

(* The file is closed with the whole table in it. *)
LEMMA CloseSInv ==
  ASSUME IInv, SInv, CloseFile
  PROVE  SInv'
<1>1. /\ ~Rest /\ out = <<>> /\ writing' = FALSE /\ recent' = <<"search">>
      /\ dirty' = FALSE /\ pendingFlush' = 0
      /\ UNCHANGED <<settings, initialized, mem, disk, out, writable, disturbed, searches, seen>>
  BY DEF CloseFile, Flushed
<1>2. /\ Kinds /\ SoundStore /\ SoundFiles /\ HalfWritten /\ LockedIsDisturbed
      /\ AllSeen /\ FoundIsLast /\ StoreIsItsFile
  BY DEF SInv
<1>3. settings.file \in Files /\ disk[settings.file] \in Seq(Record)
      /\ disk[settings.file] \o <<>> = Saved(mem)
  BY <1>1, <1>2 DEF HalfWritten, SoundFiles
<1>4. disk[settings.file] = Saved(mem)
  BY <1>3, ConcatEmptySeq
<1>5. Loaded(disk, settings.file) = mem
  BY <1>2, <1>3, <1>4, LoadedSaved DEF SoundStore
<1>6. OnDisk' = mem'.table
  BY <1>1, <1>5 DEF OnDisk
<1>7. StoreIsItsFile'
  BY <1>6 DEF StoreIsItsFile, PersistedAfterSearch
<1>8. Kinds' /\ SoundStore' /\ SoundFiles' /\ LockedIsDisturbed' /\ AllSeen'
  BY <1>1, <1>2 DEF Kinds, SoundStore, SoundFiles, LockedIsDisturbed, AllSeen
<1>9. HalfWritten' /\ FoundIsLast'
  BY <1>1 DEF HalfWritten, FoundIsLast, Rest
<1>. QED
  BY <1>7, <1>8, <1>9 DEF SInv

(* The process dies, perhaps within a line. *)
LEMMA CrashSInv ==
  ASSUME IInv, SInv, Crash
  PROVE  SInv'
<1>1. /\ settings' = Default /\ initialized' = FALSE /\ mem' = Empty
         /\ dirty' = FALSE
      /\ pendingFlush' = 0 /\ writing' = FALSE /\ out' = <<>>
         /\ recent' = <<"start">>
      /\ UNCHANGED <<writable, disturbed, searches, seen>>
  BY DEF Crash
<1>2. /\ Kinds /\ SoundStore /\ SoundFiles /\ HalfWritten /\ LockedIsDisturbed
      /\ AllSeen /\ FoundIsLast /\ StoreIsItsFile
  BY DEF SInv
<1>3. disk' \in [Files -> Seq(Record)]
      /\ \A f \in Files : KnownLines(disk'[f], seen)
  <2>1. CASE disk' = disk
    BY <1>2, <2>1 DEF SoundFiles, AllSeen
  <2>2. CASE ~Rest /\ out # <<>> /\ \E r \in Torn(Head(out)) :
               disk' = [disk EXCEPT ![settings.file] = Append(@, r)]
    <3>1. PICK r \in Torn(Head(out)) : disk' = [disk EXCEPT ![settings.file] = Append(@, r)]
      BY <2>2
    <3>. DEFINE h == Head(out)
                d == disk[settings.file]
    <3>2. settings.file \in Files /\ d \in Seq(Record) /\ KnownLines(d, seen)
          /\ \A f \in Files : KnownLines(disk[f], seen)
      BY <1>2, <2>2 DEF HalfWritten, SoundFiles, AllSeen
    <3>3. h \in Record /\ h = out[1] /\ 1 \in DOMAIN out
      BY <1>2, <2>2 DEF SoundFiles
    <3>4. <<h.key, h.move>> \in seen
      BY <1>2, <3>3 DEF AllSeen, KnownLines
    <3>. HIDE DEF h, d
    <3>5. r \in Record /\ r.key = h.key /\ r.move = h.move
      <4>1. CASE \E x \in {y \in Depths : y <= h.depth} : r = [h EXCEPT !.depth = x, !.visits = 1]
        <5>1. PICK x \in Depths : r = [h EXCEPT !.depth = x, !.visits = 1]
          BY <4>1
        <5>2. 1 \in 0 .. MaxVisits
          BY SizesAssumption
        <5>. QED
          BY <3>3, <5>1, <5>2 DEF Record
      <4>2. CASE \E v \in 0 .. h.visits : r = [h EXCEPT !.visits = v]
        <5>1. PICK v \in 0 .. h.visits : r = [h EXCEPT !.visits = v]
          BY <4>2
        <5>2. v \in 0 .. MaxVisits
          <6>1. h.visits \in 0 .. MaxVisits /\ MaxVisits \in Nat
            BY <3>3, SizesAssumption DEF Record
          <6>. QED
            BY <6>1
        <5>. QED
          BY <3>3, <5>1, <5>2 DEF Record
      <4>. QED
        BY <3>1, <4>1, <4>2 DEF Torn, h
    <3>6. Append(d, r) \in Seq(Record)
      BY <3>2, <3>5
    <3>7. KnownLines(Append(d, r), seen)
      <4>. DEFINE one == <<r>>
      <4>1. one \in Seq(Record) /\ Append(d, r) = d \o one /\ DOMAIN one = {1}
            /\ one[1] = r
        BY <3>2, <3>5, AppendIsConcat
      <4>. HIDE DEF one
      <4>2. KnownLines(one, seen)
        BY <3>4, <3>5, <4>1 DEF KnownLines
      <4>. QED
        BY <3>2, <4>1, <4>2, KnownConcat
    <3>8. disk' \in [Files -> Seq(Record)]
          /\ \A f \in Files : disk'[f] = IF f = settings.file THEN Append(d, r) ELSE disk[f]
      BY <1>2, <3>1, <3>2, <3>6 DEF SoundFiles, d
    <3>. QED
      BY <3>2, <3>7, <3>8
  <2>. QED
    BY <2>1, <2>2 DEF Crash
<1>4. AllSeen'
  <2>1. Known(Empty.table, seen) /\ KnownLines(<<>>, seen)
    BY DEF Known, Empty, KnownLines
  <2>. QED
    BY <1>1, <1>3, <2>1 DEF AllSeen
<1>5. Kinds'
  <2>1. Default \in Settings
    BY NamesAssumption DEF Default, Settings
  <2>. QED
    BY <1>1, <1>2, <2>1 DEF Kinds
<1>6. SoundStore' /\ SoundFiles' /\ LockedIsDisturbed'
  BY <1>1, <1>2, <1>3, EmptyFacts DEF SoundStore, SoundFiles, LockedIsDisturbed
<1>7. HalfWritten' /\ FoundIsLast' /\ StoreIsItsFile'
  BY <1>1 DEF HalfWritten, FoundIsLast, Rest, StoreIsItsFile, InStep, PersistedAfterSearch
<1>. QED
  BY <1>4, <1>5, <1>6, <1>7 DEF SInv

(* The book finds a position. *)
LEMMA ProbeSInv ==
  ASSUME IInv, SInv, NEW key \in Keys, OnNewPosition(key)
  PROVE  SInv'
<1>1. /\ key \in DOMAIN mem.table
         /\ mem' = [mem EXCEPT !.lru = Touch(mem.lru, key)]
      /\ recent' = <<"probe", key>>
      /\ UNCHANGED <<settings, initialized, dirty, pendingFlush, disk, writing, out,
                     writable, disturbed, searches, seen>> /\ Rest
  BY DEF OnNewPosition, fileVars
<1>2. /\ Kinds /\ SoundStore /\ SoundFiles /\ HalfWritten /\ LockedIsDisturbed
      /\ AllSeen /\ FoundIsLast /\ StoreIsItsFile
  BY DEF SInv
<1>3. /\ mem' \in Stores /\ Within(mem') /\ mem'.table = mem.table
      /\ Len(mem'.lru) > 0 /\ mem'.lru[Len(mem'.lru)] = key
  BY <1>1, <1>2, ProbeSound DEF SoundStore
<1>4. FoundIsLast'
  <2>1. \A k : <<"probe", k>> = <<"probe", key>> => k = key
    OBVIOUS
  <2>. QED
    BY <1>1, <1>3, <2>1 DEF FoundIsLast
<1>5. StoreIsItsFile'
  <2>1. recent' # <<"search">>
    BY <1>1
  <2>. QED
    BY <1>1, <1>2, <1>3, <2>1 DEF StoreIsItsFile, InStep, OnDisk, Rest, PersistedAfterSearch
<1>6. Kinds' /\ SoundStore' /\ SoundFiles' /\ HalfWritten' /\ LockedIsDisturbed'
      /\ AllSeen'
  BY <1>1, <1>2, <1>3 DEF Kinds, SoundStore, SoundFiles, HalfWritten, Rest, LockedIsDisturbed, AllSeen
<1>. QED
  BY <1>4, <1>5, <1>6 DEF SInv

(* Every step keeps the invariant. *)
LEMMA StepSInv == IInv /\ SInv /\ [Next]_vars => SInv'
<1>. SUFFICES ASSUME IInv, SInv, [Next]_vars PROVE SInv'
  OBVIOUS
<1>0. /\ Kinds /\ SoundStore /\ SoundFiles /\ HalfWritten /\ LockedIsDisturbed
      /\ AllSeen /\ FoundIsLast /\ StoreIsItsFile
  BY DEF SInv
<1>1. CASE Startup
  BY <1>0, <1>1, UpdateSInv DEF Startup, Kinds
<1>2. CASE SetOption
  <2>1. \A b \in BOOLEAN : /\ [settings EXCEPT !.enabled = b] \in Settings
                           /\ [settings EXCEPT !.readonly = b] \in Settings
                           /\ [settings EXCEPT !.book = b] \in Settings
    BY <1>0 DEF Kinds, Settings
  <2>2. \A f \in Files \cup {NoFile} : [settings EXCEPT !.file = f] \in Settings
    BY <1>0 DEF Kinds, Settings
  <2>3. \/ \E b \in BOOLEAN : \/ UpdateSettings([settings EXCEPT !.enabled = b])
                              \/ UpdateSettings([settings EXCEPT !.readonly = b])
                              \/ UpdateSettings([settings EXCEPT !.book = b])
        \/ \E f \in Files
           \cup {NoFile} : UpdateSettings([settings EXCEPT !.file = f])
    BY <1>2 DEF SetOption
  <2>. QED
    BY <2>1, <2>2, <2>3, UpdateSInv
<1>3. CASE WriteLine
  BY <1>3, LineSInv
<1>4. CASE CloseFile
  BY <1>4, CloseSInv
<1>5. CASE Flush
  <2>1. /\ Rest /\ ~dirty /\ disk' = disk /\ pendingFlush' = 0 /\ dirty' = FALSE
           /\ recent' = <<"sync">>
        /\ UNCHANGED <<settings, initialized, mem, writing, out, writable, disturbed, searches, seen>>
    BY <1>5 DEF Flush, Flushed, fileVars, IInv, CleanAtRest
  <2>2. recent' # <<"search">> /\ \A k : recent' # <<"probe", k>>
    BY <2>1
  <2>3. FoundIsLast' /\ StoreIsItsFile'
    BY <1>0, <2>1, <2>2 DEF FoundIsLast, StoreIsItsFile, InStep, OnDisk, Rest, PersistedAfterSearch
  <2>4. Kinds' /\ SoundStore' /\ SoundFiles' /\ HalfWritten'
        /\ LockedIsDisturbed' /\ AllSeen'
    BY <1>0, <2>1 DEF Kinds, SoundStore, SoundFiles, HalfWritten, Rest, LockedIsDisturbed, AllSeen
  <2>. QED
    BY <2>3, <2>4 DEF SInv
<1>6. CASE Crash
  BY <1>6, CrashSInv
<1>7. CASE Disturb
  <2>1. /\ writable' = ~writable /\ disturbed' = TRUE /\ recent' = <<"disturb">>
        /\ UNCHANGED <<settings, initialized, mem, dirty, pendingFlush, disk, writing, out, searches, seen>>
    BY <1>7 DEF Disturb, fileVars
  <2>2. recent' # <<"search">> /\ \A k : recent' # <<"probe", k>>
    BY <2>1
  <2>3. FoundIsLast' /\ StoreIsItsFile' /\ LockedIsDisturbed'
    BY <2>1, <2>2 DEF FoundIsLast, StoreIsItsFile, PersistedAfterSearch, LockedIsDisturbed
  <2>4. Kinds' /\ SoundStore' /\ SoundFiles' /\ HalfWritten' /\ AllSeen'
    BY <1>0, <2>1 DEF Kinds, SoundStore, SoundFiles, HalfWritten, Rest, AllSeen
  <2>. QED
    BY <2>3, <2>4 DEF SInv
<1>8. ASSUME NEW key \in Keys, OnNewPosition(key) PROVE SInv'
  BY <1>8, ProbeSInv
<1>9. ASSUME NEW key \in Keys, NEW move \in Moves, NEW depth \in Depths,
             OnSearchComplete(key, move, depth)
      PROVE  SInv'
  BY <1>9, SearchSInv
<1>10. CASE UNCHANGED vars
  BY <1>0, <1>10 DEF vars, SInv, Kinds, SoundStore, SoundFiles, HalfWritten, Rest, LockedIsDisturbed,
     AllSeen, FoundIsLast, StoreIsItsFile, InStep, OnDisk, PersistedAfterSearch
<1>. QED
  BY <1>1, <1>2, <1>3, <1>4, <1>5, <1>6, <1>7, <1>8, <1>9, <1>10 DEF Next
-----------------------------------------------------------------------------
(* The invariant holds in every state. *)
THEOREM SoundInvariance == Spec => [](IInv /\ SInv)
<1>. QED
  BY InitIInv, InitSInv, StepIInv, StepSInv, PTL DEF Spec

(* TypeOK: the table, the count and the lines of every file keep their types *)
(* through loading, merging, eviction, torn lines and restarts.            *)
THEOREM TypeCorrect == Spec => []TypeOK
<1>1. SInv => TypeOK
  <2>. SUFFICES ASSUME SInv PROVE TypeOK
    OBVIOUS
  <2>1. Kinds /\ mem \in Stores /\ disk \in [Files -> Seq(Record)]
    BY DEF SInv, SoundStore, SoundFiles
  <2>2. DOMAIN mem.table \subseteq Keys /\ mem.unique \in Nat
        /\ \A key \in DOMAIN mem.table : mem.table[key] \in Seq(Entry)
    BY <2>1, StoreFacts
  <2>3. \A key \in DOMAIN mem.table : \A n \in DOMAIN mem.table[key] : mem.table[key][n] \in Entry
    <3>1. \A es \in Seq(Entry) : \A n \in DOMAIN es : es[n] \in Entry
      OBVIOUS
    <3>. QED
      BY <2>2, <3>1
  <2>4. \A f \in Files : \A n \in DOMAIN disk[f] : disk[f][n] \in Record
    <3>1. \A s \in Seq(Record) : \A n \in DOMAIN s : s[n] \in Record
      OBVIOUS
    <3>2. \A f \in Files : disk[f] \in Seq(Record)
      BY <2>1
    <3>. QED
      BY <3>1, <3>2
  <2>. QED
    BY <2>1, <2>2, <2>3, <2>4 DEF TypeOK, Kinds
<1>. QED
  BY <1>1, SoundInvariance, PTL

(* StoreConsistent: whatever searches, probes, reloads and crashes happen, *)
(* table, order and statistics agree, and the limit holds.                 *)
THEOREM Consistent == Spec => []StoreConsistent
<1>1. SInv => StoreConsistent
  BY DEF SInv, SoundStore, Within, Stores, Sound, Distinct, StoreConsistent
<1>. QED
  BY <1>1, SoundInvariance, PTL

(* FileHoldsTable: what save_table_unlocked writes load_table_unlocked reads *)
(* back as the same store; an enabled store that could write holds what its *)
(* file holds; nothing is in either that was not recorded.                 *)
THEOREM FileAndTable == Spec => []FileHoldsTable
<1>1. SInv => FileHoldsTable
  <2>. SUFFICES ASSUME SInv PROVE FileHoldsTable
    OBVIOUS
  <2>1. mem \in Stores /\ Within(mem) /\ AllSeen /\ StoreIsItsFile
    BY DEF SInv, SoundStore
  <2>2. RoundTrip
    <3>. DEFINE again == [d \in Files |-> Saved(mem)]
    <3>1. \A f \in Files : again[f] = Saved(mem)
      OBVIOUS
    <3>. HIDE DEF again
    <3>2. \A f \in Files : Loaded(again, f) = mem
      BY <2>1, <3>1, LoadedSaved
    <3>. QED
      BY <3>2 DEF RoundTrip, again
  <2>3. NothingInvented
    <3>1. ASSUME NEW f \in Files, NEW r \in ToSet(disk[f])
          PROVE <<r.key, r.move>> \in seen
      BY <2>1, <3>1 DEF AllSeen, KnownLines, ToSet
    <3>2. ASSUME NEW key \in DOMAIN mem.table, NEW e \in ToSet(mem.table[key])
          PROVE  <<key, e.move>> \in seen
      BY <2>1, <3>2 DEF AllSeen, Known, ToSet
    <3>. QED
      BY <3>1, <3>2 DEF NothingInvented
  <2>. QED
    BY <2>1, <2>2, <2>3 DEF FileHoldsTable
<1>. QED
  BY <1>1, SoundInvariance, PTL

(* What a step of a store in use may do to its entries. *)
LEMMA StepLearns ==
  ASSUME IInv, SInv, [Next]_vars, settings.enabled, initialized, settings' = settings, initialized',
         NEW key \in DOMAIN mem.table
  PROVE  IF key \in DOMAIN mem'.table
         THEN \A n \in DOMAIN mem.table[key] : NoLess(mem'.table[key][n], mem.table[key][n])
         ELSE key = Head(mem.lru) /\ (MaxEntries > 1 => recent # <<"probe", key>>)
<1>0. mem \in Stores /\ Within(mem) /\ FoundIsLast
  BY DEF SInv, SoundStore
<1>1. mem'.table = mem.table
      \/ \E k \in Keys, move \in Moves, depth \in Depths : OnSearchComplete(k, move, depth)
  <2>1. ASSUME NEW new, UpdateSettings(new) PROVE mem' = mem
    <3>1. new = settings
      BY <2>1 DEF UpdateSettings
    <3>. QED
      BY <2>1, <3>1 DEF UpdateSettings, Reads
  <2>2. CASE Startup \/ SetOption
    BY <2>1, <2>2 DEF Startup, SetOption
  <2>3. CASE Crash
    BY <2>3 DEF Crash
  <2>4. CASE Flush \/ Disturb \/ WriteLine \/ CloseFile \/ UNCHANGED vars
    BY <2>4 DEF Flush, Disturb, WriteLine, CloseFile, vars
  <2>5. ASSUME NEW k \in Keys, OnNewPosition(k) PROVE mem'.table = mem.table
    <3>1. k \in DOMAIN mem.table /\ mem' = [mem EXCEPT !.lru = Touch(mem.lru, k)]
      BY <2>5 DEF OnNewPosition
    <3>. QED
      BY <1>0, <3>1, ProbeSound
  <2>. QED
    BY <2>2, <2>3, <2>4, <2>5 DEF Next
<1>2. CASE mem'.table = mem.table
  <2>1. mem.table[key] \in Seq(Entry)
    BY <1>0, StoreFacts
  <2>2. ASSUME NEW n \in DOMAIN mem.table[key]
        PROVE NoLess(mem.table[key][n], mem.table[key][n])
    <3>1. mem.table[key][n] \in Entry
      BY <2>1
    <3>2. mem.table[key][n].depth \in Depths
          /\ mem.table[key][n].visits \in 0 .. MaxVisits
      BY <3>1 DEF Entry
    <3>3. \A x \in Depths : x \in Nat
      BY SizesAssumption
    <3>. QED
      BY <3>2, <3>3 DEF NoLess
  <2>. QED
    BY <1>2, <2>2
<1>3. ASSUME NEW k \in Keys, NEW move \in Moves, NEW depth \in Depths,
             OnSearchComplete(k, move, depth)
      PROVE  IF key \in DOMAIN mem'.table
             THEN \A n \in DOMAIN mem.table[key] : NoLess(mem'.table[key][n], mem.table[key][n])
             ELSE key = Head(mem.lru)
             /\ (MaxEntries > 1 => recent # <<"probe", key>>)
  <2>. DEFINE r == [key |-> k, move |-> move, depth |-> depth, visits |-> 1]
  <2>1. r \in Record /\ mem' = Enforce(Merge(mem, r)) /\ Rest
    BY <1>3, SizesAssumption DEF Record, OnSearchComplete
  <2>. HIDE DEF r
  <2>2. CASE key \in DOMAIN mem'.table
    BY <1>0, <2>1, <2>2, NothingLost
  <2>3. CASE key \notin DOMAIN mem'.table
    <3>1. key = Head(mem.lru) /\ Len(mem.lru) = MaxEntries
      BY <1>0, <2>1, <2>3, OneLeaves
    <3>2. mem.lru \in Seq(Keys) /\ IsInjective(mem.lru) /\ key \in Keys
      BY <1>0, StoreFacts DEF Stores, Sound
    <3>3. ASSUME MaxEntries > 1, recent = <<"probe", key>> PROVE FALSE
      <4>1. mem.lru[Len(mem.lru)] = key /\ Len(mem.lru) > 1
        BY <1>0, <2>1, <3>1, <3>2, <3>3 DEF FoundIsLast
      <4>2. mem.lru[1] = key /\ 1 \in DOMAIN mem.lru
            /\ Len(mem.lru) \in DOMAIN mem.lru
        BY <3>1, <3>2, <4>1
      <4>3. 1 = Len(mem.lru)
        BY <3>2, <4>1, <4>2 DEF IsInjective
      <4>. QED
        BY <4>1, <4>3
    <3>. QED
      BY <2>3, <3>1, <3>3
  <2>. QED
    BY <2>2, <2>3
<1>. QED
  BY <1>1, <1>2, <1>3

(* OnlyLearns: no step of a store in use takes depth or visits from an entry, *)
(* and only the least recently used key is evicted.                        *)
THEOREM Learns == Spec => OnlyLearns
<1>1. IInv /\ SInv /\ [Next]_vars =>
        [settings.enabled /\ initialized /\ settings' = settings /\ initialized'
       => \A key \in DOMAIN mem.table :
            IF key \in DOMAIN mem'.table
            THEN \A n \in DOMAIN mem.table[key] :
                   /\ mem'.table[key][n].move = mem.table[key][n].move
                   /\ mem'.table[key][n].depth >= mem.table[key][n].depth
                   /\ mem'.table[key][n].visits >= mem.table[key][n].visits
            ELSE /\ key = Head(mem.lru)
                 /\ MaxEntries > 1 => recent # <<"probe", key>>]_vars
  BY StepLearns DEF NoLess
<1>. QED
  BY <1>1, SoundInvariance, PTL DEF Spec, OnlyLearns
=============================================================================
