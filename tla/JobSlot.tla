------------------------------- MODULE JobSlot -------------------------------
(***************************************************************************)
(* What class Thread promises to whoever holds one: a slot that takes one  *)
(* job at a time.  A job is named by its ticket, the number of jobs handed *)
(* over so far.  The slot is "busy" from the moment a job is accepted (and *)
(* from the construction of the thread) until it is free again, and "gone" *)
(* once the thread has been told to leave.  ThreadHandshake implements it  *)
(* with a mutex and a single condition variable; SearchControl is written  *)
(* against it.                                                             *)
(***************************************************************************)
EXTENDS Naturals

VARIABLES slot,     \* "busy", "idle" or "gone"
          closing,  \* the destructor has started
          issued,   \* tickets handed out
          done      \* tickets whose job has been executed

vars == <<slot, closing, issued, done>>

Init == slot = "busy" /\ closing = FALSE /\ issued = 0 /\ done = 0

(* run_custom_job, start_searching, clear_worker: accepted only when idle. *)
Submit == /\ slot = "idle"
          /\ slot' = "busy"
          /\ issued' = issued + 1
          /\ UNCHANGED <<closing, done>>

(* The worker executes the one outstanding job. *)
Execute == /\ slot = "busy" /\ ~closing /\ done < issued
           /\ done' = done + 1
           /\ UNCHANGED <<slot, closing, issued>>

(* The worker is back in idle_loop with nothing left to do. *)
Park == /\ slot = "busy" /\ done = issued
        /\ slot' = "idle"
        /\ UNCHANGED <<closing, issued, done>>

(* ~Thread begins; from here on only the farewell job can be submitted. *)
Close == /\ slot = "idle" /\ ~closing
         /\ closing' = TRUE
         /\ UNCHANGED <<slot, issued, done>>

(* The worker sees `exit` and returns: the farewell job is never executed. *)
Retire == /\ slot = "busy" /\ closing
          /\ slot' = "gone"
          /\ UNCHANGED <<closing, issued, done>>

Next == Submit \/ Execute \/ Park \/ Close \/ Retire

Spec == Init /\ [][Next]_vars
=============================================================================
