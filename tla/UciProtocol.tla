----------------------------- MODULE UciProtocol -----------------------------
(***************************************************************************)
(* What a GUI is promised about `go` (the comment before the busy wait in  *)
(* Worker::start_searching, src/src/search.cpp): every go gets one         *)
(* bestmove, one go at a time, and when the search ponders or is infinite  *)
(* the bestmove is held back until the GUI has said stop or ponderhit.     *)
(***************************************************************************)
EXTENDS Naturals

VARIABLES goes, answers,  \* go commands accepted, bestmoves printed
          holding,        \* the go being answered ponders or is infinite
          told            \* the GUI has said stop or ponderhit since

vars == <<goes, answers, holding, told>>

Init == goes = 0 /\ answers = 0 /\ holding = FALSE /\ told = FALSE

(* A search starts. *)
Accept == /\ goes = answers
          /\ goes' = goes + 1
          /\ told' = FALSE
          /\ holding' \in BOOLEAN
          /\ UNCHANGED answers

(* stop, ponderhit or quit. *)
Tell == told' = TRUE /\ UNCHANGED <<goes, answers, holding>>

(* The bestmove of the search. *)
Answer == /\ goes = answers + 1
          /\ holding => told
          /\ answers' = answers + 1
          /\ holding' = FALSE
          /\ UNCHANGED <<goes, told>>

(* A go that is answered on the spot. *)
AtOnce == /\ goes = answers
          /\ goes' = goes + 1 /\ answers' = answers + 1
          /\ told' = FALSE
          /\ UNCHANGED holding

Next == Accept \/ Tell \/ Answer \/ AtOnce

Spec == Init /\ [][Next]_vars
=============================================================================
