-------------------------- MODULE MCExperienceStore --------------------------
(***************************************************************************)
(* The files the ExperienceStore runs start with: none, or a default file  *)
(* with more positions than the limit and with the same move twice.        *)
(***************************************************************************)
EXTENDS ExperienceStore

CONSTANTS k1, k2, k3, a, b, f1, f2

Line(key, move, depth, visits) ==
  [key |-> key, move |-> move, depth |-> depth, visits |-> visits]

Foreign == <<Line(k1, a, 1, 1), Line(k2, a, 1, 2), Line(k1, b, 2, 0),
             Line(k3, a, 2, 1), Line(k1, a, 2, 1)>>

Disks == {[f \in Files |-> <<>>],
          [f \in Files |-> IF f = f1 THEN Foreign ELSE <<>>]}
=============================================================================
