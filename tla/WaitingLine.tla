------------------------------ MODULE WaitingLine ------------------------------
(***************************************************************************)
(* What a line ordered by priority promises: whoever comes stands behind   *)
(* everybody who is at least as urgent and before all others, whoever is   *)
(* served is the first, and anybody may leave.                             *)
(***************************************************************************)
EXTENDS Integers, SequencesExt

CONSTANTS People, Rank(_)

VARIABLE line

Arrives(p) ==
    /\ p \notin Range(line)
    /\ \E k \in 1..(Len(line) + 1) :
          /\ \A i \in DOMAIN line : i < k <=> Rank(line[i]) <= Rank(p)
          /\ line' = InsertAt(line, k, p)
Leaves(p) == \E k \in DOMAIN line : line[k] = p /\ line' = RemoveAt(line, k)
Dissolves == line' = <<>>

LineInit == line = <<>>
LineNext == Dissolves \/ \E p \in People : Arrives(p) \/ Leaves(p)
LineSpec == LineInit /\ [][LineNext]_line
==============================================================================
