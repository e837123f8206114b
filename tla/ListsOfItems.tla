----------------------------- MODULE ListsOfItems -----------------------------
(***************************************************************************)
(* What a family of named lists promises: a call makes one item appear in  *)
(* one list, or makes one disappear, and every other item keeps its place; *)
(* or it turns a list round, empties it, or fills it from others.          *)
(***************************************************************************)
EXTENDS Integers, SequencesExt

CONSTANTS Names, Items

VARIABLE contents

\* The items of s, each once, the one that came last in front.
Collected(s) ==
    LET upTo[k \in 0..Len(s)] ==
            IF k = 0 THEN <<>>
            ELSE IF Contains(upTo[k - 1], s[k]) THEN upTo[k - 1] ELSE <<s[k]>> \o upTo[k - 1]
    IN  upTo[Len(s)]

ListsInit == contents = [l \in Names |-> <<>>]

Becomes(l, s) == contents' = [contents EXCEPT ![l] = s]

Appears(l) == \E d \in Items, k \in 1..(Len(contents[l]) + 1) :
                  Becomes(l, InsertAt(contents[l], k, d))
Disappears(l) == \E k \in 1..Len(contents[l]) : Becomes(l, RemoveAt(contents[l], k))
TurnsRound(l) == Becomes(l, Reverse(contents[l]))
IsEmptied(l) == Becomes(l, <<>>)
IsFilled(l) == \/ \E k \in Names \ {l} : Becomes(l, Collected(contents[k]))
               \/ \E j, k \in Names \ {l} : Becomes(l, Collected(contents[j] \o contents[k]))

ListsNext == \E l \in Names : Appears(l) \/ Disappears(l) \/ TurnsRound(l) \/ IsEmptied(l) \/ IsFilled(l)
ListsSpec == ListsInit /\ [][ListsNext]_contents
==============================================================================
