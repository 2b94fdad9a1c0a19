------------------------------ MODULE Numbering ------------------------------
(***************************************************************************)
(* What a numbering of things promises: those of a group are numbered 1, 2,  *)
(* 3, ... in their order, each once and for good.                           *)
(***************************************************************************)
EXTENDS Integers, FiniteSets

CONSTANTS Groups, Things  \* things are numbers, in their order

VARIABLES
  due,     \* the things of each group that are to be numbered
  number   \* of each group: thing -> its number

Init == due = [g \in Groups |-> {}] /\ number = [g \in Groups |-> <<>>]

\* Things become due in their order.
Due ==
  /\ UNCHANGED number
  /\ due' \in [Groups -> SUBSET Things]
  /\ \A g \in Groups : /\ due[g] \subseteq due'[g]
                       /\ \A new \in due'[g] \ due[g], old \in due[g] : old < new

NumberNext(g) ==
  /\ \E thing \in due[g] \ DOMAIN number[g] :
       /\ \A other \in due[g] \ DOMAIN number[g] : thing <= other
       /\ number' = [number EXCEPT ![g] =
            [k \in DOMAIN @ \cup {thing} |-> IF k = thing THEN Cardinality(DOMAIN @) + 1 ELSE @[k]]]
  /\ UNCHANGED due

Next == Due \/ \E g \in Groups : NumberNext(g)

Spec == Init /\ [][Next]_<<due, number>>

AllNumbered == <>[](\A g \in Groups : due[g] = DOMAIN number[g])
=============================================================================
