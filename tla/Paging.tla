------------------------------- MODULE Paging -------------------------------
(***************************************************************************)
(* From rows to an answer: list.sort, once for every key and the least     *)
(* important key first, and the slice [:limit].                            *)
(***************************************************************************)
EXTENDS Naturals, Sequences, FiniteSets, Functions

CONSTANT MaxLimit     \* the largest limit of recall and of audit, 100 in the code

ASSUME LimitAssumption == MaxLimit \in Nat \ {0}

Pairs(items) == Range(items) \X Range(items)

\* list.sort, Before holding the pairs of items of which the first has the
\* smaller key (with reverse=True the larger): what compares equal keeps its place.
StableSort(items, Before) ==
    LET place(i) == 1 + Cardinality({j \in DOMAIN items :
            \/ <<items[j], items[i]>> \in Before
            \/ j < i /\ <<items[i], items[j]>> \notin Before})
    IN  [k \in DOMAIN items |-> items[CHOOSE i \in DOMAIN items : place(i) = k]]

Take(items, limit) == SubSeq(items, 1, IF limit < Len(items) THEN limit ELSE Len(items))
=============================================================================
