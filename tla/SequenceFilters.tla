-------------------------- MODULE SequenceFilters --------------------------
(***************************************************************************)
(* The array methods the queue is written with: filter, findIndex and      *)
(* splice.  They are stated by index sets and without recursion, so that   *)
(* facts about them can be proved for sequences of any length              *)
(* (PromptQueueProofs).                                                    *)
(***************************************************************************)
EXTENDS Naturals, Sequences, FiniteSets

\* The place of i among the elements of K.
Rank(K, i) == Cardinality({j \in K : j <= i})

\* Array.prototype.filter: the elements of s whose index is in K, in order.
Select(s, K) ==
    [n \in 1..Cardinality(K) |-> s[CHOOSE i \in K : Rank(K, i) = n]]

\* Array.prototype.findIndex, of the indices K that satisfy the condition.
LeastIn(K) == CHOOSE i \in K : \A j \in K : i <= j

\* Array.prototype.splice: item is put behind the first i elements of s.
Splice(s, i, item) ==
    SubSeq(s, 1, i) \o <<item>> \o SubSeq(s, i + 1, Len(s))
=============================================================================
