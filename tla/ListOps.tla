------------------------------- MODULE ListOps ------------------------------
(***************************************************************************)
(* Lists with some of their elements left out, as Vec::retain and          *)
(* Iterator::filter leave them: stated by their result, the elements that  *)
(* stay in the order they had.                                             *)
(***************************************************************************)
EXTENDS Naturals, FiniteSets, SequencesExt

\* The numbers of S up to i.
Rank(S, i) == Cardinality({j \in S : j <= i})

\* The n-th of the numbers S, by size.
Nth(S, n) == CHOOSE i \in S : Rank(S, i) = n

\* What is left of list s if the elements at places I stay.
Sublist(s, I) == [n \in 1..Cardinality(I) |-> s[Nth(I, n)]]

\* l consists of the elements of s at places I, each once and in their order.
IsSublistAt(l, s, I) ==
    \E place \in [DOMAIN l -> I] :
        /\ \A n \in DOMAIN l : l[n] = s[place[n]]
        /\ \A m, n \in DOMAIN l : m < n => place[m] < place[n]
        /\ \A i \in I : \E n \in DOMAIN l : place[n] = i
=============================================================================
