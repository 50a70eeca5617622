------------------------------ MODULE Filters -------------------------------
(***************************************************************************)
(* Array.prototype.filter() and splice(): some of the elements of a        *)
(* sequence, in their order.  The elements are numbered by their rank, and *)
(* not selected one by one, so that it can be reasoned about.              *)
(***************************************************************************)
EXTENDS Naturals, Sequences, FiniteSets

\* The elements at the indexes in I.
Kept(s, I) == [k \in 1..Cardinality(I) |-> s[CHOOSE i \in I : Cardinality({j \in I : j <= i}) = k]]

\* The elements that are among es.
Among(s, es) == Kept(s, {i \in DOMAIN s : s[i] \in es})
=============================================================================
