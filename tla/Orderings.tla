----------------------------- MODULE Orderings ------------------------------
(***************************************************************************)
(* What sorting does: lists in an order, and the first of an order.        *)
(***************************************************************************)
EXTENDS Naturals, Sequences, FiniteSets, Functions

\* Of the elements of a sequence at some indices, the first that no other beats.
Foremost(seq, indices, Beats(_, _)) ==
    CHOOSE i \in indices :
        \A j \in indices \ {i} :
            ~Beats(seq[j], seq[i]) /\ (j < i => Beats(seq[i], seq[j]))

\* The sequences that list a set in an order.  Where the order leaves it open
\* which of two comes first there are several.
Listings(S, MayPrecede(_, _)) ==
    {q \in [1 .. Cardinality(S) -> S] :
        /\ IsInjective(q)
        /\ \A i, j \in DOMAIN q : i < j => MayPrecede(q[i], q[j])}
=============================================================================
