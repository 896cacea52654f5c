---------------------------- MODULE MCLifecycle ----------------------------
(* Small instances of Lifecycle. *)
EXTENDS LifecycleRefinement, OrderInv, TLC

CONSTANTS o1, o2, o3

\* A first order and its re-offer.
OffersAscending2 == {[id |-> o1, attempt |-> 0], [id |-> o2, attempt |-> 1]}

\* A first order, and two that claim the same attempt after it.
OffersTied == OffersAscending2 \cup {[id |-> o3, attempt |-> 1]}

\* A redelivery that carries another attempt than the first delivery did.
OffersSurprising == {[id |-> o1, attempt |-> 0], [id |-> o1, attempt |-> 1]}

TiedSymmetry == Permutations(Hooks) \cup Permutations({o2, o3})
ControllerSymmetry == Permutations(Controllers)
=============================================================================
