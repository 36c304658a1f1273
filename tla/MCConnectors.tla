---------------------------- MODULE MCConnectors ----------------------------
EXTENDS Connectors, TLC

\* An empty checkpoint, and one from somewhere else.
MCCheckpoints ==
  {[cursor |-> 0, hash |-> NoHashes], [cursor |-> 1, hash |-> [d \in Doc |-> 1]]}

MCSymmetry ==
  Permutations(Request) \cup Permutations(Worker)
    \cup Permutations(Place) \cup Permutations(Collection)
=============================================================================
