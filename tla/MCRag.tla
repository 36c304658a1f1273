------------------------------- MODULE MCRag -------------------------------
EXTENDS Rag, TLC

MCSymmetry == Permutations(Request) \cup Permutations(Worker)
=============================================================================
