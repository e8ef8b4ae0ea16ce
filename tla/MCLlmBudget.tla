---------------------------- MODULE MCLlmBudget ----------------------------
EXTENDS LlmBudget, TLC

\* Threads are interchangeable.
Interchangeable == Permutations(Caller)
=============================================================================
