--------------------------- MODULE MCTaskManager ---------------------------
EXTENDS TaskManager, TLC

Symmetry == Permutations(Task) \cup Permutations(Client) \cup Permutations(Run)

=============================================================================
