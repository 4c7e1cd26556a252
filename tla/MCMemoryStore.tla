--------------------------- MODULE MCMemoryStore ---------------------------
\* The instance of MemoryStore that TLC checks: no two handlers, tiers or
\* contents are distinguished.
EXTENDS MemoryStore, TLC

Symmetry == Permutations(Handlers) \cup Permutations(Contents)
              \cup Permutations(Tiers)
=============================================================================
