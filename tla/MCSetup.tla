------------------------------ MODULE MCSetup ------------------------------
EXTENDS Setup, TLC

Symmetry == Permutations(PlayerId) \cup Permutations(Name)
              \cup Permutations(Client)

=============================================================================
