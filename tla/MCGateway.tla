----------------------------- MODULE MCGateway ------------------------------
EXTENDS Gateway, TLC

\* Nothing orders tabs or tokens.
Interchangeable == Permutations(Tabs) \cup Permutations(Tokens)
=============================================================================
