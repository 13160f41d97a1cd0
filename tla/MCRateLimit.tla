---------------------------- MODULE MCRateLimit -----------------------------
EXTENDS RateLimit, TLC

Symmetry == Permutations(Logins) \cup Permutations(Users)
=============================================================================
