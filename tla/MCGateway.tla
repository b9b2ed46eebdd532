------------------------------ MODULE MCGateway ------------------------------
EXTENDS Gateway, TLC

CONSTANTS h, v, c1, c2

MCAccounts == {h, v}
MCConns == {c1, c2}
ConnSymmetry == Permutations(MCConns)
=============================================================================
