------------------------------- MODULE MCDevice -------------------------------
EXTENDS Device, TLC
CONSTANTS X, Y, N, M, S, T, G, H
TwoReceivers == {X, Y}
TwoNetworks == {N, M}
TwoSubnets == {S, T}
TwoHubs == {G, H}
=============================================================================
