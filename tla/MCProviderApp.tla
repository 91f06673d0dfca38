--------------------------- MODULE MCProviderApp ---------------------------
EXTENDS ProviderApp, TLC

CONSTANTS k1, k2, w1, w2

Owners == (k1 :> w1) @@ (k2 :> w2)
OneChain == {1, 8453}
=============================================================================
