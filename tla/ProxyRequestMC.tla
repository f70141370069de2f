--------------------------- MODULE ProxyRequestMC ---------------------------
(* Instances of ProxyRequest for TLC.                                        *)
EXTENDS ProxyRequest, TLC

CONSTANTS anthropic, other, k1, k2

KeySymmetry == Permutations(Key)
=============================================================================
