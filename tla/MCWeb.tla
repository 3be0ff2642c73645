------------------------------- MODULE MCWeb --------------------------------
(* Two callers that share the tokens, the addresses and the quota.             *)
EXTENDS Web

CONSTANTS k1, k2

MCCallers == {k1, k2}
=============================================================================
