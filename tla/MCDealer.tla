------------------------------ MODULE MCDealer ------------------------------
(* One reconnection, one request, and a URI that is a prefix of another.      *)
EXTENDS Dealer

MCConns == 1..2
MCPaths == {<<"connect">>, <<"connect", "volume">>}

\* The maps of handlers and subscribers, over all small trees.
Maps == INSTANCE UriMaps WITH Parts <- {"connect", "volume"}, NoHandler <- 0
ASSUME Maps!MapsKeepPromise
=============================================================================
