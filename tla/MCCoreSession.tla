---------------------------- MODULE MCCoreSession ----------------------------
\* A subscription of Mercury and one audio key.
EXTENDS CoreSession

CONSTANTS sub, key

MCAsks == {sub}
MCSubscribers == {sub}
MCKeys == {key}

\* The identifiers, at two sizes for which their text has more values than they
\* have, as 62^22 has more than 2^128; and the URIs.
IdsA == INSTANCE SpotifyId WITH Base <- 3, Size <- 4, Word <- 4, Words <- 3
IdsB == INSTANCE SpotifyId WITH Base <- 5, Size <- 3, Word <- 8, Words <- 2
Uris == INSTANCE SpotifyUri WITH Ids <- {"6rqhFgbbKwnb9MLmUQDhG6"}, Seconds <- {"200"},
                                 Names <- {"name"}
ASSUME IdsA!IdsKeepPromise
ASSUME IdsB!IdsKeepPromise
ASSUME Uris!UrisKeepPromise
=============================================================================
