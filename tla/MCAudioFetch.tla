---------------------------- MODULE MCAudioFetch ----------------------------
(* A file of three blocks, and the cache that such files go to: there is room *)
(* for two of the small files, and for none of the large ones.                *)
EXTENDS AudioFetch

Cache == INSTANCE FileCache WITH Files <- {"a", "b", "c"}, Sizes <- {1, 3},
                                 Limit <- 2, Calls <- 2
ASSUME Cache!CacheKeepsPromise
=============================================================================
