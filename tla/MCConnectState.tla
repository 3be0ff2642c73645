--------------------------- MODULE MCConnectState ---------------------------
\* An album of two pages, a list of one track, a radio of two, one of them on
\* the album as well: the smallest that has a page to append, a context to
\* leave, and an autoplay to enter whose tracks may be in both.
EXTENDS ConnectState

MCPages == [album |-> <<<<"a", "b">>, <<"c">>>>, web |-> <<<<"a">>>>]
MCRadio == <<"r", "a">>
MCDraws == {<<1, 0>>}
MCTransfer == [track |-> "b", uri |-> "album", queued |-> FALSE, uid |-> "b", auto |-> FALSE,
               queue |-> <<"a">>, shuffle |-> TRUE, context |-> FALSE, repeat |-> FALSE, initial |-> "none"]
MCTransfers == {MCTransfer, [MCTransfer EXCEPT !.uri = "web", !.track = "a"], [MCTransfer EXCEPT !.queued = TRUE, !.track = "a", !.shuffle = FALSE]}

\* One list longer than the limit, with a queued track, one without a uri, one
\* of no context and a delimiter; its previous tracks begin and end with rounds.
MCLists == {[next |-> <<Track("b", "context", 1, FALSE), Delimiter, Track("q", "context", -1, FALSE), Track("none", "context", 0, FALSE)>>,
             queued |-> {3}, prev |-> <<Track("q", "autoplay", -1, TRUE), Delimiter, Track("c", "context", 2, FALSE)>>]}
=============================================================================
