----------------------------- MODULE SpotifyUri -----------------------------
(* Spotify's URIs (core/src/spotify_uri.rs). A text is the sequence of parts   *)
(* between its colons.                                                         *)
EXTENDS Sequences, FiniteSets, SequencesExt

CONSTANTS Ids,     \* parts that SpotifyId::from_base62 takes
          Seconds, \* parts that are numbers of seconds
          Names    \* other parts

Kinds == {"album", "artist", "episode", "playlist", "show", "track"}
Parts == Kinds \cup {"spotify", "user", "local", "unknown"} \cup Ids \cup Seconds \cup Names
Invalid == [kind |-> "invalid"]

\* user is <<>> for None.
Item(kind, id, user) == [kind |-> kind, id |-> id, user |-> user]
Local(artist, album, track, seconds) ==
    [kind |-> "local", artist |-> artist, album |-> album, track |-> track, seconds |-> seconds]
Unknown(type, id) == [kind |-> "unknown", type |-> type, id |-> id]

\* What follows the scheme and the user; parts behind what is read are ignored.
FromParts(parts, user) ==
    IF Len(parts) < 2 THEN Invalid
    ELSE LET type == parts[1]
             name == parts[2]
         IN CASE type \in Kinds ->
                   IF name \in Ids
                   THEN Item(type, name, IF type = "playlist" THEN user ELSE <<>>)
                   ELSE Invalid
              [] type = "local" ->
                   IF Len(parts) >= 5 /\ parts[5] \in Seconds
                   THEN Local(<<name>>, <<parts[3]>>, <<parts[4]>>, parts[5])
                   ELSE Invalid
              [] OTHER -> Unknown(type, name)

FromUri(parts) ==
    IF Head(parts) # "spotify" THEN Invalid
    ELSE IF Len(parts) > 2 /\ parts[2] = "user"
         THEN FromParts(SubSeq(parts, 4, Len(parts)), <<parts[3]>>)
         ELSE FromParts(Tail(parts), <<>>)

\* A field of a local file may have colons of its own: it is a sequence of parts.
ToId(uri) ==
    IF uri.kind = "local" THEN uri.artist \o uri.album \o uri.track \o <<uri.seconds>>
    ELSE <<uri.id>>

ToUri(uri) ==
    IF uri.kind = "playlist" /\ uri.user # <<>>
    THEN <<"spotify", "user">> \o uri.user \o <<uri.kind, uri.id>>
    ELSE <<"spotify", uri.kind>> \o ToId(uri)

-----------------------------------------------------------------------------
\* The canonical text of a URI of a known type is read as that URI again. The
\* type of an unknown one is lost: its second text says so.
Canonical(uri) ==
    FromUri(ToUri(uri)) = IF uri.kind = "unknown" THEN Unknown("unknown", uri.id) ELSE uri

\* Local files whose fields have colons: their text is that of another file, or
\* of none.
Fields == UNION {[1 .. n -> Names \cup Seconds] : n \in 1 .. 2}
Colons(uri) == \E field \in {uri.artist, uri.album, uri.track} : Len(field) > 1
LocalFiles == {Local(a, b, c, s) : a, b, c \in Fields, s \in Seconds}

UrisKeepPromise ==
    /\ \A n \in 1 .. 4 : \A parts \in [1 .. n -> Parts] :
         LET uri == FromUri(parts)
         IN uri # Invalid =>
              /\ Canonical(uri)
              /\ \A more \in Parts : FromUri(Append(parts, more)) = uri
    /\ \A uri \in LocalFiles : Canonical(uri) = ~Colons(uri)
    /\ \A kind \in Kinds, id \in Ids, user \in Names :
         /\ Canonical(Item(kind, id, <<>>)) /\ Canonical(Item("playlist", id, <<user>>))
         /\ FromUri(<<"spotify", "user", user, kind, id>>)
              = Item(kind, id, IF kind = "playlist" THEN <<user>> ELSE <<>>)
=============================================================================
