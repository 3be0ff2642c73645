------------------------------ MODULE UriMaps -------------------------------
(* The dealer's maps (core/src/dealer/maps.rs): trees over the parts of a uri, *)
(* one of handlers for its requests, one of subscribers for its messages. The  *)
(* operators follow the code down the tree; the definitions at the end say of  *)
(* the entries, without a tree, what they come to.                             *)
EXTENDS Sequences, FiniteSets, SequencesExt

CONSTANTS Parts,     \* the parts a uri is split into
          NoHandler  \* none

NoChildren == [p \in {} |-> {}]
Put(children, p, node) == (p :> node) @@ children
Without(children, p) == [q \in DOMAIN children \ {p} |-> children[q]]

-----------------------------------------------------------------------------
(* HandlerMap: a leaf has a handler, a branch has children.                    *)

Branch == [handler |-> NoHandler, children |-> NoChildren]
Leaf(h) == [Branch EXCEPT !.handler = h]
IsLeaf(node) == node.handler # NoHandler

ChildOf(node, p, default) ==
    IF p \in DOMAIN node.children THEN node.children[p] ELSE default

RECURSIVE HandlerInsert(_, _, _)
HandlerInsert(node, path, h) ==
    IF IsLeaf(node) \/ (path = <<>> /\ node.children # NoChildren)
    THEN [ok |-> FALSE, map |-> node]
    ELSE IF path = <<>> THEN [ok |-> TRUE, map |-> Leaf(h)]
    ELSE LET below == HandlerInsert(ChildOf(node, Head(path), Branch), Tail(path), h)
         IN [ok |-> below.ok,
             map |-> [node EXCEPT !.children = Put(@, Head(path), below.map)]]

RECURSIVE HandlerGet(_, _)
HandlerGet(node, path) ==
    IF IsLeaf(node) THEN node.handler
    ELSE IF path = <<>> THEN NoHandler
    ELSE HandlerGet(ChildOf(node, Head(path), Branch), Tail(path))

\* A leaf is taken out wherever the path meets it, and with it every branch that
\* is left empty.
RECURSIVE HandlerRemove(_, _)
HandlerRemove(node, path) ==
    IF IsLeaf(node) THEN [was |-> node.handler, map |-> Branch]
    ELSE IF path = <<>> \/ Head(path) \notin DOMAIN node.children
    THEN [was |-> NoHandler, map |-> node]
    ELSE LET below == HandlerRemove(node.children[Head(path)], Tail(path))
         IN [was |-> below.was,
             map |-> [node EXCEPT !.children =
                        IF below.map = Branch THEN Without(@, Head(path))
                        ELSE Put(@, Head(path), below.map)]]

-----------------------------------------------------------------------------
(* SubscriberMap: every node may have subscribers.                             *)

NoNode == [subscribed |-> {}, children |-> NoChildren]

RECURSIVE SubscriberInsert(_, _, _)
SubscriberInsert(node, path, s) ==
    IF path = <<>> THEN [node EXCEPT !.subscribed = @ \cup {s}]
    ELSE [node EXCEPT !.children =
            Put(@, Head(path),
                SubscriberInsert(ChildOf(node, Head(path), NoNode), Tail(path), s))]

RECURSIVE SubscriberContains(_, _)
SubscriberContains(node, path) ==
    \/ node.subscribed # {}
    \/ path = <<>> /\ node # NoNode
    \/ /\ path # <<>> /\ Head(path) \in DOMAIN node.children
       /\ SubscriberContains(node.children[Head(path)], Tail(path))

\* A message goes to the subscribers of this node; only when it has none does it
\* go down. Those that do not hear it (their receiver was dropped) are removed,
\* and count as having handled it.
RECURSIVE SubscriberRetain(_, _, _)
SubscriberRetain(node, path, hears) ==
    LET kept == [node EXCEPT !.subscribed = @ \cap hears]
        here == node.subscribed # {}
    IN IF path = <<>> \/ Head(path) \notin DOMAIN node.children
       THEN [handled |-> here, got |-> kept.subscribed, map |-> kept]
       ELSE IF here THEN [handled |-> TRUE, got |-> kept.subscribed, map |-> kept]
       ELSE LET below == SubscriberRetain(node.children[Head(path)], Tail(path), hears)
            IN [below EXCEPT !.map =
                  [kept EXCEPT !.children = IF below.map = NoNode THEN Without(@, Head(path))
                                            ELSE Put(@, Head(path), below.map)]]

\* A message whose payload cannot be read reaches nobody.
DispatchMessage(node, path, hears, reads) ==
    IF reads THEN SubscriberRetain(node, path, hears)
    ELSE [handled |-> FALSE, got |-> {}, map |-> node]

\* Uris are entered one after the other, up to one that cannot be split (<<>>).
Subscribe(node, paths, s) ==
    LET good == SubSeq(paths, 1, Cardinality({i \in DOMAIN paths :
                                              \A j \in 1 .. i : paths[j] # <<>>}))
    IN FoldLeft(LAMBDA m, path : SubscriberInsert(m, path, s), node, good)

-----------------------------------------------------------------------------
(* What they come to.                                                          *)

RECURSIVE Handled(_)
Handled(node) ==
    IF IsLeaf(node) THEN {<<<<>>, node.handler>>}
    ELSE UNION {{<<<<p>> \o e[1], e[2]>> : e \in Handled(node.children[p])}
                : p \in DOMAIN node.children}

RECURSIVE Subscribed(_)
Subscribed(node) ==
    {<<<<>>, s>> : s \in node.subscribed}
    \cup UNION {{<<<<p>> \o e[1], e[2]>> : e \in Subscribed(node.children[p])}
                : p \in DOMAIN node.children}

RECURSIVE Tidy(_)
Tidy(node) ==
    \A p \in DOMAIN node.children :
        node.children[p] \notin {Branch, NoNode} /\ Tidy(node.children[p])

\* No two handlers compete: one is added unless its uri is above or below that
\* of another (HandlerMapError::AlreadyHandled); a request, and a removal, finds
\* the handler whose uri is above its own.
HandlersPromise(node, path, h) ==
    LET entries == Handled(node)
        competes == \E e \in entries : IsPrefix(e[1], path) \/ IsPrefix(path, e[1])
        above == {e \in entries : IsPrefix(e[1], path)}
        added == HandlerInsert(node, path, h)
        removed == HandlerRemove(node, path)
    IN /\ added.ok = ~competes
       /\ Handled(added.map) = IF competes THEN entries ELSE entries \cup {<<path, h>>}
       /\ Cardinality(above) <= 1
       /\ {HandlerGet(node, path)} \ {NoHandler} = {e[2] : e \in above}
       /\ {removed.was} \ {NoHandler} = {e[2] : e \in above}
       /\ Handled(removed.map) = entries \ above
       /\ Tidy(added.map) /\ Tidy(removed.map)

\* A message reaches the subscribers of the uri nearest to the root, all of them
\* and nobody below; it is handled if there was one, dead or alive; the dead
\* ones among them, and only those, are forgotten.
SubscribersPromise(node, path, hears) ==
    LET entries == Subscribed(node)
        above == {e \in entries : IsPrefix(e[1], path)}
        first == {e \in above : \A f \in above : Len(e[1]) <= Len(f[1])}
        done == DispatchMessage(node, path, hears, TRUE)
    IN /\ done.handled = (above # {})
       /\ done.got = {e[2] : e \in first} \cap hears
       /\ Subscribed(done.map) = entries \ {e \in first : e[2] \notin hears}
       /\ SubscriberContains(node, path) =
            (above # {} \/ \E e \in entries : IsPrefix(path, e[1]))
       /\ Tidy(done.map)

\* Every map of up to three entries, and every path, of up to two parts.
Uris == UNION {[1 .. n -> Parts] : n \in 1 .. 2}
HandlerMaps ==
    {HandlerInsert(HandlerInsert(HandlerInsert(Branch, p, 1).map, q, 2).map, r, 3).map
        : p, q, r \in Uris}
SubscriberMaps ==
    {Subscribe(Subscribe(NoNode, <<p, q>>, 1), <<r, <<>>, s>>, 2)
        : p, q, r, s \in Uris}

MapsKeepPromise ==
    /\ \A m \in HandlerMaps, p \in Uris : HandlersPromise(m, p, 4)
    /\ \A m \in SubscriberMaps, p \in Uris, hears \in SUBSET {1, 2} :
         /\ SubscribersPromise(m, p, hears)
         /\ \A q \in Uris : SubscribersPromise(SubscriberRetain(m, p, hears).map, q, {1})
=============================================================================
