-------------------------- MODULE HttpRequestRouter --------------------------
(***************************************************************************)
(* HttpRequestRouter: which handler a request is given to.  For each       *)
(* method, handlers are kept in the descending order of their paths, so    *)
(* that the first one whose path the request's path begins with is the     *)
(* one with the longest such path.  Paths are sequences of bytes, and what *)
(* addRoute() does to the router is its value.                             *)
(***************************************************************************)
EXTENDS Integers, SequencesExt

CONSTANTS
    PathUrls,   \* paths that QUrl parses as an absolute path and nothing else (external)
    NoHandler   \* nullptr

Slash == 47
Star == <<42>>

\* Does p follow q in the order of std::string_view, byte by byte and then by length?
Greater(p, q) ==
    \/ IsStrictPrefix(q, p)
    \/ \E i \in 1..Len(p) :
          /\ i <= Len(q) /\ p[i] > q[i]
          /\ \A j \in 1..(i - 1) : p[j] = q[j]

\* Where the loop over handlers stops for a new route: at the first path that is not
\* greater than the new one, or behind them all.
IsStop(handlers, path, i) == path = handlers[i].path \/ Greater(path, handlers[i].path)
Position(handlers, path) ==
    LET stops == {i \in 1..Len(handlers) : IsStop(handlers, path, i)}
    IN  IF stops = {} THEN Len(handlers) + 1 ELSE Min(stops)

\* A path that is there already gets the new handler; another one is inserted.
Insert(handlers, path, handler) ==
    LET pos == Position(handlers, path)
    IN  IF pos <= Len(handlers) /\ handlers[pos].path = path
        THEN [handlers EXCEPT ![pos].handler = handler]
        ELSE InsertAt(handlers, pos, [path |-> path, handler |-> handler])

IsAbsolutePath(path) == path # <<>> /\ path[1] = Slash /\ path \in PathUrls

IsAccepted(method, path, handler) ==
    /\ IsAbsolutePath(path) \/ (method = "OPTIONS" /\ path = Star)
    /\ handler # NoHandler

\* The router after addRoute(), which refuses what it does not accept.
AddRoute(router, method, path, handler) ==
    IF IsAccepted(method, path, handler)
    THEN [router EXCEPT ![method] = Insert(@, path, handler)]
    ELSE router

GetHandler(router, method, path) ==
    LET handlers == router[method]
        matching == {i \in 1..Len(handlers) : IsPrefix(handlers[i].path, path)}
    IN  IF matching = {} THEN NoHandler ELSE handlers[Min(matching)].handler

-----------------------------------------------------------------------------
(* What the router promises, of the routes that have been added. *)

\* The routes of a list of handlers, as a set.
RoutesOf(handlers) == {handlers[i] : i \in 1..Len(handlers)}

\* The handler of the most specific of the routes, the one with the longest path.
IsMostSpecific(handler, routes, path) ==
    LET matching == {r \in routes : IsPrefix(r.path, path)}
    IN  IF matching = {} THEN handler = NoHandler
        ELSE \E r \in matching :
                r.handler = handler /\ \A s \in matching \ {r} : Len(s.path) < Len(r.path)

\* Paths descend.
IsOrdered(handlers) ==
    \A i, j \in 1..Len(handlers) : i < j => Greater(handlers[i].path, handlers[j].path)
=============================================================================
