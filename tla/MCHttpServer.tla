---------------------------- MODULE MCHttpServer ----------------------------
(* Instances of HttpServer for TLC, and of the router its user fills before start(). *)
EXTENDS HttpServer, HttpRequestRouter

CONSTANTS c1, c2

TwoConns == {c1, c2}

\* The constructor of a worker other than the first may throw.  (If that of the first
\* one does, Server::start goes on over workers that are released: usesReleased.)
LaterConstructionFails == {{}} \cup {{w} : w \in Workers \ {1}}

\* Paths of up to three bytes, a slash and one above and one below it; QUrl finds each
\* of them to be a path.
SomePaths == {<<Slash>> \o rest : rest \in UNION {[1..n -> {Slash, 46, 97}] : n \in 0..2}}

Methods == {"GET", "OPTIONS"}

\* The router after the routes of paths, in this order, the i-th with handler i.
RouterWith(method, paths) ==
    FoldLeftDomain(LAMBDA router, i : AddRoute(router, method, paths[i], i),
                   [m \in Methods |-> <<>>], paths)

\* Of the routes for the same path that are accepted the last one counts.
LastRoutes(method, paths) ==
    {[path |-> paths[i], handler |-> i] :
        i \in {i \in 1..Len(paths) :
                  /\ paths[i] = Star => method = "OPTIONS"
                  /\ \A j \in (i + 1)..Len(paths) : paths[j] # paths[i]}}

\* Whatever routes are added, in whatever order, a request is given to the handler of the
\* most specific one (HttpRequestRouter::addRoute, getHandler).
ASSUME RequestsAreRouted ==
    \A method \in Methods : \A n \in 0..3 : \A paths \in [1..n -> SomePaths \cup {Star}] :
        LET router == RouterWith(method, paths)
        IN  /\ IsOrdered(router[method])
            /\ RoutesOf(router[method]) = LastRoutes(method, paths)
            /\ \A path \in SomePaths \cup {Star} :
                  IsMostSpecific(GetHandler(router, method, path),
                                 LastRoutes(method, paths), path)
=============================================================================
