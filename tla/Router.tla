------------------------------- MODULE Router -------------------------------
(***************************************************************************)
(* The router that src/routes.rs builds, and the part of axum's routing    *)
(* it depends on (external: axum 0.8 and matchit 0.8).                     *)
(*                                                                         *)
(* A path is the sequence of its raw segments ("/files/" is                *)
(* <<"files", "">>): nothing is decoded or normalised before the match.    *)
(* What a route answers with is a stack of stages, outermost first; the    *)
(* last one is a handler and the ones before it are middleware.            *)
(***************************************************************************)
EXTENDS Naturals, Sequences

CONSTANTS
    Accts,      \* raw segments that are "@" followed by at least one byte
    FeedAccts   \* those whose decoded form ends in .rss, .atom or .json

ASSUME FeedAcctsAssumption == FeedAccts \subseteq Accts

\* They are no literal segments of the table.
ASSUME AcctSegmentsAssumption == {"", "inbox", "identicon"} \cap Accts = {}

Methods == {"GET", "HEAD", "POST", "OPTIONS"}
Middleware == {"reject_feed_paths", "redirect_navigation", "force_ap_accept",
               "redirect_media"}
Handlers == {"forward", "index", "misskey_logo", "instance_icon",
             "not_found", "method_not_allowed"}

-----------------------------------------------------------------------------
(* axum and matchit *)

Param == "{}"       \* {name}: one whole segment
AtParam == "@{}"    \* @{name}: one segment that starts with "@"
Rest == "{*}"       \* {*name}: everything that is left, at least one byte

\* An empty segment is taken by a parameter only when a "/" follows it.
SegmentMatches(pattern, path, i) ==
    CASE pattern[i] = Param   -> path[i] # "" \/ i < Len(path)
      [] pattern[i] = AtParam -> path[i] \in Accts
      [] OTHER                -> path[i] = pattern[i]

Matches(pattern, path) ==
    LET n == Len(pattern) IN
    IF pattern[n] = Rest
    THEN /\ Len(path) >= n
         /\ Len(path) > n \/ path[n] # ""
         /\ \A i \in 1 .. n - 1 : SegmentMatches(pattern, path, i)
    ELSE /\ Len(path) = n
         /\ \A i \in 1 .. n : SegmentMatches(pattern, path, i)

\* A route: the stack of each method it accepts, and the one for every other
\* method, which is axum's default 405 until something replaces it.
On(methods, pattern, handler) ==
    [pattern |-> pattern,
     methods |-> [m \in methods |-> <<handler>>],
     otherwise |-> <<"default_405">>, default |-> TRUE]
get(pattern, handler) == On({"GET", "HEAD"}, pattern, handler)
post(pattern, handler) == On({"POST"}, pattern, handler)
get_options(pattern, handler) == On({"GET", "HEAD", "OPTIONS"}, pattern, handler)

\* A router: its routes, and the stack for a path that no route matches.
NewRouter(routes) == [routes |-> routes, fallback |-> <<"default_404">>]
Merge(r, s) ==
    [routes |-> r.routes \cup s.routes, fallback |-> r.fallback]
Fallback(r, handler) == [routes |-> r.routes, fallback |-> <<handler>>]

\* A layer wraps a route's handlers and its 405 alike, and leaves a default
\* 405 marked as default.
Wrapped(route, stage) ==
    [pattern |-> route.pattern,
     methods |-> [m \in DOMAIN route.methods |->
                     <<stage>> \o route.methods[m]],
     otherwise |-> <<stage>> \o route.otherwise, default |-> route.default]

RouteLayer(r, stage) ==
    [r EXCEPT !.routes = {Wrapped(route, stage) : route \in @}]
Layer(r, stage) ==
    [routes |-> RouteLayer(r, stage).routes,
     fallback |-> <<stage>> \o r.fallback]

\* Replaces every default 405, together with whatever already wraps it.
OwnFallback(route, handler) ==
    IF route.default
    THEN [pattern |-> route.pattern, methods |-> route.methods,
          otherwise |-> <<handler>>, default |-> FALSE]
    ELSE route

MethodNotAllowedFallback(r, handler) ==
    [routes |-> {OwnFallback(route, handler) : route \in r.routes},
     fallback |-> r.fallback]

\* Of two patterns that match, the one that is literal where they first
\* differ wins.
Beats(p, q) ==
    \E i \in 1 .. Len(p) :
        /\ i <= Len(q)
        /\ \A j \in 1 .. i - 1 : p[j] = q[j]
        /\ p[i] # q[i]
        /\ p[i] \notin {Param, AtParam, Rest}

\* The stack that answers a request: that of the one route that beats every
\* other match.  (Two matches that tie would be a table matchit refuses.)
Dispatch(r, method, path) ==
    LET hits == {route \in r.routes : Matches(route.pattern, path)}
        best == {b \in hits : \A h \in hits \ {b} : Beats(b.pattern, h.pattern)}
    IN IF best = {} THEN r.fallback
       ELSE LET route == CHOOSE b \in best : TRUE IN
            IF method \in DOMAIN route.methods THEN route.methods[method]
                                               ELSE route.otherwise

-----------------------------------------------------------------------------
(* src/home.rs and src/routes.rs *)

home == NewRouter({get(<<"">>, "index"),
                   get(<<"assets", "misskey.svg">>, "misskey_logo"),
                   get(<<"assets", "icon.webp">>, "instance_icon")})

media ==
    RouteLayer(NewRouter({get(p, "forward") : p \in
        {<<"files", "app-default.jpg">>, <<"files", Param>>,
         <<"files", Param, Rest>>, <<"proxy", Rest>>}}), "redirect_media")

gated ==
    RouteLayer(NewRouter({get(p, "forward") : p \in
        {<<"notes", Param>>, <<"users", Param>>, <<AtParam>>}}),
        "force_ap_accept")

plain ==
    NewRouter(
      {get_options(<<".well-known", "webfinger">>, "forward"),
       post(<<"inbox">>, "forward"),
       post(<<"users", Param, "inbox">>, "forward")}
      \cup {get(p, "forward") : p \in
       {<<".well-known", "nodeinfo">>, <<".well-known", "host-meta">>,
        <<".well-known", "host-meta.json">>,
        <<"nodeinfo", "2.0">>, <<"nodeinfo", "2.1">>,
        <<"notes", Param, "activity">>, <<"users", Param, "outbox">>,
        <<"users", Param, "followers">>, <<"users", Param, "following">>,
        <<"users", Param, "collections", "featured">>,
        <<"users", Param, "publickey">>, <<"emojis", Param>>,
        <<"likes", Param>>, <<"follows", Param>>,
        <<"follows", Param, Param>>}})

\* A slip: the gated routes are merged after the layer that should wrap them.
ap_GatedOutside == Merge(RouteLayer(plain, "redirect_navigation"), gated)

ap == RouteLayer(Merge(plain, gated), "redirect_navigation")

identicon == NewRouter({get(<<"identicon", Param>>, "forward")})

everything == Merge(Merge(Merge(home, ap), identicon), media)

\* Slips in the order of composition: no catch-all; the feed check before the
\* routes it is about exist; the 405 handler put over the feed check, which
\* answered 405 to a POST of a feed (docs/routes.md tells of it).
build_NoFallback ==
    Layer(MethodNotAllowedFallback(everything, "method_not_allowed"),
          "reject_feed_paths")
build_FeedCheckEarly ==
    Fallback(MethodNotAllowedFallback(
        Merge(Layer(Merge(home, identicon), "reject_feed_paths"),
              Merge(ap, media)), "method_not_allowed"), "not_found")
build_405Last ==
    Fallback(MethodNotAllowedFallback(
        Layer(everything, "reject_feed_paths"), "method_not_allowed"),
        "not_found")

\* The 405 handler first, then the feed check around every route and that
\* handler, then the 404 that nothing wraps.
build ==
    Fallback(
      Layer(
        MethodNotAllowedFallback(everything, "method_not_allowed"),
        "reject_feed_paths"),
      "not_found")

\* feed_routes::is_feed_path.
is_feed_path(path) == Len(path) = 1 /\ path[1] \in FeedAccts
=============================================================================
