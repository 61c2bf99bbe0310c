---------------------------- MODULE EgressProofs ----------------------------
(***************************************************************************)
(* Proofs about the proxy, from the inside out: what the router picks for  *)
(* every method and path, what the header filters do to every block, what  *)
(* Egress.tla does for every set of connections, requests, answers and     *)
(* accounts, and what a shared cache in front of it hands out.             *)
(*                                                                         *)
(* A step touches the state of one connection only, so the invariant is    *)
(* stated for one connection and shown to be kept at the connection that   *)
(* moves and at every other one.                                           *)
(***************************************************************************)
EXTENDS EdgeCache, TLAPS

-----------------------------------------------------------------------------
(* The router: the stack ends in a handler of the proxy's own, and begins  *)
(* with the feed check unless it is the plain 404.                         *)

\* Middleware around one handler of H.
Stacks(H) == {s \in Seq(Middleware \cup H) :
                 /\ Len(s) >= 1 /\ s[Len(s)] \in H
                 /\ \A i \in 1 .. Len(s) - 1 : s[i] \in Middleware}

MethodStacks == UNION {[M -> Stacks(Handlers)] : M \in SUBSET Methods}

\* A route whose 405 is `otherwise`, axum's own or not.
RouteWith(route, H, default) ==
    \E pattern : \E methods \in MethodStacks, otherwise \in Stacks(H) :
        route = [pattern |-> pattern, methods |-> methods,
                 otherwise |-> otherwise, default |-> default]

\* A router as route(), merge() and route_layer() leave it.
Unfinished(r) ==
    \E routes :
        /\ r = NewRouter(routes)
        /\ \A route \in routes : RouteWith(route, {"default_405"}, TRUE)

LEMMA SingleStack ==
    ASSUME NEW H, NEW handler \in H
    PROVE  <<handler>> \in Stacks(H)
<1>1. <<handler>> \in Seq(Middleware \cup H) /\ Len(<<handler>>) = 1
  OBVIOUS
<1> QED
  BY <1>1 DEF Stacks

LEMMA ConsStack ==
    ASSUME NEW H, NEW s \in Stacks(H), NEW stage \in Middleware
    PROVE  /\ <<stage>> \o s \in Stacks(H)
           /\ (<<stage>> \o s)[1] = stage
<1> DEFINE X == Middleware \cup H
           t == <<stage>> \o s
<1>2. /\ s \in Seq(X) /\ Len(s) \in Nat /\ Len(s) >= 1
      /\ s[Len(s)] \in H
      /\ \A i \in 1 .. Len(s) - 1 : s[i] \in Middleware
  BY DEF Stacks
<1>3. /\ t \in Seq(X) /\ Len(t) = Len(s) + 1 /\ t[1] = stage
      /\ \A i \in 2 .. Len(t) : t[i] = s[i - 1]
  <2>1. stage \in X /\ <<stage>> \in Seq(X)
    OBVIOUS
  <2> HIDE DEF X
  <2> QED
    BY <1>2, <2>1
<1> HIDE DEF t
<1>4. t[Len(t)] \in H
  BY <1>2, <1>3
<1>5. \A i \in 1 .. Len(t) - 1 : t[i] \in Middleware
  <2> SUFFICES ASSUME NEW i \in 1 .. Len(t) - 1 PROVE t[i] \in Middleware
    OBVIOUS
  <2>1. CASE i = 1
    BY <1>3, <2>1
  <2>2. CASE i # 1
    <3>1. t[i] = s[i - 1] /\ i - 1 \in 1 .. Len(s) - 1
      BY <1>2, <1>3, <2>2
    <3> QED BY <1>2, <3>1
  <2> QED BY <2>1, <2>2
<1>6. t \in Stacks(H)
  BY <1>2, <1>3, <1>4, <1>5 DEF Stacks
<1> QED
  BY <1>3, <1>6 DEF t

-----------------------------------------------------------------------------
(* The combinators *)

LEMMA OnType ==
    ASSUME NEW methods \in SUBSET Methods, NEW pattern, NEW handler \in Handlers
    PROVE  RouteWith(On(methods, pattern, handler), {"default_405"}, TRUE)
<1>1. <<handler>> \in Stacks(Handlers)
  BY SingleStack
<1>2. <<"default_405">> \in Stacks({"default_405"})
  BY SingleStack
<1>3. [m \in methods |-> <<handler>>] \in MethodStacks
  BY <1>1 DEF MethodStacks
<1> QED
  BY <1>2, <1>3 DEF On, RouteWith

LEMMA GetPostType ==
    ASSUME NEW pattern, NEW handler \in Handlers
    PROVE  /\ RouteWith(get(pattern, handler), {"default_405"}, TRUE)
           /\ RouteWith(post(pattern, handler), {"default_405"}, TRUE)
           /\ RouteWith(get_options(pattern, handler), {"default_405"}, TRUE)
  BY OnType DEF get, post, get_options, Methods

LEMMA WrappedStacks ==
    ASSUME NEW stage \in Middleware, NEW methods \in MethodStacks
    PROVE  /\ [m \in DOMAIN methods |-> <<stage>> \o methods[m]] \in MethodStacks
           /\ \A m \in DOMAIN methods : (<<stage>> \o methods[m])[1] = stage
<1>1. PICK M \in SUBSET Methods : methods \in [M -> Stacks(Handlers)]
  BY DEF MethodStacks
<1>2. \A m \in M : /\ <<stage>> \o methods[m] \in Stacks(Handlers)
                   /\ (<<stage>> \o methods[m])[1] = stage
  <2> TAKE m \in M
  <2>1. methods[m] \in Stacks(Handlers)
    BY <1>1
  <2> QED BY <2>1, ConsStack
<1> QED
  BY <1>1, <1>2 DEF MethodStacks

\* Every stack of a route begins with the stage.
Headed(route, stage) ==
    /\ route.otherwise[1] = stage
    /\ \A m \in DOMAIN route.methods : route.methods[m][1] = stage

LEMMA WrappedType ==
    ASSUME NEW stage \in Middleware, NEW H, NEW default, NEW route,
           RouteWith(route, H, default)
    PROVE  /\ RouteWith(Wrapped(route, stage), H, default)
           /\ Headed(Wrapped(route, stage), stage)
<1> DEFINE w == Wrapped(route, stage)
<1>0. PICK pattern : \E methods \in MethodStacks, otherwise \in Stacks(H) :
        route = [pattern |-> pattern, methods |-> methods,
                 otherwise |-> otherwise, default |-> default]
  BY DEF RouteWith
<1>a. PICK methods \in MethodStacks, otherwise \in Stacks(H) :
        route = [pattern |-> pattern, methods |-> methods,
                 otherwise |-> otherwise, default |-> default]
  BY <1>0
<1>1. /\ <<stage>> \o otherwise \in Stacks(H)
      /\ (<<stage>> \o otherwise)[1] = stage
  BY ConsStack
<1> DEFINE wrapped == [m \in DOMAIN methods |-> <<stage>> \o methods[m]]
<1>2. /\ wrapped \in MethodStacks
      /\ \A m \in DOMAIN methods : (<<stage>> \o methods[m])[1] = stage
  BY WrappedStacks
<1>3. w = [pattern |-> pattern, methods |-> wrapped,
           otherwise |-> <<stage>> \o otherwise, default |-> default]
  BY <1>a DEF Wrapped
<1>b. \A m \in DOMAIN wrapped : wrapped[m][1] = stage
  BY <1>2
<1> HIDE DEF wrapped
<1> HIDE DEF w
<1>4. RouteWith(w, H, default)
  BY <1>1, <1>2, <1>3 DEF RouteWith
<1>5. Headed(w, stage)
  BY <1>1, <1>b, <1>3 DEF Headed
<1> QED
  BY <1>4, <1>5 DEF w

LEMMA RouteLayerType ==
    ASSUME NEW stage \in Middleware, NEW r, Unfinished(r)
    PROVE  Unfinished(RouteLayer(r, stage))
<1>1. PICK routes :
          /\ r = NewRouter(routes)
          /\ \A route \in routes : RouteWith(route, {"default_405"}, TRUE)
  BY DEF Unfinished
<1>2. RouteLayer(r, stage) =
          NewRouter({Wrapped(route, stage) : route \in routes})
  BY <1>1 DEF RouteLayer, NewRouter
<1>3. \A route \in routes :
          RouteWith(Wrapped(route, stage), {"default_405"}, TRUE)
  BY <1>1, WrappedType
<1> QED
  BY <1>2, <1>3 DEF Unfinished

LEMMA MergeType ==
    ASSUME NEW r, Unfinished(r), NEW s, Unfinished(s)
    PROVE  Unfinished(Merge(r, s))
<1>1. PICK R :
          /\ r = NewRouter(R)
          /\ \A route \in R : RouteWith(route, {"default_405"}, TRUE)
  BY DEF Unfinished
<1>2. PICK S :
          /\ s = NewRouter(S)
          /\ \A route \in S : RouteWith(route, {"default_405"}, TRUE)
  BY DEF Unfinished
<1>3. Merge(r, s) = NewRouter(R \cup S)
  BY <1>1, <1>2 DEF Merge, NewRouter
<1> QED
  BY <1>1, <1>2, <1>3 DEF Unfinished

LEMMA TableType ==
    ASSUME NEW routes,
           \A route \in routes : RouteWith(route, {"default_405"}, TRUE)
    PROVE  Unfinished(NewRouter(routes))
  BY DEF Unfinished

-----------------------------------------------------------------------------
(* The router of src/routes.rs *)

LEMMA EverythingType == Unfinished(everything)
<1>1. Unfinished(home)
  <2> DEFINE routes == {get(<<"">>, "index"),
                        get(<<"assets", "misskey.svg">>, "misskey_logo"),
                        get(<<"assets", "icon.webp">>, "instance_icon")}
  <2>1. \A route \in routes : RouteWith(route, {"default_405"}, TRUE)
    BY GetPostType DEF Handlers
  <2> QED
    BY <2>1, TableType DEF home
<1>2. \A patterns :
          Unfinished(NewRouter({get(p, "forward") : p \in patterns}))
  <2> TAKE patterns
  <2>1. \A route \in {get(p, "forward") : p \in patterns} :
            RouteWith(route, {"default_405"}, TRUE)
    BY GetPostType DEF Handlers
  <2> QED
    BY <2>1, TableType
<1>3. Unfinished(media)
  BY <1>2, RouteLayerType DEF media, Middleware
<1>4. Unfinished(gated)
  BY <1>2, RouteLayerType DEF gated, Middleware
<1>5. Unfinished(plain)
  <2> DEFINE posts == {get_options(<<".well-known", "webfinger">>, "forward"),
                       post(<<"inbox">>, "forward"),
                       post(<<"users", Param, "inbox">>, "forward")}
  <2>1. \A route \in posts : RouteWith(route, {"default_405"}, TRUE)
    BY GetPostType DEF Handlers
  <2>2. \A p : RouteWith(get(p, "forward"), {"default_405"}, TRUE)
    BY GetPostType DEF Handlers
  <2> HIDE DEF posts
  <2>3. \A patterns : Unfinished(NewRouter(
            posts \cup {get(p, "forward") : p \in patterns}))
    <3> TAKE patterns
    <3>1. \A route \in posts \cup {get(p, "forward") : p \in patterns} :
              RouteWith(route, {"default_405"}, TRUE)
      BY <2>1, <2>2
    <3> QED
      BY <3>1, TableType
  <2> QED
    BY <2>3 DEF plain, posts
<1>6. Unfinished(ap)
  <2>1. Unfinished(Merge(plain, gated))
    BY <1>4, <1>5, MergeType
  <2>2. "redirect_navigation" \in Middleware
    BY DEF Middleware
  <2> QED
    BY <2>1, <2>2, RouteLayerType DEF ap
<1>7. Unfinished(identicon)
  <2>1. \A route \in {get(<<"identicon", Param>>, "forward")} :
            RouteWith(route, {"default_405"}, TRUE)
    BY GetPostType DEF Handlers
  <2> QED
    BY <2>1, TableType DEF identicon
<1>8. Unfinished(Merge(home, ap))
  BY <1>1, <1>6, MergeType
<1>9. Unfinished(Merge(Merge(home, ap), identicon))
  BY <1>7, <1>8, MergeType
<1> QED
  BY <1>3, <1>9, MergeType DEF everything

\* A route that is finished: its 405 is the proxy's own, and every stack of it
\* begins with the feed check.
FeedChecked(way) ==
    way \in Stacks(Handlers) /\ way[1] = "reject_feed_paths"

Finished(route) ==
    /\ FeedChecked(route.otherwise)
    /\ \A m \in DOMAIN route.methods : FeedChecked(route.methods[m])

LEMMA OwnMethodNotAllowed ==
    ASSUME NEW r, Unfinished(r)
    PROVE  \A route \in MethodNotAllowedFallback(r, "method_not_allowed").routes :
              RouteWith(route, Handlers, FALSE)
<1>1. PICK routes :
          /\ r = NewRouter(routes)
          /\ \A route \in routes : RouteWith(route, {"default_405"}, TRUE)
  BY DEF Unfinished
<1> DEFINE replaced(route) == OwnFallback(route, "method_not_allowed")
<1>2. \A route \in routes : RouteWith(replaced(route), Handlers, FALSE)
  <2> SUFFICES ASSUME NEW route \in routes
               PROVE  RouteWith(replaced(route), Handlers, FALSE)
    OBVIOUS
  <2>1. PICK pattern : \E methods \in MethodStacks,
                          otherwise \in Stacks({"default_405"}) :
          route = [pattern |-> pattern, methods |-> methods,
                   otherwise |-> otherwise, default |-> TRUE]
    BY <1>1 DEF RouteWith
  <2>2. PICK methods \in MethodStacks, otherwise \in Stacks({"default_405"}) :
          route = [pattern |-> pattern, methods |-> methods,
                   otherwise |-> otherwise, default |-> TRUE]
    BY <2>1
  <2>3. <<"method_not_allowed">> \in Stacks(Handlers)
    BY SingleStack DEF Handlers
  <2>4. replaced(route) = [pattern |-> pattern, methods |-> methods,
            otherwise |-> <<"method_not_allowed">>, default |-> FALSE]
    BY <2>2 DEF OwnFallback
  <2> HIDE DEF replaced
  <2> QED
    BY <2>3, <2>4 DEF RouteWith
<1>3. MethodNotAllowedFallback(r, "method_not_allowed").routes
        = {replaced(route) : route \in routes}
  BY <1>1 DEF MethodNotAllowedFallback, NewRouter
<1> QED
  BY <1>2, <1>3

LEMMA BuildIsFinished ==
    /\ \A route \in build.routes : Finished(route)
    /\ build.fallback = <<"not_found">>
<1> DEFINE r == MethodNotAllowedFallback(everything, "method_not_allowed")
<1>1. \A route \in r.routes : RouteWith(route, Handlers, FALSE)
  BY EverythingType, OwnMethodNotAllowed
<1> HIDE DEF r
<1>2. \A route \in r.routes : Finished(Wrapped(route, "reject_feed_paths"))
  <2> SUFFICES ASSUME NEW route \in r.routes
               PROVE  Finished(Wrapped(route, "reject_feed_paths"))
    OBVIOUS
  <2> DEFINE w == Wrapped(route, "reject_feed_paths")
  <2>1. RouteWith(w, Handlers, FALSE) /\ Headed(w, "reject_feed_paths")
    <3>1. "reject_feed_paths" \in Middleware
      BY DEF Middleware
    <3>2. RouteWith(route, Handlers, FALSE)
      BY <1>1
    <3> QED
      BY <3>1, <3>2, WrappedType
  <2> HIDE DEF w
  <2>2. w.otherwise \in Stacks(Handlers) /\ w.methods \in MethodStacks
    BY <2>1 DEF RouteWith
  <2>3. \A m \in DOMAIN w.methods : w.methods[m] \in Stacks(Handlers)
    BY <2>2 DEF MethodStacks
  <2>4. Finished(w)
    BY <2>1, <2>2, <2>3 DEF Finished, FeedChecked, Headed
  <2> QED
    BY <2>4 DEF w
<1>3. build = Fallback(Layer(r, "reject_feed_paths"), "not_found")
  BY DEF build, r
<1>4. build.routes = {Wrapped(route, "reject_feed_paths") : route \in r.routes}
  BY <1>3 DEF Fallback, Layer, RouteLayer
<1>5. build.fallback = <<"not_found">>
  BY <1>3 DEF Fallback
<1> QED
  BY <1>2, <1>4, <1>5

\* Whatever the method and the path, the router answers with the plain 404
\* that nothing wraps, or with a stack that begins with the feed check and
\* ends in a handler of the proxy's own: no route is left with axum's bare
\* 405, whose body would go unread, and none is outside the feed check
\* (routes.rs, the comment on the order of the last three calls).
THEOREM EveryRouteIsFeedChecked ==
    ASSUME NEW method, NEW path
    PROVE  LET way == Dispatch(build, method, path) IN
           way = <<"not_found">> \/ FeedChecked(way)
<1> DEFINE hits == {route \in build.routes : Matches(route.pattern, path)}
           best == {b \in hits : \A h \in hits \ {b} :
                                    Beats(b.pattern, h.pattern)}
           route == CHOOSE b \in best : TRUE
<1>1. CASE best = {}
  BY <1>1, BuildIsFinished DEF Dispatch
<1>2. CASE best # {}
  <2>1. route \in best
    BY <1>2
  <2>2. Finished(route)
    BY <2>1, BuildIsFinished
  <2>3. Dispatch(build, method, path) =
          IF method \in DOMAIN route.methods THEN route.methods[method]
                                             ELSE route.otherwise
    BY <1>2 DEF Dispatch
  <2> HIDE DEF route
  <2> QED
    BY <2>2, <2>3 DEF Finished
<1> QED
  BY <1>1, <1>2

-----------------------------------------------------------------------------
(* The whole table, row by row *)

\* A row of the table: one stack for the methods it takes, and its 405, which
\* is axum's default or the proxy's own.
Fresh(p, M, s, o) ==
    [pattern |-> p, methods |-> [m \in M |-> s], otherwise |-> o,
     default |-> TRUE]
Row(p, M, s, o) ==
    [pattern |-> p, methods |-> [m \in M |-> s], otherwise |-> o,
     default |-> FALSE]
Under(stage, s) == <<stage>> \o s

LEMMA OnIsFresh ==
    ASSUME NEW M, NEW p, NEW h
    PROVE  On(M, p, h) = Fresh(p, M, <<h>>, <<"default_405">>)
  BY DEF On, Fresh

LEMMA FreshIsOwned ==
    ASSUME NEW M, NEW p, NEW s, NEW o, NEW h
    PROVE  OwnFallback(Fresh(p, M, s, o), h) = Row(p, M, s, <<h>>)
  BY DEF OwnFallback, Fresh, Row

LEMMA WrappedMethods ==
    ASSUME NEW M, NEW s, NEW h
    PROVE  LET f == [m \in M |-> s] IN
           [m \in DOMAIN f |-> Under(h, f[m])] = [m \in M |-> Under(h, s)]
<1> DEFINE f == [m \in M |-> s]
<1>1. DOMAIN f = M /\ \A m \in M : f[m] = s
  OBVIOUS
<1> QED
  BY <1>1

LEMMA FreshIsWrapped ==
    ASSUME NEW M, NEW p, NEW s, NEW o, NEW h
    PROVE  Wrapped(Fresh(p, M, s, o), h)
             = Fresh(p, M, Under(h, s), Under(h, o))
  BY WrappedMethods DEF Wrapped, Fresh, Under

LEMMA RowIsWrapped ==
    ASSUME NEW M, NEW p, NEW s, NEW o, NEW h
    PROVE  Wrapped(Row(p, M, s, o), h) = Row(p, M, Under(h, s), Under(h, o))
  BY WrappedMethods DEF Wrapped, Row, Under

LEMMA SameElements ==
    ASSUME NEW X, NEW s \in Seq(X), NEW t \in Seq(X), Len(s) = Len(t),
           \A i \in 1 .. Len(s) : s[i] = t[i]
    PROVE  s = t
<1>1. s = [i \in 1 .. Len(s) |-> s[i]] /\ t = [i \in 1 .. Len(t) |-> t[i]]
  OBVIOUS
<1> QED
  BY <1>1

LEMMA Prepended ==
    ASSUME NEW X, NEW a \in X, NEW s \in Seq(X), NEW t \in Seq(X),
           Len(t) = 1 + Len(s), t[1] = a,
           \A i \in 1 .. Len(s) : t[1 + i] = s[i]
    PROVE  Under(a, s) = t
<1> DEFINE u == <<a>> \o s
<1>1. /\ u \in Seq(X) /\ Len(u) = 1 + Len(s) /\ u[1] = a
      /\ \A i \in 2 .. 1 + Len(s) : u[i] = s[i - 1]
  OBVIOUS
<1>2. \A i \in 2 .. 1 + Len(s) : t[i] = s[i - 1]
  <2> TAKE i \in 2 .. 1 + Len(s)
  <2>1. i - 1 \in 1 .. Len(s) /\ 1 + (i - 1) = i
    OBVIOUS
  <2> QED
    BY <2>1
<1> HIDE DEF u
<1>3. Len(s) \in Nat
  OBVIOUS
<1>4. ASSUME NEW i \in 1 .. Len(u) PROVE u[i] = t[i]
  <2>1. i = 1 \/ i \in 2 .. 1 + Len(s)
    BY <1>1, <1>3
  <2>2. CASE i = 1
    BY <1>1, <2>2
  <2>3. CASE i \in 2 .. 1 + Len(s)
    BY <1>1, <1>2, <2>3
  <2> QED
    BY <2>1, <2>2, <2>3
<1>5. u = t
  BY <1>1, <1>4, SameElements
<1> QED
  BY <1>5 DEF u, Under

LEMMA UnderOne ==
    ASSUME NEW a, NEW b
    PROVE  Under(a, <<b>>) = <<a, b>>
<1> DEFINE X == {a, b}
           s == <<b>>
           t == <<a, b>>
<1>1. s \in Seq(X) /\ t \in Seq(X) /\ a \in X
  OBVIOUS
<1>2. Len(s) = 1 /\ s[1] = b
  OBVIOUS
<1>3. Len(t) = 2 /\ t[1] = a /\ t[2] = b
  OBVIOUS
<1> HIDE DEF X, s, t
<1>4. Len(t) = 1 + Len(s) /\ \A i \in 1 .. Len(s) : t[1 + i] = s[i]
  BY <1>2, <1>3
<1>5. Under(a, s) = t
  BY <1>1, <1>3, <1>4, Prepended
<1> QED
  BY <1>5 DEF s, t

LEMMA UnderTwo ==
    ASSUME NEW a, NEW b, NEW c
    PROVE  Under(a, <<b, c>>) = <<a, b, c>>
<1> DEFINE X == {a, b, c}
           s == <<b, c>>
           t == <<a, b, c>>
<1>1. s \in Seq(X) /\ t \in Seq(X) /\ a \in X
  OBVIOUS
<1>2. Len(s) = 2 /\ s[1] = b /\ s[2] = c
  OBVIOUS
<1>3. Len(t) = 3 /\ t[1] = a /\ t[2] = b /\ t[3] = c
  OBVIOUS
<1> HIDE DEF X, s, t
<1>4. Len(t) = 1 + Len(s) /\ \A i \in 1 .. Len(s) : t[1 + i] = s[i]
  BY <1>2, <1>3
<1>5. Under(a, s) = t
  BY <1>1, <1>3, <1>4, Prepended
<1> QED
  BY <1>5 DEF s, t

LEMMA UnderThree ==
    ASSUME NEW a, NEW b, NEW c, NEW d
    PROVE  Under(a, <<b, c, d>>) = <<a, b, c, d>>
<1> DEFINE X == {a, b, c, d}
           s == <<b, c, d>>
           t == <<a, b, c, d>>
<1>1. s \in Seq(X) /\ t \in Seq(X) /\ a \in X
  OBVIOUS
<1>2. Len(s) = 3 /\ s[1] = b /\ s[2] = c /\ s[3] = d
  OBVIOUS
<1>3. Len(t) = 4 /\ t[1] = a /\ t[2] = b /\ t[3] = c /\ t[4] = d
  OBVIOUS
<1> HIDE DEF X, s, t
<1>4. Len(t) = 1 + Len(s) /\ \A i \in 1 .. Len(s) : t[1 + i] = s[i]
  BY <1>2, <1>3
<1>5. Under(a, s) = t
  BY <1>1, <1>3, <1>4, Prepended
<1> QED
  BY <1>5 DEF s, t

Final(route) ==
    Wrapped(OwnFallback(route, "method_not_allowed"), "reject_feed_paths")

Built(p, M, s) == Row(p, M, s, <<"reject_feed_paths", "method_not_allowed">>)

LEMMA FinalRow ==
    ASSUME NEW M, NEW p, NEW u, NEW o
    PROVE  Final(Fresh(p, M, u, o)) = Built(p, M, Under("reject_feed_paths", u))
<1>1. OwnFallback(Fresh(p, M, u, o), "method_not_allowed") =
        Row(p, M, u, <<"method_not_allowed">>)
  BY FreshIsOwned
<1>2. Wrapped(Row(p, M, u, <<"method_not_allowed">>), "reject_feed_paths") =
        Row(p, M, Under("reject_feed_paths", u),
            Under("reject_feed_paths", <<"method_not_allowed">>))
  BY RowIsWrapped
<1>3. Under("reject_feed_paths", <<"method_not_allowed">>)
        = <<"reject_feed_paths", "method_not_allowed">>
  BY UnderOne
<1> QED
  BY <1>1, <1>2, <1>3, Zenon DEF Final, Built

LEMMA BuiltBare ==
    ASSUME NEW M, NEW p, NEW h
    PROVE  Final(On(M, p, h)) = Built(p, M, <<"reject_feed_paths", h>>)
<1>1. On(M, p, h) = Fresh(p, M, <<h>>, <<"default_405">>)
  BY OnIsFresh
<1>2. Final(On(M, p, h)) = Built(p, M, Under("reject_feed_paths", <<h>>))
  BY <1>1, FinalRow
<1> QED
  BY <1>2, UnderOne

LEMMA OnceWrapped ==
    ASSUME NEW M, NEW p, NEW h, NEW s
    PROVE  Wrapped(On(M, p, h), s) =
             Fresh(p, M, <<s, h>>, Under(s, <<"default_405">>))
<1>1. On(M, p, h) = Fresh(p, M, <<h>>, <<"default_405">>)
  BY OnIsFresh
<1>2. Wrapped(On(M, p, h), s) =
        Fresh(p, M, Under(s, <<h>>), Under(s, <<"default_405">>))
  BY <1>1, FreshIsWrapped
<1> QED
  BY <1>2, UnderOne

LEMMA BuiltOnce ==
    ASSUME NEW M, NEW p, NEW h, NEW s
    PROVE  Final(Wrapped(On(M, p, h), s)) =
             Built(p, M, <<"reject_feed_paths", s, h>>)
<1>1. Final(Wrapped(On(M, p, h), s)) =
        Built(p, M, Under("reject_feed_paths", <<s, h>>))
  BY OnceWrapped, FinalRow
<1> QED
  BY <1>1, UnderTwo

LEMMA BuiltTwice ==
    ASSUME NEW M, NEW p, NEW h, NEW s, NEW t
    PROVE  Final(Wrapped(Wrapped(On(M, p, h), s), t)) =
             Built(p, M, <<"reject_feed_paths", t, s, h>>)
<1> DEFINE o == Under(s, <<"default_405">>)
<1>1. Wrapped(On(M, p, h), s) = Fresh(p, M, <<s, h>>, o)
  BY OnceWrapped
<1> HIDE DEF o
<1>2. Wrapped(Fresh(p, M, <<s, h>>, o), t) =
        Fresh(p, M, Under(t, <<s, h>>), Under(t, o))
  BY FreshIsWrapped
<1>3. Under(t, <<s, h>>) = <<t, s, h>>
  BY UnderTwo
<1>4. Final(Fresh(p, M, <<t, s, h>>, Under(t, o))) =
        Built(p, M, Under("reject_feed_paths", <<t, s, h>>))
  BY FinalRow
<1>5. Under("reject_feed_paths", <<t, s, h>>)
        = <<"reject_feed_paths", t, s, h>>
  BY UnderThree
<1> QED
  BY <1>1, <1>2, <1>3, <1>4, <1>5, Zenon

-----------------------------------------------------------------------------
(* The table *)

ReadMethods == {"GET", "HEAD"}
MediaPatterns ==
    {<<"files", "app-default.jpg">>, <<"files", Param>>,
     <<"files", Param, Rest>>, <<"proxy", Rest>>}
GatedPatterns == {<<"notes", Param>>, <<"users", Param>>, <<AtParam>>}
PlainPatterns ==
    {<<".well-known", "nodeinfo">>, <<".well-known", "host-meta">>,
     <<".well-known", "host-meta.json">>,
     <<"nodeinfo", "2.0">>, <<"nodeinfo", "2.1">>,
     <<"notes", Param, "activity">>, <<"users", Param, "outbox">>,
     <<"users", Param, "followers">>, <<"users", Param, "following">>,
     <<"users", Param, "collections", "featured">>,
     <<"users", Param, "publickey">>, <<"emojis", Param>>,
     <<"likes", Param>>, <<"follows", Param>>,
     <<"follows", Param, Param>>}

HomeStack(handler) == <<"reject_feed_paths", handler>>
MediaStack == <<"reject_feed_paths", "redirect_media", "forward">>
GatedStack ==
    <<"reject_feed_paths", "redirect_navigation", "force_ap_accept", "forward">>
PlainStack == <<"reject_feed_paths", "redirect_navigation", "forward">>
IdenticonStack == <<"reject_feed_paths", "forward">>

HomeRows ==
    {Built(<<"">>, ReadMethods, HomeStack("index")),
     Built(<<"assets", "misskey.svg">>, ReadMethods, HomeStack("misskey_logo")),
     Built(<<"assets", "icon.webp">>, ReadMethods, HomeStack("instance_icon"))}
MediaRows == {Built(p, ReadMethods, MediaStack) : p \in MediaPatterns}
GatedRows == {Built(p, ReadMethods, GatedStack) : p \in GatedPatterns}
PlainRows ==
    {Built(p, ReadMethods, PlainStack) : p \in PlainPatterns}
    \cup {Built(<<".well-known", "webfinger">>, ReadMethods \cup {"OPTIONS"},
                PlainStack),
          Built(<<"inbox">>, {"POST"}, PlainStack),
          Built(<<"users", Param, "inbox">>, {"POST"}, PlainStack)}
IdenticonRows == {Built(<<"identicon", Param>>, ReadMethods, IdenticonStack)}

Finals(routes) == {Final(route) : route \in routes}

LEMMA HomeFinals == Finals(home.routes) = HomeRows
<1>1. home.routes =
        {On(ReadMethods, <<"">>, "index"),
         On(ReadMethods, <<"assets", "misskey.svg">>, "misskey_logo"),
         On(ReadMethods, <<"assets", "icon.webp">>, "instance_icon")}
  BY DEF home, NewRouter, get, ReadMethods
<1>2. \A p, h : Final(On(ReadMethods, p, h)) =
                  Built(p, ReadMethods, HomeStack(h))
  BY BuiltBare DEF HomeStack
<1> QED
  BY <1>1, <1>2 DEF Finals, HomeRows

LEMMA MediaFinals == Finals(media.routes) = MediaRows
<1> DEFINE raw(p) == Wrapped(On(ReadMethods, p, "forward"), "redirect_media")
<1>1. media.routes = {raw(p) : p \in MediaPatterns}
  BY DEF media, NewRouter, RouteLayer, get, ReadMethods, MediaPatterns
<1>2. \A p : Final(raw(p)) = Built(p, ReadMethods, MediaStack)
  BY BuiltOnce DEF MediaStack
<1> HIDE DEF raw
<1> QED
  BY <1>1, <1>2 DEF Finals, MediaRows

LEMMA GatedFinals ==
    Finals({Wrapped(route, "redirect_navigation") : route \in gated.routes})
      = GatedRows
<1> DEFINE raw(p) == Wrapped(On(ReadMethods, p, "forward"), "force_ap_accept")
           twice(p) == Wrapped(raw(p), "redirect_navigation")
<1>1. gated.routes = {raw(p) : p \in GatedPatterns}
  BY DEF gated, NewRouter, RouteLayer, get, ReadMethods, GatedPatterns
<1>2. \A p : Final(twice(p)) = Built(p, ReadMethods, GatedStack)
  BY BuiltTwice DEF GatedStack
<1>3. {Wrapped(route, "redirect_navigation") : route \in gated.routes}
        = {twice(p) : p \in GatedPatterns}
  <2> HIDE DEF raw
  <2> QED
    BY <1>1
<1> HIDE DEF twice
<1> QED
  BY <1>2, <1>3 DEF Finals, GatedRows

LEMMA PlainFinals ==
    Finals({Wrapped(route, "redirect_navigation") : route \in plain.routes})
      = PlainRows
<1> DEFINE raw(M, p) == Wrapped(On(M, p, "forward"), "redirect_navigation")
           odd == {On(ReadMethods \cup {"OPTIONS"},
                      <<".well-known", "webfinger">>, "forward"),
                   On({"POST"}, <<"inbox">>, "forward"),
                   On({"POST"}, <<"users", Param, "inbox">>, "forward")}
<1>0. ReadMethods \cup {"OPTIONS"} = {"GET", "HEAD", "OPTIONS"}
  BY DEF ReadMethods
<1>1. plain.routes =
        odd \cup {On(ReadMethods, p, "forward") : p \in PlainPatterns}
  BY <1>0 DEF plain, NewRouter, get, post, get_options, ReadMethods,
              PlainPatterns
<1>2. \A M, p : Final(raw(M, p)) = Built(p, M, PlainStack)
  BY BuiltOnce DEF PlainStack
<1>3. {Wrapped(route, "redirect_navigation") : route \in plain.routes}
        = {raw(ReadMethods \cup {"OPTIONS"}, <<".well-known", "webfinger">>),
           raw({"POST"}, <<"inbox">>),
           raw({"POST"}, <<"users", Param, "inbox">>)}
          \cup {raw(ReadMethods, p) : p \in PlainPatterns}
  BY <1>1
<1> HIDE DEF raw
<1> QED
  BY <1>2, <1>3 DEF Finals, PlainRows

LEMMA IdenticonFinals == Finals(identicon.routes) = IdenticonRows
<1>1. identicon.routes = {On(ReadMethods, <<"identicon", Param>>, "forward")}
  BY DEF identicon, NewRouter, get, ReadMethods
<1>2. \A p : Final(On(ReadMethods, p, "forward")) =
               Built(p, ReadMethods, IdenticonStack)
  BY BuiltBare DEF IdenticonStack
<1> QED
  BY <1>1, <1>2 DEF Finals, IdenticonRows

\* What src/routes.rs builds, row by row.
Table == HomeRows \cup MediaRows \cup GatedRows \cup PlainRows
           \cup IdenticonRows

LEMMA BuildIsTheTable == build.routes = Table
<1> DEFINE wrapped(r) == {Wrapped(route, "redirect_navigation") : route \in r.routes}
<1>1. build.routes = Finals(everything.routes)
  BY DEF build, Fallback, Layer, RouteLayer, MethodNotAllowedFallback, Finals,
         Final
<1>2. everything.routes = home.routes \cup ap.routes \cup identicon.routes
                            \cup media.routes
  BY DEF everything, Merge
<1>3. ap.routes = wrapped(plain) \cup wrapped(gated)
  BY DEF ap, RouteLayer, Merge
<1> HIDE DEF wrapped
<1>5. Finals(everything.routes) =
        Finals(home.routes) \cup Finals(wrapped(plain))
          \cup Finals(wrapped(gated)) \cup Finals(identicon.routes)
          \cup Finals(media.routes)
  BY <1>2, <1>3 DEF Finals
<1>6. /\ Finals(wrapped(plain)) = PlainRows
      /\ Finals(wrapped(gated)) = GatedRows
  BY PlainFinals, GatedFinals DEF wrapped
<1> QED
  BY <1>1, <1>5, <1>6, HomeFinals, MediaFinals, IdenticonFinals DEF Table

-----------------------------------------------------------------------------
(* What the patterns of the table match *)

\* The segments that the patterns of the table spell out.
Literals ==
    {"", "files", "proxy", "notes", "users", "emojis", "likes", "follows",
     "identicon", "activity", "outbox", "followers", "following", "publickey",
     "inbox", "collections", "featured", "assets", "misskey.svg", "icon.webp",
     ".well-known", "webfinger", "nodeinfo", "host-meta", "host-meta.json",
     "2.0", "2.1", "app-default.jpg"}

LEMMA NotSpecial ==
    /\ \A a \in Literals : a # Param /\ a # AtParam /\ a # Rest
    /\ Param # AtParam /\ Param # Rest /\ AtParam # Rest
<1>1. \A a \in Literals : a # "{}" /\ a # "@{}" /\ a # "{*}"
  BY DEF Literals
<1> QED
  BY <1>1 DEF Param, AtParam, Rest

LEMMA Small ==
    ASSUME NEW n \in Nat
    PROVE  /\ n = 2 => ~(2 < n)
           /\ n = 3 => 2 < n /\ ~(3 < n)
           /\ n = 4 => 2 < n
           /\ n >= 3 => 2 < n
  OBVIOUS

LEMMA PlainMatches ==
    ASSUME NEW path, NEW p, NEW n \in Nat, Len(p) = n, p[n] # Rest
    PROVE  Matches(p, path) <=>
             Len(path) = n /\ \A i \in 1 .. n : SegmentMatches(p, path, i)
  BY DEF Matches

LEMMA RestMatches ==
    ASSUME NEW path, NEW p, NEW n \in Nat, Len(p) = n, p[n] = Rest
    PROVE  Matches(p, path) <=>
             /\ Len(path) >= n
             /\ Len(path) > n \/ path[n] # ""
             /\ \A i \in 1 .. n - 1 : SegmentMatches(p, path, i)
  BY DEF Matches

LEMMA WiderSeq ==
    ASSUME NEW X, NEW Y, X \subseteq Y, NEW s \in Seq(X)
    PROVE  s \in Seq(Y)
  OBVIOUS

LEMMA LiteralMatch ==
    ASSUME NEW path \in Seq(STRING), NEW p \in Seq(Literals), Len(p) >= 1
    PROVE  Matches(p, path) <=> path = p
<1>1. /\ Len(p) \in Nat /\ Len(path) \in Nat
      /\ \A i \in 1 .. Len(p) : p[i] \in Literals
  OBVIOUS
<1>2. \A i \in 1 .. Len(p) : SegmentMatches(p, path, i) <=> path[i] = p[i]
  BY <1>1, NotSpecial DEF SegmentMatches
<1>3. p[Len(p)] # Rest
  <2>1. p[Len(p)] \in Literals
    BY <1>1
  <2> QED
    BY <2>1, NotSpecial
<1>4. Matches(p, path) <=>
        Len(path) = Len(p) /\ \A i \in 1 .. Len(p) : path[i] = p[i]
  BY <1>2, <1>3 DEF Matches
<1> DEFINE X == STRING \cup Literals
<1>5. p \in Seq(X) /\ path \in Seq(X)
  <2>1. Literals \subseteq X /\ STRING \subseteq X
    OBVIOUS
  <2> QED
    BY <2>1, WiderSeq
<1> HIDE DEF X
<1> QED
  BY <1>4, <1>5, SameElements

LEMMA AtMatch ==
    ASSUME NEW path \in Seq(STRING)
    PROVE  Matches(<<AtParam>>, path) <=>
             Len(path) = 1 /\ path[1] \in Accts
<1> DEFINE p == <<AtParam>>
<1>1. Len(p) = 1 /\ p[1] = AtParam
  OBVIOUS
<1>2. Len(path) \in Nat
  OBVIOUS
<1> HIDE DEF p
<1>a. p[1] # Rest
  BY <1>1, NotSpecial
<1>b. 1 .. 1 = {1}
  OBVIOUS
<1>3. Matches(p, path) <=>
        /\ Len(path) = 1
        /\ SegmentMatches(p, path, 1)
  BY <1>1, <1>a, <1>b, PlainMatches
<1>4. SegmentMatches(p, path, 1) <=> path[1] \in Accts
  BY <1>1, NotSpecial DEF SegmentMatches
<1>5. Matches(p, path) <=>
             Len(path) = 1 /\ path[1] \in Accts
  BY <1>2, <1>3, <1>4
<1> QED
  BY <1>5 DEF p

LEMMA ParamMatch ==
    ASSUME NEW path \in Seq(STRING), NEW a \in Literals
    PROVE  Matches(<<a, Param>>, path) <=>
             Len(path) = 2 /\ path[1] = a /\ path[2] # ""
<1> DEFINE p == <<a, Param>>
<1>1. Len(p) = 2 /\ p[1] = a /\ p[2] = Param
  OBVIOUS
<1>2. Len(path) \in Nat
  OBVIOUS
<1> HIDE DEF p
<1>a. p[2] # Rest
  BY <1>1, NotSpecial
<1>b. 1 .. 2 = {1, 2}
  OBVIOUS
<1>3. Matches(p, path) <=>
        /\ Len(path) = 2
        /\ SegmentMatches(p, path, 1)
        /\ SegmentMatches(p, path, 2)
  BY <1>1, <1>a, <1>b, PlainMatches
<1>4. SegmentMatches(p, path, 1) <=> path[1] = a
  BY <1>1, NotSpecial DEF SegmentMatches
<1>5. SegmentMatches(p, path, 2) <=> path[2] # "" \/ 2 < Len(path)
  BY <1>1, NotSpecial DEF SegmentMatches
<1>c. /\ Len(path) = 2 => ~(2 < Len(path))
  BY <1>2, Small
<1>6. Matches(p, path) <=>
             Len(path) = 2 /\ path[1] = a /\ path[2] # ""
  BY <1>2, <1>3, <1>4, <1>5, <1>c
<1> QED
  BY <1>6 DEF p

LEMMA RestMatch ==
    ASSUME NEW path \in Seq(STRING), NEW a \in Literals
    PROVE  Matches(<<a, Rest>>, path) <=>
             /\ Len(path) >= 2 /\ path[1] = a
             /\ Len(path) > 2 \/ path[2] # ""
<1> DEFINE p == <<a, Rest>>
<1>1. Len(p) = 2 /\ p[1] = a /\ p[2] = Rest
  OBVIOUS
<1>2. Len(path) \in Nat
  OBVIOUS
<1> HIDE DEF p
<1>a. p[2] = Rest
  BY <1>1, NotSpecial
<1>b. 1 .. 2 - 1 = {1}
  OBVIOUS
<1>3. Matches(p, path) <=>
        /\ Len(path) >= 2
        /\ Len(path) > 2 \/ path[2] # ""
        /\ SegmentMatches(p, path, 1)
  BY <1>1, <1>a, <1>b, RestMatches
<1>4. SegmentMatches(p, path, 1) <=> path[1] = a
  BY <1>1, NotSpecial DEF SegmentMatches
<1>5. Matches(p, path) <=>
             /\ Len(path) >= 2 /\ path[1] = a
             /\ Len(path) > 2 \/ path[2] # ""
  BY <1>2, <1>3, <1>4
<1> QED
  BY <1>5 DEF p

LEMMA MiddleMatch ==
    ASSUME NEW path \in Seq(STRING), NEW a \in Literals, NEW b \in Literals
    PROVE  Matches(<<a, Param, b>>, path) <=>
             Len(path) = 3 /\ path[1] = a /\ path[3] = b
<1> DEFINE p == <<a, Param, b>>
<1>1. Len(p) = 3 /\ p[1] = a /\ p[2] = Param /\ p[3] = b
  OBVIOUS
<1>2. Len(path) \in Nat
  OBVIOUS
<1> HIDE DEF p
<1>a. p[3] # Rest
  BY <1>1, NotSpecial
<1>b. 1 .. 3 = {1, 2, 3}
  OBVIOUS
<1>3. Matches(p, path) <=>
        /\ Len(path) = 3
        /\ SegmentMatches(p, path, 1)
        /\ SegmentMatches(p, path, 2)
        /\ SegmentMatches(p, path, 3)
  BY <1>1, <1>a, <1>b, PlainMatches
<1>4. SegmentMatches(p, path, 1) <=> path[1] = a
  BY <1>1, NotSpecial DEF SegmentMatches
<1>5. SegmentMatches(p, path, 2) <=> path[2] # "" \/ 2 < Len(path)
  BY <1>1, NotSpecial DEF SegmentMatches
<1>6. SegmentMatches(p, path, 3) <=> path[3] = b
  BY <1>1, NotSpecial DEF SegmentMatches
<1>c. /\ Len(path) = 3 => 2 < Len(path)
  BY <1>2, Small
<1>7. Matches(p, path) <=>
             Len(path) = 3 /\ path[1] = a /\ path[3] = b
  BY <1>2, <1>3, <1>4, <1>5, <1>6, <1>c
<1> QED
  BY <1>7 DEF p

LEMMA ParamsMatch ==
    ASSUME NEW path \in Seq(STRING), NEW a \in Literals
    PROVE  Matches(<<a, Param, Param>>, path) <=>
             Len(path) = 3 /\ path[1] = a /\ path[3] # ""
<1> DEFINE p == <<a, Param, Param>>
<1>1. Len(p) = 3 /\ p[1] = a /\ p[2] = Param /\ p[3] = Param
  OBVIOUS
<1>2. Len(path) \in Nat
  OBVIOUS
<1> HIDE DEF p
<1>a. p[3] # Rest
  BY <1>1, NotSpecial
<1>b. 1 .. 3 = {1, 2, 3}
  OBVIOUS
<1>3. Matches(p, path) <=>
        /\ Len(path) = 3
        /\ SegmentMatches(p, path, 1)
        /\ SegmentMatches(p, path, 2)
        /\ SegmentMatches(p, path, 3)
  BY <1>1, <1>a, <1>b, PlainMatches
<1>4. SegmentMatches(p, path, 1) <=> path[1] = a
  BY <1>1, NotSpecial DEF SegmentMatches
<1>5. SegmentMatches(p, path, 2) <=> path[2] # "" \/ 2 < Len(path)
  BY <1>1, NotSpecial DEF SegmentMatches
<1>6. SegmentMatches(p, path, 3) <=> path[3] # "" \/ 3 < Len(path)
  BY <1>1, NotSpecial DEF SegmentMatches
<1>c. /\ Len(path) = 3 => 2 < Len(path)
      /\ Len(path) = 3 => ~(3 < Len(path))
  BY <1>2, Small
<1>7. Matches(p, path) <=>
             Len(path) = 3 /\ path[1] = a /\ path[3] # ""
  BY <1>2, <1>3, <1>4, <1>5, <1>6, <1>c
<1> QED
  BY <1>7 DEF p

LEMMA ParamRestMatch ==
    ASSUME NEW path \in Seq(STRING), NEW a \in Literals
    PROVE  Matches(<<a, Param, Rest>>, path) <=>
             /\ Len(path) >= 3 /\ path[1] = a
             /\ Len(path) > 3 \/ path[3] # ""
<1> DEFINE p == <<a, Param, Rest>>
<1>1. Len(p) = 3 /\ p[1] = a /\ p[2] = Param /\ p[3] = Rest
  OBVIOUS
<1>2. Len(path) \in Nat
  OBVIOUS
<1> HIDE DEF p
<1>a. p[3] = Rest
  BY <1>1, NotSpecial
<1>b. 1 .. 3 - 1 = {1, 2}
  OBVIOUS
<1>3. Matches(p, path) <=>
        /\ Len(path) >= 3
        /\ Len(path) > 3 \/ path[3] # ""
        /\ SegmentMatches(p, path, 1)
        /\ SegmentMatches(p, path, 2)
  BY <1>1, <1>a, <1>b, RestMatches
<1>4. SegmentMatches(p, path, 1) <=> path[1] = a
  BY <1>1, NotSpecial DEF SegmentMatches
<1>5. SegmentMatches(p, path, 2) <=> path[2] # "" \/ 2 < Len(path)
  BY <1>1, NotSpecial DEF SegmentMatches
<1>c. /\ Len(path) >= 3 => 2 < Len(path)
  BY <1>2, Small
<1>6. Matches(p, path) <=>
             /\ Len(path) >= 3 /\ path[1] = a
             /\ Len(path) > 3 \/ path[3] # ""
  BY <1>2, <1>3, <1>4, <1>5, <1>c
<1> QED
  BY <1>6 DEF p

LEMMA LongMatch ==
    ASSUME NEW path \in Seq(STRING), NEW a \in Literals, NEW b \in Literals, NEW c \in Literals
    PROVE  Matches(<<a, Param, b, c>>, path) <=>
             /\ Len(path) = 4 /\ path[1] = a
             /\ path[3] = b /\ path[4] = c
<1> DEFINE p == <<a, Param, b, c>>
<1>1. Len(p) = 4 /\ p[1] = a /\ p[2] = Param /\ p[3] = b /\ p[4] = c
  OBVIOUS
<1>2. Len(path) \in Nat
  OBVIOUS
<1> HIDE DEF p
<1>a. p[4] # Rest
  BY <1>1, NotSpecial
<1>b. 1 .. 4 = {1, 2, 3, 4}
  OBVIOUS
<1>3. Matches(p, path) <=>
        /\ Len(path) = 4
        /\ SegmentMatches(p, path, 1)
        /\ SegmentMatches(p, path, 2)
        /\ SegmentMatches(p, path, 3)
        /\ SegmentMatches(p, path, 4)
  BY <1>1, <1>a, <1>b, PlainMatches
<1>4. SegmentMatches(p, path, 1) <=> path[1] = a
  BY <1>1, NotSpecial DEF SegmentMatches
<1>5. SegmentMatches(p, path, 2) <=> path[2] # "" \/ 2 < Len(path)
  BY <1>1, NotSpecial DEF SegmentMatches
<1>6. SegmentMatches(p, path, 3) <=> path[3] = b
  BY <1>1, NotSpecial DEF SegmentMatches
<1>7. SegmentMatches(p, path, 4) <=> path[4] = c
  BY <1>1, NotSpecial DEF SegmentMatches
<1>c. /\ Len(path) = 4 => 2 < Len(path)
  BY <1>2, Small
<1>8. Matches(p, path) <=>
             /\ Len(path) = 4 /\ path[1] = a
             /\ path[3] = b /\ path[4] = c
  BY <1>2, <1>3, <1>4, <1>5, <1>6, <1>7, <1>c
<1> QED
  BY <1>8 DEF p

-----------------------------------------------------------------------------
(* What the header filters of Headers.tla do, for every header block and   *)
(* every set of legal field names.                                         *)

Forbidden == HOP_BY_HOP \cup FORWARDING \cup ROUTING_OVERRIDES

\* After strip_hop_by_hop no Connection is left, so nothing is nominated.
LEMMA NothingLeftToNominate ==
    ASSUME NEW h, "connection" \notin DOMAIN h
    PROVE  Nominated(h) = {}
  BY DEF Nominated

\* sanitize_request takes the forbidden and the nominated fields, nothing
\* else, and changes no value.
LEMMA SanitizeRemoves ==
    ASSUME NEW h
    PROVE  /\ DOMAIN sanitize_request(h)
                = DOMAIN h \ (Forbidden \cup Nominated(h))
           /\ \A n \in DOMAIN sanitize_request(h) :
                  sanitize_request(h)[n] = h[n]
<1> DEFINE s == strip_hop_by_hop(h)
<1>1. /\ DOMAIN s = DOMAIN h \ (HOP_BY_HOP \cup Nominated(h))
      /\ \A n \in DOMAIN s : s[n] = h[n]
  BY DEF strip_hop_by_hop, Without, Restrict
<1>2. /\ DOMAIN sanitize_request(h)
           = DOMAIN s \ (FORWARDING \cup ROUTING_OVERRIDES)
      /\ \A n \in DOMAIN sanitize_request(h) : sanitize_request(h)[n] = s[n]
  <2>1. sanitize_request(h) = Without(s, FORWARDING \cup ROUTING_OVERRIDES)
    BY DEF sanitize_request
  <2> HIDE DEF s
  <2> QED
    BY <2>1 DEF Without, Restrict
<1> HIDE DEF s
<1> QED
  BY <1>1, <1>2 DEF Forbidden

LEMMA ConnectionIsGone ==
    ASSUME NEW h
    PROVE  "connection" \notin DOMAIN sanitize_request(h)
  BY SanitizeRemoves DEF Forbidden, HOP_BY_HOP

-----------------------------------------------------------------------------

\* A second pass (forward's, after the gate's) removes nothing more: the
\* header block Misskey sees does not depend on how often it was sanitized.
THEOREM SanitizeIdempotent ==
    ASSUME NEW h
    PROVE  sanitize_request(sanitize_request(h)) = sanitize_request(h)
<1> DEFINE s == sanitize_request(h)
           t == sanitize_request(s)
<1>1. Nominated(s) = {}
  BY ConnectionIsGone, NothingLeftToNominate
<1>2. DOMAIN s = DOMAIN h \ (Forbidden \cup Nominated(h))
  BY SanitizeRemoves
<1>3. /\ DOMAIN t = DOMAIN s \ (Forbidden \cup Nominated(s))
      /\ \A n \in DOMAIN t : t[n] = s[n]
  <2> HIDE DEF s
  <2> QED BY SanitizeRemoves
<1>4. DOMAIN t = DOMAIN s
  BY <1>1, <1>2, <1>3
<1>5. s = [n \in DOMAIN s |-> s[n]] /\ t = [n \in DOMAIN t |-> t[n]]
  BY DEF sanitize_request, Without, Restrict
<1> HIDE DEF s, t
<1>6. t = s
  BY <1>3, <1>4, <1>5
<1> QED
  BY <1>6 DEF s, t

\* The Accept that the gate sets is what forward sends to Misskey, whatever
\* the caller's Connection headers nominate, and beside it Misskey sees the
\* caller's fields less the forbidden and the nominated ones.
THEOREM GateSurvivesForward ==
    ASSUME NEW h
    PROVE  LET sent == sanitize_request(force_ap_accept(h)) IN
           /\ DOMAIN sent = (DOMAIN h \ (Forbidden \cup Nominated(h)))
                              \cup {"accept"}
           /\ sent["accept"] = <<AP_JSON>>
           /\ \A n \in DOMAIN sent \ {"accept"} : sent[n] = h[n]
<1> DEFINE s == sanitize_request(h)
           g == force_ap_accept(h)
           sent == sanitize_request(g)
<1>1. /\ DOMAIN s = DOMAIN h \ (Forbidden \cup Nominated(h))
      /\ \A n \in DOMAIN s : s[n] = h[n]
      /\ "connection" \notin DOMAIN s
  BY SanitizeRemoves, ConnectionIsGone
<1>2. g = Inserted(s, "accept", AP_JSON)
  BY DEF force_ap_accept
<1> HIDE DEF s
<1>3. /\ DOMAIN g = DOMAIN s \cup {"accept"}
      /\ g["accept"] = <<AP_JSON>>
      /\ \A n \in DOMAIN s \ {"accept"} : g[n] = s[n]
  <2> HIDE DEF g
  <2> QED BY <1>2 DEF Inserted
<1> HIDE DEF g
<1>4. Nominated(g) = {}
  BY <1>1, <1>3, NothingLeftToNominate
<1>5. "accept" \notin Forbidden
  BY DEF Forbidden, HOP_BY_HOP, FORWARDING, ROUTING_OVERRIDES
<1>6. /\ DOMAIN sent = DOMAIN g \ (Forbidden \cup Nominated(g))
      /\ \A n \in DOMAIN sent : sent[n] = g[n]
  BY SanitizeRemoves
<1> HIDE DEF sent
<1>7. /\ DOMAIN sent = DOMAIN s \cup {"accept"}
      /\ sent["accept"] = <<AP_JSON>>
      /\ \A n \in DOMAIN sent \ {"accept"} : sent[n] = h[n]
  BY <1>1, <1>3, <1>4, <1>5, <1>6
<1> QED
  BY <1>1, <1>7 DEF sent, g

\* forward's test for a page is not blinded by the filter that runs before
\* it, as long as Misskey does not nominate its own Content-Type.
THEOREM PageIsSeenAfterSanitizing ==
    ASSUME NEW h, "content-type" \notin Nominated(h)
    PROVE  is_html(sanitize_response(h)) <=> is_html(h)
<1> DEFINE s == sanitize_response(h)
<1>1. /\ DOMAIN s = DOMAIN h \ (HOP_BY_HOP \cup Nominated(h))
      /\ \A n \in DOMAIN s : s[n] = h[n]
  BY DEF sanitize_response, strip_hop_by_hop, Without, Restrict
<1>2. "content-type" \notin HOP_BY_HOP
  BY DEF HOP_BY_HOP
<1> HIDE DEF s
<1>3. /\ "content-type" \in DOMAIN s <=> "content-type" \in DOMAIN h
      /\ "content-type" \in DOMAIN s => s["content-type"] = h["content-type"]
  BY <1>1, <1>2
<1>4. is_html(s) <=> is_html(h)
  BY <1>3 DEF is_html, HasText
<1> QED
  BY <1>4 DEF s

-----------------------------------------------------------------------------
(* The router is the documented table *)

\* The text of a path, segment by segment.
LEMMA OneSegment ==
    ASSUME NEW X, NEW path \in Seq(X), NEW a
    PROVE  path = <<a>> <=> Len(path) = 1 /\ path[1] = a
<1> DEFINE p == <<a>>
<1>1. p \in Seq(X \cup {a}) /\ path \in Seq(X \cup {a})
  OBVIOUS
<1>2. Len(p) = 1 /\ p[1] = a
  OBVIOUS
<1> HIDE DEF p
<1>3. ASSUME Len(path) = 1, path[1] = a PROVE path = p
  <2>1. Len(path) = Len(p) /\ \A i \in 1 .. Len(path) : path[i] = p[i]
    BY <1>2, <1>3
  <2> QED
    BY <1>1, <2>1, SameElements
<1>4. path = p <=> Len(path) = 1 /\ path[1] = a
  BY <1>2, <1>3
<1> QED
  BY <1>4 DEF p

LEMMA TwoSegments ==
    ASSUME NEW X, NEW path \in Seq(X), NEW a, NEW b
    PROVE  path = <<a, b>> <=> Len(path) = 2 /\ path[1] = a /\ path[2] = b
<1> DEFINE p == <<a, b>>
<1>1. p \in Seq(X \cup {a, b}) /\ path \in Seq(X \cup {a, b})
  OBVIOUS
<1>2. Len(p) = 2 /\ p[1] = a /\ p[2] = b
  OBVIOUS
<1> HIDE DEF p
<1>3. ASSUME Len(path) = 2, path[1] = a, path[2] = b PROVE path = p
  <2>1. Len(path) = Len(p) /\ \A i \in 1 .. Len(path) : path[i] = p[i]
    <3>1. 1 .. 2 = {1, 2}
      OBVIOUS
    <3> QED
      BY <1>2, <1>3, <3>1
  <2> QED
    BY <1>1, <2>1, SameElements
<1>4. path = p <=> Len(path) = 2 /\ path[1] = a /\ path[2] = b
  BY <1>2, <1>3
<1> QED
  BY <1>4 DEF p

\* Each predicate of the documented surface, in terms of the length and the
\* segments.
Shaped(path, n) ==
    /\ path = <<".well-known", "webfinger">> <=>
          n = 2 /\ path[1] = ".well-known" /\ path[2] = "webfinger"
    /\ HomePath(path) <=>
          \/ n = 1 /\ path[1] = ""
          \/ n = 2 /\ path[1] = "assets"
                   /\ path[2] \in {"misskey.svg", "icon.webp"}
    /\ DiscoveryPath(path) <=>
          \/ n = 2 /\ path[1] = ".well-known"
                   /\ path[2] \in {"nodeinfo", "host-meta", "host-meta.json"}
          \/ n = 2 /\ path[1] = "nodeinfo" /\ path[2] \in {"2.0", "2.1"}
    /\ InboxPath(path) <=>
          \/ n = 1 /\ path[1] = "inbox"
          \/ n = 3 /\ path[1] = "users" /\ path[3] = "inbox"
    /\ GatedPath(path) <=>
          \/ n = 2 /\ path[1] \in {"notes", "users"} /\ path[2] # ""
          \/ n = 1 /\ path[1] \in Accts \ FeedAccts
    /\ MediaPath(path) <=>
          \/ path[1] = "proxy" /\ n >= 2 /\ (path[2] # "" \/ n > 2)
          \/ path[1] = "files" /\ n = 2 /\ path[2] # ""
          \/ path[1] = "files" /\ n >= 3 /\ (path[3] # "" \/ n > 3)
    /\ ObjectPath(path) <=>
          \/ n = 2 /\ path[1] \in {"emojis", "likes", "follows"}
                   /\ path[2] # ""
          \/ n = 3 /\ path[1] = "follows" /\ path[3] # ""
          \/ n = 3 /\ path[1] = "notes" /\ path[3] = "activity"
          \/ n = 3 /\ path[1] = "users"
                   /\ path[3] \in {"outbox", "followers", "following", "publickey"}
          \/ n = 4 /\ path[1] = "users" /\ path[3] = "collections"
                   /\ path[4] = "featured"
    /\ Len(path) = 2 /\ path[1] = "identicon" /\ Name(path, 2) <=>
          n = 2 /\ path[1] = "identicon" /\ path[2] # ""

LengthFacts(n) ==
    /\ n = 1 => n # 2 /\ n # 3 /\ n # 4 /\ ~(n >= 2) /\ ~(n >= 3)
    /\ n = 2 => n >= 2 /\ ~(n > 2) /\ n # 1 /\ n # 3 /\ n # 4 /\ ~(n >= 3)
    /\ n = 3 => n >= 2 /\ n > 2 /\ n >= 3 /\ ~(n > 3)
                  /\ n # 1 /\ n # 2 /\ n # 4
    /\ n = 4 => n >= 2 /\ n > 2 /\ n >= 3 /\ n > 3
                  /\ n # 1 /\ n # 2 /\ n # 3
    /\ n > 2 <=> n >= 3
    /\ n >= 2 <=> n = 2 \/ n >= 3
    /\ n >= 2 => n # 1
    /\ n >= 3 => n # 1 /\ n # 2

LEMMA Lengths ==
    ASSUME NEW n \in Nat
    PROVE  LengthFacts(n)
  BY DEF LengthFacts

LEMMA Surface ==
    ASSUME NEW path \in Seq(STRING), NEW n \in Nat, n = Len(path)
    PROVE  Shaped(path, n)
<1>1. path = <<".well-known", "webfinger">> <=>
          n = 2 /\ path[1] = ".well-known" /\ path[2] = "webfinger"
  BY TwoSegments
<1>2. HomePath(path) <=>
          \/ n = 1 /\ path[1] = ""
          \/ n = 2 /\ path[1] = "assets"
                   /\ path[2] \in {"misskey.svg", "icon.webp"}
  <2>a. path = <<"">> <=> Len(path) = 1 /\ path[1] = ""
    BY OneSegment
  <2>1. path = <<"">> <=> n = 1 /\ path[1] = ""
    BY <2>a
  <2>2. path = <<"assets", "misskey.svg">> <=>
          n = 2 /\ path[1] = "assets" /\ path[2] = "misskey.svg"
    BY TwoSegments
  <2>3. path = <<"assets", "icon.webp">> <=>
          n = 2 /\ path[1] = "assets" /\ path[2] = "icon.webp"
    BY TwoSegments
  <2> QED
    BY <2>1, <2>2, <2>3 DEF HomePath
<1>3. DiscoveryPath(path) <=>
          \/ n = 2 /\ path[1] = ".well-known"
                   /\ path[2] \in {"nodeinfo", "host-meta", "host-meta.json"}
          \/ n = 2 /\ path[1] = "nodeinfo" /\ path[2] \in {"2.0", "2.1"}
  BY TwoSegments DEF DiscoveryPath
<1>4. InboxPath(path) <=>
          \/ n = 1 /\ path[1] = "inbox"
          \/ n = 3 /\ path[1] = "users" /\ path[3] = "inbox"
  BY OneSegment DEF InboxPath
<1>b. LengthFacts(n)
  BY Lengths
<1>5. /\ Name(path, 2) <=> n >= 2 /\ (path[2] # "" \/ n > 2)
      /\ Name(path, 3) <=> n >= 3 /\ (path[3] # "" \/ n > 3)
  BY DEF Name
<1>a. Len(path) = n
  OBVIOUS
<1>6. GatedPath(path) <=>
          \/ n = 2 /\ path[1] \in {"notes", "users"} /\ path[2] # ""
          \/ n = 1 /\ path[1] \in Accts \ FeedAccts
  BY <1>5, <1>a, <1>b DEF LengthFacts, GatedPath
<1>7. MediaPath(path) <=>
          \/ path[1] = "proxy" /\ n >= 2 /\ (path[2] # "" \/ n > 2)
          \/ path[1] = "files" /\ n = 2 /\ path[2] # ""
          \/ path[1] = "files" /\ n >= 3 /\ (path[3] # "" \/ n > 3)
  BY <1>5, <1>a, <1>b DEF LengthFacts, MediaPath
<1>8. ObjectPath(path) <=>
          \/ n = 2 /\ path[1] \in {"emojis", "likes", "follows"}
                   /\ path[2] # ""
          \/ n = 3 /\ path[1] = "follows" /\ path[3] # ""
          \/ n = 3 /\ path[1] = "notes" /\ path[3] = "activity"
          \/ n = 3 /\ path[1] = "users"
                   /\ path[3] \in {"outbox", "followers", "following", "publickey"}
          \/ n = 4 /\ path[1] = "users" /\ path[3] = "collections"
                   /\ path[4] = "featured"
  BY <1>5, <1>a, <1>b DEF LengthFacts, ObjectPath
<1>9. Len(path) = 2 /\ path[1] = "identicon" /\ Name(path, 2) <=>
          n = 2 /\ path[1] = "identicon" /\ path[2] # ""
  BY <1>5, <1>a, <1>b DEF LengthFacts
<1> QED
  BY <1>1, <1>2, <1>3, <1>4, <1>6, <1>7, <1>8, <1>9 DEF Shaped

\* The rows of the documented table exclude one another.
ReadPath(path) ==
    \/ HomePath(path) \/ GatedPath(path) \/ MediaPath(path)
    \/ DiscoveryPath(path) \/ ObjectPath(path)
    \/ Len(path) = 2 /\ path[1] = "identicon" /\ Name(path, 2)

LEMMA Apart ==
    ASSUME NEW path \in Seq(STRING)
    PROVE  /\ path = <<".well-known", "webfinger">> =>
                 ~InboxPath(path) /\ ~ReadPath(path)
           /\ InboxPath(path) => ~ReadPath(path)
<1>1. PICK n \in Nat : n = Len(path)
  OBVIOUS
<1>2. Shaped(path, n)
  BY <1>1, Surface
<1>3. "inbox" \notin Accts
  BY AcctSegmentsAssumption
<1>a. LengthFacts(n)
  BY Lengths
<1> DEFINE Excluded ==
        /\ ~(n = 2 /\ path[1] = ".well-known" /\ path[2] = "webfinger")
        /\ ~(n = 1 /\ path[1] = "inbox")
        /\ ~(n = 3 /\ path[1] = "users" /\ path[3] = "inbox")
<1>4. ReadPath(path) => Excluded
  <2>1. HomePath(path) => Excluded
    BY <1>2, <1>a DEF Shaped, LengthFacts
  <2>2. GatedPath(path) => Excluded
    BY <1>2, <1>3, <1>a DEF Shaped, LengthFacts
  <2>3. MediaPath(path) => Excluded
    BY <1>2, <1>a DEF Shaped, LengthFacts
  <2>4. DiscoveryPath(path) => Excluded
    BY <1>2, <1>a DEF Shaped, LengthFacts
  <2>5. ObjectPath(path) => Excluded
    BY <1>2, <1>a DEF Shaped, LengthFacts
  <2>6. Len(path) = 2 /\ path[1] = "identicon" /\ Name(path, 2) => Excluded
    BY <1>2, <1>a DEF Shaped, LengthFacts
  <2> QED
    BY <2>1, <2>2, <2>3, <2>4, <2>5, <2>6 DEF ReadPath
<1> QED
  BY <1>2, <1>4 DEF Shaped

LEMMA Allowed ==
    ASSUME NEW path \in Seq(STRING)
    PROVE  /\ path = <<".well-known", "webfinger">> =>
                 AllowedMethods(path) = Reads \cup {"OPTIONS"}
           /\ InboxPath(path) => AllowedMethods(path) = {"POST"}
           /\ ReadPath(path) => AllowedMethods(path) = Reads
           /\ AllowedMethods(path) # {} =>
                 \/ path = <<".well-known", "webfinger">>
                 \/ InboxPath(path) \/ ReadPath(path)
  BY Apart DEF AllowedMethods, ReadPath

IdenticonPath(path) == Len(path) = 2 /\ path[1] = "identicon" /\ Name(path, 2)
PlainPath(path) ==
    \/ path = <<".well-known", "webfinger">>
    \/ DiscoveryPath(path) \/ ObjectPath(path) \/ InboxPath(path)

LEMMA Kinds ==
    ASSUME NEW path \in Seq(STRING)
    PROVE  /\ MediaPath(path) => ~HomePath(path)
           /\ GatedPath(path) => ~HomePath(path) /\ ~MediaPath(path)
           /\ IdenticonPath(path) =>
                 ~HomePath(path) /\ ~MediaPath(path) /\ ~GatedPath(path)
           /\ PlainPath(path) =>
                 /\ ~HomePath(path) /\ ~MediaPath(path) /\ ~GatedPath(path)
                 /\ path[1] # "identicon"
<1>1. PICK n \in Nat : n = Len(path)
  OBVIOUS
<1>2. Shaped(path, n)
  BY <1>1, Surface
<1>3. "inbox" \notin Accts /\ "" \notin Accts
  BY AcctSegmentsAssumption
<1>a. LengthFacts(n)
  BY Lengths
<1>4. MediaPath(path) => ~HomePath(path)
  BY <1>2, <1>a DEF Shaped, LengthFacts
<1>5. GatedPath(path) => ~HomePath(path) /\ ~MediaPath(path)
  BY <1>2, <1>3, <1>a DEF Shaped, LengthFacts
<1>6. IdenticonPath(path) =>
         ~HomePath(path) /\ ~MediaPath(path) /\ ~GatedPath(path)
  BY <1>2, <1>a DEF Shaped, LengthFacts, IdenticonPath
<1> DEFINE Plainly == /\ ~HomePath(path) /\ ~MediaPath(path)
                      /\ ~GatedPath(path) /\ path[1] # "identicon"
<1>7. path = <<".well-known", "webfinger">> => Plainly
  BY <1>2, <1>a DEF Shaped, LengthFacts
<1>8. DiscoveryPath(path) => Plainly
  BY <1>2, <1>a DEF Shaped, LengthFacts
<1>9. ObjectPath(path) => Plainly
  BY <1>2, <1>a DEF Shaped, LengthFacts
<1>10. InboxPath(path) => Plainly
  BY <1>2, <1>3, <1>a DEF Shaped, LengthFacts
<1> QED
  BY <1>4, <1>5, <1>6, <1>7, <1>8, <1>9, <1>10 DEF PlainPath

\* The stack and the pattern that the table has for a path.
StackOf(path) ==
    IF path = <<"">> THEN HomeStack("index")
    ELSE IF path = <<"assets", "misskey.svg">> THEN HomeStack("misskey_logo")
    ELSE IF path = <<"assets", "icon.webp">> THEN HomeStack("instance_icon")
    ELSE IF MediaPath(path) THEN MediaStack
    ELSE IF GatedPath(path) THEN GatedStack
    ELSE IF path[1] = "identicon" THEN IdenticonStack
    ELSE PlainStack

PatternOf(path) ==
    IF Len(path) = 1
    THEN IF path[1] \in Accts THEN <<AtParam>> ELSE path
    ELSE IF path[1] = "proxy" THEN <<"proxy", Rest>>
    ELSE IF Len(path) = 2
    THEN IF \/ path[1] \in {"notes", "users", "emojis", "likes", "follows",
                            "identicon"}
            \/ path[1] = "files" /\ path[2] # "app-default.jpg"
         THEN <<path[1], Param>> ELSE path
    ELSE IF path[1] = "files" THEN <<"files", Param, Rest>>
    ELSE IF path[1] = "follows" THEN <<"follows", Param, Param>>
    ELSE IF Len(path) = 3 THEN <<path[1], Param, path[3]>>
    ELSE <<path[1], Param, path[3], path[4]>>

LEMMA StackIs ==
    ASSUME NEW path \in Seq(STRING)
    PROVE  /\ HomePath(path) =>
                 \E h \in DOMAIN Served : StackOf(path) = HomeStack(h)
           /\ MediaPath(path) => StackOf(path) = MediaStack
           /\ GatedPath(path) => StackOf(path) = GatedStack
           /\ IdenticonPath(path) => StackOf(path) = IdenticonStack
           /\ PlainPath(path) => StackOf(path) = PlainStack
<1>1. DOMAIN Served = {"index", "misskey_logo", "instance_icon"}
  BY DEF Served
<1>2. HomePath(path) =>
        StackOf(path) \in {HomeStack("index"), HomeStack("misskey_logo"),
                           HomeStack("instance_icon")}
  BY DEF StackOf, HomePath
<1>3. ~HomePath(path) => StackOf(path) =
        IF MediaPath(path) THEN MediaStack
        ELSE IF GatedPath(path) THEN GatedStack
        ELSE IF path[1] = "identicon" THEN IdenticonStack
        ELSE PlainStack
  BY DEF StackOf, HomePath
<1> QED
  BY <1>1, <1>2, <1>3, Kinds DEF IdenticonPath

-----------------------------------------------------------------------------
(* Which rows match which paths *)

LEMMA LiteralPair ==
    ASSUME NEW path \in Seq(STRING), NEW a \in Literals, NEW b \in Literals
    PROVE  Matches(<<a, b>>, path) <=> path = <<a, b>>
<1> DEFINE p == <<a, b>>
<1>1. p \in Seq(Literals) /\ Len(p) = 2
  OBVIOUS
<1> HIDE DEF p
<1>2. Len(p) >= 1
  BY <1>1
<1>3. Matches(p, path) <=> path = p
  BY <1>1, <1>2, LiteralMatch
<1> QED
  BY <1>3 DEF p

LEMMA LiteralOne ==
    ASSUME NEW path \in Seq(STRING), NEW a \in Literals
    PROVE  Matches(<<a>>, path) <=> path = <<a>>
<1> DEFINE p == <<a>>
<1>1. p \in Seq(Literals) /\ Len(p) = 1
  OBVIOUS
<1> HIDE DEF p
<1>2. Len(p) >= 1
  BY <1>1
<1>3. Matches(p, path) <=> path = p
  BY <1>1, <1>2, LiteralMatch
<1> QED
  BY <1>3 DEF p

Twin(path) == path = <<"files", "app-default.jpg">>

PatternFor(path, n) ==
    IF n = 1
    THEN IF path[1] \in Accts THEN <<AtParam>> ELSE path
    ELSE IF path[1] = "proxy" THEN <<"proxy", Rest>>
    ELSE IF n = 2
    THEN IF \/ path[1] \in {"notes", "users", "emojis", "likes", "follows",
                            "identicon"}
            \/ path[1] = "files" /\ path[2] # "app-default.jpg"
         THEN <<path[1], Param>> ELSE path
    ELSE IF path[1] = "files" THEN <<"files", Param, Rest>>
    ELSE IF path[1] = "follows" THEN <<"follows", Param, Param>>
    ELSE IF n = 3 THEN <<path[1], Param, path[3]>>
    ELSE <<path[1], Param, path[3], path[4]>>

LEMMA PatternByLength ==
    ASSUME NEW path, NEW n, n = Len(path)
    PROVE  PatternOf(path) = PatternFor(path, n)
  BY DEF PatternOf, PatternFor

LEMMA MediaHit ==
    ASSUME NEW path \in Seq(STRING)
    PROVE  /\ MediaPath(path) <=> \E p \in MediaPatterns : Matches(p, path)
           /\ \A p \in MediaPatterns : Matches(p, path) =>
                 \/ p = PatternOf(path)
                 \/ Twin(path) /\ p = <<"files", Param>>
           /\ Twin(path) => PatternOf(path) = path
<1>1. PICK n \in Nat : n = Len(path)
  OBVIOUS
<1>2. Shaped(path, n)
  BY <1>1, Surface
<1>3. LengthFacts(n)
  BY Lengths
<1>4. Matches(<<"files", "app-default.jpg">>, path) <=> Twin(path)
  <2>1. "files" \in Literals /\ "app-default.jpg" \in Literals
    BY DEF Literals
  <2> QED
    BY <2>1, LiteralPair DEF Twin
<1>5. Twin(path) <=> n = 2 /\ path[1] = "files" /\ path[2] = "app-default.jpg"
  <2>1. path = <<"files", "app-default.jpg">> <=>
          Len(path) = 2 /\ path[1] = "files" /\ path[2] = "app-default.jpg"
    BY TwoSegments
  <2> QED
    BY <1>1, <2>1 DEF Twin
<1>6. Matches(<<"files", Param>>, path) <=>
        n = 2 /\ path[1] = "files" /\ path[2] # ""
  BY <1>1, ParamMatch DEF Literals
<1>7. Matches(<<"files", Param, Rest>>, path) <=>
        /\ n >= 3 /\ path[1] = "files" /\ (n > 3 \/ path[3] # "")
  BY <1>1, ParamRestMatch DEF Literals
<1>8. Matches(<<"proxy", Rest>>, path) <=>
        /\ n >= 2 /\ path[1] = "proxy" /\ (n > 2 \/ path[2] # "")
  BY <1>1, RestMatch DEF Literals
<1>9. MediaPath(path) <=>
          \/ path[1] = "proxy" /\ n >= 2 /\ (path[2] # "" \/ n > 2)
          \/ path[1] = "files" /\ n = 2 /\ path[2] # ""
          \/ path[1] = "files" /\ n >= 3 /\ (path[3] # "" \/ n > 3)
  BY <1>2 DEF Shaped
<1>10. MediaPath(path) <=> \E p \in MediaPatterns : Matches(p, path)
  BY <1>3, <1>4, <1>5, <1>6, <1>7, <1>8, <1>9 DEF MediaPatterns, LengthFacts
<1>11. PatternOf(path) = PatternFor(path, n)
  BY <1>1, PatternByLength
<1>12. Twin(path) => PatternOf(path) = path
  BY <1>3, <1>5, <1>11 DEF LengthFacts, PatternFor
<1>13. n = 2 /\ path[1] = "files" /\ path[2] # "" =>
         PatternOf(path) = <<"files", Param>> \/ Twin(path)
  BY <1>3, <1>5, <1>11 DEF LengthFacts, PatternFor
<1>14. n >= 3 /\ path[1] = "files" => PatternOf(path) = <<"files", Param, Rest>>
  BY <1>3, <1>11 DEF LengthFacts, PatternFor
<1>15. n >= 2 /\ path[1] = "proxy" => PatternOf(path) = <<"proxy", Rest>>
  BY <1>3, <1>11 DEF LengthFacts, PatternFor
<1> QED
  BY <1>4, <1>6, <1>7, <1>8, <1>10, <1>12, <1>13, <1>14, <1>15
     DEF MediaPatterns, Twin

LEMMA GatedHit ==
    ASSUME NEW path \in Seq(STRING), ~is_feed_path(path)
    PROVE  /\ GatedPath(path) <=> \E p \in GatedPatterns : Matches(p, path)
           /\ \A p \in GatedPatterns : Matches(p, path) => p = PatternOf(path)
<1>1. PICK n \in Nat : n = Len(path)
  OBVIOUS
<1>2. Shaped(path, n)
  BY <1>1, Surface
<1>3. LengthFacts(n)
  BY Lengths
<1>4. \A a \in {"notes", "users"} :
         Matches(<<a, Param>>, path) <=> n = 2 /\ path[1] = a /\ path[2] # ""
  BY <1>1, ParamMatch DEF Literals
<1>5. Matches(<<AtParam>>, path) <=> n = 1 /\ path[1] \in Accts
  BY <1>1, AtMatch
<1>6. ~(n = 1 /\ path[1] \in FeedAccts)
  BY <1>1 DEF is_feed_path
<1>7. PatternOf(path) = PatternFor(path, n)
  BY <1>1, PatternByLength
<1>8. GatedPath(path) <=> \E p \in GatedPatterns : Matches(p, path)
  BY <1>2, <1>4, <1>5, <1>6 DEF Shaped, GatedPatterns
<1>9. \A a \in {"notes", "users"} :
         n = 2 /\ path[1] = a => PatternOf(path) = <<a, Param>>
  BY <1>3, <1>7 DEF LengthFacts, PatternFor
<1>10. n = 1 /\ path[1] \in Accts => PatternOf(path) = <<AtParam>>
  BY <1>7 DEF PatternFor
<1> QED
  BY <1>4, <1>5, <1>8, <1>9, <1>10 DEF GatedPatterns

LEMMA IdenticonHit ==
    ASSUME NEW path \in Seq(STRING)
    PROVE  /\ IdenticonPath(path) <=> Matches(<<"identicon", Param>>, path)
           /\ IdenticonPath(path) => PatternOf(path) = <<"identicon", Param>>
<1>1. PICK n \in Nat : n = Len(path)
  OBVIOUS
<1>2. Shaped(path, n)
  BY <1>1, Surface
<1>3. LengthFacts(n)
  BY Lengths
<1>4. Matches(<<"identicon", Param>>, path) <=>
        n = 2 /\ path[1] = "identicon" /\ path[2] # ""
  BY <1>1, ParamMatch DEF Literals
<1>5. PatternOf(path) = PatternFor(path, n)
  BY <1>1, PatternByLength
<1>6. n = 2 /\ path[1] = "identicon" =>
        PatternOf(path) = <<"identicon", Param>>
  BY <1>3, <1>5 DEF LengthFacts, PatternFor
<1>7. IdenticonPath(path) <=> n = 2 /\ path[1] = "identicon" /\ path[2] # ""
  BY <1>2 DEF Shaped, IdenticonPath
<1> QED
  BY <1>4, <1>6, <1>7

HomePatterns ==
    {<<"">>, <<"assets", "misskey.svg">>, <<"assets", "icon.webp">>}

LEMMA HomeHit ==
    ASSUME NEW path \in Seq(STRING)
    PROVE  /\ HomePath(path) <=> \E p \in HomePatterns : Matches(p, path)
           /\ \A p \in HomePatterns : Matches(p, path) => p = path
           /\ HomePath(path) => PatternOf(path) = path
<1>1. PICK n \in Nat : n = Len(path)
  OBVIOUS
<1>2. Shaped(path, n)
  BY <1>1, Surface
<1>3. LengthFacts(n)
  BY Lengths
<1>4. /\ Matches(<<"">>, path) <=> path = <<"">>
      /\ Matches(<<"assets", "misskey.svg">>, path) <=>
            path = <<"assets", "misskey.svg">>
      /\ Matches(<<"assets", "icon.webp">>, path) <=>
            path = <<"assets", "icon.webp">>
  <2>1. /\ "" \in Literals /\ "assets" \in Literals
        /\ "misskey.svg" \in Literals /\ "icon.webp" \in Literals
    BY DEF Literals
  <2>2. Matches(<<"">>, path) <=> path = <<"">>
    BY <2>1, LiteralOne
  <2>3. Matches(<<"assets", "misskey.svg">>, path) <=>
          path = <<"assets", "misskey.svg">>
    BY <2>1, LiteralPair
  <2>4. Matches(<<"assets", "icon.webp">>, path) <=>
          path = <<"assets", "icon.webp">>
    BY <2>1, LiteralPair
  <2> QED
    BY <2>2, <2>3, <2>4
<1>5. PatternOf(path) = PatternFor(path, n)
  BY <1>1, PatternByLength
<1>6. "" \notin Accts
  BY AcctSegmentsAssumption
<1>7. HomePath(path) => PatternOf(path) = path
  BY <1>2, <1>3, <1>5, <1>6 DEF Shaped, LengthFacts, PatternFor
<1>8. HomePath(path) <=> \E p \in HomePatterns : Matches(p, path)
  BY <1>4 DEF HomePath, HomePatterns
<1>9. \A p \in HomePatterns : Matches(p, path) => p = path
  <2> SUFFICES ASSUME NEW p \in HomePatterns, Matches(p, path) PROVE p = path
    OBVIOUS
  <2>1. CASE p = <<"">>
    BY <1>4, <2>1
  <2>2. CASE p = <<"assets", "misskey.svg">>
    BY <1>4, <2>2
  <2>3. CASE p = <<"assets", "icon.webp">>
    BY <1>4, <2>3
  <2> QED
    BY <2>1, <2>2, <2>3 DEF HomePatterns
<1> QED
  BY <1>7, <1>8, <1>9

LEMMA DiscoveryHit ==
    ASSUME NEW path \in Seq(STRING),
           NEW a \in {".well-known", "nodeinfo"},
           NEW b \in {"nodeinfo", "host-meta", "host-meta.json", "webfinger",
                      "2.0", "2.1"}
    PROVE  /\ Matches(<<a, b>>, path) <=> path = <<a, b>>
           /\ path = <<a, b>> => PatternOf(path) = <<a, b>>
<1>1. PICK n \in Nat : n = Len(path)
  OBVIOUS
<1>2. Matches(<<a, b>>, path) <=> path = <<a, b>>
  <2>1. a \in Literals /\ b \in Literals
    BY DEF Literals
  <2> QED
    BY <2>1, LiteralPair
<1>3. path = <<a, b>> <=> Len(path) = 2 /\ path[1] = a /\ path[2] = b
  BY TwoSegments
<1>4. PatternOf(path) = PatternFor(path, n)
  BY <1>1, PatternByLength
<1>5. n = 2 /\ path[1] = a => PatternOf(path) = path
  BY <1>4 DEF PatternFor
<1> QED
  BY <1>1, <1>2, <1>3, <1>5

LEMMA ObjectHit ==
    ASSUME NEW path \in Seq(STRING), NEW n \in Nat, n = Len(path)
    PROVE  /\ \A a \in {"emojis", "likes", "follows"} :
                 /\ Matches(<<a, Param>>, path) <=>
                       n = 2 /\ path[1] = a /\ path[2] # ""
                 /\ Matches(<<a, Param>>, path) => PatternOf(path) = <<a, Param>>
           /\ \A a \in {"notes", "users"}, b \in {"activity", "outbox",
                       "followers", "following", "publickey", "inbox"} :
                 /\ Matches(<<a, Param, b>>, path) <=>
                       n = 3 /\ path[1] = a /\ path[3] = b
                 /\ Matches(<<a, Param, b>>, path) =>
                       PatternOf(path) = <<a, Param, b>>
           /\ Matches(<<"follows", Param, Param>>, path) <=>
                 n = 3 /\ path[1] = "follows" /\ path[3] # ""
           /\ Matches(<<"follows", Param, Param>>, path) =>
                 PatternOf(path) = <<"follows", Param, Param>>
           /\ Matches(<<"users", Param, "collections", "featured">>, path) <=>
                 /\ n = 4 /\ path[1] = "users"
                 /\ path[3] = "collections" /\ path[4] = "featured"
           /\ Matches(<<"users", Param, "collections", "featured">>, path) =>
                 PatternOf(path) = <<"users", Param, "collections", "featured">>
<1>1. LengthFacts(n)
  BY Lengths
<1>2. PatternOf(path) = PatternFor(path, n)
  BY PatternByLength
<1>3. ASSUME NEW a \in {"emojis", "likes", "follows"}
      PROVE  /\ Matches(<<a, Param>>, path) <=>
                   n = 2 /\ path[1] = a /\ path[2] # ""
             /\ Matches(<<a, Param>>, path) => PatternOf(path) = <<a, Param>>
  <2>1. Matches(<<a, Param>>, path) <=> n = 2 /\ path[1] = a /\ path[2] # ""
    BY ParamMatch DEF Literals
  <2>2. n = 2 /\ path[1] = a => PatternOf(path) = <<a, Param>>
    BY <1>1, <1>2 DEF LengthFacts, PatternFor
  <2> QED
    BY <2>1, <2>2
<1>4. ASSUME NEW a \in {"notes", "users"}, NEW b \in {"activity", "outbox",
                       "followers", "following", "publickey", "inbox"}
      PROVE  /\ Matches(<<a, Param, b>>, path) <=>
                   n = 3 /\ path[1] = a /\ path[3] = b
             /\ Matches(<<a, Param, b>>, path) =>
                   PatternOf(path) = <<a, Param, b>>
  <2>0. a \in Literals /\ b \in Literals
    BY DEF Literals
  <2>1. Matches(<<a, Param, b>>, path) <=> n = 3 /\ path[1] = a /\ path[3] = b
    BY <2>0, MiddleMatch
  <2>2. n = 3 /\ path[1] = a /\ path[3] = b =>
          PatternOf(path) = <<a, Param, b>>
    BY <1>1, <1>2 DEF LengthFacts, PatternFor
  <2> QED
    BY <2>1, <2>2
<1>5. /\ Matches(<<"follows", Param, Param>>, path) <=>
            n = 3 /\ path[1] = "follows" /\ path[3] # ""
      /\ Matches(<<"follows", Param, Param>>, path) =>
            PatternOf(path) = <<"follows", Param, Param>>
  <2>1. Matches(<<"follows", Param, Param>>, path) <=>
          n = 3 /\ path[1] = "follows" /\ path[3] # ""
    BY ParamsMatch DEF Literals
  <2>2. n = 3 /\ path[1] = "follows" =>
          PatternOf(path) = <<"follows", Param, Param>>
    BY <1>1, <1>2 DEF LengthFacts, PatternFor
  <2> QED
    BY <2>1, <2>2
<1>6. /\ Matches(<<"users", Param, "collections", "featured">>, path) <=>
            /\ n = 4 /\ path[1] = "users"
            /\ path[3] = "collections" /\ path[4] = "featured"
      /\ Matches(<<"users", Param, "collections", "featured">>, path) =>
            PatternOf(path) = <<"users", Param, "collections", "featured">>
  <2>1. Matches(<<"users", Param, "collections", "featured">>, path) <=>
          /\ n = 4 /\ path[1] = "users"
          /\ path[3] = "collections" /\ path[4] = "featured"
    <3>1. /\ "users" \in Literals /\ "collections" \in Literals
          /\ "featured" \in Literals
      BY DEF Literals
    <3>2. Matches(<<"users", Param, "collections", "featured">>, path) <=>
            /\ Len(path) = 4 /\ path[1] = "users"
            /\ path[3] = "collections" /\ path[4] = "featured"
      BY <3>1, LongMatch
    <3> QED
      BY <1>1, <3>2
  <2>2. n = 4 /\ path[1] = "users" /\ path[3] = "collections"
              /\ path[4] = "featured" =>
          PatternOf(path) = <<"users", Param, "collections", "featured">>
    BY <1>1, <1>2 DEF LengthFacts, PatternFor
  <2> QED
    BY <2>1, <2>2
<1> QED
  BY <1>3, <1>4, <1>5, <1>6

LEMMA PlainHit ==
    ASSUME NEW path \in Seq(STRING)
    PROVE  /\ DiscoveryPath(path) \/ ObjectPath(path) <=>
                 \E p \in PlainPatterns : Matches(p, path)
           /\ \A p \in PlainPatterns : Matches(p, path) => p = PatternOf(path)
<1>1. PICK n \in Nat : n = Len(path)
  OBVIOUS
<1>2. Shaped(path, n)
  BY <1>1, Surface
<1> DEFINE
      Discovery == {<<".well-known", "nodeinfo">>, <<".well-known", "host-meta">>,
                    <<".well-known", "host-meta.json">>,
                    <<"nodeinfo", "2.0">>, <<"nodeinfo", "2.1">>}
      Objects == {<<"emojis", Param>>, <<"likes", Param>>, <<"follows", Param>>,
                  <<"notes", Param, "activity">>, <<"users", Param, "outbox">>,
                  <<"users", Param, "followers">>,
                  <<"users", Param, "following">>,
                  <<"users", Param, "publickey">>,
                  <<"follows", Param, Param>>,
                  <<"users", Param, "collections", "featured">>}
<1>3. PlainPatterns = Discovery \cup Objects
  BY DEF PlainPatterns
<1>4. \A p \in Discovery : /\ Matches(p, path) <=> path = p
                           /\ path = p => PatternOf(path) = p
  <2> DEFINE Only(p) == /\ Matches(p, path) <=> path = p
                        /\ path = p => PatternOf(path) = p
  <2>1. /\ Only(<<".well-known", "nodeinfo">>)
        /\ Only(<<".well-known", "host-meta">>)
        /\ Only(<<".well-known", "host-meta.json">>)
    BY DiscoveryHit
  <2>2. Only(<<"nodeinfo", "2.0">>) /\ Only(<<"nodeinfo", "2.1">>)
    BY DiscoveryHit
  <2> HIDE DEF Only
  <2>3. \A p \in Discovery : Only(p)
    BY <2>1, <2>2
  <2> QED
    BY <2>3 DEF Only
<1>5. DiscoveryPath(path) <=> \E p \in Discovery : Matches(p, path)
  <2>1. DiscoveryPath(path) <=> path \in Discovery
    BY DEF DiscoveryPath
  <2> HIDE DEF Discovery
  <2> QED
    BY <1>4, <2>1
<1> HIDE DEF Discovery
<1>6. /\ \A a \in {"emojis", "likes", "follows"} :
            /\ Matches(<<a, Param>>, path) <=>
                  n = 2 /\ path[1] = a /\ path[2] # ""
            /\ Matches(<<a, Param>>, path) => PatternOf(path) = <<a, Param>>
      /\ \A a \in {"notes", "users"}, b \in {"activity", "outbox",
                  "followers", "following", "publickey", "inbox"} :
            /\ Matches(<<a, Param, b>>, path) <=>
                  n = 3 /\ path[1] = a /\ path[3] = b
            /\ Matches(<<a, Param, b>>, path) =>
                  PatternOf(path) = <<a, Param, b>>
      /\ Matches(<<"follows", Param, Param>>, path) <=>
            n = 3 /\ path[1] = "follows" /\ path[3] # ""
      /\ Matches(<<"follows", Param, Param>>, path) =>
            PatternOf(path) = <<"follows", Param, Param>>
      /\ Matches(<<"users", Param, "collections", "featured">>, path) <=>
            /\ n = 4 /\ path[1] = "users"
            /\ path[3] = "collections" /\ path[4] = "featured"
      /\ Matches(<<"users", Param, "collections", "featured">>, path) =>
            PatternOf(path) = <<"users", Param, "collections", "featured">>
  BY <1>1, ObjectHit
<1>7. \A p \in Objects : Matches(p, path) => PatternOf(path) = p
  <2> DEFINE Only(p) == Matches(p, path) => PatternOf(path) = p
  <2>1. /\ Only(<<"emojis", Param>>) /\ Only(<<"likes", Param>>)
        /\ Only(<<"follows", Param>>)
    BY <1>6
  <2>2. /\ Only(<<"notes", Param, "activity">>)
        /\ Only(<<"users", Param, "outbox">>)
        /\ Only(<<"users", Param, "followers">>)
        /\ Only(<<"users", Param, "following">>)
        /\ Only(<<"users", Param, "publickey">>)
    BY <1>6
  <2>3. /\ Only(<<"follows", Param, Param>>)
        /\ Only(<<"users", Param, "collections", "featured">>)
    BY <1>6
  <2> HIDE DEF Only
  <2>4. \A p \in Objects : Only(p)
    BY <2>1, <2>2, <2>3
  <2> QED
    BY <2>4 DEF Only
<1>8. ObjectPath(path) => \E p \in Objects : Matches(p, path)
  BY <1>2, <1>6 DEF Shaped
<1>9. \A p \in Objects : Matches(p, path) => ObjectPath(path)
  BY <1>2, <1>6 DEF Shaped
<1> QED
  BY <1>3, <1>4, <1>5, <1>7, <1>8, <1>9

LEMMA OddHit ==
    ASSUME NEW path \in Seq(STRING)
    PROVE  /\ Matches(<<".well-known", "webfinger">>, path) <=>
                 path = <<".well-known", "webfinger">>
           /\ path = <<".well-known", "webfinger">> => PatternOf(path) = path
           /\ InboxPath(path) <=> \/ Matches(<<"inbox">>, path)
                                  \/ Matches(<<"users", Param, "inbox">>, path)
           /\ \A p \in {<<"inbox">>, <<"users", Param, "inbox">>} :
                 Matches(p, path) => PatternOf(path) = p
<1>1. PICK n \in Nat : n = Len(path)
  OBVIOUS
<1>2. Shaped(path, n)
  BY <1>1, Surface
<1>3. /\ Matches(<<".well-known", "webfinger">>, path) <=>
            path = <<".well-known", "webfinger">>
      /\ path = <<".well-known", "webfinger">> => PatternOf(path) = path
  BY DiscoveryHit
<1>4. Matches(<<"inbox">>, path) <=> path = <<"inbox">>
  BY LiteralOne DEF Literals
<1>5. path = <<"inbox">> <=> n = 1 /\ path[1] = "inbox"
  BY <1>1, OneSegment
<1>6. /\ Matches(<<"users", Param, "inbox">>, path) <=>
            n = 3 /\ path[1] = "users" /\ path[3] = "inbox"
      /\ Matches(<<"users", Param, "inbox">>, path) =>
            PatternOf(path) = <<"users", Param, "inbox">>
  BY <1>1, ObjectHit
<1>7. InboxPath(path) <=> \/ Matches(<<"inbox">>, path)
                          \/ Matches(<<"users", Param, "inbox">>, path)
  BY <1>2, <1>4, <1>5, <1>6 DEF Shaped
<1>8. path = <<"inbox">> => PatternOf(path) = path
  BY <1>1, <1>5, AcctSegmentsAssumption, PatternByLength DEF PatternFor
<1> QED
  BY <1>3, <1>4, <1>6, <1>7, <1>8

LEMMA HomeStackIs ==
    ASSUME NEW path \in Seq(STRING)
    PROVE  /\ path = <<"">> => StackOf(path) = HomeStack("index")
           /\ path = <<"assets", "misskey.svg">> =>
                 StackOf(path) = HomeStack("misskey_logo")
           /\ path = <<"assets", "icon.webp">> =>
                 StackOf(path) = HomeStack("instance_icon")
<1>1. path = <<"">> <=> Len(path) = 1 /\ path[1] = ""
  BY OneSegment
<1>2. path = <<"assets", "misskey.svg">> <=>
        Len(path) = 2 /\ path[1] = "assets" /\ path[2] = "misskey.svg"
  BY TwoSegments
<1>3. path = <<"assets", "icon.webp">> <=>
        Len(path) = 2 /\ path[1] = "assets" /\ path[2] = "icon.webp"
  BY TwoSegments
<1> QED
  BY <1>1, <1>2, <1>3 DEF StackOf

LEMMA BuiltPattern ==
    ASSUME NEW p, NEW M, NEW s
    PROVE  Built(p, M, s).pattern = p
  BY DEF Built, Row

\* A row that matches a path is one for the methods and with the stack that
\* the path has, and its pattern is the path's, but for the one path that two
\* rows match.
RowOf(path, p) == Built(p, AllowedMethods(path), StackOf(path))

LEMMA TableHit ==
    ASSUME NEW path \in Seq(STRING), ~is_feed_path(path),
           NEW row \in Table, Matches(row.pattern, path)
    PROVE  /\ AllowedMethods(path) # {}
           /\ \/ row = RowOf(path, PatternOf(path))
              \/ Twin(path) /\ row = RowOf(path, <<"files", Param>>)
<1>1. ReadMethods = Reads /\ Reads # {} /\ Reads \cup {"OPTIONS"} # {}
  BY DEF ReadMethods, Reads
<1>2. CASE row \in HomeRows
  <2>1. PICK p \in HomePatterns : \E s :
          /\ row = Built(p, ReadMethods, s)
          /\ path = p => s = StackOf(path)
    BY <1>2, HomeStackIs DEF HomeRows, HomePatterns
  <2>2. Matches(p, path)
    BY <2>1, BuiltPattern
  <2>3. p = path /\ HomePath(path) /\ PatternOf(path) = path
    BY <2>2, HomeHit
  <2>4. AllowedMethods(path) = Reads
    BY <2>3, Allowed DEF ReadPath
  <2> QED
    BY <1>1, <2>1, <2>3, <2>4 DEF RowOf
<1>3. CASE row \in MediaRows
  <2>1. PICK p \in MediaPatterns : row = Built(p, ReadMethods, MediaStack)
    BY <1>3 DEF MediaRows
  <2>2. Matches(p, path)
    BY <2>1, BuiltPattern
  <2>3. /\ MediaPath(path)
        /\ \/ p = PatternOf(path)
           \/ Twin(path) /\ p = <<"files", Param>>
    BY <2>2, MediaHit
  <2>4. AllowedMethods(path) = Reads /\ StackOf(path) = MediaStack
    BY <2>3, Allowed, StackIs DEF ReadPath
  <2> QED
    BY <1>1, <2>1, <2>3, <2>4 DEF RowOf
<1>4. CASE row \in GatedRows
  <2>1. PICK p \in GatedPatterns : row = Built(p, ReadMethods, GatedStack)
    BY <1>4 DEF GatedRows
  <2>2. Matches(p, path)
    BY <2>1, BuiltPattern
  <2>3. GatedPath(path) /\ p = PatternOf(path)
    BY <2>2, GatedHit
  <2>4. AllowedMethods(path) = Reads /\ StackOf(path) = GatedStack
    BY <2>3, Allowed, StackIs DEF ReadPath
  <2> QED
    BY <1>1, <2>1, <2>3, <2>4 DEF RowOf
<1>5. CASE row \in {Built(p, ReadMethods, PlainStack) : p \in PlainPatterns}
  <2>1. PICK p \in PlainPatterns : row = Built(p, ReadMethods, PlainStack)
    BY <1>5
  <2>2. Matches(p, path)
    BY <2>1, BuiltPattern
  <2>3. (DiscoveryPath(path) \/ ObjectPath(path)) /\ p = PatternOf(path)
    BY <2>2, PlainHit
  <2>4. AllowedMethods(path) = Reads /\ StackOf(path) = PlainStack
    BY <2>3, Allowed, StackIs DEF ReadPath, PlainPath
  <2> QED
    BY <1>1, <2>1, <2>3, <2>4 DEF RowOf
<1>6. CASE row = Built(<<".well-known", "webfinger">>,
                       ReadMethods \cup {"OPTIONS"}, PlainStack)
  <2>1. Matches(<<".well-known", "webfinger">>, path)
    BY <1>6, BuiltPattern
  <2>2. path = <<".well-known", "webfinger">> /\ PatternOf(path) = path
    BY <2>1, OddHit
  <2>3. /\ AllowedMethods(path) = Reads \cup {"OPTIONS"}
        /\ StackOf(path) = PlainStack
    BY <2>2, Allowed, StackIs DEF PlainPath
  <2> QED
    BY <1>1, <1>6, <2>2, <2>3 DEF RowOf
<1>7. CASE \E p \in {<<"inbox">>, <<"users", Param, "inbox">>} :
              row = Built(p, {"POST"}, PlainStack)
  <2>1. PICK p \in {<<"inbox">>, <<"users", Param, "inbox">>} :
              row = Built(p, {"POST"}, PlainStack)
    BY <1>7
  <2>2. Matches(p, path)
    BY <2>1, BuiltPattern
  <2>3. InboxPath(path) /\ PatternOf(path) = p
    BY <2>2, OddHit
  <2>4. AllowedMethods(path) = {"POST"} /\ StackOf(path) = PlainStack
    BY <2>3, Allowed, StackIs DEF PlainPath
  <2> QED
    BY <2>1, <2>3, <2>4 DEF RowOf
<1>8. CASE row \in IdenticonRows
  <2>1. row = Built(<<"identicon", Param>>, ReadMethods, IdenticonStack)
    BY <1>8 DEF IdenticonRows
  <2>2. Matches(<<"identicon", Param>>, path)
    BY <2>1, BuiltPattern
  <2>3. IdenticonPath(path) /\ PatternOf(path) = <<"identicon", Param>>
    BY <2>2, IdenticonHit
  <2>4. AllowedMethods(path) = Reads /\ StackOf(path) = IdenticonStack
    BY <2>3, Allowed, StackIs DEF ReadPath, IdenticonPath
  <2> QED
    BY <1>1, <2>1, <2>3, <2>4 DEF RowOf
<1> QED
  BY <1>2, <1>3, <1>4, <1>5, <1>6, <1>7, <1>8 DEF Table, PlainRows

\* and every public path has its row.
LEMMA TableCovers ==
    ASSUME NEW path \in Seq(STRING), ~is_feed_path(path),
           AllowedMethods(path) # {}
    PROVE  /\ RowOf(path, PatternOf(path)) \in Table
           /\ Matches(PatternOf(path), path)
<1> DEFINE row == RowOf(path, PatternOf(path))
<1>1. ReadMethods = Reads
  BY DEF ReadMethods, Reads
<1>2. CASE HomePath(path)
  <2>1. PatternOf(path) = path /\ Matches(path, path)
    BY <1>2, HomeHit
  <2>2. AllowedMethods(path) = Reads
    BY <1>2, Allowed DEF ReadPath
  <2>3. row = Built(path, ReadMethods, StackOf(path))
    BY <1>1, <2>1, <2>2 DEF RowOf
  <2>4. row \in HomeRows
    BY <1>2, <2>3, HomeStackIs DEF HomePath, HomeRows
  <2> QED
    BY <2>1, <2>4 DEF Table
<1>3. CASE MediaPath(path)
  <2>1. PatternOf(path) \in MediaPatterns /\ Matches(PatternOf(path), path)
    <3>1. PICK p \in MediaPatterns : Matches(p, path)
      BY <1>3, MediaHit
    <3>2. CASE p = PatternOf(path)
      BY <3>1, <3>2
    <3>3. CASE Twin(path)
      <4>1. PatternOf(path) = <<"files", "app-default.jpg">>
        BY <3>3, MediaHit DEF Twin
      <4>2. "files" \in Literals /\ "app-default.jpg" \in Literals
        BY DEF Literals
      <4>3. Matches(<<"files", "app-default.jpg">>, path)
        BY <3>3, <4>2, LiteralPair DEF Twin
      <4> QED
        BY <4>1, <4>3 DEF MediaPatterns
    <3> QED
      BY <3>1, <3>2, <3>3, MediaHit
  <2>2. AllowedMethods(path) = Reads /\ StackOf(path) = MediaStack
    BY <1>3, Allowed, StackIs DEF ReadPath
  <2>3. row \in MediaRows
    BY <1>1, <2>1, <2>2 DEF RowOf, MediaRows
  <2> QED
    BY <2>1, <2>3 DEF Table
<1>4. CASE GatedPath(path)
  <2>1. PatternOf(path) \in GatedPatterns /\ Matches(PatternOf(path), path)
    BY <1>4, GatedHit
  <2>2. AllowedMethods(path) = Reads /\ StackOf(path) = GatedStack
    BY <1>4, Allowed, StackIs DEF ReadPath
  <2>3. row \in GatedRows
    BY <1>1, <2>1, <2>2 DEF RowOf, GatedRows
  <2> QED
    BY <2>1, <2>3 DEF Table
<1>5. CASE DiscoveryPath(path) \/ ObjectPath(path)
  <2>1. PatternOf(path) \in PlainPatterns /\ Matches(PatternOf(path), path)
    BY <1>5, PlainHit
  <2>2. AllowedMethods(path) = Reads /\ StackOf(path) = PlainStack
    BY <1>5, Allowed, StackIs DEF ReadPath, PlainPath
  <2>3. row \in PlainRows
    BY <1>1, <2>1, <2>2 DEF RowOf, PlainRows
  <2> QED
    BY <2>1, <2>3 DEF Table
<1>6. CASE path = <<".well-known", "webfinger">>
  <2>1. PatternOf(path) = path /\ Matches(path, path)
    BY <1>6, OddHit
  <2>2. /\ AllowedMethods(path) = Reads \cup {"OPTIONS"}
        /\ StackOf(path) = PlainStack
    BY <1>6, Allowed, StackIs DEF PlainPath
  <2>3. row \in PlainRows
    BY <1>1, <1>6, <2>1, <2>2 DEF RowOf, PlainRows
  <2> QED
    BY <2>1, <2>3 DEF Table
<1>7. CASE InboxPath(path)
  <2>1. /\ PatternOf(path) \in {<<"inbox">>, <<"users", Param, "inbox">>}
        /\ Matches(PatternOf(path), path)
    BY <1>7, OddHit
  <2>2. AllowedMethods(path) = {"POST"} /\ StackOf(path) = PlainStack
    BY <1>7, Allowed, StackIs DEF PlainPath
  <2>3. row \in PlainRows
    BY <2>1, <2>2 DEF RowOf, PlainRows
  <2> QED
    BY <2>1, <2>3 DEF Table
<1>8. CASE IdenticonPath(path)
  <2>1. /\ PatternOf(path) = <<"identicon", Param>>
        /\ Matches(PatternOf(path), path)
    BY <1>8, IdenticonHit
  <2>2. AllowedMethods(path) = Reads /\ StackOf(path) = IdenticonStack
    BY <1>8, Allowed, StackIs DEF ReadPath, IdenticonPath
  <2>3. row \in IdenticonRows
    BY <1>1, <2>1, <2>2 DEF RowOf, IdenticonRows
  <2> QED
    BY <2>1, <2>3 DEF Table
<1>9. \/ path = <<".well-known", "webfinger">>
      \/ InboxPath(path) \/ ReadPath(path)
  BY Allowed
<1> QED
  BY <1>2, <1>3, <1>4, <1>5, <1>6, <1>7, <1>8, <1>9 DEF ReadPath, IdenticonPath

\* What the router does with a method and a path, by the table.
Refused405 == <<"reject_feed_paths", "method_not_allowed">>

DocumentedStack(method, path) ==
    IF AllowedMethods(path) = {} THEN <<"not_found">>
    ELSE IF method \in AllowedMethods(path) THEN StackOf(path)
    ELSE Refused405

LEMMA TwinBeats ==
    Beats(<<"files", "app-default.jpg">>, <<"files", Param>>)
<1> DEFINE p == <<"files", "app-default.jpg">>
           q == <<"files", Param>>
<1>1. "app-default.jpg" \in Literals
  BY DEF Literals
<1>2. "app-default.jpg" \notin {Param, AtParam, Rest}
  BY <1>1, NotSpecial
<1>3. Len(p) = 2 /\ Len(q) = 2 /\ p[1] = q[1] /\ p[2] = "app-default.jpg"
      /\ q[2] = Param
  OBVIOUS
<1> HIDE DEF p, q
<1>4. p[2] # q[2] /\ p[2] \notin {Param, AtParam, Rest}
  BY <1>2, <1>3
<1>5. 2 \in 1 .. Len(p) /\ 2 <= Len(q) /\ \A j \in 1 .. 2 - 1 : p[j] = q[j]
  BY <1>3
<1>6. Beats(p, q)
  BY <1>4, <1>5 DEF Beats
<1> QED
  BY <1>6 DEF p, q

\* For any method and any path but a feed's, the router that src/routes.rs
\* composes, layer by layer, answers as the documented table does: the plain
\* 404 off the table, the fallback's 405 for a wrong method, and else the
\* stages of the row of that path, in their order.
THEOREM RouterIsTheTable ==
    ASSUME NEW method, NEW path \in Seq(STRING), ~is_feed_path(path)
    PROVE  Dispatch(build, method, path) = DocumentedStack(method, path)
<1> DEFINE hits == {route \in build.routes : Matches(route.pattern, path)}
           best == {b \in hits : \A h \in hits \ {b} :
                                    Beats(b.pattern, h.pattern)}
           route == CHOOSE b \in best : TRUE
           M == AllowedMethods(path)
           first == RowOf(path, PatternOf(path))
<1>1. ASSUME NEW h \in hits
      PROVE  /\ M # {}
             /\ \/ h = first
                \/ Twin(path) /\ h = RowOf(path, <<"files", Param>>)
  BY BuildIsTheTable, TableHit
<1>2. build.fallback = <<"not_found">>
  BY DEF build, Fallback
<1>3. CASE M = {}
  <2>1. best = {}
    BY <1>1, <1>3
  <2> QED
    BY <1>2, <1>3, <2>1 DEF Dispatch, DocumentedStack
<1>4. CASE M # {}
  <2>1. first \in hits
    BY <1>4, TableCovers, BuildIsTheTable, BuiltPattern DEF RowOf
  <2>2. ASSUME NEW h \in hits \ {first} PROVE Beats(first.pattern, h.pattern)
    <3>1. Twin(path) /\ h = RowOf(path, <<"files", Param>>)
      BY <1>1, <2>2
    <3>2. h.pattern = <<"files", Param>> /\ first.pattern = PatternOf(path)
      BY <3>1, BuiltPattern DEF RowOf
    <3>3. PatternOf(path) = <<"files", "app-default.jpg">>
      BY <3>1, MediaHit DEF Twin
    <3> QED
      BY <3>2, <3>3, TwinBeats
  <2>3. first \in best
    BY <2>1, <2>2
  <2>4. route \in best
    BY <2>3
  <2>5. route.methods = [m \in M |-> StackOf(path)]
        /\ route.otherwise = Refused405
    <3>1. PICK p : route = RowOf(path, p)
      BY <1>1, <2>4
    <3> HIDE DEF route
    <3> QED
      BY <3>1 DEF RowOf, Built, Row, Refused405
  <2>6. Dispatch(build, method, path) =
          IF method \in DOMAIN route.methods THEN route.methods[method]
                                             ELSE route.otherwise
    BY <2>3 DEF Dispatch
  <2> HIDE DEF route
  <2> QED
    BY <1>4, <2>5, <2>6 DEF DocumentedStack
<1> QED
  BY <1>3, <1>4

\* A feed is no path of the table.
LEMMA FeedsAreUnlisted ==
    ASSUME NEW path \in Seq(STRING), is_feed_path(path)
    PROVE  AllowedMethods(path) = {}
<1>1. PICK n \in Nat : n = Len(path)
  OBVIOUS
<1>2. Shaped(path, n) /\ LengthFacts(n)
  BY <1>1, Surface, Lengths
<1>3. n = 1 /\ path[1] \in FeedAccts /\ path[1] \in Accts
  BY <1>1, FeedAcctsAssumption DEF is_feed_path
<1>4. path[1] # "" /\ path[1] # "inbox"
  BY <1>3, AcctSegmentsAssumption
<1>5. /\ path # <<".well-known", "webfinger">> /\ ~InboxPath(path)
      /\ ~HomePath(path) /\ ~GatedPath(path) /\ ~DiscoveryPath(path)
      /\ ~ObjectPath(path) /\ ~(Len(path) = 2)
  BY <1>1, <1>2, <1>3, <1>4 DEF Shaped, LengthFacts
<1>6. ~MediaPath(path)
  BY <1>1, <1>2, <1>3 DEF MediaPath, LengthFacts
<1> QED
  BY <1>5, <1>6 DEF AllowedMethods

-----------------------------------------------------------------------------
(* The connections *)

Phases == {"idle", "running", "draining", "awaiting", "done"}

\* The router's choice, and how far the request has come in it: past the
\* first stage only when that stage was the feed check, and it let it pass.
OnItsWay(c) ==
    /\ req[c] \in Requests
    /\ stack[c] = <<"not_found">> \/ FeedChecked(stack[c])
    /\ at[c] \in 1 .. Len(stack[c])
    /\ at[c] > 1 => FeedChecked(stack[c]) /\ ~is_feed_path(req[c].path)

\* The body is read by the drain, or by Misskey, or not yet.
OneReader(c) ==
    /\ pc[c] \in {"idle", "running", "draining"} =>
           drained[c] = FALSE /\ upstream[c] = << >>
    /\ pc[c] = "awaiting" => drained[c] = FALSE /\ upstream[c] # << >>
    /\ pc[c] = "done" => (drained[c] = TRUE <=> upstream[c] = << >>)

ConnInv(c) ==
    /\ pc[c] \in Phases
    /\ drained[c] = TRUE \/ drained[c] = FALSE
    /\ pc[c] = "idle" => req[c] = None /\ stack[c] = << >> /\ at[c] = 1
    /\ pc[c] # "idle" => OnItsWay(c)
    /\ DOMAIN headers[c] \subseteq Names
    /\ upstream[c] = << >> \/ \E sent : upstream[c] = <<sent>>
    /\ upstream[c] # << >> => at[c] > 1 /\ pc[c] \in {"awaiting", "done"}
    /\ OneReader(c)

Shape ==
    /\ pc = [c \in Conns |-> pc[c]] /\ req = [c \in Conns |-> req[c]]
    /\ stack = [c \in Conns |-> stack[c]] /\ at = [c \in Conns |-> at[c]]
    /\ headers = [c \in Conns |-> headers[c]]
    /\ drained = [c \in Conns |-> drained[c]]
    /\ upstream = [c \in Conns |-> upstream[c]]
    /\ reply = [c \in Conns |-> reply[c]]

IInv == mode \in {"proxy", "redirect"} /\ Shape /\ \A c \in Conns : ConnInv(c)

-----------------------------------------------------------------------------
(* What a step leaves alone *)

Act(c) == Arrive(c) \/ Local(c) \/ UpstreamAnswers(c) \/ UpstreamFails(c)
          \/ Finish(c) \/ CallerLeaves(c)

KeptAt(d) ==
    /\ pc'[d] = pc[d] /\ req'[d] = req[d] /\ stack'[d] = stack[d]
    /\ at'[d] = at[d] /\ headers'[d] = headers[d]
    /\ drained'[d] = drained[d] /\ upstream'[d] = upstream[d]
    /\ reply'[d] = reply[d]

LEMMA Others ==
    ASSUME Shape, NEW c \in Conns, Act(c)
    PROVE  /\ mode' = mode /\ Shape'
           /\ \A d \in Conns \ {c} : KeptAt(d)
<1> DEFINE Goal == /\ mode' = mode /\ Shape'
                   /\ \A d \in Conns \ {c} : KeptAt(d)
<1> USE DEF Shape, KeptAt
<1>1. CASE Arrive(c)
  BY <1>1 DEF Arrive
<1>2. ASSUME Forget(c) PROVE Goal
  BY <1>2 DEF Forget
<1>3. ASSUME NEW r, AnswerDrained(c, r) PROVE Goal
  BY <1>3 DEF AnswerDrained
<1>4. ASSUME RunNext(c), UNCHANGED headers PROVE Goal
  BY <1>4 DEF RunNext
<1>5. CASE ForceApAccept(c)
  BY <1>5 DEF ForceApAccept, RunNext
<1>6. CASE Forward(c)
  BY <1>6 DEF Forward
<1>7. CASE DrainEnds(c)
  BY <1>7 DEF DrainEnds
<1>8. CASE UpstreamAnswers(c) \/ UpstreamFails(c)
  <2>1. PICK r : /\ reply' = [reply EXCEPT ![c] = r]
                 /\ pc' = [pc EXCEPT ![c] = "done"]
                 /\ UNCHANGED <<mode, req, stack, at, headers, drained, upstream>>
    BY <1>8 DEF UpstreamAnswers, UpstreamFails
  <2> QED
    BY <2>1
<1>9. CASE Finish(c) \/ CallerLeaves(c)
  BY <1>2, <1>9 DEF Finish, CallerLeaves
<1>10. CASE RejectFeedPaths(c) \/ RedirectNavigation(c) \/ RedirectMedia(c)
  BY <1>3, <1>4, <1>10 DEF RejectFeedPaths, RedirectNavigation, RedirectMedia
<1>11. CASE ServeHome(c) \/ NotFound(c) \/ MethodNotAllowed(c)
  BY <1>3, <1>11 DEF ServeHome, NotFound, MethodNotAllowed
<1> QED
  BY <1>1, <1>5, <1>6, <1>7, <1>8, <1>9, <1>10, <1>11 DEF Act, Local

\* A connection that does not move keeps its invariant.
LEMMA Unmoved ==
    ASSUME NEW d \in Conns, ConnInv(d), KeptAt(d)
    PROVE  ConnInv(d)'
  BY DEF ConnInv, KeptAt, OnItsWay, OneReader

-----------------------------------------------------------------------------
(* The connection that moves *)

LEMMA MiddlewareIsNoHandler == Middleware \cap Handlers = {}
  BY DEF Middleware, Handlers

\* The stage that runs is in the stack; the last one is a handler.
LEMMA StageType ==
    ASSUME NEW c \in Conns, OnItsWay(c)
    PROVE  /\ Len(stack[c]) \in Nat /\ Stage(c) \in Middleware \cup Handlers
           /\ Stage(c) \in Middleware =>
                 at[c] + 1 \in 1 .. Len(stack[c]) /\ FeedChecked(stack[c])
           /\ at[c] = 1 => Stage(c) \in {"not_found", "reject_feed_paths"}
<1>1. CASE stack[c] = <<"not_found">>
  <2>1. Len(stack[c]) = 1 /\ at[c] = 1 /\ Stage(c) = "not_found"
    BY <1>1 DEF OnItsWay, Stage
  <2> QED
    BY <2>1 DEF Middleware, Handlers
<1>2. CASE FeedChecked(stack[c])
  <2>1. /\ stack[c] \in Seq(Middleware \cup Handlers)
        /\ Len(stack[c]) \in Nat
        /\ stack[c][Len(stack[c])] \in Handlers
        /\ at[c] \in 1 .. Len(stack[c])
        /\ stack[c][1] = "reject_feed_paths"
    BY <1>2 DEF FeedChecked, Stacks, OnItsWay
  <2>2. Stage(c) \in Middleware \cup Handlers
    BY <2>1 DEF Stage
  <2>3. Stage(c) \in Middleware => at[c] # Len(stack[c])
    BY <2>1, MiddlewareIsNoHandler DEF Stage
  <2> QED
    BY <1>2, <2>1, <2>2, <2>3 DEF Stage
<1> QED
  BY <1>1, <1>2 DEF OnItsWay

LEMMA ArriveInv ==
    ASSUME Shape, NEW c \in Conns, ConnInv(c), Arrive(c)
    PROVE  ConnInv(c)'
<1>1. PICK r \in Requests :
          /\ req' = [req EXCEPT ![c] = r]
          /\ stack' = [stack EXCEPT ![c] = Dispatch(build, r.method, r.path)]
          /\ headers' = [headers EXCEPT ![c] = r.headers]
  BY DEF Arrive
<1> DEFINE s == Dispatch(build, r.method, r.path)
<1>2. s = <<"not_found">> \/ FeedChecked(s)
  BY EveryRouteIsFeedChecked
<1> HIDE DEF s
<1>3. /\ pc[c] = "idle" /\ pc'[c] = "running"
      /\ req'[c] = r /\ stack'[c] = s /\ headers'[c] = r.headers
      /\ at'[c] = at[c] /\ drained'[c] = drained[c] /\ upstream'[c] = upstream[c]
  BY <1>1 DEF Arrive, Shape, s
<1>4. at[c] = 1 /\ drained[c] = FALSE /\ upstream[c] = << >>
  BY <1>3 DEF ConnInv, OneReader
<1>5. 1 \in 1 .. Len(s)
  BY <1>2 DEF FeedChecked, Stacks
<1>6. OnItsWay(c)'
  BY <1>2, <1>3, <1>4, <1>5 DEF OnItsWay
<1>7. DOMAIN r.headers \subseteq Names
  BY RequestsAssumption
<1> QED
  BY <1>3, <1>4, <1>6, <1>7 DEF ConnInv, OneReader, Phases

LEMMA ForgetInv ==
    ASSUME Shape, NEW c \in Conns, Forget(c)
    PROVE  ConnInv(c)'
<1>1. /\ pc'[c] = "idle" /\ req'[c] = None /\ stack'[c] = << >> /\ at'[c] = 1
      /\ headers'[c] = << >> /\ drained'[c] = FALSE /\ upstream'[c] = << >>
  BY DEF Forget, Shape
<1>2. DOMAIN << >> \subseteq Names
  OBVIOUS
<1> QED
  BY <1>1, <1>2 DEF ConnInv, OneReader, Phases

LEMMA AnswerDrainedInv ==
    ASSUME Shape, NEW c \in Conns, ConnInv(c), pc[c] = "running",
           NEW r, AnswerDrained(c, r)
    PROVE  ConnInv(c)'
<1>1. /\ pc'[c] = "draining" /\ req'[c] = req[c] /\ stack'[c] = stack[c]
      /\ at'[c] = at[c] /\ headers'[c] = headers[c]
      /\ drained'[c] = drained[c] /\ upstream'[c] = upstream[c]
  BY DEF AnswerDrained, Shape
<1> QED
  BY <1>1 DEF ConnInv, OnItsWay, OneReader, Phases

LEMMA RunNextInv ==
    ASSUME Shape, NEW c \in Conns, ConnInv(c), RunNext(c),
           pc[c] = "running", Stage(c) \in Middleware,
           Stage(c) = "reject_feed_paths" => ~is_feed_path(req[c].path),
           headers' = [headers EXCEPT ![c] = headers'[c]],
           DOMAIN headers'[c] \subseteq Names
    PROVE  ConnInv(c)'
<1>1. /\ pc'[c] = pc[c] /\ req'[c] = req[c] /\ stack'[c] = stack[c]
      /\ at'[c] = at[c] + 1
      /\ drained'[c] = drained[c] /\ upstream'[c] = upstream[c]
  BY DEF RunNext, Shape
<1>2. OnItsWay(c)
  BY DEF ConnInv
<1>3. /\ at[c] + 1 \in 1 .. Len(stack[c]) /\ FeedChecked(stack[c])
      /\ at[c] = 1 => Stage(c) \in {"not_found", "reject_feed_paths"}
  BY <1>2, StageType
<1>4. ~is_feed_path(req[c].path)
  <2>1. CASE at[c] = 1
    BY <1>3, <2>1, MiddlewareIsNoHandler DEF Handlers
  <2>2. CASE at[c] # 1
    BY <1>2, <2>2 DEF OnItsWay
  <2> QED
    BY <2>1, <2>2
<1>5. OnItsWay(c)'
  BY <1>1, <1>2, <1>3, <1>4 DEF OnItsWay
<1> QED
  BY <1>1, <1>5 DEF ConnInv, OneReader, Phases

\* The gate and the filters invent no field but Accept.
LEMMA SanitizedNames ==
    ASSUME NEW h, DOMAIN h \subseteq Names
    PROVE  /\ DOMAIN sanitize_request(h) \subseteq Names
           /\ DOMAIN force_ap_accept(h) \subseteq Names
<1>1. \A g, names : DOMAIN Without(g, names) \subseteq DOMAIN g
  BY DEF Without, Restrict
<1>2. DOMAIN sanitize_request(h) \subseteq DOMAIN h
  BY <1>1 DEF sanitize_request, strip_hop_by_hop
<1>3. DOMAIN force_ap_accept(h) = DOMAIN sanitize_request(h) \cup {"accept"}
  BY DEF force_ap_accept, Inserted
<1> QED
  BY <1>2, <1>3, NamesAssumption

LEMMA AppendToNothing ==
    ASSUME NEW x
    PROVE  Append(<< >>, x) = <<x>> /\ <<x>> # << >>
  OBVIOUS

LEMMA ForwardInv ==
    ASSUME Shape, NEW c \in Conns, ConnInv(c), Forward(c)
    PROVE  ConnInv(c)'
<1> DEFINE sent == [method |-> req[c].method, path |-> req[c].path,
                    headers |-> sanitize_request(headers[c])]
<1>1. pc[c] = "running" /\ Stage(c) = "forward"
  BY DEF Forward, Running
<1>2. OnItsWay(c) /\ upstream[c] = << >> /\ drained[c] = FALSE
  BY <1>1 DEF ConnInv, OneReader
<1>3. at[c] > 1
  <2>1. at[c] # 1
    BY <1>1, <1>2, StageType
  <2> QED
    BY <1>2, <2>1, StageType DEF OnItsWay
<1>4. upstream'[c] = <<sent>> /\ upstream'[c] # << >>
  <2>1. upstream'[c] = Append(upstream[c], sent)
    BY DEF Forward, Shape
  <2> HIDE DEF sent
  <2> QED
    BY <1>2, <2>1, AppendToNothing
<1>5. /\ pc'[c] = "awaiting" /\ req'[c] = req[c] /\ stack'[c] = stack[c]
      /\ at'[c] = at[c] /\ drained'[c] = drained[c]
      /\ headers'[c] = sanitize_request(headers[c])
  BY DEF Forward, Shape
<1>6. DOMAIN headers'[c] \subseteq Names
  BY <1>5, SanitizedNames DEF ConnInv
<1>7. OnItsWay(c)'
  BY <1>2, <1>5 DEF OnItsWay
<1> QED
  BY <1>2, <1>3, <1>4, <1>5, <1>6, <1>7 DEF ConnInv, OneReader, Phases

LEMMA DrainEndsInv ==
    ASSUME Shape, NEW c \in Conns, ConnInv(c), DrainEnds(c)
    PROVE  ConnInv(c)'
<1>1. /\ pc[c] = "draining" /\ pc'[c] = "done" /\ drained'[c] = TRUE
      /\ req'[c] = req[c] /\ stack'[c] = stack[c] /\ at'[c] = at[c]
      /\ headers'[c] = headers[c] /\ upstream'[c] = upstream[c]
  BY DEF DrainEnds, Shape
<1>2. OnItsWay(c)'
  BY <1>1 DEF ConnInv, OnItsWay
<1> QED
  BY <1>1, <1>2 DEF ConnInv, OneReader, Phases

LEMMA UpstreamRepliesInv ==
    ASSUME Shape, NEW c \in Conns, ConnInv(c),
           UpstreamAnswers(c) \/ UpstreamFails(c)
    PROVE  ConnInv(c)'
<1>1. /\ pc[c] = "awaiting" /\ pc'[c] = "done" /\ drained'[c] = drained[c]
      /\ req'[c] = req[c] /\ stack'[c] = stack[c] /\ at'[c] = at[c]
      /\ headers'[c] = headers[c] /\ upstream'[c] = upstream[c]
  BY DEF UpstreamAnswers, UpstreamFails, Shape
<1>2. OnItsWay(c)'
  BY <1>1 DEF ConnInv, OnItsWay
<1> QED
  BY <1>1, <1>2 DEF ConnInv, OneReader, Phases

\* A middleware that lets the request through leaves its headers alone, but
\* for the gate.
LEMMA LocalInv ==
    ASSUME Shape, NEW c \in Conns, ConnInv(c), Local(c)
    PROVE  ConnInv(c)'
<1> DEFINE stage == Stage(c)
<1>1. ASSUME UNCHANGED headers
      PROVE  /\ headers' = [headers EXCEPT ![c] = headers'[c]]
             /\ DOMAIN headers'[c] \subseteq Names
  BY <1>1 DEF Shape, ConnInv
<1>2. CASE RejectFeedPaths(c)
  <2>1. pc[c] = "running" /\ stage = "reject_feed_paths"
    BY <1>2 DEF RejectFeedPaths, Running
  <2>2. CASE is_feed_path(req[c].path)
    BY <1>2, <2>1, <2>2, AnswerDrainedInv DEF RejectFeedPaths
  <2>3. CASE ~is_feed_path(req[c].path)
    BY <1>1, <1>2, <2>1, <2>3, RunNextInv DEF RejectFeedPaths, Middleware
  <2> QED
    BY <2>2, <2>3
<1>3. CASE RedirectNavigation(c)
  <2>1. pc[c] = "running" /\ stage = "redirect_navigation"
    BY <1>3 DEF RedirectNavigation, Running
  <2>2. \/ AnswerDrained(c, Found("home"))
        \/ RunNext(c) /\ UNCHANGED headers
    BY <1>3 DEF RedirectNavigation
  <2> QED
    BY <1>1, <2>1, <2>2, AnswerDrainedInv, RunNextInv DEF Middleware
<1>4. CASE ForceApAccept(c)
  <2>1. pc[c] = "running" /\ stage = "force_ap_accept" /\ RunNext(c)
    BY <1>4 DEF ForceApAccept, Running
  <2>2. headers'[c] = force_ap_accept(headers[c])
    BY <1>4 DEF ForceApAccept, Shape
  <2>3. headers' = [headers EXCEPT ![c] = headers'[c]]
    BY <1>4, <2>2 DEF ForceApAccept
  <2>4. DOMAIN headers'[c] \subseteq Names
    BY <2>2, SanitizedNames DEF ConnInv
  <2> QED
    BY <2>1, <2>3, <2>4, RunNextInv DEF Middleware
<1>5. CASE RedirectMedia(c)
  <2>1. pc[c] = "running" /\ stage = "redirect_media"
    BY <1>5 DEF RedirectMedia, Running
  <2>2. \/ AnswerDrained(c, media_answer(req[c], headers[c], mode))
        \/ RunNext(c) /\ UNCHANGED headers
    BY <1>5 DEF RedirectMedia
  <2> QED
    BY <1>1, <2>1, <2>2, AnswerDrainedInv, RunNextInv DEF Middleware
<1>6. CASE ServeHome(c) \/ NotFound(c) \/ MethodNotAllowed(c)
  <2>1. pc[c] = "running" /\ \E r : AnswerDrained(c, r)
    BY <1>6 DEF ServeHome, NotFound, MethodNotAllowed, Running
  <2> QED
    BY <2>1, AnswerDrainedInv
<1>7. CASE Forward(c)
  BY <1>7, ForwardInv
<1>8. CASE DrainEnds(c)
  BY <1>8, DrainEndsInv
<1> QED
  BY <1>2, <1>3, <1>4, <1>5, <1>6, <1>7, <1>8 DEF Local

-----------------------------------------------------------------------------
(* The invariant of the whole proxy *)

LEMMA InitInv == Init => IInv
<1> SUFFICES ASSUME Init PROVE IInv
  OBVIOUS
<1>1. Shape
  BY DEF Init, Shape
<1>2. ASSUME NEW c \in Conns PROVE ConnInv(c)
  <2>1. /\ pc[c] = "idle" /\ req[c] = None /\ stack[c] = << >> /\ at[c] = 1
        /\ headers[c] = << >> /\ drained[c] = FALSE /\ upstream[c] = << >>
    BY DEF Init
  <2>2. DOMAIN << >> \subseteq Names
    OBVIOUS
  <2> QED
    BY <2>1, <2>2 DEF ConnInv, OneReader, Phases
<1> QED
  BY <1>1, <1>2 DEF Init, IInv

LEMMA NextInv == IInv /\ [Next]_vars => IInv'
<1> SUFFICES ASSUME IInv, [Next]_vars PROVE IInv'
  OBVIOUS
<1>1. CASE Next
  <2>1. PICK c \in Conns : Act(c)
    BY <1>1 DEF Next, Act
  <2>2. /\ mode' = mode /\ Shape'
        /\ \A d \in Conns \ {c} : KeptAt(d)
    BY <2>1, Others DEF IInv
  <2>3. ConnInv(c)'
    BY <2>1, ArriveInv, LocalInv, UpstreamRepliesInv, ForgetInv
       DEF IInv, Act, Finish, CallerLeaves
  <2>4. \A d \in Conns \ {c} : ConnInv(d)'
    BY <2>2, Unmoved DEF IInv
  <2> QED
    BY <2>2, <2>3, <2>4 DEF IInv
<1>2. CASE UNCHANGED vars
  BY <1>2 DEF vars, IInv, Shape, ConnInv, OnItsWay, OneReader
<1> QED
  BY <1>1, <1>2

LEMMA InvHolds == Spec => []IInv
  BY InitInv, NextInv, PTL DEF Spec

-----------------------------------------------------------------------------

\* Every answer follows a body the proxy drained or a body it handed to
\* Misskey, never both and never neither.
THEOREM EveryBodyHasOneReader == Spec => []BodyHasOneReader
<1>1. IInv => BodyHasOneReader
  BY DEF IInv, ConnInv, OneReader, BodyHasOneReader, Done
<1> QED
  BY <1>1, InvHolds, PTL

\* Type correctness of the proxy.
THEOREM TypeCorrect == Spec => []TypeOK
<1>1. IInv => TypeOK
  <2> SUFFICES ASSUME IInv PROVE TypeOK
    OBVIOUS
  <2>1. /\ pc \in [Conns -> Phases] /\ drained \in [Conns -> BOOLEAN]
    <3>1. \A c \in Conns : pc[c] \in Phases
      BY DEF IInv, ConnInv
    <3>2. \A c \in Conns : drained[c] \in BOOLEAN
      BY Zenon DEF IInv, ConnInv
    <3>3. pc = [c \in Conns |-> pc[c]] /\ drained = [c \in Conns |-> drained[c]]
      BY DEF IInv, Shape
    <3> QED
      BY <3>1, <3>2, <3>3
  <2>2. ASSUME NEW c \in Conns
        PROVE  /\ req[c] \in Requests \cup {None}
               /\ \A i \in DOMAIN stack[c] :
                      stack[c][i] \in Middleware \cup Handlers
               /\ DOMAIN headers[c] \subseteq Names
               /\ at[c] \in Nat \ {0}
               /\ pc[c] # "idle" => at[c] <= Len(stack[c])
               /\ Len(upstream[c]) <= 1
    <3>1. ConnInv(c)
      BY DEF IInv
    <3>2. Len(upstream[c]) <= 1
      <4>1. CASE upstream[c] = << >>
        BY <4>1
      <4>2. ASSUME NEW sent, upstream[c] = <<sent>> PROVE Len(upstream[c]) <= 1
        BY <4>2
      <4> QED
        BY <3>1, <4>1, <4>2 DEF ConnInv
    <3>3. CASE pc[c] = "idle"
      BY <3>1, <3>2, <3>3 DEF ConnInv
    <3>4. CASE pc[c] # "idle"
      <4>1. OnItsWay(c)
        BY <3>1, <3>4 DEF ConnInv
      <4>2. stack[c] \in Seq(Middleware \cup Handlers)
        <5>1. "not_found" \in Middleware \cup Handlers
          BY DEF Handlers
        <5>2. CASE stack[c] = <<"not_found">>
          BY <5>1, <5>2
        <5>3. CASE FeedChecked(stack[c])
          BY <5>3 DEF FeedChecked, Stacks
        <5> QED
          BY <4>1, <5>2, <5>3 DEF OnItsWay
      <4>3. Len(stack[c]) \in Nat
        BY <4>2
      <4> QED
        BY <3>1, <3>2, <4>1, <4>2, <4>3 DEF ConnInv, OnItsWay
    <3> QED
      BY <3>3, <3>4
  <2> QED
    BY <2>1, <2>2 DEF TypeOK, IInv, Phases
<1> QED
  BY <1>1, InvHolds, PTL

-----------------------------------------------------------------------------
(* What a request has met on its way, and what it is answered *)

\* The stages a request has behind it.
Passed(c, stage) == \E j \in 1 .. at[c] - 1 : stack[c][j] = stage

\* The block that the next stage reads: the caller's, or the gate's.
Carried(c) ==
    IF Passed(c, "force_ap_accept") THEN force_ap_accept(req[c].headers)
                                    ELSE req[c].headers

Sent(c) == [method |-> req[c].method, path |-> req[c].path,
            headers |-> sanitize_request(Carried(c))]

\* An answer of the stage a request stopped at.
LocalAnswer(c) ==
    LET r == req[c]
        answer == media_answer(r, r.headers, mode)
    IN
    \/ /\ Stage(c) = "reject_feed_paths" /\ is_feed_path(r.path)
       /\ reply[c] = Bare(404)
    \/ /\ Stage(c) = "redirect_navigation" /\ is_navigation(r.headers)
       /\ reply[c] = Found("home")
    \/ /\ Stage(c) = "redirect_media" /\ answer # None
       /\ reply[c] = answer
    \/ Stage(c) \in DOMAIN Served /\ reply[c] = Served[Stage(c)]
    \/ Stage(c) = "not_found" /\ reply[c] = Bare(404)
    \/ Stage(c) = "method_not_allowed" /\ reply[c] = Bare(405)

BadGateway == Reply(502, "none", "none", "upstream unavailable")

RelayedAnswer(c) ==
    reply[c] = BadGateway \/ \E answer \in Answers : reply[c] = relayed(answer)

Told(c) ==
    pc[c] # "idle" =>
        /\ stack[c] = Dispatch(build, req[c].method, req[c].path)
        /\ Passed(c, "redirect_navigation") => ~is_navigation(req[c].headers)
        /\ Passed(c, "redirect_media") =>
              media_answer(req[c], req[c].headers, mode) = None
        /\ pc[c] = "running" => headers[c] = Carried(c)
        /\ pc[c] \in {"draining", "done"} /\ upstream[c] = << >> =>
              LocalAnswer(c)
        /\ upstream[c] # << >> =>
              Stage(c) = "forward" /\ upstream[c] = <<Sent(c)>>
        /\ pc[c] = "done" /\ upstream[c] # << >> => RelayedAnswer(c)

LEMMA UntouchedTold ==
    ASSUME NEW d \in Conns, Told(d), KeptAt(d), mode' = mode
    PROVE  Told(d)'
<1>1. /\ Carried(d)' = Carried(d) /\ Sent(d)' = Sent(d)
      /\ Stage(d)' = Stage(d)
      /\ \A s : Passed(d, s)' <=> Passed(d, s)
  BY DEF Carried, Sent, Passed, Stage, KeptAt
<1>2. LocalAnswer(d)' <=> LocalAnswer(d)
  BY <1>1 DEF LocalAnswer, KeptAt
<1>3. RelayedAnswer(d)' <=> RelayedAnswer(d)
  BY DEF RelayedAnswer, KeptAt
<1> QED
  BY <1>1, <1>2, <1>3 DEF Told, KeptAt

\* The stacks of the proxy.
LEMMA AllStacks ==
    ASSUME NEW method, NEW path \in Seq(STRING), ~is_feed_path(path)
    PROVE  Dispatch(build, method, path) \in
             {<<"not_found">>, Refused405, MediaStack, GatedStack, PlainStack,
              IdenticonStack}
             \cup {HomeStack(h) : h \in DOMAIN Served}
<1>1. Dispatch(build, method, path) = DocumentedStack(method, path)
  BY RouterIsTheTable
<1>2. DOMAIN Served = {"index", "misskey_logo", "instance_icon"}
  BY DEF Served
<1>3. StackOf(path) \in {MediaStack, GatedStack, PlainStack, IdenticonStack}
                        \cup {HomeStack(h) : h \in DOMAIN Served}
  BY <1>2 DEF StackOf
<1> QED
  BY <1>1, <1>3 DEF DocumentedStack

\* Nothing but forward comes after the gate.
LEMMA GateComesLast ==
    ASSUME NEW method, NEW path \in Seq(STRING), ~is_feed_path(path)
    PROVE  LET s == Dispatch(build, method, path) IN
           \A i, j \in 1 .. Len(s) :
               i < j /\ s[i] = "force_ap_accept" => s[j] = "forward"
<1> DEFINE s == Dispatch(build, method, path)
<1>1. CASE s = GatedStack
  <2>1. Len(GatedStack) = 4 /\ GatedStack[4] = "forward"
        /\ GatedStack[1] = "reject_feed_paths"
        /\ GatedStack[2] = "redirect_navigation"
        /\ GatedStack[3] = "force_ap_accept"
    BY DEF GatedStack
  <2> HIDE DEF s
  <2>2. 1 .. 4 = {1, 2, 3, 4}
    OBVIOUS
  <2>3. ASSUME NEW i \in 1 .. Len(s), NEW j \in 1 .. Len(s), i < j,
               s[i] = "force_ap_accept"
        PROVE  s[j] = "forward"
    <3>1. i \in {1, 2, 3, 4} /\ j \in {1, 2, 3, 4}
      BY <1>1, <2>1, <2>2, <2>3
    <3>2. i = 3
      BY <1>1, <2>1, <2>3, <3>1
    <3>3. j = 4
      BY <2>3, <3>1, <3>2
    <3> QED
      BY <1>1, <2>1, <3>3
  <2> QED
    BY <2>3 DEF s
<1>2. CASE s # GatedStack
  <2>1. \A i \in 1 .. Len(s) : s[i] # "force_ap_accept"
    <3>1. DOMAIN Served = {"index", "misskey_logo", "instance_icon"}
      BY DEF Served
    <3>2. s \in {<<"not_found">>, Refused405, MediaStack, PlainStack,
                 IdenticonStack, HomeStack("index"), HomeStack("misskey_logo"),
                 HomeStack("instance_icon")}
      BY <1>2, <3>1, AllStacks
    <3> HIDE DEF s
    <3> QED
      BY <3>2 DEF Refused405, MediaStack, PlainStack, IdenticonStack, HomeStack
  <2> QED
    BY <2>1
<1> QED
  BY <1>1, <1>2

\* A stage other than forward reads the caller's own block.
LEMMA CarriedIsTheCallers ==
    ASSUME NEW c \in Conns, ConnInv(c), Told(c), pc[c] # "idle",
           Stage(c) # "forward"
    PROVE  Carried(c) = req[c].headers
<1> SUFFICES ASSUME Passed(c, "force_ap_accept") PROVE FALSE
  BY DEF Carried
<1>1. OnItsWay(c)
  BY DEF ConnInv
<1>2. PICK j \in 1 .. at[c] - 1 : stack[c][j] = "force_ap_accept"
  BY DEF Passed
<1>3. at[c] \in 1 .. Len(stack[c]) /\ Len(stack[c]) \in Nat
  BY <1>1, StageType DEF OnItsWay
<1>4. at[c] > 1 /\ j \in 1 .. Len(stack[c]) /\ j < at[c]
  BY <1>2, <1>3
<1>5. ~is_feed_path(req[c].path) /\ req[c].path \in Seq(STRING)
  BY <1>1, <1>4, RequestsAssumption DEF OnItsWay
<1>6. stack[c] = Dispatch(build, req[c].method, req[c].path)
  BY DEF Told
<1>7. stack[c][at[c]] = "forward"
  BY <1>2, <1>3, <1>4, <1>5, <1>6, GateComesLast
<1> QED
  BY <1>7 DEF Stage

\* A request that moves on has one stage more behind it.
LEMMA OneMorePassed ==
    ASSUME Shape, NEW c \in Conns, ConnInv(c), pc[c] # "idle", RunNext(c)
    PROVE  \A s : Passed(c, s)' <=> Passed(c, s) \/ Stage(c) = s
<1>1. /\ stack'[c] = stack[c] /\ at'[c] = at[c] + 1
      /\ at[c] \in Nat /\ at[c] >= 1
  <2>1. at[c] \in 1 .. Len(stack[c]) /\ Len(stack[c]) \in Nat
    BY StageType DEF ConnInv, OnItsWay
  <2> QED
    BY <2>1 DEF RunNext, Shape
<1>2. PICK k \in Nat : k = at[c]
  BY <1>1
<1>3. 1 .. (k + 1) - 1 = (1 .. k - 1) \cup {k}
  BY <1>1, <1>2
<1>4. ASSUME NEW s PROVE Passed(c, s)' <=> Passed(c, s) \/ Stage(c) = s
  <2>1. Passed(c, s)' <=> \E j \in 1 .. (k + 1) - 1 : stack[c][j] = s
    BY <1>1, <1>2 DEF Passed
  <2>2. Passed(c, s) <=> \E j \in 1 .. k - 1 : stack[c][j] = s
    BY <1>2 DEF Passed
  <2>3. Stage(c) = stack[c][k]
    BY <1>2 DEF Stage
  <2> QED
    BY <1>3, <2>1, <2>2, <2>3
<1> QED
  BY <1>4

LEMMA ArriveTold ==
    ASSUME Shape, NEW c \in Conns, ConnInv(c), Arrive(c)
    PROVE  Told(c)'
<1>1. PICK r \in Requests :
          /\ req' = [req EXCEPT ![c] = r]
          /\ stack' = [stack EXCEPT ![c] = Dispatch(build, r.method, r.path)]
          /\ headers' = [headers EXCEPT ![c] = r.headers]
  BY DEF Arrive
<1>2. /\ pc[c] = "idle" /\ pc'[c] = "running"
      /\ req'[c] = r /\ stack'[c] = Dispatch(build, r.method, r.path)
      /\ headers'[c] = r.headers
      /\ at'[c] = 1 /\ upstream'[c] = << >>
  <2>1. pc[c] = "idle" /\ at' = at /\ upstream' = upstream
        /\ pc' = [pc EXCEPT ![c] = "running"]
    BY DEF Arrive
  <2>2. at[c] = 1 /\ upstream[c] = << >>
    BY <2>1 DEF ConnInv, OneReader
  <2> QED
    BY <1>1, <2>1, <2>2 DEF Shape
<1>3. ASSUME NEW s PROVE ~Passed(c, s)'
  <2>1. 1 .. 1 - 1 = {}
    OBVIOUS
  <2> QED
    BY <1>2, <2>1 DEF Passed
<1>4. Carried(c)' = r.headers
  BY <1>2, <1>3 DEF Carried
<1> QED
  BY <1>2, <1>3, <1>4 DEF Told

LEMMA RunNextTold ==
    ASSUME Shape, NEW c \in Conns, ConnInv(c), Told(c), RunNext(c),
           pc[c] = "running",
           Stage(c) = "redirect_navigation" => ~is_navigation(req[c].headers),
           Stage(c) = "redirect_media" =>
               media_answer(req[c], req[c].headers, mode) = None,
           headers'[c] = IF Stage(c) = "force_ap_accept"
                         THEN force_ap_accept(headers[c]) ELSE headers[c]
    PROVE  Told(c)'
<1>1. /\ pc'[c] = "running" /\ req'[c] = req[c] /\ stack'[c] = stack[c]
      /\ mode' = mode /\ upstream'[c] = << >>
  BY DEF RunNext, Shape, ConnInv, OneReader
<1>2. \A s : Passed(c, s)' <=> Passed(c, s) \/ Stage(c) = s
  BY OneMorePassed
<1>3. headers'[c] = Carried(c)'
  <2>1. headers[c] = Carried(c)
    BY DEF Told
  <2>2. CASE Stage(c) = "force_ap_accept"
    <3>1. Carried(c) = req[c].headers
      BY <2>2, CarriedIsTheCallers
    <3>2. Carried(c)' = force_ap_accept(req[c].headers)
      BY <1>1, <1>2, <2>2 DEF Carried
    <3> QED
      BY <2>1, <2>2, <3>1, <3>2
  <2>3. CASE Stage(c) # "force_ap_accept"
    <3>1. Carried(c)' = Carried(c)
      BY <1>1, <1>2, <2>3 DEF Carried
    <3> QED
      BY <2>1, <2>3, <3>1
  <2> QED
    BY <2>2, <2>3
<1> QED
  BY <1>1, <1>2, <1>3 DEF Told

LEMMA AnswerDrainedTold ==
    ASSUME Shape, NEW c \in Conns, ConnInv(c), Told(c), pc[c] = "running",
           NEW r, AnswerDrained(c, r),
           \/ /\ Stage(c) = "reject_feed_paths" /\ is_feed_path(req[c].path)
              /\ r = Bare(404)
           \/ /\ Stage(c) = "redirect_navigation"
              /\ is_navigation(req[c].headers) /\ r = Found("home")
           \/ /\ Stage(c) = "redirect_media" /\ r # None
              /\ r = media_answer(req[c], req[c].headers, mode)
           \/ Stage(c) \in DOMAIN Served /\ r = Served[Stage(c)]
           \/ Stage(c) = "not_found" /\ r = Bare(404)
           \/ Stage(c) = "method_not_allowed" /\ r = Bare(405)
    PROVE  Told(c)'
<1>1. /\ pc'[c] = "draining" /\ req'[c] = req[c] /\ stack'[c] = stack[c]
      /\ at'[c] = at[c] /\ mode' = mode /\ reply'[c] = r
      /\ upstream'[c] = << >>
  BY DEF AnswerDrained, Shape, ConnInv, OneReader
<1>2. Stage(c)' = Stage(c) /\ \A s : Passed(c, s)' <=> Passed(c, s)
  BY <1>1 DEF Stage, Passed
<1>3. LocalAnswer(c)'
  BY <1>1, <1>2 DEF LocalAnswer
<1> QED
  BY <1>1, <1>2, <1>3 DEF Told

LEMMA ForwardTold ==
    ASSUME Shape, NEW c \in Conns, ConnInv(c), Told(c), Forward(c)
    PROVE  Told(c)'
<1> DEFINE sent == [method |-> req[c].method, path |-> req[c].path,
                    headers |-> sanitize_request(headers[c])]
<1>1. /\ pc[c] = "running" /\ Stage(c) = "forward" /\ upstream[c] = << >>
      /\ headers[c] = Carried(c)
  BY DEF Forward, Running, ConnInv, OneReader, Told
<1>2. /\ pc'[c] = "awaiting" /\ req'[c] = req[c] /\ stack'[c] = stack[c]
      /\ at'[c] = at[c] /\ mode' = mode
  BY DEF Forward, Shape
<1>3. /\ Stage(c)' = Stage(c) /\ \A s : Passed(c, s)' <=> Passed(c, s)
      /\ Carried(c)' = Carried(c) /\ Sent(c)' = Sent(c)
  BY <1>2 DEF Stage, Passed, Carried, Sent
<1>4. upstream'[c] = <<sent>>
  <2>1. upstream'[c] = Append(upstream[c], sent)
    BY DEF Forward, Shape
  <2> HIDE DEF sent
  <2> QED
    BY <1>1, <2>1, AppendToNothing
<1>5. sent = Sent(c)
  BY <1>1 DEF Sent
<1> HIDE DEF sent
<1>6. upstream'[c] = <<Sent(c)>>
  BY <1>4, <1>5
<1> QED
  BY <1>1, <1>2, <1>3, <1>6 DEF Told

LEMMA DrainEndsTold ==
    ASSUME Shape, NEW c \in Conns, ConnInv(c), Told(c), DrainEnds(c)
    PROVE  Told(c)'
<1>1. /\ pc[c] = "draining" /\ pc'[c] = "done" /\ upstream'[c] = << >>
      /\ upstream[c] = << >> /\ mode' = mode
      /\ req'[c] = req[c] /\ stack'[c] = stack[c] /\ at'[c] = at[c]
      /\ reply'[c] = reply[c]
  BY DEF DrainEnds, Shape, ConnInv, OneReader
<1>2. Stage(c)' = Stage(c) /\ \A s : Passed(c, s)' <=> Passed(c, s)
  BY <1>1 DEF Stage, Passed
<1>3. LocalAnswer(c)' <=> LocalAnswer(c)
  BY <1>1, <1>2 DEF LocalAnswer
<1> QED
  BY <1>1, <1>2, <1>3 DEF Told

LEMMA UpstreamRepliesTold ==
    ASSUME Shape, NEW c \in Conns, ConnInv(c), Told(c),
           UpstreamAnswers(c) \/ UpstreamFails(c)
    PROVE  Told(c)'
<1>1. /\ pc[c] = "awaiting" /\ pc'[c] = "done" /\ mode' = mode
      /\ req'[c] = req[c] /\ stack'[c] = stack[c] /\ at'[c] = at[c]
      /\ upstream'[c] = upstream[c] /\ upstream[c] # << >>
  BY DEF UpstreamAnswers, UpstreamFails, Shape, ConnInv, OneReader
<1>2. RelayedAnswer(c)'
  <2>1. CASE UpstreamAnswers(c)
    <3>1. PICK answer \in Answers :
            reply' = [reply EXCEPT ![c] = relayed(answer)]
      BY <2>1 DEF UpstreamAnswers
    <3>2. reply'[c] = relayed(answer)
      BY <3>1 DEF Shape
    <3> QED
      BY <3>2 DEF RelayedAnswer
  <2>2. CASE UpstreamFails(c)
    <3>1. reply'[c] = BadGateway
      BY <2>2 DEF UpstreamFails, Shape, BadGateway
    <3> QED
      BY <3>1 DEF RelayedAnswer
  <2> QED
    BY <2>1, <2>2
<1>3. /\ Stage(c)' = Stage(c) /\ \A s : Passed(c, s)' <=> Passed(c, s)
      /\ Sent(c)' = Sent(c)
  BY <1>1 DEF Stage, Passed, Carried, Sent
<1> QED
  BY <1>1, <1>2, <1>3 DEF Told

LEMMA ForgetTold ==
    ASSUME Shape, NEW c \in Conns, Forget(c)
    PROVE  Told(c)'
<1>1. pc'[c] = "idle"
  BY DEF Forget, Shape
<1> QED
  BY <1>1 DEF Told

LEMMA LocalTold ==
    ASSUME Shape, NEW c \in Conns, ConnInv(c), Told(c), Local(c)
    PROVE  Told(c)'
<1>1. ASSUME NEW stage, Running(c, stage), stage # "forward"
      PROVE  /\ pc[c] = "running" /\ Stage(c) = stage
             /\ headers[c] = req[c].headers
  <2>1. pc[c] = "running" /\ Stage(c) = stage
    BY <1>1 DEF Running
  <2>2. headers[c] = Carried(c)
    BY <2>1 DEF Told
  <2> QED
    BY <1>1, <2>1, <2>2, CarriedIsTheCallers
<1>2. CASE RejectFeedPaths(c)
  <2>1. Running(c, "reject_feed_paths")
    BY <1>2 DEF RejectFeedPaths
  <2>2. pc[c] = "running" /\ Stage(c) = "reject_feed_paths"
    BY <2>1 DEF Running
  <2>3. CASE is_feed_path(req[c].path)
    BY <1>2, <2>2, <2>3, AnswerDrainedTold DEF RejectFeedPaths
  <2>4. CASE ~is_feed_path(req[c].path)
    BY <1>2, <2>2, <2>4, RunNextTold DEF RejectFeedPaths
  <2> QED
    BY <2>3, <2>4
<1>3. CASE RedirectNavigation(c)
  <2>1. Running(c, "redirect_navigation")
    BY <1>3 DEF RedirectNavigation
  <2>2. /\ pc[c] = "running" /\ Stage(c) = "redirect_navigation"
        /\ headers[c] = req[c].headers
    BY <1>1, <2>1
  <2>3. CASE is_navigation(headers[c])
    BY <1>3, <2>2, <2>3, AnswerDrainedTold DEF RedirectNavigation
  <2>4. CASE ~is_navigation(headers[c])
    BY <1>3, <2>2, <2>4, RunNextTold DEF RedirectNavigation
  <2> QED
    BY <2>3, <2>4
<1>4. CASE ForceApAccept(c)
  <2>1. /\ pc[c] = "running" /\ Stage(c) = "force_ap_accept" /\ RunNext(c)
        /\ headers'[c] = force_ap_accept(headers[c])
    BY <1>4 DEF ForceApAccept, Running, Shape
  <2> QED
    BY <2>1, RunNextTold
<1>5. CASE RedirectMedia(c)
  <2>1. Running(c, "redirect_media")
    BY <1>5 DEF RedirectMedia
  <2>2. /\ pc[c] = "running" /\ Stage(c) = "redirect_media"
        /\ headers[c] = req[c].headers
    BY <1>1, <2>1
  <2> DEFINE answer == media_answer(req[c], req[c].headers, mode)
  <2>3. IF answer # None THEN AnswerDrained(c, answer)
                         ELSE RunNext(c) /\ UNCHANGED headers
    BY <1>5, <2>2 DEF RedirectMedia
  <2>4. CASE answer # None
    BY <2>2, <2>3, <2>4, AnswerDrainedTold
  <2>5. CASE answer = None
    BY <2>2, <2>3, <2>5, RunNextTold
  <2> QED
    BY <2>4, <2>5
<1>6. CASE ServeHome(c)
  <2>1. PICK stage \in DOMAIN Served :
           Running(c, stage) /\ AnswerDrained(c, Served[stage])
    BY <1>6 DEF ServeHome
  <2>2. pc[c] = "running" /\ Stage(c) = stage
    BY <2>1 DEF Running
  <2> QED
    BY <2>1, <2>2, AnswerDrainedTold
<1>7. CASE NotFound(c)
  BY <1>7, AnswerDrainedTold DEF NotFound, Running
<1>8. CASE MethodNotAllowed(c)
  BY <1>8, AnswerDrainedTold DEF MethodNotAllowed, Running
<1>9. CASE Forward(c)
  BY <1>9, ForwardTold
<1>10. CASE DrainEnds(c)
  BY <1>10, DrainEndsTold
<1> QED
  BY <1>2, <1>3, <1>4, <1>5, <1>6, <1>7, <1>8, <1>9, <1>10 DEF Local

\* The invariant with what each connection has been told.
FullInv == IInv /\ \A c \in Conns : Told(c)

LEMMA InitFull == Init => FullInv
<1>1. Init => \A c \in Conns : Told(c)
  BY DEF Init, Told
<1> QED
  BY <1>1, InitInv DEF FullInv

LEMMA NextFull == FullInv /\ [Next]_vars => FullInv'
<1> SUFFICES ASSUME FullInv, [Next]_vars PROVE FullInv'
  OBVIOUS
<1>1. IInv'
  BY NextInv DEF FullInv
<1>2. CASE Next
  <2>1. PICK c \in Conns : Act(c)
    BY <1>2 DEF Next, Act
  <2>2. /\ Shape /\ ConnInv(c) /\ Told(c) /\ mode' = mode
        /\ \A d \in Conns \ {c} : KeptAt(d) /\ Told(d)
    BY <2>1, Others DEF FullInv, IInv
  <2>3. Told(c)'
    BY <2>1, <2>2, ArriveTold, LocalTold, UpstreamRepliesTold, ForgetTold
       DEF Act, Finish, CallerLeaves
  <2>4. \A d \in Conns \ {c} : Told(d)'
    BY <2>2, UntouchedTold
  <2> QED
    BY <1>1, <2>3, <2>4 DEF FullInv
<1>3. CASE UNCHANGED vars
  <2>1. mode' = mode /\ \A d \in Conns : KeptAt(d)
    BY <1>3 DEF vars, KeptAt
  <2>2. \A d \in Conns : Told(d)'
    BY <2>1, UntouchedTold DEF FullInv
  <2> QED
    BY <1>1, <2>2 DEF FullInv
<1> QED
  BY <1>2, <1>3

LEMMA FullInvHolds == Spec => []FullInv
  BY InitFull, NextFull, PTL DEF Spec

-----------------------------------------------------------------------------
(* What a request comes to, by the row of its path *)

\* A request that has an answer, or that Misskey was sent, has stopped at a
\* stage: one that answers, or forward.
LEMMA Stopped ==
    ASSUME NEW c \in Conns, ConnInv(c), Told(c), Done(c) \/ upstream[c] # << >>
    PROVE  /\ req[c] \in Requests /\ req[c].path \in Seq(STRING)
           /\ at[c] \in 1 .. Len(stack[c])
           /\ upstream[c] = << >> => LocalAnswer(c)
           /\ upstream[c] # << >> =>
                 /\ Stage(c) = "forward" /\ upstream[c] = <<Sent(c)>>
                 /\ ~is_feed_path(req[c].path)
           /\ upstream[c] # << >> /\ Done(c) => RelayedAnswer(c)
<1>1. pc[c] # "idle" /\ pc[c] \in {"awaiting", "done"}
  BY DEF ConnInv, Done
<1>2. OnItsWay(c)
  BY <1>1 DEF ConnInv
<1>3. upstream[c] # << >> => ~is_feed_path(req[c].path)
  BY <1>2 DEF ConnInv, OnItsWay
<1>4. pc[c] = "done" /\ upstream[c] = << >> => LocalAnswer(c)
  BY <1>1 DEF Told
<1>5. upstream[c] = << >> => pc[c] = "done"
  BY DEF Done
<1>6. upstream[c] # << >> =>
         Stage(c) = "forward" /\ upstream[c] = <<Sent(c)>>
  BY <1>1 DEF Told
<1>7. upstream[c] # << >> /\ Done(c) => RelayedAnswer(c)
  BY <1>1 DEF Told, Done
<1>8. at[c] \in 1 .. Len(stack[c]) /\ req[c] \in Requests
  BY <1>2 DEF OnItsWay
<1>9. req[c].path \in Seq(STRING)
  BY <1>8, RequestsAssumption
<1> QED
  BY <1>3, <1>4, <1>5, <1>6, <1>7, <1>8, <1>9

\* Its stack is the row's.
LEMMA StackIsTheRows ==
    ASSUME NEW c \in Conns, ConnInv(c), Told(c), Done(c) \/ upstream[c] # << >>,
           ~is_feed_path(req[c].path)
    PROVE  stack[c] = DocumentedStack(req[c].method, req[c].path)
<1>1. pc[c] # "idle"
  BY DEF ConnInv, Done
<1>2. req[c].path \in Seq(STRING)
  BY Stopped
<1> QED
  BY <1>1, <1>2, RouterIsTheTable DEF Told

LEMMA ServedStages == DOMAIN Served = {"index", "misskey_logo", "instance_icon"}
  BY DEF Served

\* Off the table: the plain 404, or the plain 405.
LEMMA UnlistedVerdict ==
    ASSUME NEW c \in Conns, ConnInv(c), Told(c), Done(c) \/ upstream[c] # << >>,
           ~Accepted(req[c])
    PROVE  /\ upstream[c] = << >>
           /\ reply[c] = Bare(IF AllowedMethods(req[c].path) = {}
                              THEN 404 ELSE 405)
<1> DEFINE r == req[c]
<1>1. /\ r.path \in Seq(STRING) /\ at[c] \in 1 .. Len(stack[c])
      /\ upstream[c] = << >> => LocalAnswer(c)
      /\ upstream[c] # << >> => Stage(c) = "forward" /\ ~is_feed_path(r.path)
  BY Stopped
<1>2. CASE is_feed_path(r.path)
  <2>1. AllowedMethods(r.path) = {} /\ upstream[c] = << >> /\ LocalAnswer(c)
    BY <1>1, <1>2, FeedsAreUnlisted
  <2>2. at[c] = 1
    BY <1>2, <2>1 DEF ConnInv, OnItsWay, Done
  <2>3. Stage(c) \in {"not_found", "reject_feed_paths"}
    <3>1. OnItsWay(c)
      BY <2>1 DEF ConnInv, Done
    <3> QED
      BY <2>2, <3>1, StageType
  <2>4. reply[c] = Bare(404)
    BY <2>1, <2>3, ServedStages DEF LocalAnswer
  <2> QED
    BY <2>1, <2>4
<1>3. CASE ~is_feed_path(r.path) /\ AllowedMethods(r.path) = {}
  <2>1. stack[c] = <<"not_found">>
    BY <1>3, StackIsTheRows DEF DocumentedStack
  <2>2. at[c] = 1 /\ Stage(c) = "not_found"
    BY <1>1, <2>1 DEF Stage
  <2>3. upstream[c] = << >> /\ reply[c] = Bare(404)
    BY <1>1, <2>2, ServedStages DEF LocalAnswer
  <2> QED
    BY <1>3, <2>3
<1>4. CASE ~is_feed_path(r.path) /\ AllowedMethods(r.path) # {}
  <2>1. stack[c] = <<"reject_feed_paths", "method_not_allowed">>
    BY <1>4, StackIsTheRows DEF DocumentedStack, Refused405, Accepted
  <2>2. Stage(c) \in {"reject_feed_paths", "method_not_allowed"}
    BY <1>1, <2>1 DEF Stage
  <2>3. upstream[c] = << >> /\ reply[c] = Bare(405)
    BY <1>1, <1>4, <2>2, ServedStages DEF LocalAnswer
  <2> QED
    BY <1>4, <2>3
<1> QED
  BY <1>2, <1>3, <1>4

\* An accepted request has the stack of its path, and is no feed.
LEMMA ListedStack ==
    ASSUME NEW c \in Conns, ConnInv(c), Told(c), Done(c) \/ upstream[c] # << >>,
           Accepted(req[c])
    PROVE  /\ stack[c] = StackOf(req[c].path)
           /\ ~is_feed_path(req[c].path)
<1>1. ~is_feed_path(req[c].path)
  BY Stopped, FeedsAreUnlisted DEF Accepted
<1> QED
  BY <1>1, StackIsTheRows DEF DocumentedStack, Accepted

LEMMA HomeVerdict ==
    ASSUME NEW c \in Conns, ConnInv(c), Told(c), Done(c) \/ upstream[c] # << >>,
           Accepted(req[c]), HomePath(req[c].path)
    PROVE  /\ upstream[c] = << >>
           /\ \E h \in DOMAIN Served : reply[c] = Served[h]
<1>1. ~is_feed_path(req[c].path)
  BY ListedStack
<1>2. PICK h \in DOMAIN Served : stack[c] = <<"reject_feed_paths", h>>
  BY ListedStack, Stopped, StackIs DEF HomeStack
<1>3. at[c] \in 1 .. Len(stack[c])
  BY Stopped
<1>4. Stage(c) \in {"reject_feed_paths", h}
  BY <1>2, <1>3 DEF Stage
<1>5. h \in {"index", "misskey_logo", "instance_icon"}
  BY ServedStages
<1>6. Stage(c) # "forward"
  BY <1>4, <1>5
<1>7. upstream[c] = << >> /\ LocalAnswer(c)
  BY <1>6, Stopped
<1> QED
  BY <1>1, <1>4, <1>5, <1>7 DEF LocalAnswer

\* A federation path: a page load is sent to the landing page, and anything
\* else to Misskey, through the gate where the path has one.
LEMMA FederationVerdict ==
    ASSUME NEW c \in Conns, ConnInv(c), Told(c), Done(c) \/ upstream[c] # << >>,
           Accepted(req[c]),
           PlainPath(req[c].path) \/ GatedPath(req[c].path)
    PROVE  /\ upstream[c] = << >> =>
                 is_navigation(req[c].headers) /\ reply[c] = Found("home")
           /\ upstream[c] # << >> =>
                 /\ ~is_navigation(req[c].headers)
                 /\ GatedPath(req[c].path) <=> Passed(c, "force_ap_accept")
<1>1. /\ stack[c] = StackOf(req[c].path) /\ ~is_feed_path(req[c].path)
      /\ req[c].path \in Seq(STRING) /\ at[c] \in 1 .. Len(stack[c])
  BY ListedStack, Stopped
<1>2. Passed(c, "redirect_navigation") => ~is_navigation(req[c].headers)
  BY DEF Told, ConnInv, Done
<1>3. CASE GatedPath(req[c].path)
  <2>1. stack[c] = GatedStack
    BY <1>1, <1>3, StackIs
  <2>2. Len(stack[c]) = 4 /\ stack[c][1] = "reject_feed_paths"
        /\ stack[c][2] = "redirect_navigation"
        /\ stack[c][3] = "force_ap_accept" /\ stack[c][4] = "forward"
    BY <2>1 DEF GatedStack
  <2>3. at[c] \in {1, 2, 3, 4}
    BY <1>1, <2>2
  <2>4. CASE upstream[c] = << >>
    <3>1. LocalAnswer(c) /\ Stage(c) = "redirect_navigation"
      BY <1>1, <2>2, <2>3, <2>4, Stopped, ServedStages DEF LocalAnswer, Stage
    <3> QED
      BY <2>4, <3>1, ServedStages DEF LocalAnswer
  <2>5. CASE upstream[c] # << >>
    <3>1. at[c] = 4
      BY <2>2, <2>3, <2>5, Stopped DEF Stage
    <3>2. 2 \in 1 .. at[c] - 1 /\ 3 \in 1 .. at[c] - 1
      BY <3>1
    <3>3. Passed(c, "redirect_navigation") /\ Passed(c, "force_ap_accept")
      BY <2>2, <3>2 DEF Passed
    <3> QED
      BY <1>2, <1>3, <2>5, <3>3
  <2> QED
    BY <2>4, <2>5
<1>4. CASE PlainPath(req[c].path)
  <2>1. stack[c] = PlainStack /\ ~GatedPath(req[c].path)
    BY <1>1, <1>4, StackIs, Kinds
  <2>2. Len(stack[c]) = 3 /\ stack[c][1] = "reject_feed_paths"
        /\ stack[c][2] = "redirect_navigation" /\ stack[c][3] = "forward"
    BY <2>1 DEF PlainStack
  <2>3. at[c] \in {1, 2, 3}
    BY <1>1, <2>2
  <2>4. CASE upstream[c] = << >>
    <3>1. LocalAnswer(c) /\ Stage(c) = "redirect_navigation"
      BY <1>1, <2>2, <2>3, <2>4, Stopped, ServedStages DEF LocalAnswer, Stage
    <3> QED
      BY <2>4, <3>1, ServedStages DEF LocalAnswer
  <2>5. CASE upstream[c] # << >>
    <3>1. at[c] = 3
      BY <2>2, <2>3, <2>5, Stopped DEF Stage
    <3>2. 2 \in 1 .. at[c] - 1 /\ 1 .. at[c] - 1 = {1, 2}
      BY <3>1
    <3>3. Passed(c, "redirect_navigation") /\ ~Passed(c, "force_ap_accept")
      BY <2>2, <3>2 DEF Passed
    <3> QED
      BY <1>2, <2>1, <2>5, <3>3
  <2> QED
    BY <2>4, <2>5
<1> QED
  BY <1>3, <1>4

\* Media: what media_answer says, and Misskey when it says nothing.
LEMMA MediaVerdict ==
    ASSUME NEW c \in Conns, ConnInv(c), Told(c), Done(c) \/ upstream[c] # << >>,
           Accepted(req[c]), MediaPath(req[c].path)
    PROVE  LET answer == media_answer(req[c], req[c].headers, mode) IN
           /\ upstream[c] = << >> => answer # None /\ reply[c] = answer
           /\ upstream[c] # << >> =>
                 answer = None /\ ~Passed(c, "force_ap_accept")
<1> DEFINE answer == media_answer(req[c], req[c].headers, mode)
<1>1. /\ stack[c] = StackOf(req[c].path) /\ ~is_feed_path(req[c].path)
      /\ req[c].path \in Seq(STRING) /\ at[c] \in 1 .. Len(stack[c])
  BY ListedStack, Stopped
<1>2. Passed(c, "redirect_media") => answer = None
  BY DEF Told, ConnInv, Done
<1>3. stack[c] = MediaStack
  BY <1>1, StackIs
<1>4. Len(stack[c]) = 3 /\ stack[c][1] = "reject_feed_paths"
      /\ stack[c][2] = "redirect_media" /\ stack[c][3] = "forward"
  BY <1>3 DEF MediaStack
<1>5. at[c] \in {1, 2, 3}
  BY <1>1, <1>4
<1>6. CASE upstream[c] = << >>
  <2>1. LocalAnswer(c) /\ Stage(c) = "redirect_media"
    BY <1>1, <1>4, <1>5, <1>6, Stopped, ServedStages DEF LocalAnswer, Stage
  <2> QED
    BY <1>6, <2>1, ServedStages DEF LocalAnswer
<1>7. CASE upstream[c] # << >>
  <2>1. at[c] = 3
    BY <1>4, <1>5, <1>7, Stopped DEF Stage
  <2>2. 2 \in 1 .. at[c] - 1 /\ 1 .. at[c] - 1 = {1, 2}
    BY <2>1
  <2>3. Passed(c, "redirect_media") /\ ~Passed(c, "force_ap_accept")
    BY <1>4, <2>2 DEF Passed
  <2> QED
    BY <1>2, <1>7, <2>3
<1> QED
  BY <1>6, <1>7

LEMMA IdenticonVerdict ==
    ASSUME NEW c \in Conns, ConnInv(c), Told(c), Done(c) \/ upstream[c] # << >>,
           Accepted(req[c]), IdenticonPath(req[c].path)
    PROVE  upstream[c] # << >> /\ ~Passed(c, "force_ap_accept")
<1>1. /\ stack[c] = StackOf(req[c].path) /\ ~is_feed_path(req[c].path)
      /\ req[c].path \in Seq(STRING) /\ at[c] \in 1 .. Len(stack[c])
  BY ListedStack, Stopped
<1>2. stack[c] = IdenticonStack
  BY <1>1, StackIs
<1>3. Len(stack[c]) = 2 /\ stack[c][1] = "reject_feed_paths"
      /\ stack[c][2] = "forward"
  BY <1>2 DEF IdenticonStack
<1>4. at[c] \in {1, 2}
  BY <1>1, <1>3
<1>5. Stage(c) \in {"reject_feed_paths", "forward"}
  BY <1>3, <1>4 DEF Stage
<1>6. upstream[c] # << >>
  BY <1>1, <1>5, Stopped, ServedStages DEF LocalAnswer
<1>7. 1 .. at[c] - 1 \subseteq {1}
  BY <1>4
<1> QED
  BY <1>3, <1>6, <1>7 DEF Passed

\* The table is what it is made of.
LEMMA Rows ==
    ASSUME NEW path \in Seq(STRING), AllowedMethods(path) # {}
    PROVE  /\ \/ HomePath(path) \/ MediaPath(path) \/ IdenticonPath(path)
              \/ PlainPath(path) \/ GatedPath(path)
           /\ FederationPath(path) <=> PlainPath(path) \/ GatedPath(path)
           /\ IdenticonPath(path) => ~HomePath(path) /\ ~MediaPath(path)
           /\ MediaPath(path) => ~HomePath(path)
<1>1. \/ HomePath(path) \/ MediaPath(path) \/ IdenticonPath(path)
      \/ PlainPath(path) \/ GatedPath(path)
  BY Allowed DEF ReadPath, IdenticonPath, PlainPath
<1>2. GatedPath(path) => path[1] # "identicon"
  BY AcctSegmentsAssumption DEF GatedPath
<1> QED
  BY <1>1, <1>2, Kinds DEF FederationPath, IdenticonPath

-----------------------------------------------------------------------------
(* What the answers carry *)

LEMMA FoundFields ==
    ASSUME NEW l
    PROVE  Found(l).location = l /\ Found(l).body = "empty"
  BY DEF Found, no_store, Reply

LEMMA BareFields ==
    ASSUME NEW s
    PROVE  /\ Bare(s).location = "none" /\ Bare(s).body = "empty"
           /\ no_store(Bare(s)).location = "none"
           /\ no_store(Bare(s)).body = "empty"
  BY DEF Bare, no_store, Reply

LEMMA ServedFields ==
    ASSUME NEW h \in DOMAIN Served
    PROVE  /\ Served[h].location = "none"
           /\ Served[h].body \in {"index", "misskey_logo", "instance_icon"}
  BY DEF Served, Reply

\* Misskey's answer is passed on without its connection's fields, unless it
\* is a page.
LEMMA RelayedFields ==
    ASSUME NEW a \in Answers
    PROVE  /\ relayed(a).location = "none"
           /\ relayed(a).body \in {"not found", "misskey data"}
           /\ relayed(a).body = "misskey data" =>
                 /\ relayed(a).status = a.status
                 /\ DOMAIN relayed(a).headers =
                       DOMAIN a.headers \ (HOP_BY_HOP \cup Nominated(a.headers))
<1> DEFINE h == sanitize_response(a.headers)
           data == Reply(a.status, "none", "none",
                         IF a.page THEN "misskey page" ELSE "misskey data")
<1>1. is_html(h) <=> is_html(a.headers)
  BY AnswersAssumption, PageIsSeenAfterSanitizing
<1>2. DOMAIN h = DOMAIN a.headers \ (HOP_BY_HOP \cup Nominated(a.headers))
  BY DEF sanitize_response, strip_hop_by_hop, Without, Restrict
<1>3. relayed(a) = IF is_html(h) THEN Reply(404, "none", "none", "not found")
                   ELSE [data EXCEPT !.headers = h]
  BY DEF relayed
<1>4. CASE is_html(h)
  <2>1. relayed(a) = Reply(404, "none", "none", "not found")
    BY <1>3, <1>4
  <2> DEFINE refused == Reply(404, "none", "none", "not found")
  <2>2. refused.location = "none" /\ refused.body = "not found"
    BY DEF Reply
  <2>3. relayed(a) = refused
    BY <2>1
  <2> HIDE DEF h, data, refused
  <2>4. relayed(a).location = "none" /\ relayed(a).body = "not found"
    BY <2>2, <2>3
  <2> QED
    BY <2>4
<1>5. CASE ~is_html(h)
  <2>1. ~a.page
    BY <1>1, <1>5, AnswersAssumption DEF is_html
  <2>2. data = Reply(a.status, "none", "none", "misskey data")
    BY <2>1
  <2>3. relayed(a) = [data EXCEPT !.headers = h]
    BY <1>3, <1>5
  <2> HIDE DEF h, data
  <2>4. /\ relayed(a).location = "none" /\ relayed(a).status = a.status
        /\ relayed(a).body = "misskey data" /\ relayed(a).headers = h
    BY <2>2, <2>3 DEF Reply
  <2> QED
    BY <1>2, <2>4
<1> QED
  BY <1>4, <1>5

LEMMA UpstreamReplyFields ==
    ASSUME NEW c \in Conns, RelayedAnswer(c)
    PROVE  /\ reply[c].location = "none"
           /\ reply[c].body # "misskey page"
           /\ reply[c].body = "misskey data" =>
                 \E answer \in Answers :
                    /\ reply[c].status = answer.status
                    /\ DOMAIN reply[c].headers = DOMAIN answer.headers \
                          (HOP_BY_HOP \cup Nominated(answer.headers))
<1>1. CASE reply[c] = BadGateway
  <2>1. /\ BadGateway.location = "none"
        /\ BadGateway.body = "upstream unavailable"
    BY DEF BadGateway, Reply
  <2> QED
    BY <1>1, <2>1
<1>2. CASE \E answer \in Answers : reply[c] = relayed(answer)
  BY <1>2, RelayedFields
<1> QED
  BY <1>1, <1>2 DEF RelayedAnswer

\* The table of README.md ("Media mode").
LEMMA MediaAnswers ==
    ASSUME NEW r, NEW h, NEW m \in {"proxy", "redirect"}
    PROVE  /\ referer_is_internal(h) /\ path_is_safe(r.path) =>
                 media_answer(r, h, m) = Found("internal")
           /\ referer_is_internal(h) /\ ~path_is_safe(r.path) =>
                 media_answer(r, h, m) = no_store(Bare(404))
           /\ ~referer_is_internal(h) /\ m = "proxy" =>
                 media_answer(r, h, m) = None
           /\ ~referer_is_internal(h) /\ m = "redirect" =>
                 media_answer(r, h, m) =
                    IF r.path[1] # "files" /\ r.url = "allowed"
                    THEN Found("original") ELSE no_store(Bare(404))
  BY DEF media_answer

LEMMA MediaIsAnsweredHere ==
    ASSUME NEW r, NEW h, NEW m \in {"proxy", "redirect"}
    PROVE  media_answer(r, h, m) # None <=>
              m = "redirect" \/ referer_is_internal(h)
<1>1. m = "proxy" => m # "redirect"
  OBVIOUS
<1>2. CASE referer_is_internal(h)
  BY <1>2, MediaAnswers, NoneAssumption
<1>3. CASE ~referer_is_internal(h)
  BY <1>1, <1>3, MediaAnswers, NoneAssumption
<1> QED
  BY <1>2, <1>3

\* Whether Misskey was asked, row by row.
LEMMA AskedVerdict ==
    ASSUME FullInv, NEW c \in Conns, Done(c) \/ upstream[c] # << >>
    PROVE  upstream[c] = << >> <=> AnsweredHere(req[c], mode)
<1> DEFINE path == req[c].path
<1>1. ConnInv(c) /\ Told(c) /\ mode \in {"proxy", "redirect"}
  BY DEF FullInv, IInv
<1>2. CASE ~Accepted(req[c])
  BY <1>1, <1>2, UnlistedVerdict DEF AnsweredHere
<1>3. CASE Accepted(req[c])
  <2>1. path \in Seq(STRING) /\ AllowedMethods(path) # {}
    BY <1>1, <1>3, Stopped DEF Accepted
  <2>2. CASE HomePath(path)
    BY <1>1, <1>3, <2>2, HomeVerdict DEF AnsweredHere
  <2>3. CASE MediaPath(path)
    <3>1. ~HomePath(path) /\ ~FederationPath(path)
      BY <2>1, <2>3, Rows DEF FederationPath
    <3>2. upstream[c] = << >> <=>
            media_answer(req[c], req[c].headers, mode) # None
      BY <1>1, <1>3, <2>3, MediaVerdict
    <3> QED
      BY <1>1, <1>3, <2>3, <3>1, <3>2, MediaIsAnsweredHere DEF AnsweredHere
  <2>4. CASE PlainPath(path) \/ GatedPath(path)
    <3>1. ~HomePath(path) /\ ~MediaPath(path) /\ FederationPath(path)
      BY <2>1, <2>4, Rows, Kinds
    <3>2. upstream[c] = << >> <=> is_navigation(req[c].headers)
      BY <1>1, <1>3, <2>4, FederationVerdict
    <3> QED
      BY <1>3, <3>1, <3>2 DEF AnsweredHere
  <2>5. CASE IdenticonPath(path)
    <3>1. ~HomePath(path) /\ ~MediaPath(path) /\ ~FederationPath(path)
      BY <2>1, <2>5, Rows DEF FederationPath, IdenticonPath
    <3> QED
      BY <1>1, <1>3, <2>5, <3>1, IdenticonVerdict DEF AnsweredHere
  <2> QED
    BY <2>1, <2>2, <2>3, <2>4, <2>5, Rows
<1> QED
  BY <1>2, <1>3

-----------------------------------------------------------------------------

\* For any requests, answers and accounts, Misskey is sent a request exactly
\* when its method and path are of the documented table and the proxy has no
\* answer of its own, and the target is the one the caller wrote.
THEOREM AllowlistIsExact == Spec => []ExactlyTheAllowlistReachesMisskey
<1>1. FullInv => ExactlyTheAllowlistReachesMisskey
  <2> SUFFICES ASSUME FullInv, NEW c \in Conns
               PROVE  /\ upstream[c] # << >> =>
                            /\ Accepted(req[c])
                            /\ upstream[c][1].method = req[c].method
                            /\ upstream[c][1].path = req[c].path
                      /\ Done(c) =>
                            (upstream[c] = << >> <=> AnsweredHere(req[c], mode))
    BY DEF ExactlyTheAllowlistReachesMisskey
  <2>1. ConnInv(c) /\ Told(c)
    BY DEF FullInv, IInv
  <2>2. ASSUME upstream[c] # << >>
        PROVE  Accepted(req[c]) /\ upstream[c] = <<Sent(c)>>
    BY <2>1, <2>2, UnlistedVerdict, Stopped
  <2>3. upstream[c] # << >> =>
           /\ upstream[c][1].method = req[c].method
           /\ upstream[c][1].path = req[c].path
    BY <2>2 DEF Sent
  <2> QED
    BY <2>2, <2>3, AskedVerdict
<1> QED
  BY <1>1, FullInvHolds, PTL

\* Off the table there is the fallback's plain 404, or the plain 405 where
\* only the method is wrong, whatever the headers say.
THEOREM RefusalsArePlain == Spec => []UnlistedIsPlainlyRefused
<1>1. FullInv => UnlistedIsPlainlyRefused
  BY UnlistedVerdict DEF FullInv, IInv, UnlistedIsPlainlyRefused
<1> QED
  BY <1>1, FullInvHolds, PTL

\* What Misskey was sent, by the row of the path.
LEMMA SentBlock ==
    ASSUME FullInv, NEW c \in Conns, upstream[c] # << >>
    PROVE  upstream[c][1].headers =
              sanitize_request(IF GatedPath(req[c].path)
                               THEN force_ap_accept(req[c].headers)
                               ELSE req[c].headers)
<1> DEFINE path == req[c].path
<1>1. ConnInv(c) /\ Told(c)
  BY DEF FullInv, IInv
<1>2. Accepted(req[c]) /\ upstream[c] = <<Sent(c)>> /\ path \in Seq(STRING)
  BY <1>1, UnlistedVerdict, Stopped
<1>3. AllowedMethods(path) # {}
  BY <1>2 DEF Accepted
<1>4. Passed(c, "force_ap_accept") <=> GatedPath(path)
  <2>1. CASE HomePath(path)
    BY <1>1, <1>2, <2>1, HomeVerdict
  <2>2. CASE MediaPath(path)
    BY <1>1, <1>2, <2>2, MediaVerdict, Kinds
  <2>3. CASE PlainPath(path) \/ GatedPath(path)
    BY <1>1, <1>2, <2>3, FederationVerdict
  <2>4. CASE IdenticonPath(path)
    BY <1>1, <1>2, <2>4, IdenticonVerdict, Kinds
  <2> QED
    BY <1>2, <1>3, <2>1, <2>2, <2>3, <2>4, Rows
<1>5. upstream[c][1].headers = sanitize_request(Carried(c))
  BY <1>2 DEF Sent
<1> QED
  BY <1>4, <1>5 DEF Carried

\* On the dual-purpose paths Misskey is asked for AP JSON and nothing else,
\* whatever the caller's Accept and Connection fields are.
THEOREM GateIsNeverBypassed == Spec => []GatedPathsAskForApJson
<1>1. FullInv => GatedPathsAskForApJson
  <2> SUFFICES ASSUME FullInv, NEW c \in Conns, upstream[c] # << >>,
                      GatedPath(req[c].path)
               PROVE  /\ "accept" \in DOMAIN upstream[c][1].headers
                      /\ upstream[c][1].headers["accept"] = <<AP_JSON>>
    BY DEF GatedPathsAskForApJson
  <2>1. upstream[c][1].headers =
           sanitize_request(force_ap_accept(req[c].headers))
    BY SentBlock
  <2> QED
    BY <2>1, GateSurvivesForward
<1> QED
  BY <1>1, FullInvHolds, PTL

\* Misskey sees the caller's block less the connection-specific, forwarding,
\* override and nominated fields, with every value as it came.
THEOREM SentBlockIsExact == Spec => []HeaderBlockIsExact
<1>1. FullInv => HeaderBlockIsExact
  <2> SUFFICES ASSUME FullInv, NEW c \in Conns, upstream[c] # << >>
               PROVE  LET sent == upstream[c][1].headers
                          came == req[c].headers
                          gate == IF GatedPath(req[c].path)
                                  THEN {"accept"} ELSE {}
                      IN /\ DOMAIN sent \ gate =
                              DOMAIN came \ (HOP_BY_HOP \cup FORWARDING
                                 \cup gate \cup ROUTING_OVERRIDES
                                 \cup Nominated(came))
                         /\ \A n \in DOMAIN sent \ gate : sent[n] = came[n]
    BY DEF HeaderBlockIsExact
  <2> DEFINE sent == upstream[c][1].headers
             came == req[c].headers
  <2>1. CASE GatedPath(req[c].path)
    <3>1. sent = sanitize_request(force_ap_accept(came))
      BY <2>1, SentBlock
    <3> HIDE DEF sent, came
    <3>2. /\ DOMAIN sent = (DOMAIN came \ (Forbidden \cup Nominated(came)))
                              \cup {"accept"}
          /\ \A n \in DOMAIN sent \ {"accept"} : sent[n] = came[n]
      BY <3>1, GateSurvivesForward
    <3>3. DOMAIN sent \ {"accept"} =
             DOMAIN came \ (HOP_BY_HOP \cup FORWARDING \cup {"accept"}
                            \cup ROUTING_OVERRIDES \cup Nominated(came))
      BY <3>2 DEF Forbidden
    <3> QED
      BY <2>1, <3>2, <3>3 DEF sent, came
  <2>2. CASE ~GatedPath(req[c].path)
    <3>1. sent = sanitize_request(came)
      BY <2>2, SentBlock
    <3> HIDE DEF sent, came
    <3>2. /\ DOMAIN sent = DOMAIN came \ (Forbidden \cup Nominated(came))
          /\ \A n \in DOMAIN sent : sent[n] = came[n]
      BY <3>1, SanitizeRemoves
    <3>3. DOMAIN sent \ {} =
             DOMAIN came \ (HOP_BY_HOP \cup FORWARDING \cup {}
                            \cup ROUTING_OVERRIDES \cup Nominated(came))
      BY <3>2 DEF Forbidden
    <3> QED
      BY <2>2, <3>2, <3>3 DEF sent, came
  <2> QED
    BY <2>1, <2>2
<1> QED
  BY <1>1, FullInvHolds, PTL

\* Media answers as the table of README.md says, in either mode and for any
\* Referer: nobody but an insider learns the internal location, and redirect
\* mode forwards nothing.
THEOREM MediaIsAnsweredByItsTable == Spec => []MediaFollowsItsTable
<1>1. FullInv => MediaFollowsItsTable
  <2> SUFFICES ASSUME FullInv, NEW c \in Conns, Done(c), Accepted(req[c]),
                      MediaPath(req[c].path)
               PROVE  LET internal == referer_is_internal(req[c].headers) IN
                      /\ upstream[c] # << >> <=> (mode = "proxy" /\ ~internal)
                      /\ reply[c].location = "internal" <=>
                            internal /\ path_is_safe(req[c].path)
                      /\ reply[c].location = "original" <=>
                            /\ mode = "redirect" /\ ~internal
                            /\ req[c].path[1] = "proxy"
                            /\ req[c].url = "allowed"
    BY DEF MediaFollowsItsTable
  <2> DEFINE internal == referer_is_internal(req[c].headers)
             answer == media_answer(req[c], req[c].headers, mode)
             allowed == req[c].path[1] = "proxy" /\ req[c].url = "allowed"
  <2>1. ConnInv(c) /\ Told(c) /\ mode \in {"proxy", "redirect"}
    BY DEF FullInv, IInv
  <2>2. /\ upstream[c] = << >> => answer # None /\ reply[c] = answer
        /\ upstream[c] # << >> => answer = None
    BY <2>1, MediaVerdict
  <2>3. answer # None <=> mode = "redirect" \/ internal
    BY <2>1, MediaIsAnsweredHere
  <2>4. req[c].path[1] # "files" <=> req[c].path[1] = "proxy"
    BY DEF MediaPath
  <2>5. CASE upstream[c] # << >>
    <3>1. reply[c].location = "none"
      BY <2>1, <2>5, Stopped, UpstreamReplyFields
    <3> QED
      BY <2>1, <2>2, <2>3, <2>5, <3>1
  <2>6. CASE upstream[c] = << >> /\ internal
    <3>1. answer = IF path_is_safe(req[c].path) THEN Found("internal")
                   ELSE no_store(Bare(404))
      BY <2>1, <2>6, MediaAnswers
    <3>2. reply[c].location = IF path_is_safe(req[c].path) THEN "internal"
                              ELSE "none"
      BY <2>2, <2>6, <3>1, FoundFields, BareFields
    <3> QED
      BY <2>6, <3>2
  <2>7. CASE upstream[c] = << >> /\ ~internal
    <3>1. mode = "redirect"
      BY <2>2, <2>3, <2>7
    <3>2. answer = IF allowed THEN Found("original") ELSE no_store(Bare(404))
      BY <2>1, <2>4, <2>7, <3>1, MediaAnswers
    <3>3. reply[c].location = IF allowed THEN "original" ELSE "none"
      BY <2>2, <2>7, <3>2, FoundFields, BareFields
    <3> QED
      BY <2>7, <3>1, <3>3
  <2> QED
    BY <2>5, <2>6, <2>7
<1> QED
  BY <1>1, FullInvHolds, PTL

\* A page load of an ActivityPub or discovery route ends on the landing page,
\* and no other request is sent there.
THEOREM PageLoadsGoHome == Spec => []PageLoadsLandOnHome
<1>1. FullInv => PageLoadsLandOnHome
  <2> SUFFICES ASSUME FullInv, NEW c \in Conns, Done(c), Accepted(req[c])
               PROVE  reply[c].location = "home" <=>
                         FederationPath(req[c].path)
                            /\ is_navigation(req[c].headers)
    BY DEF PageLoadsLandOnHome
  <2> DEFINE path == req[c].path
  <2>1. ConnInv(c) /\ Told(c) /\ mode \in {"proxy", "redirect"}
    BY DEF FullInv, IInv
  <2>2. path \in Seq(STRING) /\ AllowedMethods(path) # {}
    BY <2>1, Stopped DEF Accepted
  <2>3. upstream[c] # << >> => reply[c].location = "none"
    BY <2>1, Stopped, UpstreamReplyFields
  <2>4. CASE HomePath(path)
    <3>1. reply[c].location = "none"
      BY <2>1, <2>4, HomeVerdict, ServedFields
    <3> QED
      BY <2>4, <3>1 DEF FederationPath
  <2>5. CASE MediaPath(path)
    <3>1. reply[c].location # "home"
      <4>1. CASE upstream[c] = << >>
        <5> DEFINE answer == media_answer(req[c], req[c].headers, mode)
        <5>1. reply[c] = answer /\ answer # None
          BY <2>1, <2>5, <4>1, MediaVerdict
        <5>2. answer \in {Found("internal"), Found("original"),
                          no_store(Bare(404))}
          BY <2>1, <5>1, MediaAnswers
        <5> QED
          BY <5>1, <5>2, FoundFields, BareFields
      <4> QED
        BY <2>3, <4>1
    <3> QED
      BY <2>5, <3>1 DEF FederationPath
  <2>6. CASE PlainPath(path) \/ GatedPath(path)
    <3>1. FederationPath(path)
      BY <2>2, <2>6, Rows
    <3>2. /\ upstream[c] = << >> =>
                is_navigation(req[c].headers) /\ reply[c] = Found("home")
          /\ upstream[c] # << >> => ~is_navigation(req[c].headers)
      BY <2>1, <2>6, FederationVerdict
    <3> QED
      BY <2>3, <3>1, <3>2, FoundFields
  <2>7. CASE IdenticonPath(path)
    <3>1. upstream[c] # << >>
      BY <2>1, <2>7, IdenticonVerdict
    <3> QED
      BY <2>3, <2>7, <3>1 DEF FederationPath, IdenticonPath
  <2> QED
    BY <2>2, <2>4, <2>5, <2>6, <2>7, Rows
<1> QED
  BY <1>1, FullInvHolds, PTL

\* The bodies of the proxy's own answers are none of Misskey's.
LEMMA LocalBodies ==
    ASSUME NEW c \in Conns, LocalAnswer(c), mode \in {"proxy", "redirect"}
    PROVE  reply[c].body \in {"empty", "index", "misskey_logo", "instance_icon"}
<1> DEFINE answer == media_answer(req[c], req[c].headers, mode)
<1>1. answer # None => answer \in {Found("internal"), Found("original"),
                                   no_store(Bare(404))}
  BY MediaAnswers
<1>2. \A h \in DOMAIN Served :
         Served[h].body \in {"index", "misskey_logo", "instance_icon"}
  BY ServedFields
<1>3. Found("home").body = "empty" /\ Bare(404).body = "empty"
      /\ Bare(405).body = "empty"
  BY FoundFields, BareFields
<1>4. answer # None => answer.body = "empty"
  BY <1>1, FoundFields, BareFields
<1> HIDE DEF answer
<1> QED
  BY <1>2, <1>3, <1>4 DEF LocalAnswer, answer

LEMMA AnswerBodies ==
    ASSUME FullInv, NEW c \in Conns, Done(c)
    PROVE  /\ reply[c].body # "misskey page"
           /\ reply[c].body = "misskey data" => RelayedAnswer(c)
<1>1. ConnInv(c) /\ Told(c) /\ mode \in {"proxy", "redirect"}
  BY DEF FullInv, IInv
<1>2. CASE upstream[c] = << >>
  <2>1. reply[c].body \in {"empty", "index", "misskey_logo", "instance_icon"}
    BY <1>1, <1>2, Stopped, LocalBodies
  <2> QED
    BY <2>1
<1>3. CASE upstream[c] # << >>
  BY <1>1, <1>3, Stopped, UpstreamReplyFields
<1> QED
  BY <1>2, <1>3

\* No page of Misskey's is relayed, by any route.
THEOREM PagesStayAtMisskey == Spec => []NoMisskeyPageIsRelayed
<1>1. FullInv => NoMisskeyPageIsRelayed
  BY AnswerBodies DEF NoMisskeyPageIsRelayed
<1> QED
  BY <1>1, FullInvHolds, PTL

\* What is relayed is an answer of Misskey's less the fields of its
\* connection, and nothing else is lost.
THEOREM RelayedBlockIsExact == Spec => []ResponseBlockIsExact
<1>1. FullInv => ResponseBlockIsExact
  BY AnswerBodies, UpstreamReplyFields DEF ResponseBlockIsExact
<1> QED
  BY <1>1, FullInvHolds, PTL

-----------------------------------------------------------------------------
(* The shared cache: the proxy keeps its own invariant behind it; what it   *)
(* stores follows from that.                                               *)

\* What an answer must be, to be handed to any caller who asks for `r`.
Lendable(entry, r) ==
    /\ entry.reply.location = "none"
    /\ entry.own => ~Accepted(r) \/ HomePath(r.path)

CacheShape ==
    /\ cache = [u \in URLs |-> cache[u]]
    /\ got = [c \in Conns |-> got[c]]

Stored ==
    \A u \in URLs : cache[u] # None =>
        \A r \in Requests :
            Storable(r) /\ URL(r) = u => Lendable(cache[u], r)

Lent == \A c \in Conns : got[c] # None => Lendable(got[c].answer, got[c].req)

CacheInv == FullInv /\ CacheShape /\ Stored /\ Lent

-----------------------------------------------------------------------------
(* Which answers of the proxy a cache may keep *)

\* What tells one caller from another is never kept.
LEMMA NeverKept ==
    ASSUME NEW l
    PROVE  Found(l).cache = "no-store"
  BY DEF Found, no_store, Reply

LEMMA RefusalNeverKept == no_store(Bare(404)).cache = "no-store"
  BY DEF Bare, no_store, Reply

\* An answer that may be kept sends nobody elsewhere, and is Misskey's, or
\* the same for every caller: a refusal off the table or a file of the
\* landing page.
LEMMA KeptAnswers ==
    ASSUME FullInv, NEW c \in Conns, Done(c), reply[c].cache # "no-store"
    PROVE  /\ req[c] \in Requests
           /\ reply[c].location = "none"
           /\ upstream[c] = << >> =>
                 ~Accepted(req[c]) \/ HomePath(req[c].path)
<1> DEFINE path == req[c].path
<1>1. ConnInv(c) /\ Told(c) /\ mode \in {"proxy", "redirect"}
  BY DEF FullInv, IInv
<1>2. req[c] \in Requests /\ path \in Seq(STRING)
  BY <1>1, Stopped
<1>3. upstream[c] # << >> => reply[c].location = "none"
  BY <1>1, Stopped, UpstreamReplyFields
<1>4. CASE ~Accepted(req[c])
  BY <1>1, <1>2, <1>4, UnlistedVerdict, BareFields
<1>5. CASE Accepted(req[c])
  <2>1. AllowedMethods(path) # {}
    BY <1>5 DEF Accepted
  <2>2. CASE HomePath(path)
    BY <1>1, <1>2, <1>5, <2>2, HomeVerdict, ServedFields
  <2>3. CASE MediaPath(path)
    <3> DEFINE answer == media_answer(req[c], req[c].headers, mode)
    <3>1. upstream[c] = << >> => reply[c] = answer /\ answer # None
      BY <1>1, <1>5, <2>3, MediaVerdict
    <3>2. answer # None => answer \in {Found("internal"), Found("original"),
                                       no_store(Bare(404))}
      BY <1>1, MediaAnswers
    <3>3. upstream[c] # << >>
      BY <3>1, <3>2, NeverKept, RefusalNeverKept
    <3> QED
      BY <1>2, <1>3, <3>3
  <2>4. CASE PlainPath(path) \/ GatedPath(path)
    <3>1. upstream[c] = << >> => reply[c] = Found("home")
      BY <1>1, <1>5, <2>4, FederationVerdict
    <3>2. upstream[c] # << >>
      BY <3>1, NeverKept
    <3> QED
      BY <1>2, <1>3, <3>2
  <2>5. CASE IdenticonPath(path)
    <3>1. upstream[c] # << >>
      BY <1>1, <1>5, <2>5, IdenticonVerdict
    <3> QED
      BY <1>2, <1>3, <3>1
  <2> QED
    BY <1>2, <2>1, <2>2, <2>3, <2>4, <2>5, Rows
<1> QED
  BY <1>4, <1>5

-----------------------------------------------------------------------------
(* The steps of the cache *)

LEMMA StoreStored ==
    ASSUME CacheInv, NEW c \in Conns, Store(c)
    PROVE  CacheShape' /\ Stored' /\ Lent'
<1> DEFINE entry == [reply |-> reply[c], own |-> upstream[c] = << >>]
           kept == URL(req[c])
<1>1. /\ Done(c) /\ Storable(req[c]) /\ reply[c].cache # "no-store"
      /\ cache' = [cache EXCEPT ![kept] = entry] /\ got' = got
  BY DEF Store
<1>2. /\ req[c] \in Requests
      /\ reply[c].location = "none"
      /\ upstream[c] = << >> => ~Accepted(req[c]) \/ HomePath(req[c].path)
  BY <1>1, KeptAnswers DEF CacheInv
<1>3. entry.reply = reply[c] /\ (entry.own <=> upstream[c] = << >>)
  OBVIOUS
<1> HIDE DEF entry
<1>4. ASSUME NEW r \in Requests, Storable(r), URL(r) = kept
      PROVE  Lendable(entry, r)
  <2>1. r.path = req[c].path /\ r.method = req[c].method
    <3>1. r.method = req[c].method
      BY <1>1, <1>4 DEF Storable
    <3>2. URL(r).path = r.path /\ kept.path = req[c].path
      BY DEF URL
    <3> QED
      BY <1>4, <3>1, <3>2
  <2>2. Accepted(r) <=> Accepted(req[c])
    BY <2>1 DEF Accepted
  <2> QED
    BY <1>2, <1>3, <2>1, <2>2 DEF Lendable
<1>5. kept \in URLs
  BY <1>2 DEF URLs
<1> HIDE DEF kept
<1>6. /\ cache'[kept] = entry
      /\ \A u \in URLs \ {kept} : cache'[u] = cache[u]
      /\ cache' = [u \in URLs |-> cache'[u]]
  BY <1>1, <1>5 DEF CacheInv, CacheShape
<1>7. Stored'
  BY <1>4, <1>6 DEF CacheInv, Stored, Lendable, URLs
<1> QED
  BY <1>1, <1>6, <1>7 DEF CacheInv, CacheShape, Lent, Lendable

LEMMA HitLent ==
    ASSUME CacheInv, NEW c \in Conns, Hit(c)
    PROVE  CacheShape' /\ Stored' /\ Lent'
<1>1. PICK r \in Requests :
         /\ Storable(r) /\ cache[URL(r)] # None
         /\ got' = [got EXCEPT ![c] = [req |-> r, answer |-> cache[URL(r)]]]
  BY DEF Hit
<1>2. cache' = cache
  BY DEF Hit
<1>3. /\ got'[c].req = r /\ got'[c].answer = cache[URL(r)]
      /\ \A d \in Conns \ {c} : got'[d] = got[d]
      /\ got' = [d \in Conns |-> got'[d]]
  BY <1>1 DEF CacheInv, CacheShape
<1>4. URL(r) \in URLs
  BY DEF URLs
<1>5. Lendable(cache[URL(r)], r)
  BY <1>1, <1>4 DEF CacheInv, Stored
<1>6. Stored'
  BY <1>2 DEF CacheInv, Stored, Lendable
<1>7. Lent'
  <2>1. Lendable(got'[c].answer, got'[c].req)
    BY <1>3, <1>5
  <2>2. \A d \in Conns \ {c} : got'[d] # None =>
           Lendable(got'[d].answer, got'[d].req)
    BY <1>3 DEF CacheInv, Lent
  <2> QED
    BY <2>1, <2>2 DEF Lent, Lendable
<1> QED
  BY <1>2, <1>3, <1>6, <1>7 DEF CacheInv, CacheShape

LEMMA MissLent ==
    ASSUME CacheInv, NEW c \in Conns, Miss(c)
    PROVE  CacheShape' /\ Stored' /\ Lent'
<1>1. /\ cache' = cache /\ got'[c] = None
      /\ \A d \in Conns \ {c} : got'[d] = got[d]
      /\ got' = [d \in Conns |-> got'[d]]
  BY DEF Miss, CacheInv, CacheShape
<1> QED
  BY <1>1 DEF CacheInv, CacheShape, Stored, Lent, Lendable

LEMMA ExpireStored ==
    ASSUME CacheInv, Expire
    PROVE  CacheShape' /\ Stored' /\ Lent'
<1>1. PICK u \in URLs : cache' = [cache EXCEPT ![u] = None] /\ got' = got
  BY DEF Expire
<1>2. /\ cache'[u] = None /\ \A v \in URLs \ {u} : cache'[v] = cache[v]
      /\ cache' = [v \in URLs |-> cache'[v]]
  BY <1>1 DEF CacheInv, CacheShape
<1> QED
  BY <1>1, <1>2 DEF CacheInv, CacheShape, Stored, Lent, Lendable

\* A step of the cache is a step of the proxy, or none.
LEMMA CacheStepIsAProxyStep == [CacheNext]_cacheVars => [Next]_vars
  BY DEF CacheNext, cacheVars, Expire, Hit, Miss, Store, Proxy, Next

LEMMA InitCache == CacheInit => CacheInv
  BY InitFull DEF CacheInit, CacheInv, CacheShape, Stored, Lent

LEMMA NextCache == CacheInv /\ [CacheNext]_cacheVars => CacheInv'
<1> SUFFICES ASSUME CacheInv, [CacheNext]_cacheVars PROVE CacheInv'
  OBVIOUS
<1>1. FullInv'
  BY CacheStepIsAProxyStep, NextFull DEF CacheInv
<1>2. ASSUME UNCHANGED <<cache, got>> PROVE CacheShape' /\ Stored' /\ Lent'
  BY <1>2 DEF CacheInv, CacheShape, Stored, Lent, Lendable
<1>3. CacheShape' /\ Stored' /\ Lent'
  <2>1. CASE UNCHANGED cacheVars
    BY <1>2, <2>1 DEF cacheVars
  <2>2. CASE Expire
    BY <2>2, ExpireStored
  <2>3. CASE \E c \in Conns : Hit(c) \/ Miss(c) \/ Store(c) \/ Proxy(c)
    <3>1. PICK c \in Conns : Hit(c) \/ Miss(c) \/ Store(c) \/ Proxy(c)
      BY <2>3
    <3>2. CASE Proxy(c)
      BY <1>2, <3>2 DEF Proxy
    <3> QED
      BY <3>1, <3>2, HitLent, MissLent, StoreStored
  <2> QED
    BY <2>1, <2>2, <2>3 DEF CacheNext
<1> QED
  BY <1>1, <1>3 DEF CacheInv

-----------------------------------------------------------------------------

\* Whatever callers come in whatever order, the cache hands nobody an answer
\* of the proxy's that depended on another caller: no redirect, no refusal of
\* a listed path.
THEOREM NothingIsBorrowed == CacheSpec => []NoBorrowedAnswer
<1>1. CacheInv => NoBorrowedAnswer
  BY DEF CacheInv, Lent, Lendable, NoBorrowedAnswer
<1> QED
  BY <1>1, InitCache, NextCache, PTL DEF CacheSpec
=============================================================================
