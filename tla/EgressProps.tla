---------------------------- MODULE EgressProps ----------------------------
(***************************************************************************)
(* What Egress.tla is checked against.  The public surface is stated from  *)
(* the route table of docs/routes.md and the result table of README.md     *)
(* ("Media mode"), independently of the router that is being checked.      *)
(***************************************************************************)
EXTENDS Egress

-----------------------------------------------------------------------------
(* The documented surface *)

Reads == {"GET", "HEAD"}
Name(path, i) == i <= Len(path) /\ (path[i] # "" \/ i < Len(path))

GatedPath(path) ==
    \/ Len(path) = 2 /\ path[1] \in {"notes", "users"} /\ Name(path, 2)
    \/ Len(path) = 1 /\ path[1] \in Accts \ FeedAccts

MediaPath(path) ==
    Len(path) >= 2 /\ path[1] \in {"files", "proxy"} /\ Name(path, 2)
                   /\ (path[1] = "files" => Len(path) = 2 \/ Name(path, 3))

HomePath(path) ==
    path \in {<<"">>, <<"assets", "misskey.svg">>, <<"assets", "icon.webp">>}

DiscoveryPath(path) ==
    path \in {<<".well-known", "nodeinfo">>, <<".well-known", "host-meta">>,
              <<".well-known", "host-meta.json">>,
              <<"nodeinfo", "2.0">>, <<"nodeinfo", "2.1">>}

ObjectPath(path) ==
    \/ Len(path) = 2 /\ path[1] \in {"emojis", "likes", "follows"}
                     /\ Name(path, 2)
    \/ Len(path) = 3 /\ path[1] = "follows" /\ Name(path, 2) /\ Name(path, 3)
    \/ Len(path) = 3 /\ path[1] = "notes" /\ path[3] = "activity"
    \/ Len(path) = 3 /\ path[1] = "users" /\ path[3] \in
           {"outbox", "followers", "following", "publickey"}
    \/ Len(path) = 4 /\ path[1] = "users" /\ path[3] = "collections"
                     /\ path[4] = "featured"

InboxPath(path) ==
    \/ path = <<"inbox">>
    \/ Len(path) = 3 /\ path[1] = "users" /\ path[3] = "inbox"

\* The methods a path accepts; none for a path that is not public.
AllowedMethods(path) ==
    CASE path = <<".well-known", "webfinger">> -> Reads \cup {"OPTIONS"}
      [] InboxPath(path) -> {"POST"}
      [] \/ HomePath(path) \/ GatedPath(path) \/ MediaPath(path)
         \/ DiscoveryPath(path) \/ ObjectPath(path)
         \/ Len(path) = 2 /\ path[1] = "identicon" /\ Name(path, 2) -> Reads
      [] OTHER -> {}

\* The ActivityPub and discovery routes, where a page load is redirected.
FederationPath(path) ==
    /\ AllowedMethods(path) # {}
    /\ ~HomePath(path) /\ ~MediaPath(path) /\ path[1] # "identicon"

Accepted(r) == r.method \in AllowedMethods(r.path)

\* Answers known without asking Misskey.
AnsweredHere(r, media_mode) ==
    \/ ~Accepted(r)
    \/ HomePath(r.path)
    \/ FederationPath(r.path) /\ is_navigation(r.headers)
    \/ MediaPath(r.path) /\ (media_mode = "redirect"
                             \/ referer_is_internal(r.headers))

Done(c) == pc[c] = "done"

-----------------------------------------------------------------------------
(* Properties *)

\* Every variable stays in its domain; headers are blocks of legal names.
TypeOK ==
    /\ mode \in {"proxy", "redirect"}
    /\ pc \in [Conns -> {"idle", "running", "draining", "awaiting", "done"}]
    /\ drained \in [Conns -> BOOLEAN]
    /\ \A c \in Conns :
          /\ req[c] \in Requests \cup {None}
          /\ \A i \in DOMAIN stack[c] : stack[c][i] \in Middleware \cup Handlers
          /\ DOMAIN headers[c] \subseteq Names
          /\ at[c] \in Nat \ {0}
          /\ pc[c] # "idle" => at[c] <= Len(stack[c])
          /\ Len(upstream[c]) <= 1

\* Misskey is sent a request exactly when its method and path are of the
\* documented table and the proxy has no answer of its own to it; the target
\* is the one the caller wrote, unnormalised.
ExactlyTheAllowlistReachesMisskey ==
    \A c \in Conns :
        /\ upstream[c] # << >> =>
              /\ Accepted(req[c])
              /\ upstream[c][1].method = req[c].method
              /\ upstream[c][1].path = req[c].path
        /\ Done(c) => (upstream[c] = << >> <=> AnsweredHere(req[c], mode))

\* A request outside the table gets the bare 404 of the fallback, or the 405
\* when only its method is wrong: a Referer that looks internal or a page
\* load never turns an unknown path into a redirect, and a feed twin is a 404
\* for every method (routes.rs, the comments on route_layer and on the order).
UnlistedIsPlainlyRefused ==
    \A c \in Conns : Done(c) /\ ~Accepted(req[c]) =>
        reply[c] = Bare(IF AllowedMethods(req[c].path) = {} THEN 404 ELSE 405)

\* On the three dual-purpose paths Misskey is asked for AP JSON and nothing
\* else, even when the caller's Connection header nominates Accept.
GatedPathsAskForApJson ==
    \A c \in Conns : upstream[c] # << >> /\ GatedPath(req[c].path) =>
        /\ "accept" \in DOMAIN upstream[c][1].headers
        /\ upstream[c][1].headers["accept"] = <<AP_JSON>>

\* No hop-by-hop, forwarding, override or nominated field reaches Misskey,
\* and every other field does, with its values unchanged (an HTTP Signature
\* may cover it), after however many sanitizing passes the stack holds.
HeaderBlockIsExact ==
    \A c \in Conns : upstream[c] # << >> =>
        LET sent == upstream[c][1].headers
            came == req[c].headers
            gate == IF GatedPath(req[c].path) THEN {"accept"} ELSE {}
        IN /\ DOMAIN sent \ gate =
                DOMAIN came \ (HOP_BY_HOP \cup FORWARDING \cup gate
                               \cup ROUTING_OVERRIDES \cup Nominated(came))
           /\ \A n \in DOMAIN sent \ gate : sent[n] = came[n]

\* Every answer follows either a drained body or a body handed to Misskey,
\* never neither (the caller would see its connection die mid-write) and
\* never both (Misskey would get a truncated one).
BodyHasOneReader ==
    \A c \in Conns : Done(c) => (drained[c] <=> upstream[c] = << >>)

\* Media, by mode and Referer, answers as README's table says: an internal
\* Referer is sent inside or refused, redirect mode forwards nothing, and
\* nobody else ever learns the internal location.
MediaFollowsItsTable ==
    \A c \in Conns : Done(c) /\ Accepted(req[c]) /\ MediaPath(req[c].path) =>
        LET internal == referer_is_internal(req[c].headers) IN
        /\ upstream[c] # << >> <=> (mode = "proxy" /\ ~internal)
        /\ reply[c].location = "internal" <=>
              internal /\ path_is_safe(req[c].path)
        /\ reply[c].location = "original" <=>
              /\ mode = "redirect" /\ ~internal
              /\ req[c].path[1] = "proxy" /\ req[c].url = "allowed"

\* A page load of an ActivityPub or discovery route ends on the landing page
\* and is not forwarded; anything else never sees that redirect.
PageLoadsLandOnHome ==
    \A c \in Conns : Done(c) /\ Accepted(req[c]) =>
        (reply[c].location = "home" <=>
            FederationPath(req[c].path) /\ is_navigation(req[c].headers))

\* "A browser that opens any ActivityPub or discovery route as a page [...] is
\* sent to `/` with a `302`" (README.md:61): opening a page is a GET, and the
\* inboxes are ActivityPub routes.
AnyFederationPageLandsOnHome ==
    \A c \in Conns :
        /\ Done(c) /\ req[c].method = "GET"
        /\ FederationPath(req[c].path) /\ is_navigation(req[c].headers)
        => reply[c].location = "home"

\* No page of Misskey's is relayed, on any route.  (Misskey is assumed not to
\* nominate Content-Type in a Connection header of its own.)
NoMisskeyPageIsRelayed ==
    \A c \in Conns : Done(c) => reply[c].body # "misskey page"

\* What is relayed carries no connection-specific or nominated field of
\* Misskey's response, and loses nothing else.
ResponseBlockIsExact ==
    \A c \in Conns : Done(c) /\ reply[c].body = "misskey data" =>
        \E answer \in Answers :
            /\ reply[c].status = answer.status
            /\ DOMAIN reply[c].headers = DOMAIN answer.headers \
                    (HOP_BY_HOP \cup Nominated(answer.headers))

\* An answer the proxy can give by itself is given, or its caller is gone,
\* although Misskey may never answer anything.
LocalAnswersNeedNoMisskey ==
    \A c \in Conns :
        (pc[c] = "running" /\ AnsweredHere(req[c], mode))
            ~> pc[c] \in {"done", "idle"}
=============================================================================
