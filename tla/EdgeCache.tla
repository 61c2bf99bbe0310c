----------------------------- MODULE EdgeCache -----------------------------
(***************************************************************************)
(* Egress.tla behind a shared cache, such as the CDN of the deployment the *)
(* source documents (src/media_redirect.rs, "Caching"; docs/routes.md).    *)
(* The cache keys on the URL alone: it does not know that the proxy's      *)
(* answers depend on Referer and Sec-Fetch-Dest.  It keeps whatever is not *)
(* marked no-store, for as long as it likes; that is more than RFC 9111    *)
(* allows a cache, so what holds here holds for any cache that obeys        *)
(* no-store.                                                               *)
(***************************************************************************)
EXTENDS EgressProps

VARIABLES
    cache,  \* [URLs -> the stored answer, or None]
    got     \* [Conns -> the last [req, answer] the cache served there, or None]

cacheVars == <<vars, cache, got>>

URL(r) == [path |-> r.path, url |-> r.url]
URLs == {URL(r) : r \in Requests}
Storable(r) == r.method = "GET"

CacheInit ==
    /\ Init
    /\ cache = [u \in URLs |-> None]
    /\ got = [c \in Conns |-> None]

\* A hit: the request never reaches the proxy.
Hit(c) ==
    /\ pc[c] = "idle"
    /\ \E r \in Requests :
          /\ Storable(r) /\ cache[URL(r)] # None
          /\ got' = [got EXCEPT ![c] = [req |-> r, answer |-> cache[URL(r)]]]
    /\ UNCHANGED <<vars, cache>>

\* A miss: the proxy is asked.
Miss(c) == Arrive(c) /\ got' = [got EXCEPT ![c] = None] /\ UNCHANGED cache

\* The answer passes through the cache on its way to the caller; `own` marks
\* what the proxy answered without asking Misskey.
Store(c) ==
    /\ Done(c) /\ Storable(req[c]) /\ reply[c].cache # "no-store"
    /\ cache' = [cache EXCEPT ![URL(req[c])] =
                    [reply |-> reply[c], own |-> upstream[c] = << >>]]
    /\ UNCHANGED <<vars, got>>

Expire == \E u \in URLs :
    /\ cache[u] # None
    /\ cache' = [cache EXCEPT ![u] = None]
    /\ UNCHANGED <<vars, got>>

Proxy(c) ==
    /\ Local(c) \/ UpstreamAnswers(c) \/ UpstreamFails(c)
       \/ Finish(c) \/ CallerLeaves(c)
    /\ UNCHANGED <<cache, got>>

CacheNext ==
    Expire \/ \E c \in Conns : Hit(c) \/ Miss(c) \/ Store(c) \/ Proxy(c)

CacheSpec == CacheInit /\ [][CacheNext]_cacheVars

-----------------------------------------------------------------------------
(* Properties *)

\* What the cache hands out of the proxy's own is what the proxy would have
\* told this very caller, and sends nobody elsewhere: an outsider's 404 does
\* not reach the operator's UI, which is to be redirected, the internal host
\* never shows up for an outsider, and a federated server is never sent to
\* the landing page, whoever filled the cache before it.
NoBorrowedAnswer ==
    \A c \in Conns : got[c] # None =>
        /\ got[c].answer.reply.location = "none"
        /\ got[c].answer.own => \/ ~Accepted(got[c].req)
                               \/ HomePath(got[c].req.path)
=============================================================================
