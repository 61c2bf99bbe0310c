---------------------------- MODULE MCEdgeCache ----------------------------
(***************************************************************************)
(* What a shared cache in front makes of the answers: the routes whose     *)
(* answers depend on the caller, and two that do not, asked for by an      *)
(* insider, an outsider, a browser and a federated server; or the files of *)
(* the landing page, which change under the cache.  A behaviour follows    *)
(* one of the two.                                                         *)
(***************************************************************************)
EXTENDS EdgeCache, Landing, TLC

MCNames == {"accept", "referer", "sec-fetch-dest", "content-type"}
Value(part) == <<[ascii |-> TRUE, parts |-> <<part>>]>>

MCRequests ==
    [method : {"GET"},
     path : {<<"files", "k">>, <<"notes", "n">>, <<"api">>, <<"">>},
     url : {"none"},
     headers : {<< >>, [n \in {"referer"} |-> Value("internal")],
                [n \in {"sec-fetch-dest"} |-> Value("document")]}]
    \cup
    [method : {"GET"}, path : {<<"proxy", "image.webp">>}, url : {"allowed"},
     headers : {<< >>, [n \in {"referer"} |-> Value("internal")]}]

MCAnswers ==
    {[status |-> 200, page |-> FALSE, headers |-> << >>],
     [status |-> 404, page |-> TRUE,
      headers |-> [n \in {"content-type"} |-> Value("text/html")]]}

MCEmpty == {}
MCInternalHosts == {"internal"}

\* The requests for a file are alike.
MCSymmetry == Permutations(Readers)

-----------------------------------------------------------------------------

VARIABLE followed  \* "answers" or "files"

MCInit ==
    /\ CacheInit /\ LandingInit
    /\ \/ followed = "answers" /\ file = "index.html" /\ ~inplace
       \/ followed = "files" /\ mode = "proxy"

MCNext ==
    \/ followed = "answers" /\ CacheNext /\ UNCHANGED <<landingVars, followed>>
    \/ followed = "files" /\ LandingNext /\ UNCHANGED <<cacheVars, followed>>

MCSpec == MCInit /\ [][MCNext]_<<cacheVars, landingVars, followed>>
=============================================================================
