------------------------------ MODULE MCEgress ------------------------------
(***************************************************************************)
(* Instances of Egress.tla: one path per row of the route table and the    *)
(* near misses of each, every method, and header blocks that carry what    *)
(* the stages look for.  A behaviour either has one connection, that may   *)
(* carry every request, or two, that interleave over a few.                *)
(***************************************************************************)
EXTENDS EgressProps, FiniteSets

CONSTANT First  \* the connection that may be the only one

MCNames ==
    {"accept", "connection", "te", "x-forwarded-for", "x-original-url",
     "referer", "sec-fetch-dest", "signature", "content-type", "x-custom-hop"}
MCAccts == {"@a", "@a.rss", "@a%2erss"}
MCFeedAccts == {"@a.rss", "@a%2erss"}
MCInternalHosts == {"internal"}
MCUnsafeSegments == {"", "..", "%2e%2e"}

Text(parts) == [ascii |-> TRUE, parts |-> parts]
Bytes(parts) == [ascii |-> FALSE, parts |-> parts]

\* A block from a set of <<name, values>> pairs.
Block(fields) ==
    [n \in {f[1] : f \in fields} |-> (CHOOSE f \in fields : f[1] = n)[2]]

\* What a signing server sends, with everything a proxy must drop.
Base == {<<"accept", <<Text(<<"text/html">>)>>>>,
         <<"signature", <<Text(<<"s">>)>>>>,
         <<"x-forwarded-for", <<Text(<<"10.0.0.1">>)>>>>,
         <<"x-original-url", <<Text(<<"/api/meta">>)>>>>,
         <<"te", <<Text(<<"trailers">>)>>>>}

\* Connection values: none; one that nominates Accept and a hop field beside
\* a token that is no field name; two lines, the first of them not text.
Nominations ==
    {{}, {<<"connection", <<Text(<<"accept", "b d", "x-custom-hop">>)>>>>,
          <<"x-custom-hop", <<Text(<<"v">>)>>>>},
         {<<"connection", <<Bytes(<<"signature">>), Text(<<"referer">>)>>>>}}
Referers == {{}, {<<"referer", <<Text(<<"internal">>)>>>>},
                 {<<"referer", <<Text(<<"outside">>), Text(<<"internal">>)>>>>}}
Dests == {{}, {<<"sec-fetch-dest", <<Text(<<"document">>)>>>>},
              {<<"sec-fetch-dest", <<Text(<<"image">>)>>>>}}

Blocks == {Block(Base \cup n \cup r \cup d) :
              n \in Nominations, r \in Referers, d \in Dests}

ListedPaths ==
    {<<"">>, <<"assets", "misskey.svg">>, <<"assets", "icon.webp">>,
     <<".well-known", "webfinger">>, <<".well-known", "host-meta.json">>,
     <<"nodeinfo", "2.0">>, <<"inbox">>, <<"users", "u", "inbox">>,
     <<"notes", "n">>, <<"notes", "n", "activity">>, <<"users", "u">>,
     <<"users", "u", "outbox">>, <<"users", "u", "collections", "featured">>,
     <<"@a">>, <<"emojis", "e">>, <<"follows", "f">>, <<"follows", "f", "g">>,
     <<"identicon", "x">>, <<"files", "app-default.jpg">>, <<"files", "k">>,
     <<"files", "k", "r">>, <<"files", "", "r">>, <<"files", "..", "x">>,
     <<"proxy", "image.webp">>, <<"proxy", "h", "%2e%2e">>}
UnlistedPaths ==
    {<<"api", "meta">>, <<"@a.rss">>, <<"@a%2erss">>, <<"@">>, <<"@a", "">>,
     <<"notes", "">>, <<"notes">>, <<"users", "u", "reactions">>,
     <<"files">>, <<"files", "">>, <<"proxy", "">>, <<"inbox", "x">>,
     <<"", "files", "k">>, <<"emoji", "e">>, <<"follows", "f", "g", "h">>}

MCRequests ==
    [method : Methods, path : ListedPaths \cup UnlistedPaths,
     url : {"none"}, headers : Blocks]
    \cup [method : {"GET"}, path : {p \in ListedPaths : p[1] = "proxy"},
          url : {"allowed", "refused"}, headers : Blocks]

\* Two routes of each kind, for connections that interleave.
PairRequests ==
    [method : {"GET", "POST"},
     path : {<<"inbox">>, <<"@a">>, <<"@a.rss">>, <<"files", "k">>, <<"">>,
             <<"api", "meta">>},
     url : {"none"},
     headers : {Block(Base \cup r) : r \in Referers \ {{}}}
               \cup {Block(Base \cup d) : d \in Dests \ {{}}}]

\* Data, a page, a page behind a nominating Connection, a type that only
\* begins like a page's, and an error without a type.
MCAnswers ==
    {[status |-> 200, page |-> FALSE, headers |-> Block(
        {<<"content-type", <<Text(<<"application/activity+json">>)>>>>,
         <<"connection", <<Text(<<"keep-alive", "x-custom-hop">>)>>>>,
         <<"x-custom-hop", <<Text(<<"v">>)>>>>})],
     [status |-> 200, page |-> TRUE, headers |-> Block(
        {<<"content-type", <<Text(<<"text/html", "charset=utf-8">>)>>>>,
         <<"connection", <<Text(<<"te">>)>>>>})],
     [status |-> 500, page |-> TRUE, headers |-> Block(
        {<<"content-type", <<Text(<<"text/html">>)>>>>})],
     [status |-> 413, page |-> FALSE, headers |-> << >>]}

-----------------------------------------------------------------------------

VARIABLE alone  \* TRUE when there is one connection

Alone == INSTANCE Egress WITH Conns <- {First}
Together == INSTANCE Egress WITH Requests <- PairRequests

MCInit == Init /\ alone \in BOOLEAN

MCNext ==
    \/ alone /\ Alone!Next /\ UNCHANGED alone
    \/ ~alone /\ Together!Next /\ UNCHANGED alone

MCSpec ==
    /\ MCInit /\ [][MCNext]_<<vars, alone>>
    /\ \A c \in Conns : WF_vars(Local(c))
=============================================================================
