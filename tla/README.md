# A formal model of misskey-egress-proxy

misskey-egress-proxy is the public face of a Misskey instance that is otherwise
reachable only inside a private network. It lets a fixed allowlist of federation
routes through to Misskey over a Unix socket, answers everything else itself, and
never shows Misskey's HTML to the public. These modules model what it does with a
request, from the moment the router has picked a route to the moment the answer is
out, how bodies and connections fare while it is forwarded, how a rejection treats a
body that is still being written, what happens behind a shared cache, where media
redirects may point, and how the listening socket is set up.

Paths below are relative to the repository; `src/` is the crate.

## The system

| Component | Source | State it keeps | Operations | Modelled in |
| --- | --- | --- | --- | --- |
| Public router | `src/routes.rs` | none (built once) | build: routes, route layers, 405 handler, layer, fallback | `Router` |
| Middleware | `src/feed_routes.rs`, `src/navigation.rs`, `src/accept_gate.rs`, `src/media_redirect.rs` | none; reads the request and `Config` | reject_feed_paths, redirect_navigation, force_ap_accept, redirect_media | `Egress` |
| Header hygiene | `src/headers.rs` | none | sanitize_request, sanitize_response, is_html, strip_hop_by_hop | `Headers` |
| Forwarding | `src/proxy.rs` | hyper's connection pool | forward: send, await, relay or 404 or 502 | `Egress`; bodies, pool and retry in `Relay`, `Delivery` |
| Rejections | `src/reject.rs` | a counter and a timer per rejected request | drain_body, not_found, method_not_allowed | `Drain`, `Rejection`; one step in `Egress` |
| Landing page | `src/home.rs` | files under STATIC_DIR | index, misskey_logo, instance_icon | `Egress` (routes, drain); read_override and caching in `Landing` |
| Startup | `src/main.rs` | the socket file | bind_unix, serve | `Startup` |
| Configuration | `src/config.rs` | the environment, read once | from_env and its parsers | `MediaRedirect`, `RefererSuffix` (the media settings) |
| Media targets | `src/media_target.rs` | none | internal_location, original_location, path_is_safe, parse_allowed_prefixes | `MediaTarget`, `SegmentCheck`, `MediaRedirect` |

A request runs through a *stack* that the router picks: zero or more middleware, each
of which either answers or hands the request on, and a handler. Components share
nothing but the request and the immutable configuration. The surroundings do the rest:
callers write, stall and leave; Misskey answers anything, fails, or stays silent; a
cache in front stores what it is not told not to store; a service manager kills and
restarts the process.

What is hard here is not shared memory but *order and ownership*: the order in which
layers wrap routes; who reads a request's body before the answer goes out; which of two
sanitizing passes sees a nomination; which answers depend on headers a cache does not
look at; what a half-finished startup leaves on disk; and waiting on a caller or on
Misskey that never moves. `PROJECT.json` lists these hazards one by one.

What makes each component correct:

- router: exactly the documented table reaches Misskey; anything else gets a plain
  404 or 405, whatever its headers are;
- middleware: each redirect and rewrite happens for its own routes and for no others;
- header hygiene: exactly the forbidden and nominated fields go, after one pass or two;
- forwarding: a request is handed to Misskey once, in order and unaltered, and its caller
  gets the answer to it, whole or visibly not, whichever connections come and go;
- landing page: whole files, a page that is current, assets that age out;
- rejections: a rejected caller that wrote a body within the bounds reads its status, and
  none can hold or flood the proxy;
- cache: no caller is given what was made for another;
- media targets: whoever follows a `Location`, and however it reads URLs, ends up where
  the operator said; a text that two readers take for two hosts is refused;
- decoding: no spelling of a forbidden segment or of a feed gets past, and no innocent
  one is stopped;
- configuration: what startup accepts cannot fail at request time, and a suffix it accepts
  can be matched (true of names; see below for numbers);
- startup: what serves can be dialled, and nothing but a stale socket is removed.

## Modules

| Module | What it is |
| --- | --- |
| `Headers` | Header blocks as functions from names to value sequences; the filters and the gate as operators. |
| `Router` | axum's `route`, `merge`, `route_layer`, `layer`, `fallback`, `method_not_allowed_fallback` and matchit's priority, as operators on tables of routes (external); on top of them the table of `src/routes.rs`, in the order the code composes it. |
| `Egress` | The proxy: per connection a phase, the request, its stack and position in it, its headers, who read its body, what Misskey was sent, the answer. One action per middleware and handler, and the environment. |
| `EgressProps` | The documented surface (from `docs/routes.md` and the README, written without looking at the router) and the properties of `Egress`. |
| `EdgeCache` | `Egress` behind a cache keyed on the URL. |
| `Delivery` | What forwarding promises both ends; `Relay` refines it. |
| `Relay` | `proxy::forward` part by part: the caller's stream, hyper's client with its pool and retry, Misskey (external). |
| `Landing` | `read_override` in two reads, an operator at work on the files, and a cache that obeys `Cache-Control`. |
| `Drain` | `reject::drain_body` frame by frame, against a clock and a caller that writes, stops, breaks its body off or leaves. |
| `Rejection` | What `Drain` promises; `Drain` refines it. |
| `Startup` | `bind_unix` by system call, with several instances, kills and restarts. |
| `Cuts` | Cutting a text at a mark, dropping a token: shared by `RefererSuffix` and `Urls`. |
| `Percent` | Bytes, percent-escapes and UTF-8: the operators that the two decoders share. |
| `SegmentCheck` | `segment_is_safe`, one step per round, then any reader of the segment it let through. |
| `FeedPaths` | `is_feed_path`, then find-my-way's own decoding of the same bytes (external). |
| `RefererSuffix` | `INTERNAL_REFERER_SUFFIX` at startup, then `host_is_internal` on each Referer; which hosts a Referer can have (external). |
| `Urls` | URLs as tokens; the url crate and a reader by RFC 3986 (external, after `tests/dependency_behavior.rs`). |
| `MediaTarget` | `internal_location`, `original_location`, the prefix entries, over `Urls`. |
| `MediaRedirect` | Startup's checks of the media settings, `redirect_media`, and the client that follows. |
| `MCEgress`, `MCEdgeCache`, `MCRelay`, `MCTexts`, `MCMediaRedirect` | Instances for TLC. `MCEdgeCache` holds `EdgeCache` and `Landing`, `MCTexts` holds `SegmentCheck`, `FeedPaths` and `RefererSuffix`; a behaviour follows one of them. `Drain` and `Startup` are checked directly. |
| `CutLemmas` | What `Cuts` computes, induction on texts, and sequences of up to four elements; no theorems of its own, but the two modules of proofs about texts rest on it. |
| `EgressProofs`, `RelayProofs`, `DrainProofs`, `LandingProofs`, `StartupProofs`, `TextProofs`, `MediaProofs` | Theorems. `EgressProofs` goes from the header filters over the router and the proxy to the cache in front of it; `TextProofs` is about `SegmentCheck`, `FeedPaths` and `RefererSuffix`, `MediaProofs` about `MediaRedirect`. |

How `Egress` corresponds to the code:

| Action | Code |
| --- | --- |
| `Arrive` | hyper parses a request, axum's router picks the stack (`Dispatch(build, ..)`) |
| `RejectFeedPaths`, `RedirectNavigation`, `ForceApAccept`, `RedirectMedia` | the four middleware; `RunNext` is `next.run(req)` |
| `ServeHome`, `NotFound`, `MethodNotAllowed` | local handlers |
| `AnswerDrained`, then `DrainEnds` | `reject::drain_body(..).await` and the answer after it; the await is where other connections interleave |
| `Forward`, then `UpstreamAnswers` or `UpstreamFails` | `proxy::forward` before and after `client.request(req).await` |
| `Finish`, `CallerLeaves` | the answer is out; the connection closes and the handler is dropped |

Abstractions: a path is its sequence of raw segments, because nothing in the proxy
decodes or normalises a path before routing. A header value is its list of parts after
the split the code makes. The verdicts of `host_is_internal`, `segment_is_safe`,
`original_location` and the decoding in `is_feed_path` are parameters (`InternalHosts`,
`UnsafeSegments`, the `url` field, `FeedAccts`). Bodies are tokens: read by the drain, or
handed to Misskey. `SegmentCheck`, `FeedPaths`, `RefererSuffix` and `MediaRedirect` are
where those verdicts come from: there the text itself is modelled, by bytes where
decoding is the question, and by tokens (a delimiter, or a run that no reader splits)
where it is the structure of a URL.

How `Relay` corresponds to the code. `forward` is one expression around
`client.request(req).await`; what can happen during that await, and to the two bodies
after it, is where the behaviour is:

| Action | Code |
| --- | --- |
| `Arrive` | the handler runs up to the await (`sanitize_request`, the target URI) |
| `Checkout`, `Dial`, `Expire` | hyper's pool: a connection of an earlier exchange, a new one, one that is dropped |
| `Pump` | the request goes into the connection as the caller writes it |
| `Retry` | hyper asks again with another connection, when a used one was closed before anything was written; `build_client` leaves that default on |
| `UpstreamAnswers`, then `RelayPart` or `Truncate` | `Ok(resp)`, `resp.map(Body::new)` and the body after it |
| `UpstreamSendsPage` | `Ok(resp)` that is HTML: a 404, and `resp` is dropped |
| `UpstreamFails` | `Err(err)`: a 502 |
| `CallerGone`, `Release`, `AbandonBody` | hyper drops a handler whose caller is gone; a connection goes back to the pool or is closed |
| `MisskeyReads`, `MisskeyWrites`, `MisskeyCloses` | Misskey reads when it likes, answers from the head on, closes at any moment |

A connection carries parts without knowing what they belong to: that the answer one
reads from a pooled connection is one's own is not a rule of the model but what
`PromiseKept` checks. `told` and `heard` are what the two ends were given; `late` records that
Misskey began its answer after the end of the request.

Definitions named `X_Something` next to an `X` are deliberate slips, each what a
plausible edit of `X` would make of it. No behaviour uses them; they exist to show that
a property notices.

## Runs

| Run | Configuration | Question | Result |
| --- | --- | --- | --- |
| `egress` | `MCEgress.cfg` | Is what Misskey is sent, and what callers get, what the tables say? Does a local answer ever wait for Misskey? | yes, and never, 126,182 states |
| `egress_pages` | `MCEgressPages.cfg` | Does every page load of a federation route land on `/`? | no: see below |
| `relay` | `MCRelay.cfg` | Does forwarding keep the promise of `Delivery` over connections that break at any moment? | yes, 572,246 states |
| `relay_live` | `MCRelayLive.cfg` | Do bodies stream in both directions, or can the two ends wait for each other? | they stream, 192,882 states |
| `edge_cache` | `MCEdgeCache.cfg` | Can a cache hand one caller's answer to another, or keep a broken or outdated file? | no answer, no mix of versions, nothing past a week; 1,653,752 states |
| `drain` | `MCDrain.cfg` | Does the drain end, stay bounded, and keep `Rejection`'s promise? | yes, 8,112 states |
| `drain_limit` | `MCDrainLimit.cfg` | Is at most the limit read? | no: see below |
| `startup` | `MCStartup.cfg` | Is a started instance reachable, the path served in the end, and any other file spared? | yes, 732 states |
| `texts` | `MCTexts.cfg` | Can a segment that was let through turn into another name later? Do this code and find-my-way agree on what is a feed? Does internal mean under the labels that were named, and can every name be matched? | no; yes; yes and yes; 978,554 states |
| `suffix_number` | `MCSuffix.cfg` | Can some Referer match every suffix that startup accepts? | no: see below |
| `media_redirect` | `MCMediaRedirect.cfg` | Where does a client end up that follows a `Location`? | where the operator said, 533,826 states |
| `startup_overlap` | `MCStartupOverlap.cfg` | Is a removed socket always stale? | no: see below |

Bounds, and why they are enough:

- `MCEgress` has one path of every row of the route table, and beside each the near
  misses that a matching or layering error would let through (a trailing slash, one
  segment more or less, an empty parameter, a feed twin and an encoded spelling of it).
  Every path is asked for by all four methods, with 27 header blocks: three ways to
  nominate (none, `Accept` and a private field beside an illegal token, a line that is
  not text), three Referers (none, internal, an outside one before an internal one) and
  three values of `Sec-Fetch-Dest`. Requests on different connections share nothing in
  the code, so a behaviour of `MCEgress` either has one connection, with all of these, or
  two that interleave over 48 of them, since one that hangs could in principle hold up the
  other.
- `MCEdgeCache` has each kind of route whose answer depends on the caller, and two that
  do not, with one connection that may be an insider, an outsider, a browser or a server
  in turn. The cache keeps everything that is not `no-store` for as long as it likes.
  For `Landing` it has two requests at a time, two versions beside the bundled one and a
  `Week` of two days in a behaviour of three: enough for a read that straddles one
  replacement or two, and for a copy that is used on its last day and not after it. The
  page and one asset stand for the three files, since the other asset has the same header.
- `MCRelay`: one request with a chunk of body and one without, two connections (one for
  the liveness properties, which hold with two as well, in a longer run), answers of a head and an end, and room
  for one part in each direction of a socket. So a body can be stuck half-way, a
  connection can be used twice, closed under either exchange or between them, and an
  early answer can meet a full buffer.
- `MCDrain`: `Limit = 4`, frames up to 3, bodies up to 8, `Timeout = 2`. So a frame can
  end below, at and beyond the limit, a body can be shorter than, equal to and twice the
  limit, and the timer can run out before, between and after frames. The caller may break
  its body off (bytes that are no chunk, or the end of its side of the connection) after
  any part of it, and wait for the answer.
- `Startup`: two instances and up to five starts, i.e. four kills at any of the calls;
  with one instance at a time and with overlapping ones (`overlap`, open from the outset).
  `Kill` needs a start to be left, so that the bound never ends a run on a dead path.

- `MCTexts`, segments: every segment of up to seven bytes over `%`, `2`, `5`, `e`, `.`, in
  which escapes can spell percent signs, digits and dots, so that one decoding builds the
  escapes of the next; and twelve names (separators, control bytes, an overlong dot, a
  surrogate, plain text, a stray `%`) wrapped up to ten times, past the limit of eight.
- `MCTexts`, feeds: each character of `.rss`, `.atom` and `.json` as it is, escaped in either
  case, or escaped twice, between damaged and reserved neighbours.
- `MCTexts`, suffixes: every setting of up to four characters: letters that are hexadecimal
  digits and others, digits, the beginning of a label that is no punycode, spaces, a
  capital, dots and a character no host holds; and settings of three to five numbers.
  Hosts of up to three labels that end alike (`a`, `xa`), empty and numeric ones included,
  and addresses. `MCSuffix` has two settings, one of which ends in a number.
- `MCMediaRedirect`: 25 bases and 12 lists of entries, good and bad; every authority of up
  to three of 13 tokens; five authorities with every opening, path and query. Lengths are
  counted in tokens, with limits that some of these values reach and some pass.

`SegmentCheck`, `FeedPaths`, `RefererSuffix` and `MediaRedirect` follow one decision to its
end, so their runs do without deadlock checking too, and they state safety only.

`Drain`, `Relay` and `Startup` are checked without deadlock checking: an exchange whose
two ends have stopped for good waits for ever (there is no timeout in `forward`), a drain that has answered
a caller that is gone is over, and `Startup` ends once its starts are used up and the
instance serves.

Fairness. `Relay`: weak fairness on the proxy's and hyper's steps for each exchange, one
task each; none on callers, Misskey, or the pool's expiry. `Egress`: weak fairness on the local steps of each connection, which tokio
gives every ready task; none on Misskey, since the proxy has no timeout towards it, and
none on callers. `Drain`: weak fairness on the proxy's steps and on the clock; none on
the caller. That the step `DrainEnds` of `Egress` is fair is what the fair part of `Drain`'s
`PromiseKept` shows. `Startup`:
a process runs its next call, and the service manager restarts it
(`docker-compose.yml`: `restart: unless-stopped`).

### Where code and documents differ

- `suffix_number`: a comment in `config.rs` says that a suffix that could not be part of a
  host would never match and switch the internal redirect off without a word, which is
  why startup refuses it. What it refuses are characters and empty labels; `.foo.5`
  passes. The url crate takes a host whose last label is a number for an IPv4 address or
  for an error, so no http(s) Referer is under it. `NamesCanMatch` is what holds: a setting that
  is a name has a host under it. (The hosts of other schemes are opaque text and are not
  modelled; browsers do not send such Referers.)
- `drain_limit`: README says a rejected request reads *at most* 1 MiB of its body. The
  frame that crosses the limit has been read when it is counted, so up to one frame less
  a byte more is read. `DrainIsBounded` is the bound that does hold.
- `egress_pages`: README and `docs/routes.md` say a browser that opens *any* ActivityPub
  or discovery route as a page is sent to `/`. A page load of an inbox (a GET) is a 405:
  the 405 handler replaces the fallback that `redirect_navigation` had wrapped.
  `PageLoadsLandOnHome` is what holds, for the methods a route accepts.
- `startup_overlap`: `bind_unix` says it clears a *stale* socket. It removes any socket,
  also one a live instance listens on, which then serves nobody. With one instance at
  a time, which is how the compose file runs it, this cannot happen.

## Proofs

TLAPS proves, for every value of the constants:

- `EgressProofs!EveryRouteIsFeedChecked`: for every method and path, the chosen stack is
  the plain 404 or begins with the feed check and ends in a handler of the proxy's own.
  No property of the paths is used: each combinator keeps the shape "a stack is
  middleware around one handler" (`Unfinished`, `RouteWith`), the 405 handler replaces
  every default 405, and the last layer puts its stage at the head of every stack.
- `EgressProofs!RouterIsTheTable`: the stack for every method and every path that is no
  feed, written down row by row. It has two halves. The lemma `BuildIsTheTable`
  evaluates the composition of `routes.rs` (merges, layers, fallbacks) to one set of
  routes, each with its methods and stacks. Matching is then settled by pattern: the
  patterns that match a path of each row are determined by its segments, and where two
  match, matchit's priority picks the one that has text where the other has a parameter.
  An empty parameter and the literal segments `inbox` and `identicon` are where this could
  go wrong, so it is assumed that no acct segment is one of these (`AcctSegmentsAssumption`:
  they all begin with `@`).
- `EgressProofs`, ten properties of `Spec`. An action touches one connection, so the
  inductive invariants are statements about one connection, together with the shape of
  the variables; `KeptAt` is the one lemma that carries a connection that a step did not
  touch. There are two of them.
  - `IInv`, with `ConnInv(c)`, gives `TypeCorrect` and `EveryBodyHasOneReader`.
    `BodyHasOneReader` alone is not inductive: one has to know that a request that is
    still on its way has neither been drained nor sent. It also says that a request past
    its first stage has passed the feed check, which rests on the router's theorem and
    is used for the verdicts below.
  - `FullInv` adds `Told(c)`: what the request's history says. Its stack is the router's
    for its method and path; past `redirect_navigation` it is no page load, past
    `redirect_media` its target was not redirected; its header block is the caller's,
    or the gate's once it is past the gate; a request that was never sent has the answer
    of the stage it stopped at; one that was sent was sent once, by `forward`, with the
    block that belongs to its stack, and its answer is made of Misskey's or is the 502.
    Nothing less is inductive: an answer can be compared with the documented table only
    if one knows which stage gave it and which stages it had passed. With
    `RouterIsTheTable` it gives one verdict for each row of the table, and from the
    verdicts `AllowlistIsExact`, `RefusalsArePlain`, `GateIsNeverBypassed`,
    `SentBlockIsExact`, `MediaIsAnsweredByItsTable`, `PageLoadsGoHome`,
    `PagesStayAtMisskey` and `RelayedBlockIsExact`.
- `EgressProofs!NothingIsBorrowed`: a cache in front that obeys `no-store` hands nobody
  an answer that depended on another caller. `CacheInv` is `FullInv` of the proxy behind
  it, plus: what is stored under a URL may be lent to anyone who asks for that URL
  (`Stored`), and what was handed out was lendable (`Lent`). The work is in `KeptAnswers`:
  an answer without `no-store` is Misskey's, or a refusal off the table, or a file of the
  landing page, since each redirect and each refusal of a target says `no-store`.
- `EgressProofs`, on headers: sanitizing twice is sanitizing once; the `Accept` of the gate survives
  `forward`'s own pass whatever `Connection` nominates; the HTML test is not blinded by
  the filter before it *provided* Misskey does not nominate `Content-Type`.
- `DrainProofs`: `TypeCorrect`, `Bounded`, `OrdinaryCallsSeeTheStatus`, and that every
  step of `Drain` is a step or a stutter of `Rejection`. The invariant adds to the type
  that a drain which still reads is below the limit, that one which gave up early has
  reached a bound or met a body that was broken off, and that a body that was read to its
  end is whole and can no longer be broken.
- `RelayProofs`: the refinement. `ImplementsDelivery` is the safety of `forward` between
  two streams and a pool: every step of `Relay` is a step of `Delivery` or a stutter, for
  any number of requests, connections, parts and any room in a socket. `TypeCorrect`
  and `NoLateAnswerIsLost` rest on the same invariant,
  `IInv == Types /\ Progressing /\ OneOwner /\ Framed /\ Apart`:
  `Progressing` relates the counters of one exchange (read, written, heard, answered) to
  its phase; `OneOwner` says no two exchanges hold a connection; `Framed` says what is in
  a connection's two directions, part by part: on the way up the rest of the request that
  Misskey serves there and then the beginning of at most one other, on the way down the
  continuation of what that request's caller was told; `Apart` says no exchange has
  anything in two connections. The model gives a connection no notion of whose parts it
  carries, so that a caller gets its own answer from a connection that was used before
  is exactly `Framed`: no weaker statement about the pool survives a `Checkout`. TLC
  checked `IInv` as an invariant before it was proved (`Room = 1`: 572,246 states, `Room
  = 2`: 1,577,371).
- `LandingProofs`: `WholeFilesAreServed`, for any number of requests and versions. The
  invariant: without overwriting, every file ever made is one version, and a handler that
  reads has the beginning of the very file it opened; so what is read, kept by the cache
  and given out is whole. `NewPageIsSeenAtOnce` and `MistakesAreForgotten` hold for any
  operator, the one that overwrites included. Their invariant `Dating` follows each half
  of a file from the disk to the caller: what is on disk is noted as found today; all that
  a request's open file holds or comes to hold, and all it has read, was to be found at
  some time since it was asked for; and what the cache keeps was to be found on the day of
  the copy or later. The point that makes it inductive is that a write goes through an
  open handle to a file that may have lost its name, so `since` has to cover what
  the file holds and not only what is under the name.
- `TextProofs`: every property of `SegmentCheck`, `FeedPaths` and `RefererSuffix`, for all
  texts. What these modules compute is defined by recursive functions on positions of a
  text (`DecodeAt`, `Labels`, `Text` are scans from left to right, as the code is), so
  each comes with the lemma that its equations have a solution. Induction is over a set
  of numbers, by its least counterexample, which needs no theorem about operators.
  - Segments. A reader may decode escapes one at a time, in any order, so the readers'
    steps form a rewriting system. The end of all decoding is computed by a pass that
    keeps the finished text as a stack and reduces its top whenever an escape completes
    there (`EndsUpTo`, `Pushed`). Every reader's step leaves that end
    as it was, and so does a whole round of the code's own decoding; hence decoding is
    confluent, and the text at which `segment_is_safe` stopped is what every reader ends
    at. A byte that can be no part of an escape is never decoded away (`EndsKeep`): a
    separator met on the way would be in that text, and a dot segment would be that text.
    So the invariant `SegmentInv` says of the code's text and of the reader's that both
    are on the way to the segment's end (`Reached`), and of the code's that it is the layer
    of its round; what a reader finds says nothing about what the next one finds. It
    gives `AcceptedStaysHarmless` and `ReadersEndAlike` for any bound on the rounds, and
    `RefusalsAreJustified`.
  - Feeds. find-my-way writes every `%25` as `%2525` and decodes what it has then;
    `is_feed_path` decodes the segment as it is and spares `%25`. The proof walks the
    two texts side by side (`SideBySide`) and shows that both decodings spell the same
    bytes (`DecodedAlike`): `FeedsAreStopped` and, the other way round, `ActorsAreNotStopped`.
  - Suffixes. `Labels` and `Text` are inverse to one another and turn a concatenation at
    a dot into a concatenation of labels, so that a suffix of the text that begins at a
    dot or at the front is a suffix of the labels and the other way round:
    `NamesMatchByLabels`. `AcceptedNamesMatch` names a host for each accepted name, and
    shows that the few labels `CanMatch` tries are enough: what matches a name is a name,
    and the end of an address can be filled up to four numbers (`MatchedCanMatch`).
- `MediaProofs`: every property of `MediaRedirect`, for any settings and any targets. The
  state machine is short, so the invariant `MediaInv` is too: the base has no slash at its
  end; what serves was accepted at startup; an insider's answer, and a redirect of an
  outsider, is what `media_target` makes of the settings and the target; whoever followed
  read the `Location` in one of the two ways. The work is in what `Parse` makes of a text:
  - `UrlReading` and `RfcReading` say, for a text without tabs, backslashes and userinfo,
    what each reader sees, part by part; `ReadersAgree` that both then see one host and one
    port, unless the host is percent-encoded. `ParsedIsClean` says what the parts of any
    parsed URL can hold, and `OriginIsRead` that a clean origin with any path or query
    after it is read back as that origin, since a cut depends only on the tokens before the
    delimiter (`CutAt`).
  - Outsiders. `ValueIsPlain` is where the checks of `original_location` on the text meet
    those lemmas, and `OriginalIsRead` concludes that what goes out is read by everyone as
    what came in: `NoReaderIsMisledHolds`. `OutsidersStayUnderAPrefixHolds` adds that an
    entry means what `parse_prefix_entry` made of it (`EntryIsRead`) and that a prefix of
    the text that ends in a slash is a prefix of the segments (`SegmentsUnder`).
  - Insiders. `AcceptedBase`: a base that startup accepts is its own origin, so it has no
    path for a request to climb. In proxy mode nothing is known of the base but that the
    parse-back of rule F5 succeeded; there `InsidersLandAtTheBaseHolds` has to exclude that
    the request ended up in the base's query or fragment: F5 requires the parsed path to
    end with the request's, and a path holds neither mark (`ReadBack`, `NoFragment`,
    `PathIsFree`).
  - `AcceptedBaseServesHolds` runs the same lemmas forwards: for an accepted base, each
    condition of F1 to F5 holds of a plain path.
- `StartupProofs`: `FilesAreKept` for any overlap of instances (nobody gets past the
  look at the path while a file that is no socket is there), and `ServedMeansReachable`
  when instances do not overlap (whoever has bound owns what is at the path).

What the theorems assume of the constants, each assumption checked by TLC on the
instances too:

- a caller's header block holds field names only, and a path is a sequence of segments
  (`RequestsAssumption`: hyper refuses other blocks); `accept` is a field name
  (`NamesAssumption`);
- what Misskey means as a page it types `text/html`, and it does not nominate its own
  `Content-Type` in `Connection` (`AnswersAssumption`). `PagesStayAtMisskey` and
  `RelayedBlockIsExact` need it: `forward` tells a page by that type after it has removed
  the nominated fields;
- segments that begin with `@` are none of the three above (`AcctSegmentsAssumption`), and
  feed segments are among them (`FeedAcctsAssumption`);
- the values that stand for "none" are not values of the kind they are missing from
  (`NoneAssumption`, and in `RelayAssumption` and `LandingAssumption`);
- bounds are natural numbers (`DrainAssumption`, `RelayAssumption`, `LandingAssumption`,
  `StartupAssumption`), and a request has at least its head;
- texts are sequences of bytes or characters, a text after `/@` holds no slash, and a host
  has a label (`SegmentsAssumption`, `RoundsAssumption`, `AcctsAssumption`,
  `RawAssumption`, `HostsAssumption`, `NoHostAssumption`);
- settings and targets of media requests are texts of tokens, and a query is empty or begins
  with its question mark (`SettingsAssumption`, `TargetsAssumption`: hyper splits the
  target there); the length limits are numbers and leave room for a short path and a query
  (`LengthsAssumption`: 8192 and 2048 in the code; only `AcceptedBaseServesHolds` needs
  the room).

Only model-checked: the liveness properties (`LocalAnswersNeedNoMisskey`, `BodyIsStreamed`,
`AnswerIsStreamed`, the fair part of `Drain`'s `PromiseKept`, `EventuallyServed`), which the
prover cannot reach. The properties of the four runs that expect a violation are false, and
what holds in their place is proved.

## What is not modelled, and the plan

Every invariant that a passing run checks is a theorem. What could follow is a theorem that
`segment_is_safe` on tokens (`MediaTarget`) is the verdict of `SegmentCheck` on the bytes
those tokens stand for: today the two are related by a comment, and each is proved about
on its own level.

Left out of `Relay`: a GET with a chunked body, which hyper's client frames anew (nothing
in `src/` settles how); HTTP/1.1 upgrades and `Expect: 100-continue`, which Misskey's
federation routes do not use; the end of the proxy process with exchanges under way, after
which both ends see their connections die.

Left out for good: `parse_listen` and the text of `MEDIA_MODE` (one parse each), logging,
packaging, the content headers of the landing page, the TCP listener (one call, no state),
how long a cache keeps the bare 404 that stands for a page of Misskey's (nothing in the
repository says), and the federation test stack.
