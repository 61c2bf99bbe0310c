------------------------------- MODULE Egress -------------------------------
(***************************************************************************)
(* The proxy process: every connection carries one request at a time       *)
(* through the stack of stages the router picked for it, to a local answer *)
(* or to Misskey.  Misskey and the callers are the environment: Misskey    *)
(* may answer anything, fail, or stay silent for ever (the proxy has no    *)
(* timeout of its own towards it), and a caller may leave at any point.    *)
(*                                                                         *)
(* A rejection drains the request body first.  That the drain ends, however *)
(* the caller behaves, is what Drain.tla models and Rejection.tla promises; *)
(* here it is the single step DrainEnds.                                   *)
(***************************************************************************)
EXTENDS Headers, Router

CONSTANTS
    Conns,           \* connections of callers
    Requests,        \* what callers send: [method, path, url, headers]
    Answers,         \* what Misskey answers: [status, headers, page]
    InternalHosts,   \* Referer values whose host is under the internal suffix
    UnsafeSegments,  \* path segments media_target::segment_is_safe refuses
    None             \* no request, no answer

\* A caller's header block holds field names only (hyper refuses others).
ASSUME RequestsAssumption ==
    \A r \in Requests : r.path \in Seq(STRING) /\ DOMAIN r.headers \subseteq Names

\* Of Misskey: a page is typed text/html, whatever parameters follow, and
\* Misskey does not nominate that Content-Type in a Connection header of its own.
ASSUME AnswersAssumption ==
    \A a \in Answers :
        /\ "content-type" \notin Nominated(a.headers)
        /\ a.page => /\ HasText(a.headers, "content-type")
                     /\ a.headers["content-type"][1].parts[1] = "text/html"

\* In a request, `url` is the verdict of media_target on the url parameter of the query:
\* "allowed" when it names one target under an allowed prefix.

VARIABLES
    mode,      \* Config::media_mode
    pc,        \* [Conns -> phase of the request on that connection]
    req,       \* the request as it arrived
    stack,     \* the stages the router chose for it
    at,        \* the stage that runs next
    headers,   \* its header block as the stages rewrote it
    drained,   \* whether its body was read and discarded
    upstream,  \* what Misskey was sent for it, in order
    reply      \* its answer, given once pc is "done"

vars == <<mode, pc, req, stack, at, headers, drained, upstream, reply>>

-----------------------------------------------------------------------------
(* Answers *)

Reply(status, location, cache, body) ==
    [status |-> status, location |-> location, cache |-> cache,
     body |-> body, headers |-> << >>]

Bare(status) == Reply(status, "none", "none", "empty")
no_store(r) == [r EXCEPT !.cache = "no-store"]
\* A slip: the redirects are answered without no_store.
Found_Cacheable(location) == Reply(302, location, "none", "empty")
Found(location) == no_store(Reply(302, location, "none", "empty"))

\* An answer is not the absence of one.
ASSUME NoneAssumption ==
    None \notin {Found("internal"), Found("original"), no_store(Bare(404))}

Served == [stage \in {"index", "misskey_logo", "instance_icon"} |->
              Reply(200, "none",
                    IF stage = "index" THEN "no-cache" ELSE "public", stage)]

-----------------------------------------------------------------------------
(* What the middleware reads from a request *)

is_navigation(h) ==
    /\ HasText(h, "sec-fetch-dest")
    /\ h["sec-fetch-dest"][1].parts \in
           {<<"document">>, <<"iframe">>, <<"frame">>}

referer_is_internal(h) ==
    /\ HasText(h, "referer")
    /\ h["referer"][1].parts[1] \in InternalHosts

\* media_target::internal_location, as far as it depends on the request.
path_is_safe(path) == \A i \in DOMAIN path : path[i] \notin UnsafeSegments

-----------------------------------------------------------------------------
(* Steps of a connection *)

Stage(c) == stack[c][at[c]]
Running(c, stage) == pc[c] = "running" /\ Stage(c) = stage

\* Next::run.
RunNext(c) ==
    /\ at' = [at EXCEPT ![c] = @ + 1]
    /\ UNCHANGED <<mode, pc, req, stack, drained, upstream, reply>>

\* A slip: the answer goes out with the body unread.
AnswerDrained_Undrained(c, r) ==
    /\ pc' = [pc EXCEPT ![c] = "done"]
    /\ reply' = [reply EXCEPT ![c] = r]
    /\ UNCHANGED <<mode, req, stack, at, headers, drained, upstream>>

\* reject::drain_body, and then the answer.
AnswerDrained(c, r) ==
    /\ pc' = [pc EXCEPT ![c] = "draining"]
    /\ reply' = [reply EXCEPT ![c] = r]
    /\ UNCHANGED <<mode, req, stack, at, headers, drained, upstream>>

Arrive(c) ==
    /\ pc[c] = "idle"
    /\ \E r \in Requests :
          /\ req' = [req EXCEPT ![c] = r]
          /\ stack' = [stack EXCEPT ![c] = Dispatch(build, r.method, r.path)]
          /\ headers' = [headers EXCEPT ![c] = r.headers]
    /\ pc' = [pc EXCEPT ![c] = "running"]
    /\ UNCHANGED <<mode, at, drained, upstream, reply>>

\* Nothing of a request outlives it: axum's handlers own all of its state.
Forget(c) ==
    /\ pc' = [pc EXCEPT ![c] = "idle"]
    /\ req' = [req EXCEPT ![c] = None]
    /\ stack' = [stack EXCEPT ![c] = << >>]
    /\ at' = [at EXCEPT ![c] = 1]
    /\ headers' = [headers EXCEPT ![c] = << >>]
    /\ drained' = [drained EXCEPT ![c] = FALSE]
    /\ upstream' = [upstream EXCEPT ![c] = << >>]
    /\ reply' = [reply EXCEPT ![c] = None]
    /\ UNCHANGED mode

\* The answer is out and the connection ready for the next request.
Finish(c) == pc[c] = "done" /\ Forget(c)

\* The caller's connection closes: hyper drops the request where it is.
CallerLeaves(c) == pc[c] \in {"running", "draining", "awaiting"} /\ Forget(c)

RejectFeedPaths(c) ==
    /\ Running(c, "reject_feed_paths")
    /\ IF is_feed_path(req[c].path)
       THEN AnswerDrained(c, Bare(404))
       ELSE RunNext(c) /\ UNCHANGED headers

RedirectNavigation(c) ==
    /\ Running(c, "redirect_navigation")
    /\ IF is_navigation(headers[c])
       THEN AnswerDrained(c, Found("home"))
       ELSE RunNext(c) /\ UNCHANGED headers

ForceApAccept(c) ==
    /\ Running(c, "force_ap_accept")
    /\ headers' = [headers EXCEPT ![c] = force_ap_accept(@)]
    /\ RunNext(c)

\* A slip: the mode is looked at before the Referer.
media_answer_ModeFirst(r, h, media_mode) ==
    CASE media_mode = "proxy" -> None
      [] media_mode = "redirect" ->
            IF referer_is_internal(h) /\ path_is_safe(r.path)
            THEN Found("internal") ELSE no_store(Bare(404))

\* What redirect_media answers itself; None when it lets the request through.
media_answer(r, h, media_mode) ==
    LET refused == no_store(Bare(404)) IN
    CASE referer_is_internal(h) ->
            IF path_is_safe(r.path) THEN Found("internal") ELSE refused
      [] ~referer_is_internal(h) /\ media_mode = "proxy" -> None
      [] ~referer_is_internal(h) /\ media_mode = "redirect" ->
            IF r.path[1] # "files" /\ r.url = "allowed"
            THEN Found("original") ELSE refused

RedirectMedia(c) ==
    /\ Running(c, "redirect_media")
    /\ LET answer == media_answer(req[c], headers[c], mode) IN
       IF answer # None
       THEN AnswerDrained(c, answer)
       ELSE RunNext(c) /\ UNCHANGED headers

ServeHome(c) ==
    \E stage \in DOMAIN Served :
        Running(c, stage) /\ AnswerDrained(c, Served[stage])

NotFound(c) == Running(c, "not_found") /\ AnswerDrained(c, Bare(404))

MethodNotAllowed(c) ==
    Running(c, "method_not_allowed") /\ AnswerDrained(c, Bare(405))

DrainEnds(c) ==
    /\ pc[c] = "draining"
    /\ pc' = [pc EXCEPT ![c] = "done"]
    /\ drained' = [drained EXCEPT ![c] = TRUE]
    /\ UNCHANGED <<mode, req, stack, at, headers, upstream, reply>>

\* proxy::forward up to the await: the body streams to Misskey from here on.
Forward(c) ==
    /\ Running(c, "forward")
    /\ headers' = [headers EXCEPT ![c] = sanitize_request(@)]
    /\ upstream' = [upstream EXCEPT ![c] = Append(@,
           [method |-> req[c].method, path |-> req[c].path,
            headers |-> sanitize_request(headers[c])])]
    /\ pc' = [pc EXCEPT ![c] = "awaiting"]
    /\ UNCHANGED <<mode, req, stack, at, drained, reply>>

\* proxy::forward after the await.
relayed(answer) ==
    LET h == sanitize_response(answer.headers) IN
    IF is_html(h)
    THEN Reply(404, "none", "none", "not found")
    ELSE [Reply(answer.status, "none", "none",
                IF answer.page THEN "misskey page" ELSE "misskey data")
          EXCEPT !.headers = h]

UpstreamAnswers(c) ==
    /\ pc[c] = "awaiting"
    /\ \E answer \in Answers :
          reply' = [reply EXCEPT ![c] = relayed(answer)]
    /\ pc' = [pc EXCEPT ![c] = "done"]
    /\ UNCHANGED <<mode, req, stack, at, headers, drained, upstream>>

UpstreamFails(c) ==
    /\ pc[c] = "awaiting"
    /\ reply' = [reply EXCEPT ![c] =
                    Reply(502, "none", "none", "upstream unavailable")]
    /\ pc' = [pc EXCEPT ![c] = "done"]
    /\ UNCHANGED <<mode, req, stack, at, headers, drained, upstream>>

-----------------------------------------------------------------------------

Init ==
    /\ mode \in {"proxy", "redirect"}
    /\ pc = [c \in Conns |-> "idle"]
    /\ req = [c \in Conns |-> None]
    /\ stack = [c \in Conns |-> << >>]
    /\ at = [c \in Conns |-> 1]
    /\ headers = [c \in Conns |-> << >>]
    /\ drained = [c \in Conns |-> FALSE]
    /\ upstream = [c \in Conns |-> << >>]
    /\ reply = [c \in Conns |-> None]

\* What the runtime does for a connection without waiting for Misskey.
Local(c) ==
    \/ RejectFeedPaths(c) \/ RedirectNavigation(c) \/ ForceApAccept(c)
    \/ RedirectMedia(c) \/ ServeHome(c) \/ NotFound(c) \/ MethodNotAllowed(c)
    \/ Forward(c) \/ DrainEnds(c)

Next ==
    \E c \in Conns :
        \/ Arrive(c) \/ Local(c) \/ UpstreamAnswers(c) \/ UpstreamFails(c)
        \/ Finish(c) \/ CallerLeaves(c)

Spec == Init /\ [][Next]_vars

\* tokio polls every ready task, and the drain is bounded in time.  Nothing
\* is assumed of Misskey or of the callers.
FairSpec == Spec /\ \A c \in Conns : WF_vars(Local(c))
=============================================================================
