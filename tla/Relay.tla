------------------------------- MODULE Relay -------------------------------
(***************************************************************************)
(* proxy::forward with bodies as streams: the caller that writes a request *)
(* part by part, the handler, hyper's client with its pool of connections  *)
(* to Misskey's socket, and Misskey at the other end, which may answer     *)
(* before it has read a body, close a connection at any moment, or stay    *)
(* silent.                                                                 *)
(*                                                                         *)
(* A request is its head (part 0), its chunks and its end; an answer       *)
(* likewise.  A connection carries parts in order, and neither end knows   *)
(* what the other one thinks a part belongs to: that is the framing's.     *)
(***************************************************************************)
EXTENDS Naturals, Sequences

CONSTANTS
    Exchanges,  \* requests, each on a connection of its caller's
    Conns,      \* connections to Misskey that can be there at a time
    Sizes,      \* [Exchanges -> how many parts the request may have]
    AnswerEnd,  \* the number of the last part of an answer
    Room,       \* parts that fit into a socket's buffer
    None        \* no connection, no exchange

ASSUME RelayAssumption ==
    /\ Sizes \in [Exchanges -> SUBSET (Nat \ {0, 1})]
    /\ AnswerEnd \in Nat \ {0} /\ Room \in Nat \ {0}
    /\ None \notin Exchanges /\ None \notin Conns

VARIABLES
    whole, page, written, heard, told,  \* as in Delivery
    caller,  \* "waiting" (has not asked), "here" or "left"
    pc,      \* forward: "idle", "asking", "relaying" or "over"
    via,     \* the connection that carries the exchange, or None
    taken,   \* how many parts of the request went into that connection
    out,     \* how many parts of its answer Misskey has written
    late,    \* whether Misskey began to answer after the end of the request
    conn     \* the connections, see Fresh

callers == <<whole, page, written, caller>>
vars == <<callers, heard, told, pc, via, taken, out, late, conn>>

Promise == INSTANCE Delivery WITH Own <- None
Part(e, n) == Promise!Part(e, n)

\* near and far: whether this side and Misskey's side are open; up and down:
\* what is on its way to Misskey and back; serving: the request that Misskey
\* takes what it reads for; used: whether the pool has handed it out before.
Fresh == [near |-> TRUE, far |-> TRUE, up |-> << >>, down |-> << >>,
          serving |-> None, used |-> FALSE]
Dead == [Fresh EXCEPT !.near = FALSE, !.far = FALSE]

Init ==
    /\ whole \in [Exchanges -> UNION {Sizes[e] : e \in Exchanges}]
    /\ \A e \in Exchanges : whole[e] \in Sizes[e]
    /\ page \in [Exchanges -> BOOLEAN]
    /\ written = [e \in Exchanges |-> 0]
    /\ caller = [e \in Exchanges |-> "waiting"]
    /\ heard = [e \in Exchanges |-> << >>]
    /\ told = [e \in Exchanges |-> << >>]
    /\ pc = [e \in Exchanges |-> "idle"]
    /\ via = [e \in Exchanges |-> None]
    /\ taken = [e \in Exchanges |-> 0]
    /\ out = [e \in Exchanges |-> 0]
    /\ late = [e \in Exchanges |-> FALSE]
    /\ conn = [k \in Conns |-> Dead]

-----------------------------------------------------------------------------
(* The callers: they may stop at any point, for ever, and leave.  One whose
   exchange is over and whose body nobody reads any more is not followed. *)

Followed(e) == pc[e] # "over" \/ via[e] # None

\* The head arrives and the router calls forward, which sanitizes it and asks
\* the client.
Arrive(e) ==
    /\ caller[e] = "waiting"
    /\ caller' = [caller EXCEPT ![e] = "here"]
    /\ written' = [written EXCEPT ![e] = 1]
    /\ pc' = [pc EXCEPT ![e] = "asking"]
    /\ UNCHANGED <<whole, page, heard, told, via, taken, out, late, conn>>

Write(e) ==
    /\ caller[e] = "here" /\ Followed(e) /\ written[e] < whole[e]
    /\ written' = [written EXCEPT ![e] = @ + 1]
    /\ UNCHANGED <<whole, page, caller, heard, told, pc, via, taken, out,
                   late, conn>>

Leave(e) ==
    /\ caller[e] = "here" /\ Followed(e)
    /\ caller' = [caller EXCEPT ![e] = "left"]
    /\ UNCHANGED <<whole, page, written, heard, told, pc, via, taken, out,
                   late, conn>>

-----------------------------------------------------------------------------
(* hyper's client: the pool, and the request on its way *)

Idle(k) == conn[k].near /\ \A e \in Exchanges : via[e] # k
Gone(k) == ~conn[k].near /\ ~conn[k].far

\* This side closes; Misskey may still read what is on its way.
NearClosed(k) ==
    conn' = [conn EXCEPT ![k] =
        IF @.far THEN [@ EXCEPT !.near = FALSE, !.down = << >>] ELSE Dead]

\* A connection from the pool; that Misskey has closed it may not be known.
Checkout(e, k) ==
    /\ pc[e] = "asking" /\ via[e] = None
    /\ Idle(k)
    /\ via' = [via EXCEPT ![e] = k]
    /\ conn' = [conn EXCEPT ![k].used = TRUE]
    /\ UNCHANGED <<callers, heard, told, pc, taken, out, late>>

Dial(e, k) ==
    /\ pc[e] = "asking" /\ via[e] = None
    /\ \A i \in Conns : ~Idle(i)
    /\ Gone(k)
    /\ conn' = [conn EXCEPT ![k] = Fresh]
    /\ via' = [via EXCEPT ![e] = k]
    /\ UNCHANGED <<callers, heard, told, pc, taken, out, late>>

\* The pool drops a connection: it has expired, or its end was noticed.
Expire(k) ==
    /\ Idle(k)
    /\ NearClosed(k)
    /\ UNCHANGED <<callers, heard, told, pc, via, taken, out, late>>

\* A part may go out when the caller has written it.  Slips: when the caller
\* has written all of them; one more than it has written.
MaySend_PastTheEnd(e) == taken[e] <= written[e]
MaySend_Collected(e) == taken[e] < written[e] /\ written[e] = whole[e]
MaySend(e) == taken[e] < written[e]

\* A part goes out as soon as it may and fits, whether or not an answer is
\* coming already.  Into a connection that Misskey has closed it goes as well:
\* that shows later.
Pump(e) ==
    /\ pc[e] # "idle" /\ via[e] # None
    /\ MaySend(e)
    /\ Len(conn[via[e]].up) < Room
    /\ conn' = [conn EXCEPT ![via[e]].up = Append(@, Part(e, taken[e]))]
    /\ taken' = [taken EXCEPT ![e] = @ + 1]
    /\ UNCHANGED <<callers, heard, told, pc, via, out, late>>

\* The exchange gives its connection up, which cannot be used again.
GivesUp(e) ==
    /\ via' = [via EXCEPT ![e] = None]
    /\ IF via[e] = None THEN UNCHANGED conn ELSE NearClosed(via[e])

\* A request that the pool gave a connection found closed, before any of it
\* was written, is asked for again: build_client leaves that default.
Canceled(e) == via[e] # None /\ taken[e] = 0 /\ ~conn[via[e]].far

Retry(e) ==
    /\ pc[e] = "asking" /\ Canceled(e)
    /\ conn[via[e]].used
    /\ GivesUp(e)
    /\ UNCHANGED <<callers, heard, told, pc, taken, out, late>>

\* Misskey has closed the connection: what it wrote before is still there to
\* be read, unless writing to it, or its reset, fails first.
Broken_AtOnce(e) == via[e] # None /\ taken[e] > 0 /\ ~conn[via[e]].far
Broken(e) ==
    /\ via[e] # None /\ taken[e] > 0 /\ ~conn[via[e]].far
    /\ conn[via[e]].down = << >> \/ conn[via[e]].up # << >>

DialFails(e) == via[e] = None /\ \A k \in Conns : ~Idle(k)

-----------------------------------------------------------------------------
(* forward, from where its client's answer or error is awaited *)

\* The first the caller is given.  The connection of a caller that is still
\* writing a body nobody reads any more is closed, and the status may be lost.
Begin(e, first) ==
    \/ told' = [told EXCEPT ![e] = <<first>>]
    \/ taken[e] < whole[e] /\ told' = [told EXCEPT ![e] = <<Promise!Reset>>]

\* Err(..): the caller gets a 502.
UpstreamFails(e) ==
    /\ pc[e] = "asking"
    /\ \/ DialFails(e) \/ Broken(e)
       \/ Canceled(e) /\ ~conn[via[e]].used
    /\ Begin(e, Promise!BadGateway)
    /\ pc' = [pc EXCEPT ![e] = "over"]
    /\ GivesUp(e)
    /\ UNCHANGED <<callers, heard, taken, out, late>>

\* The next part of an answer is there to be read.
Answered(e) ==
    via[e] # None /\ taken[e] > 0 /\ conn[via[e]].down # << >>
NextPart(e) == Head(conn[via[e]].down)
Took(e) == conn' = [conn EXCEPT ![via[e]].down = Tail(@)]

\* Ok(resp), which is a page: the caller gets a 404 and the rest is dropped.
\* A slip: the rest is left in the connection, which goes back to the pool.
DropPage_Kept(e) == via' = [via EXCEPT ![e] = None] /\ Took(e)
DropPage(e) == GivesUp(e)

UpstreamSendsPage(e) ==
    /\ pc[e] = "asking" /\ Answered(e)
    /\ page[NextPart(e).of]
    /\ Begin(e, Promise!NotFound)
    /\ pc' = [pc EXCEPT ![e] = "over"]
    /\ DropPage(e)
    /\ UNCHANGED <<callers, heard, taken, out, late>>

\* An answer is passed on when its head is there.  A slip: when all of it is.
MayBegin_Collected(e) == out[e] > AnswerEnd
MayBegin(e) == TRUE

\* Ok(resp): its head goes to the caller, its body follows part by part.
UpstreamAnswers(e) ==
    /\ pc[e] = "asking" /\ Answered(e) /\ MayBegin(e)
    /\ ~page[NextPart(e).of]
    /\ Begin(e, NextPart(e))
    /\ IF told'[e] = <<Promise!Reset>>
       THEN pc' = [pc EXCEPT ![e] = "over"] /\ GivesUp(e)
       ELSE pc' = [pc EXCEPT ![e] = "relaying"] /\ Took(e) /\ UNCHANGED via
    /\ UNCHANGED <<callers, heard, taken, out, late>>

-----------------------------------------------------------------------------
(* The body of the answer, and the end of the exchange *)

RelayPart(e) ==
    /\ pc[e] = "relaying" /\ Answered(e)
    /\ told' = [told EXCEPT ![e] = Append(@, NextPart(e))]
    /\ Took(e)
    /\ pc' = IF NextPart(e).n = AnswerEnd THEN [pc EXCEPT ![e] = "over"]
                                          ELSE pc
    /\ UNCHANGED <<callers, heard, via, taken, out, late>>

\* The connection breaks under the answer, and so does the caller's.
Truncate(e) ==
    /\ pc[e] = "relaying" /\ Broken(e)
    /\ told' = [told EXCEPT ![e] = Append(@, Promise!Cut)]
    /\ pc' = [pc EXCEPT ![e] = "over"]
    /\ GivesUp(e)
    /\ UNCHANGED <<callers, heard, taken, out, late>>

\* The caller is gone: the handler is dropped where it stands.  A connection
\* that has not been written to goes back to the pool.
CallerGone(e) ==
    /\ caller[e] = "left" /\ pc[e] \in {"asking", "relaying"}
    /\ pc' = [pc EXCEPT ![e] = "over"]
    /\ IF taken[e] = 0
       THEN via' = [via EXCEPT ![e] = None] /\ UNCHANGED conn
       ELSE GivesUp(e)
    /\ UNCHANGED <<callers, heard, told, taken, out, late>>

\* The answer is out.  With the request out as well the connection goes back
\* to the pool; it is of no use when the request will never be.
Release(e) ==
    /\ pc[e] = "over" /\ via[e] # None /\ taken[e] = whole[e]
    /\ via' = [via EXCEPT ![e] = None]
    /\ UNCHANGED <<callers, heard, told, pc, taken, out, late, conn>>

AbandonBody(e) ==
    /\ pc[e] = "over" /\ via[e] # None /\ taken[e] < whole[e]
    /\ \/ ~conn[via[e]].far
       \/ caller[e] = "left" /\ taken[e] = written[e]
    /\ GivesUp(e)
    /\ UNCHANGED <<callers, heard, told, pc, taken, out, late>>

-----------------------------------------------------------------------------
(* Misskey at the other end of a connection *)

\* It reads a part: of the request it serves there until it has its end, of
\* a new one when that is answered.
MisskeyReads(k) ==
    LET old == conn[k].serving
        part == Head(conn[k].up)
        e == IF old = None \/ Len(heard[old]) = whole[old] THEN part.of ELSE old
    IN  /\ conn[k].far /\ conn[k].up # << >>
        /\ old # None /\ Len(heard[old]) = whole[old] => out[old] > AnswerEnd
        /\ heard' = [heard EXCEPT ![e] = Append(@, part)]
        /\ conn' = [conn EXCEPT ![k].up = Tail(@), ![k].serving = e]
        /\ UNCHANGED <<callers, told, pc, via, taken, out, late>>

\* It may answer as soon as it has read the head.
MisskeyWrites(k) ==
    /\ conn[k].near /\ conn[k].far /\ conn[k].serving # None
    /\ Len(conn[k].down) < Room
    /\ LET e == conn[k].serving
       IN  /\ out[e] <= AnswerEnd
           /\ out' = [out EXCEPT ![e] = @ + 1]
           /\ late' = [late EXCEPT ![e] =
                          @ \/ (out[e] = 0 /\ Len(heard[e]) = whole[e])]
           /\ conn' = [conn EXCEPT ![k].down = Append(@, Part(e, out[e]))]
    /\ UNCHANGED <<callers, heard, told, pc, via, taken>>

\* It closes: after an answer, idle, half-way, or because it crashed.
MisskeyCloses(k) ==
    /\ conn[k].far
    /\ conn' = [conn EXCEPT ![k] = IF @.near THEN [@ EXCEPT !.far = FALSE]
                                             ELSE Dead]
    /\ UNCHANGED <<callers, heard, told, pc, via, taken, out, late>>

-----------------------------------------------------------------------------
Caller(e) == Arrive(e) \/ Write(e) \/ Leave(e)

Proxy(e) ==
    \/ \E k \in Conns : Checkout(e, k) \/ Dial(e, k)
    \/ Pump(e) \/ Retry(e)
    \/ UpstreamFails(e) \/ UpstreamSendsPage(e) \/ UpstreamAnswers(e)
    \/ RelayPart(e) \/ Truncate(e) \/ CallerGone(e)
    \/ Release(e) \/ AbandonBody(e)

Misskey(k) ==
    MisskeyReads(k) \/ MisskeyWrites(k) \/ MisskeyCloses(k)

Next ==
    \/ \E e \in Exchanges : Caller(e) \/ Proxy(e)
    \/ \E k \in Conns : Expire(k) \/ Misskey(k)

Spec == Init /\ [][Next]_vars

\* tokio polls what is ready; nothing is assumed of callers, of Misskey, or of
\* the pool's wish to drop a connection.
FairSpec == Spec /\ \A e \in Exchanges : WF_vars(Proxy(e))

-----------------------------------------------------------------------------
(* Properties *)

\* Every variable stays in its domain.
TypeOK ==
    /\ whole \in [Exchanges -> Nat \ {0, 1}]
    /\ page \in [Exchanges -> BOOLEAN] /\ late \in [Exchanges -> BOOLEAN]
    /\ caller \in [Exchanges -> {"waiting", "here", "left"}]
    /\ pc \in [Exchanges -> {"idle", "asking", "relaying", "over"}]
    /\ via \in [Exchanges -> Conns \cup {None}]
    /\ out \in [Exchanges -> 0 .. AnswerEnd + 1]
    /\ \A e \in Exchanges : /\ written[e] \in 0 .. whole[e]
                            /\ taken[e] \in 0 .. written[e]
    /\ \A k \in Conns : /\ Len(conn[k].up) <= Room
                        /\ Len(conn[k].down) <= Room

\* Whatever connections come and go: a request is handed to Misskey once, in
\* order and unaltered, and a caller gets its own answer, whole or visibly
\* not (proxy.rs: bodies are "never buffered, re-encoded, or otherwise
\* transformed").
PromiseKept == Promise!DSpec

\* The race of an early answer with its reset (proxy.rs:61-67) is only lost
\* when Misskey answered early: an answer to a request that it had read to the
\* end is not replaced by a 502, nor lost to a reset.
LateAnswersArrive == \A e \in Exchanges :
    late[e] /\ told[e] # << >> => told[e][1] \in {Part(e, 0), Promise!NotFound}

\* Streaming towards Misskey: what a caller has written goes on, though it
\* writes no more, until the exchange is over or Misskey stops reading.
BodyIsStreamed == \A e \in Exchanges :
    taken[e] < written[e] ~>
        \/ taken[e] = written[e] \/ pc[e] = "over"
        \/ via[e] # None /\ Len(conn[via[e]].up) = Room

\* Streaming towards the caller: what Misskey has written of an answer gets to
\* the caller, though Misskey writes no more, the caller is still writing, or
\* Misskey does not read what it writes.
AnswerIsStreamed == \A e \in Exchanges :
    Len(told[e]) < out[e] ~> Len(told[e]) = out[e] \/ pc[e] = "over"
=============================================================================
