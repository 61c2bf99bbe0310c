------------------------------- MODULE Drain -------------------------------
(***************************************************************************)
(* The drain of a rejected request's body (src/reject.rs: drain_body,      *)
(* drain_within, drain_up_to) between the caller that writes the body, the *)
(* server library that hands it over frame by frame, and the timer.        *)
(*                                                                         *)
(* Quantities are bytes and clock ticks in small units.  Time does not pass *)
(* while something is ready to be read: reading what has arrived is        *)
(* instantaneous beside a bound of seconds.                                *)
(***************************************************************************)
EXTENDS Naturals

CONSTANTS
    Limit,     \* DRAIN_LIMIT
    Timeout,   \* DRAIN_TIMEOUT
    MaxFrame,  \* the largest frame the server library hands over
    MaxBody    \* bound: the longest body a caller has to send

ASSUME DrainAssumption ==
    /\ Limit \in Nat \ {0} /\ Timeout \in Nat \ {0}
    /\ MaxFrame \in Nat \ {0} /\ MaxBody \in Nat

VARIABLES
    framing,     \* "length" (Content-Length) or "chunked"
    length,      \* how long the body is
    written,     \* how much of it the caller has written
    ending,      \* "open" while the caller may go on, "last" once it wrote the
                 \* last chunk of a chunked body, "broken" once it wrote what is
                 \* no framing, or ended its side of the connection, in mid-body
    drained,     \* drain_up_to's counter
    clock,       \* time since the drain began
    phase,       \* "reading", or "answered" once drain_body returned
    complete,    \* whether the server library saw the end of the body
    seen         \* what the caller saw of it, as in Rejection

vars == <<framing, length, written, ending, drained, clock, phase,
          complete, seen>>

Init ==
    /\ framing \in {"length", "chunked"}
    /\ length \in 0 .. MaxBody
    /\ written = 0 /\ ending = "open"
    /\ drained = 0 /\ clock = 0
    /\ phase = "reading" /\ complete = FALSE /\ seen = "nothing"

\* The caller has written the body and the end of it.
Whole == written = length /\ (framing = "length" \/ ending = "last")

\* Everything but the end of the body was taken, and the end is there to see.
AtEnd == drained = length /\ Whole
Readable == drained < written \/ AtEnd \/ ending = "broken"

-----------------------------------------------------------------------------
(* The caller: it may stop at any point, for ever, and break its own body *)

Write ==
    /\ seen = "nothing" /\ ending = "open"
    /\ \E n \in 1 .. length : written + n <= length /\ written' = written + n
    /\ UNCHANGED <<framing, length, ending, drained, clock, phase,
                   complete, seen>>

Terminate ==
    /\ seen = "nothing"
    /\ framing = "chunked" /\ written = length /\ ending = "open"
    /\ ending' = "last"
    /\ UNCHANGED <<framing, length, written, drained, clock, phase,
                   complete, seen>>

\* The caller is still there to read the answer, its body no longer is.
Break ==
    /\ seen = "nothing" /\ ending = "open" /\ ~Whole
    /\ ending' = "broken"
    /\ UNCHANGED <<framing, length, written, drained, clock, phase,
                   complete, seen>>

Leave ==
    /\ seen = "nothing" /\ seen' = "left"
    /\ UNCHANGED <<framing, length, written, ending, drained, clock,
                   phase, complete>>

-----------------------------------------------------------------------------
(* drain_up_to inside tokio::time::timeout *)

\* Slips: the comparison is strict; one frame is taken for the whole body.
LimitReached_Strict(total) == total > Limit
LimitReached_FirstFrame(total) == total > 0
LimitReached(total) == total >= Limit

\* A slip: the room the frame may take is counted, not what it holds.
Counted_Capacity(n) == MaxFrame
Counted(n) == n

\* A frame is counted once it is read; reaching the limit ends the drain.
ReadFrame ==
    /\ phase = "reading"
    /\ \E n \in 1 .. MaxFrame :
          /\ drained + n <= written
          /\ drained' = drained + Counted(n)
          /\ phase' = IF LimitReached(drained') THEN "answered" ELSE "reading"
          /\ complete' = (phase' = "answered" /\ framing = "length"
                                              /\ drained' = length)
    /\ UNCHANGED <<framing, length, written, ending, clock, seen>>

\* frame() returns None.
ReadEnd ==
    /\ phase = "reading" /\ AtEnd
    /\ phase' = "answered" /\ complete' = TRUE
    /\ UNCHANGED <<framing, length, written, ending, drained, clock, seen>>

\* frame() returns an error, and the drain ends below both of its bounds:
\* the caller is gone, or it is there and what it wrote is no body.  What
\* came before the break has been handed over by then.
ReadError ==
    /\ phase = "reading"
    /\ \/ seen = "left"
       \/ ending = "broken" /\ drained = written
    /\ phase' = "answered"
    /\ UNCHANGED <<framing, length, written, ending, drained, clock,
                   complete, seen>>

Tick ==
    /\ phase = "reading" /\ seen = "nothing" /\ ~Readable
    /\ clock < Timeout
    /\ clock' = clock + 1
    /\ UNCHANGED <<framing, length, written, ending, drained, phase,
                   complete, seen>>

\* A slip: drain_up_to is awaited without the timeout around it.
TimeoutFires_Never == FALSE /\ UNCHANGED vars

TimeoutFires ==
    /\ phase = "reading" /\ seen = "nothing" /\ clock = Timeout
    /\ phase' = "answered"
    /\ UNCHANGED <<framing, length, written, ending, drained, clock,
                   complete, seen>>

\* The response is written.  With the body unfinished the connection then
\* closes, and the close may overtake the status on its way to the caller.
Deliver ==
    /\ phase = "answered" /\ seen = "nothing"
    /\ seen' \in IF complete THEN {"status"} ELSE {"status", "reset"}
    /\ UNCHANGED <<framing, length, written, ending, drained, clock,
                   phase, complete>>

Proxy == ReadFrame \/ ReadEnd \/ ReadError \/ TimeoutFires \/ Deliver

Next == Write \/ Terminate \/ Break \/ Leave \/ Tick \/ Proxy

Spec == Init /\ [][Next]_vars

\* The proxy is polled when something is ready, and time passes; nothing is
\* assumed of the caller.
FairSpec == Spec /\ WF_vars(Proxy) /\ WF_vars(Tick)

-----------------------------------------------------------------------------
(* Properties *)

\* Every variable stays in its domain.
TypeOK ==
    /\ framing \in {"length", "chunked"}
    /\ length \in Nat /\ written \in 0 .. length /\ drained \in 0 .. written
    /\ ending \in {"open", "last", "broken"} /\ clock \in 0 .. Timeout
    /\ phase \in {"reading", "answered"} /\ complete \in BOOLEAN
    /\ seen \in {"nothing", "status", "reset", "left"}

\* A rejected path is no memory or bandwidth sink: what is read of a body
\* stays below the limit plus one frame (reject.rs, the doc of drain_body).
DrainIsBounded == drained < Limit + MaxFrame

\* "a rejected request reads at most 1 MiB of its body" (README.md:213).
AtMostLimit == drained <= Limit

\* A caller whose whole body is shorter than the limit loses the status only
\* by being too slow or by breaking its own body off; the reset of issue #3
\* cannot hit an ordinary call.
ResetNeedsExcess ==
    seen = "reset" => length >= Limit \/ clock = Timeout \/ ending = "broken"

\* The answer is not held back: a drain that still reads has neither reached
\* the limit nor been outlived by its timer.
ReadingIsWithinBounds == phase = "reading" => drained < Limit

\* The drain keeps the promise of Rejection, the fair part included: however
\* the caller behaves, the drain ends and an answer goes out.
Promise == INSTANCE Rejection
             WITH forfeit <- \/ drained >= Limit \/ clock = Timeout
                             \/ ending = "broken"
PromiseKept == Promise!Spec
=============================================================================
