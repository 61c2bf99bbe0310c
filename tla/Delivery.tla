------------------------------ MODULE Delivery ------------------------------
(***************************************************************************)
(* What a caller and Misskey may rely on when a request is forwarded,      *)
(* whatever connections carry it: Misskey is handed the request once, in   *)
(* order and unaltered; the caller is given Misskey's answer to this very  *)
(* request in the same way, or an answer of the proxy's own, and can tell  *)
(* when it was not all of it.  Relay.tla implements this.                  *)
(***************************************************************************)
EXTENDS Naturals, Sequences

CONSTANTS
    Exchanges,  \* requests with the connections of their callers
    AnswerEnd,  \* the number of the last part of an answer of Misskey's
    Own         \* stands in the place of an exchange in what is the proxy's own

VARIABLES
    whole,    \* how many parts each request has: its head, chunks, and end
    page,     \* whether Misskey's answer to it is HTML
    written,  \* how many of them the caller has written
    heard,    \* the parts of requests that Misskey took for this request
    told      \* what the caller was given in answer, up to now

dVars == <<whole, page, written, heard, told>>

\* Part n of a request, or of the answer to it.
Part(e, n) == [of |-> e, n |-> n]
NotFound == Part(Own, 404)
BadGateway == Part(Own, 502)
Cut == Part(Own, 0)     \* the answer ends without its end
Reset == Part(Own, 1)   \* the connection dies and the status with it

\* The first n parts, in order and each once.
Parts(e, n) == [i \in 1 .. n |-> Part(e, i - 1)]

DInit ==
    /\ whole \in [Exchanges -> Nat \ {0}]
    /\ page \in [Exchanges -> BOOLEAN]
    /\ written = [e \in Exchanges |-> 0]
    /\ heard = [e \in Exchanges |-> << >>]
    /\ told = [e \in Exchanges |-> << >>]

CallerWrites(e) ==
    /\ written[e] < whole[e]
    /\ written' = [written EXCEPT ![e] = @ + 1]
    /\ UNCHANGED <<whole, page, heard, told>>

\* Misskey is handed the next part, and only what has been written.
MisskeyHears(e) ==
    /\ Len(heard[e]) < written[e]
    /\ heard' = [heard EXCEPT ![e] = Append(@, Part(e, Len(@)))]
    /\ UNCHANGED <<whole, page, written, told>>

\* The first that the caller is given.  A page never begins; a connection
\* dies only under a request that Misskey has not read to its end.
Begins(e) ==
    /\ told[e] = << >> /\ written[e] > 0
    /\ \E first \in {Part(e, 0), NotFound, BadGateway, Reset} :
          /\ first = Part(e, 0) => heard[e] # << >> /\ ~page[e]
          /\ first = NotFound => heard[e] # << >> /\ page[e]
          /\ first = Reset => Len(heard[e]) < whole[e]
          /\ told' = [told EXCEPT ![e] = <<first>>]
    /\ UNCHANGED <<whole, page, written, heard>>

\* What follows a head of Misskey's, until its end or a cut.
Continues(e) ==
    /\ told[e] # << >> /\ told[e] = Parts(e, Len(told[e]))
    /\ Len(told[e]) <= AnswerEnd
    /\ \E next \in {Part(e, Len(told[e])), Cut} :
          told' = [told EXCEPT ![e] = Append(@, next)]
    /\ UNCHANGED <<whole, page, written, heard>>

DNext == \E e \in Exchanges :
    CallerWrites(e) \/ MisskeyHears(e) \/ Begins(e) \/ Continues(e)

DSpec == DInit /\ [][DNext]_dVars
=============================================================================
