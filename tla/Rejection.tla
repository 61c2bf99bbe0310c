----------------------------- MODULE Rejection -----------------------------
(***************************************************************************)
(* What a drained rejection promises the caller (the doc of                *)
(* reject::drain_body): an answer is always given, and the caller reads its *)
(* status unless it sent more, or took longer, than a rejected path allows, *)
(* or broke its body off itself.                                           *)
(***************************************************************************)
VARIABLES
    phase,   \* "reading" the body, or "answered"
    forfeit, \* the caller went over a bound of the drain or broke its body off
    seen     \* what the caller saw: "nothing" yet, the "status", a "reset";
             \* "left" when it closed the connection itself
vars == <<phase, forfeit, seen>>

Init == phase = "reading" /\ forfeit = FALSE /\ seen = "nothing"

Forfeit ==
    /\ phase = "reading" /\ forfeit' = TRUE
    /\ UNCHANGED <<phase, seen>>

Answer ==
    /\ phase = "reading" /\ phase' = "answered"
    /\ forfeit' \in {forfeit, TRUE}
    /\ UNCHANGED seen

Deliver ==
    /\ phase = "answered" /\ seen = "nothing"
    /\ seen' \in IF forfeit THEN {"status", "reset"} ELSE {"status"}
    /\ UNCHANGED <<phase, forfeit>>

Leave ==
    /\ seen = "nothing" /\ seen' = "left"
    /\ UNCHANGED <<phase, forfeit>>

Next == Forfeit \/ Answer \/ Deliver \/ Leave

Safety == Init /\ [][Next]_vars
Spec == Safety /\ WF_vars(Answer) /\ WF_vars(Deliver)
=============================================================================
