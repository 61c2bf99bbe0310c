---------------------------- MODULE DrainProofs ----------------------------
(***************************************************************************)
(* Proofs about Drain.tla, for every limit, timeout, frame size and body.  *)
(***************************************************************************)
EXTENDS Drain, TLAPS

\* The caller went over one of the two bounds, or broke its body off.
Forfeited == drained >= Limit \/ clock = Timeout \/ ending = "broken"

\* Why the drain returned with the body unfinished and the caller still there.
UnfinishedNeedsExcess ==
    /\ phase = "answered" /\ ~complete /\ seen = "nothing" => Forfeited
    /\ seen = "reset" => Forfeited

\* A body the drain read to its end can no longer be broken off.
CompleteIsWhole == complete => Whole

Inv == /\ TypeOK
       /\ DrainIsBounded
       /\ ReadingIsWithinBounds
       /\ UnfinishedNeedsExcess
       /\ CompleteIsWhole

USE DEF LimitReached, Counted

LEMMA InitInv == Init => Inv
<1> SUFFICES ASSUME Init PROVE Inv
  OBVIOUS
<1>1. TypeOK
  <2>1. /\ length \in Nat /\ written \in 0 .. length
        /\ drained \in 0 .. written /\ clock \in 0 .. Timeout
    BY DrainAssumption DEF Init
  <2>2. ending \in {"open", "last", "broken"} /\ complete \in BOOLEAN
    BY Zenon DEF Init
  <2> QED
    BY <2>1, <2>2 DEF Init, TypeOK
<1>2. DrainIsBounded /\ ReadingIsWithinBounds
  BY DrainAssumption DEF Init, DrainIsBounded, ReadingIsWithinBounds
<1>3. UnfinishedNeedsExcess /\ CompleteIsWhole
  BY DEF Init, UnfinishedNeedsExcess, CompleteIsWhole
<1> QED
  BY <1>1, <1>2, <1>3 DEF Inv

\* Every step of the caller, the drain and the timer keeps the invariant.
LEMMA NextInv == Inv /\ [Next]_vars => Inv'
<1> SUFFICES ASSUME Inv, [Next]_vars PROVE Inv'
  OBVIOUS
<1> USE DrainAssumption DEF Inv, TypeOK, DrainIsBounded,
        ReadingIsWithinBounds, UnfinishedNeedsExcess, CompleteIsWhole,
        Forfeited, Whole
<1>1. CASE Write
  BY <1>1 DEF Write
<1>2. CASE Terminate
  BY <1>2 DEF Terminate
<1>11. CASE Break
  BY <1>11 DEF Break
<1>3. CASE Leave
  BY <1>3 DEF Leave
<1>4. CASE ReadFrame
  <2>1. PICK n \in 1 .. MaxFrame :
            /\ drained + n <= written
            /\ drained' = drained + n
            /\ phase' = IF LimitReached(drained') THEN "answered" ELSE "reading"
    BY <1>4 DEF ReadFrame
  <2>2. drained < Limit
    BY <1>4 DEF ReadFrame
  <2>3. drained' \in 0 .. written /\ drained' < Limit + MaxFrame
    BY <2>1, <2>2
  <2>4. phase' = "reading" => drained' < Limit
    BY <2>1, <2>3
  <2>5. phase' = "answered" => drained' >= Limit
    BY <2>1
  <2>6. complete' \in BOOLEAN
    BY <1>4 DEF ReadFrame
  <2>7. complete' => Whole'
    BY <1>4, <2>1, <2>3 DEF ReadFrame
  <2> QED
    BY <1>4, <2>1, <2>3, <2>4, <2>5, <2>6, <2>7 DEF ReadFrame
<1>5. CASE ReadEnd
  BY <1>5 DEF ReadEnd, AtEnd
<1>6. CASE ReadError
  BY <1>6 DEF ReadError
<1>7. CASE Tick
  BY <1>7 DEF Tick
<1>8. CASE TimeoutFires
  BY <1>8 DEF TimeoutFires
<1>9. CASE Deliver
  <2>1. ~complete => Forfeited
    BY <1>9 DEF Deliver
  <2>2. /\ seen' \in {"status", "reset"}
        /\ seen' = "reset" => ~complete
    BY <1>9 DEF Deliver
  <2> QED
    BY <1>9, <2>1, <2>2 DEF Deliver
<1>10. CASE UNCHANGED vars
  BY <1>10 DEF vars
<1> QED
  BY <1>1, <1>2, <1>3, <1>4, <1>5, <1>6, <1>7, <1>8, <1>9, <1>10, <1>11
     DEF Next, Proxy

\* Inv is an invariant of the drain.
LEMMA InvHolds == Spec => []Inv
  BY InitInv, NextInv, PTL DEF Spec

-----------------------------------------------------------------------------

\* Type correctness of the drain.
THEOREM TypeCorrect == Spec => []TypeOK
<1>1. Inv => TypeOK
  BY DEF Inv
<1> QED
  BY <1>1, InvHolds, PTL

\* Whatever the caller writes and however it is cut into frames, less than
\* the limit and one frame is read of a rejected body (drain_up_to).
THEOREM Bounded == Spec => []DrainIsBounded
<1>1. Inv => DrainIsBounded
  BY DEF Inv
<1> QED
  BY <1>1, InvHolds, PTL

\* A caller that stays connected loses the status of a rejection only if its
\* body reaches the limit, the timer ran out, or it broke its body off.
THEOREM OrdinaryCallsSeeTheStatus == Spec => []ResetNeedsExcess
<1>1. Inv => ResetNeedsExcess
  BY DrainAssumption DEF Inv, TypeOK, UnfinishedNeedsExcess, Forfeited,
         ResetNeedsExcess
<1> QED
  BY <1>1, InvHolds, PTL

\* The drain implements the safety part of what Rejection promises.
THEOREM ImplementsRejection == Spec => Promise!Safety
<1> DEFINE forfeit == drained >= Limit \/ clock = Timeout \/ ending = "broken"
<1>1. Init => Promise!Init
  BY DrainAssumption DEF Init, Promise!Init
<1>2. Inv /\ [Next]_vars => [Promise!Next]_(Promise!vars)
  <2> SUFFICES ASSUME Inv, [Next]_vars
               PROVE Promise!Next \/ UNCHANGED Promise!vars
    OBVIOUS
  <2> USE DrainAssumption DEF Inv, TypeOK, ReadingIsWithinBounds,
          Promise!vars
  <2>1. CASE Write
    BY <2>1 DEF Write
  <2>2. CASE Terminate
    BY <2>2 DEF Terminate
  <2>11. CASE Break
    BY <2>11 DEF Break, Whole, CompleteIsWhole, UnfinishedNeedsExcess,
              Promise!Next, Promise!Forfeit, Forfeited
  <2>3. CASE Leave
    BY <2>3 DEF Leave, Promise!Next, Promise!Leave
  <2>4. CASE ReadFrame
    <3>1. /\ phase = "reading" /\ drained' \in Nat /\ drained' >= drained
          /\ phase' = IF drained' >= Limit THEN "answered" ELSE "reading"
          /\ clock' = clock /\ seen' = seen /\ ending' = ending
      BY <2>4 DEF ReadFrame
    <3>2. CASE drained' >= Limit
      BY <3>1, <3>2 DEF Promise!Next, Promise!Answer
    <3>3. CASE ~(drained' >= Limit)
      BY <3>1, <3>3
    <3> QED
      BY <3>2, <3>3
  <2>5. CASE ReadEnd
    BY <2>5 DEF ReadEnd, Promise!Next, Promise!Answer
  <2>6. CASE ReadError
    BY <2>6 DEF ReadError, Promise!Next, Promise!Answer
  <2>7. CASE Tick
    BY <2>7 DEF Tick, Promise!Next, Promise!Forfeit
  <2>8. CASE TimeoutFires
    BY <2>8 DEF TimeoutFires, Promise!Next, Promise!Answer
  <2>9. CASE Deliver
    <3>1. phase = "answered" /\ seen = "nothing"
      BY <2>9 DEF Deliver
    <3>2. forfeit \/ complete
      BY <3>1 DEF UnfinishedNeedsExcess, Forfeited
    <3>3. seen' \in IF forfeit THEN {"status", "reset"} ELSE {"status"}
      BY <2>9, <3>2 DEF Deliver
    <3> QED
      BY <2>9, <3>1, <3>3 DEF Deliver, Promise!Next, Promise!Deliver
  <2>10. CASE UNCHANGED vars
    BY <2>10 DEF vars
  <2> QED
    BY <2>1, <2>2, <2>3, <2>4, <2>5, <2>6, <2>7, <2>8, <2>9, <2>10, <2>11
       DEF Next, Proxy
<1> QED
  BY <1>1, <1>2, InvHolds, PTL DEF Spec, Promise!Safety
=============================================================================
