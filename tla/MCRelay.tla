------------------------------ MODULE MCRelay ------------------------------
(***************************************************************************)
(* One request with a chunk of body and one without, over one connection   *)
(* or two.                                                                 *)
(***************************************************************************)
EXTENDS Relay

CONSTANTS e1, e2

MCSizes == [e \in {e1, e2} |-> IF e = e1 THEN {3} ELSE {2}]
=============================================================================
