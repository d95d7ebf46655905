------------------------------ MODULE MCCockpit -----------------------------
(* An instance of Cockpit for TLC: two roots and a child of the first, and *)
(* a child of the second that is created while the cockpit is open.        *)
EXTENDS Cockpit

Family == (1 :> Null) @@ (2 :> Null) @@ (3 :> 1) @@ (4 :> 2)
Mail2 == {<<Null, 2, "message">>, <<3, 1, "report">>}
=============================================================================
