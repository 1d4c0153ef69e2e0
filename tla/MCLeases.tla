------------------------------ MODULE MCLeases ------------------------------
(***************************************************************************)
(* An execution registers one table and one function; fit learns an        *)
(* intermediate and a parameter.                                           *)
(***************************************************************************)
EXTENDS Leases

MCBases == {"this", "sc_fit", "carrier", "theta"}
MCNeeds == <<"this", "sc_fit">>
MCFunctions == {"sc_fit"}

MCFitOps ==
  << [op |-> "register", param |-> "carrier"],
     [op |-> "register", param |-> "theta"],
     [op |-> "drop", param |-> "carrier"] >>
=============================================================================
