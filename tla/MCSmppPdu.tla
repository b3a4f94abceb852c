----------------------------- MODULE MCSmppPdu -----------------------------
(* Every class of the library. *)
EXTENDS SmppPdu, SmppLayouts
=============================================================================
