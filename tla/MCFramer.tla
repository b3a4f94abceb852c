------------------------------ MODULE MCFramer -----------------------------
(* An enquire_link and an outbind, the shortest requests of an SMSC with   *)
(* and without a body.                                                     *)
EXTENDS Framer

EnquireLink == <<0, 0, 0, 16, 0, 0, 0, 21, 0, 0, 0, 0, 0, 0, 0, 1>>
Outbind == <<0, 0, 0, 18, 0, 0, 0, 11, 0, 0, 0, 0, 0, 0, 0, 2, 0, 0>>
MCFrames == {EnquireLink, Outbind}
=============================================================================
