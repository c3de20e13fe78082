----------------------------- MODULE MCOscSender -----------------------------
(***************************************************************************)
(* TLC instance of OscSender.                                              *)
(***************************************************************************)
EXTENDS OscSender

MCAddressLengths == {3, 7, 39}
====
