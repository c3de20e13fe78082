------------------------------- MODULE MCOscMsg -------------------------------
(***************************************************************************)
(* TLC instance of OscMsg: the smallest size has no room for a message,    *)
(* one has room for an address alone, and the others for a few arguments.  *)
(***************************************************************************)
EXTENDS OscMsg

MCBufferSizes    == {22, 29, 46}
MCAddressLengths == {3, 7}
MCStringLengths  == {4}
====
