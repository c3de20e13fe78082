------------------------ MODULE MCReceiverLifecycle ------------------------
(***************************************************************************)
(* TLC instances of ReceiverLifecycle.                                     *)
(***************************************************************************)
EXTENDS ReceiverLifecycle

MCPorts == {1, 2}
OnePort == {1}
====
