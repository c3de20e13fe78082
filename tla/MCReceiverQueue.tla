--------------------------- MODULE MCReceiverQueue ---------------------------
(***************************************************************************)
(* The receiver's message path for TLC: two addresses, limits of one and   *)
(* two, and enough arrivals to overflow a batch while another is read.     *)
(***************************************************************************)
EXTENDS ReceiverQueue

MCAddresses == {1, 2}

\* Zero is an argument max_queue() ignores.
MCLimits == {0, 1}

=============================================================================
