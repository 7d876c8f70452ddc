--------------------------- MODULE MCMessageQueue ---------------------------
(***************************************************************************)
(* MessageQueue with a ring that starts with two slots and grows twice.    *)
(***************************************************************************)
EXTENDS MessageQueue
=============================================================================
