---------------------------- MODULE MCDispatcher ----------------------------
(***************************************************************************)
(* Three connections at a time over two slots: one more than there is room  *)
(* for, so that a call may be refused while two others come and go.         *)
(***************************************************************************)
EXTENDS Dispatcher
=============================================================================
