---------------------------- MODULE CallbacksMC ----------------------------
(* Small instances of Callbacks for TLC.                                   *)
EXTENDS Callbacks
CONSTANTS c1, c2, t1, t2, t3
=============================================================================
