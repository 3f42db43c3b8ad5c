---------------------------- MODULE ColdPathMC ----------------------------
(* Small instances of ColdPath for TLC.                                    *)
EXTENDS ColdPath
CONSTANTS e1, e2, d1, d2, r1, r2
===========================================================================
