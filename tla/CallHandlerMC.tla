--------------------------- MODULE CallHandlerMC ---------------------------
(* Two calls and one place.  The end of a leg may be reported wherever the  *)
(* handler is prepared for it.                                             *)
EXTENDS CallHandler

CONSTANTS c1, c2

Anywhere == Places \ {"greets", "asks", "opens", "turn"}
=============================================================================
