--------------------------- MODULE CallSessionMC ---------------------------
(***************************************************************************)
(* CallSession on a small clock: one question into a silent line, two      *)
(* digits an entry.                                                        *)
(***************************************************************************)
EXTENDS CallSession
=============================================================================
