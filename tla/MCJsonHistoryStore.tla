------------------------- MODULE MCJsonHistoryStore -------------------------
(***************************************************************************)
(* JsonHistoryStore for TLC.                                               *)
(***************************************************************************)
EXTENDS JsonHistoryStore
=============================================================================
