------------------------- MODULE MCMemoryIngestion -------------------------
(***************************************************************************)
(* MemoryIngestion for TLC.  The cfgs choose the callers: one (the         *)
(* lifespan of api/app.py) or two overlapping ones.                        *)
(***************************************************************************)
EXTENDS MemoryIngestion
=============================================================================
