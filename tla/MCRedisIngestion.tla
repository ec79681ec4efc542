-------------------------- MODULE MCRedisIngestion --------------------------
(***************************************************************************)
(* RedisIngestion for TLC.  The processes are interchangeable, but every   *)
(* run checks a temporal property: no symmetry is used.                    *)
(***************************************************************************)
EXTENDS RedisIngestion
=============================================================================
