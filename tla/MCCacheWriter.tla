---------------------------- MODULE MCCacheWriter ----------------------------
(***************************************************************************)
(* Small instances of CacheWriter.  Price classes: 10 and 11 are within    *)
(* the drift guard of each other; a rise from 10 to 16 is refused, the     *)
(* fall from 16 to 10 is not.                                              *)
(***************************************************************************)
EXTENDS CacheHistory

CalmCloses == {10, 11}
JumpCloses == {10, 16}
=============================================================================
