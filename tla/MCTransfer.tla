----------------------------- MODULE MCTransfer -----------------------------
(***************************************************************************)
(* Three files of five units in blocks of two: the last block is short,    *)
(* and a counter of two values wraps.  A request is sent up to three times.*)
(***************************************************************************)
EXTENDS Transfer

MCData == (1 .. 3) \X (1 .. 5)
=============================================================================
