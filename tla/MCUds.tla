------------------------------- MODULE MCUds --------------------------------
(***************************************************************************)
(* The UDS server with a slot of three units of data, one unit per block or*)
(* two, a block counter of four values, two attempts and clocks of two     *)
(* ticks.  The units of data need not be told apart here.                  *)
(***************************************************************************)
EXTENDS Uds

MCData == {"data"}
MCSeed == {"seed1", "seed2"}
=============================================================================
