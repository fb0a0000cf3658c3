---------------------------- MODULE MCBootloader ----------------------------
(* A factory image of one page, a newer one that fills the slot, and a      *)
(* header made for another ECU.  The client sends their pages in any order: *)
(* an update grows, a revert shrinks, a one-page image is installed over    *)
(* itself, and pages of two images meet in a slot, with a header, without   *)
(* one or with two.                                                          *)
EXTENDS Bootloader, TLC

CONSTANTS v1, v2, alien

MCImageSize == [i \in Image |-> CASE i = v1 -> 1 [] i = alien -> 2 [] OTHER -> FwPages]
MCVersion == [i \in Image |-> CASE i = v1 -> 1 [] i = v2 -> 2 [] OTHER -> 3]
MCPage == Image \X (0 .. FwPages - 1)
MCSendable == {<<i, k>> \in MCPage : k < MCImageSize[i] /\ (i = alien => k = 0)}
=============================================================================
