----------------------------- MODULE AtomicSwap -----------------------------
(***************************************************************************)
(* What the exchange of the two slots promises to the rest of the          *)
(* bootloader: the image the primary slot stands for and the image the     *)
(* secondary slot stands for change places in one indivisible step, once,  *)
(* and are otherwise left alone.                                            *)
(***************************************************************************)
VARIABLES primary, secondary, exchanged

Init == exchanged = FALSE

Exchange ==
    /\ ~exchanged
    /\ exchanged' = TRUE
    /\ primary' = secondary
    /\ secondary' = primary

Spec == Init /\ [][Exchange]_<<primary, secondary, exchanged>>
=============================================================================
