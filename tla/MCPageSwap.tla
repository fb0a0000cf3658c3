----------------------------- MODULE MCPageSwap -----------------------------
(* Every page begins with contents of its own, so that a page copied to the *)
(* wrong place, twice or not at all shows.                                  *)
EXTENDS PageSwap

MCPage == {<<slot, i>> : slot \in {"A", "B"}, i \in 0 .. FwPages}

MCInit ==
    /\ pagesA = [i \in PagesOfA |-> <<"A", i>>]
    /\ pagesB = [i \in PagesOfB |-> <<"B", i>>]
    /\ losses = 0
    /\ SwapInit

MCSpec == MCInit /\ [][Next]_swapVars
MCFairSpec == MCSpec /\ WF_swapVars(SwapStep \/ Resume)
=============================================================================
