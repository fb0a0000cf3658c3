--------------------------- MODULE PageSwapProofs ---------------------------
(***************************************************************************)
(* Proofs about PageSwap for every size of a slot, every contents of its   *)
(* pages and any number of interruptions.                                   *)
(***************************************************************************)
EXTENDS PageSwap, TLAPS

\* The loop visits the pages in the order Earlier: the first index has
\* nothing before it, the following one only what was before and the index
\* itself, and everything but the last index is before the last one.
LEMMA LoopOrder ==
    ASSUME TypeOK
    PROVE  /\ FirstIndex \in Swapped
           /\ \A j \in Swapped : ~Earlier(j, FirstIndex)
           /\ \A i \in Swapped : i # LastIndex =>
                /\ Following(i) \in Swapped
                /\ Earlier(i, Following(i))
                /\ \A j \in Swapped : Earlier(j, Following(i)) => j = i \/ Earlier(j, i)
           /\ \A j \in Swapped : j = LastIndex \/ Earlier(j, LastIndex)
           /\ \A i, j \in Swapped : i = j \/ Earlier(i, j) \/ Earlier(j, i)
           /\ \A i \in Swapped : ~Earlier(i, i)
  BY SizeAssumption
     DEF TypeOK, FirstIndex, LastIndex, Following, Earlier, Forward, Swapped, Unset

\* The pages of one round are pages of the slots, the records of a page are
\* its own, and the page of slot B a round overwrites is the one a finished
\* round was the last to need.
LEMMA PagesOfARound ==
    ASSUME TypeOK, NEW i \in Swapped
    PROVE  /\ i \in PagesOfA
           /\ Out(i) \in PagesOfB
           /\ In(i) \in PagesOfB
           /\ Out(i) # In(i)
           /\ 2 * i \in 0 .. 2 * FwPages - 1
           /\ 2 * i + 1 \in 0 .. 2 * FwPages - 1
           /\ \A j \in Swapped : /\ 2 * i # 2 * j + 1
                                 /\ i # j => /\ Out(i) # Out(j)
                                             /\ In(i) # In(j)
                                             /\ 2 * i # 2 * j
                                             /\ 2 * i + 1 # 2 * j + 1
                                 /\ Out(i) = In(j) => Earlier(j, i)
  BY SizeAssumption
     DEF TypeOK, Swapped, Out, In, PagesOfA, PagesOfB, Earlier, Forward

\* The invariant holds of a swap that has not begun to move pages, whatever the
\* slots hold and however many interruptions there were before.
LEMMA SwapStarts ==
    /\ SwapInit
    /\ pagesA \in [PagesOfA -> Content] /\ pagesB \in [PagesOfB -> Content]
    /\ losses \in 0 .. MaxLosses
    => SwapInv /\ Confined
  <1> SUFFICES ASSUME SwapInit, losses \in 0 .. MaxLosses,
                      pagesA \in [PagesOfA -> Content], pagesB \in [PagesOfB -> Content]
               PROVE  SwapInv /\ Confined
    OBVIOUS
  <1>1. TypeOK
    BY SizeAssumption
       DEF SwapInit, TypeOK, NoRecords, Record, SwapPc, Loop, FirstIndex, Forward
  <1>2. \A i \in Swapped : ~Halfway(i) /\ ~Finished(i)
    BY <1>1, PagesOfARound DEF SwapInit, NoRecords, Halfway, Finished
  <1>3. IsNext(idx)
    BY <1>1, <1>2, LoopOrder DEF SwapInit, IsNext
  <1>4. OrderInv
    BY <1>2 DEF OrderInv
  <1>5. PlaceInv
    BY <1>2, <1>3 DEF SwapInit, PlaceInv, IsNext
  <1>6. TargetInv
    BY DEF SwapInit, TargetInv
  <1>7. NothingLost
    BY <1>2 DEF SwapInit, NothingLost, PageOfOldA, PageOfOldB
  <1>8. Confined
    BY DEF SwapInit, Confined
  <1> QED
    BY <1>1, <1>4, <1>5, <1>6, <1>7, <1>8 DEF SwapInv

\* A swap begins without a record set.
LEMMA InitSwapInv == Init => SwapInv /\ Confined
  <1>1. 0 \in 0 .. MaxLosses
    BY LossAssumption
  <1> QED
    BY <1>1, SwapStarts DEF Init

\* Every flash operation finds its loop index among the pages to be swapped.
LEMMA IndexSwapped ==
    ASSUME SwapInv, pc \in Loop
    PROVE  idx \in Swapped /\ ~Finished(idx) /\ \A j \in Swapped : Earlier(j, idx) => Finished(j)
  BY DEF SwapInv, PlaceInv, IsNext

LEMMA TypeStep == SwapInv /\ [Next]_swapVars => TypeOK'
  <1> SUFFICES ASSUME SwapInv, [Next]_swapVars PROVE TypeOK'
    OBVIOUS
  <1> USE DEF SwapInv, TypeOK
  <1>1. CASE EraseOut \/ ProgramOut
    <2>1. idx \in Swapped
      BY <1>1, IndexSwapped DEF EraseOut, ProgramOut, Loop
    <2>2. Programmed(pagesB[Out(idx)], pagesA[idx]) \in Content
      BY <2>1, PagesOfARound DEF Programmed, Content
    <2> QED
      BY <1>1, <2>1, <2>2, PagesOfARound
         DEF EraseOut, ProgramOut, WriteB, Content, SwapPc, Loop
  <1>2. CASE EraseIn \/ ProgramIn
    <2>1. idx \in Swapped
      BY <1>2, IndexSwapped DEF EraseIn, ProgramIn, Loop
    <2>2. Programmed(pagesA[idx], pagesB[In(idx)]) \in Content
      BY <2>1, PagesOfARound DEF Programmed, Content
    <2> QED
      BY <1>2, <2>1, <2>2, PagesOfARound
         DEF EraseIn, ProgramIn, WriteA, Content, SwapPc, Loop
  <1>3. CASE RecordOut
    BY <1>3 DEF RecordOut, Record, SwapPc, Loop
  <1>4. CASE RecordIn
    <2>1. idx \in Swapped
      BY <1>4, IndexSwapped DEF RecordIn, Loop
    <2>2. idx' \in 0 .. FwPages
      BY <1>4, <2>1, LoopOrder, SizeAssumption DEF RecordIn, Swapped
    <2> QED
      BY <1>4, <2>2 DEF RecordIn, Record, SwapPc, Loop
  <1>5. CASE EraseLast
    BY <1>5 DEF EraseLast, WriteB, Content, SwapPc
  <1>6. CASE SetCopyDone
    BY <1>6 DEF SetCopyDone, Record, SwapPc
  <1>7. CASE RecordRefused
    BY <1>7 DEF RecordRefused, SwapPc
  <1>8. CASE Resume
    BY <1>8, SizeAssumption DEF Resume, SwapPc, Loop, Swapped
  <1>9. CASE Interrupt
    <2>1. pagesA' \in [PagesOfA -> Content] /\ pagesB' \in [PagesOfB -> Content]
      BY <1>9 DEF Interrupt, TearPage, Content
    <2>2. swapStatus' \in [0 .. 2 * FwPages - 1 -> Record] /\ copyDone' \in Record
      BY <1>9 DEF Interrupt, TearRecord, Tear, Record
    <2>3. losses' \in 0 .. MaxLosses
      BY <1>9, LossAssumption DEF Interrupt
    <2> QED
      BY <1>9, <2>1, <2>2, <2>3 DEF Interrupt, SwapPc
  <1>10. CASE UNCHANGED swapVars
    BY <1>10 DEF swapVars
  <1> QED
    BY <1>1, <1>2, <1>3, <1>4, <1>5, <1>6, <1>7, <1>8, <1>9, <1>10 DEF Next, SwapStep

\* No step of the swap changes what is being swapped and in which direction.
LEMMA Fixed == Next => swapSize' = swapSize /\ swapInfo' = swapInfo /\ orig' = orig
  BY DEF Next, SwapStep, EraseOut, ProgramOut, EraseIn, ProgramIn, EraseLast, WriteA, WriteB,
         RecordOut, RecordIn, SetCopyDone, RecordRefused, Resume, Interrupt, swapVars

\* The records change in RecordOut and RecordIn, and where an interruption
\* tears an erased one, which makes no page count as moved.
LEMMA RecordsStep ==
    ASSUME SwapInv, Next
    PROVE  \A i \in Swapped :
             /\ Finished(i)' <=> Finished(i) \/ (RecordIn /\ i = idx)
             /\ Halfway(i)' <=> Halfway(i) \/ (RecordOut /\ i = idx)
  <1> USE DEF Finished, Halfway
  <1> TypeOK
    BY DEF SwapInv
  <1>1. CASE RecordOut
    <2>1. idx \in Swapped
      BY <1>1, IndexSwapped DEF RecordOut, Loop
    <2>2. ~RecordIn
      BY <1>1 DEF RecordOut, RecordIn
    <2> QED
      BY <1>1, <2>1, <2>2, PagesOfARound DEF RecordOut, TypeOK
  <1>2. CASE RecordIn
    <2>1. idx \in Swapped
      BY <1>2, IndexSwapped DEF RecordIn, Loop
    <2>2. ~RecordOut
      BY <1>2 DEF RecordOut, RecordIn
    <2> QED
      BY <1>2, <2>1, <2>2, PagesOfARound DEF RecordIn, TypeOK
  <1>3. CASE Interrupt
    <2>1. ~RecordIn /\ ~RecordOut
      BY <1>3 DEF Interrupt, RecordIn, RecordOut
    <2>2. \A r \in 0 .. 2 * FwPages - 1 : swapStatus'[r] = "set" <=> swapStatus[r] = "set"
      BY <1>3 DEF Interrupt, TearRecord, Tear, TypeOK, Record
    <2> QED
      BY <2>1, <2>2, PagesOfARound
  <1>4. CASE swapStatus' = swapStatus /\ pc # "recIn" /\ pc # "recOut"
    BY <1>4 DEF RecordIn, RecordOut
  <1>5. CASE RecordRefused
    <2>1. ~RecordIn /\ ~RecordOut
      BY <1>5 DEF RecordRefused, RecordIn, RecordOut
    <2> QED
      BY <1>5, <2>1 DEF RecordRefused
  <1> QED
    BY <1>1, <1>2, <1>3, <1>4, <1>5
       DEF Next, SwapStep, EraseOut, ProgramOut, EraseIn, ProgramIn, EraseLast, WriteA, WriteB,
           SetCopyDone, Resume, swapVars

LEMMA OrderStep == SwapInv /\ [Next]_swapVars => OrderInv'
  <1> SUFFICES ASSUME SwapInv, [Next]_swapVars PROVE OrderInv'
    OBVIOUS
  <1>1. CASE UNCHANGED swapVars
    BY <1>1 DEF SwapInv, OrderInv, swapVars, Swapped, Finished, Halfway, Earlier, Forward
  <1>2. CASE Next
    <2> DEFINE Before(i) == \A j \in Swapped : Earlier(j, i) => Finished(j)
    <2>1. \A i \in Swapped : (RecordIn \/ RecordOut) /\ i = idx => Before(i)
      BY IndexSwapped DEF RecordIn, RecordOut, Loop
    <2>2. \A i \in Swapped : Before(i) => Before(i)'
      BY <1>2, Fixed, RecordsStep DEF Swapped, Earlier, Forward
    <2>3. \A i \in Swapped : RecordIn /\ i = idx => Halfway(i)
      BY DEF RecordIn, SwapInv, PlaceInv
    <2>4. ASSUME NEW i \in Swapped
          PROVE  /\ Finished(i)' => Halfway(i)'
                 /\ (Halfway(i) \/ Finished(i))' => Before(i)'
      BY <1>2, <2>1, <2>2, <2>3, RecordsStep DEF SwapInv, OrderInv
    <2>5. Swapped' = Swapped
      BY <1>2, Fixed DEF Swapped
    <2> QED
      BY <2>4, <2>5 DEF OrderInv
  <1> QED
    BY <1>1, <1>2

\* A step that neither moves the loop on nor sets a record leaves the place
\* of the loop as it is.
LEMMA PlaceStep == SwapInv /\ [Next]_swapVars => PlaceInv'
  <1> SUFFICES ASSUME SwapInv, [Next]_swapVars PROVE PlaceInv'
    OBVIOUS
  <1> TypeOK /\ OrderInv /\ PlaceInv
    BY DEF SwapInv
  <1>1. CASE UNCHANGED swapVars
    BY <1>1 DEF PlaceInv, IsNext, AllFinished, swapVars, Swapped, Finished, Halfway, Earlier, Forward
  <1>2. CASE Next
    <2>1. /\ Swapped' = Swapped /\ Forward' = Forward
          /\ \A i, j : Earlier(i, j)' <=> Earlier(i, j)
      BY <1>2, Fixed DEF Swapped, Forward, Earlier
    <2>2. pc \in Loop => idx \in Swapped
      BY IndexSwapped
    <2>3. CASE EraseOut \/ ProgramOut \/ EraseIn \/ ProgramIn
      <3>1. swapStatus' = swapStatus /\ idx' = idx /\ copyDone' = copyDone
        BY <2>3 DEF EraseOut, ProgramOut, EraseIn, ProgramIn, WriteA, WriteB
      <3>2. IsNext(idx)' <=> IsNext(idx)
        BY <2>1, <3>1 DEF IsNext, Finished
      <3>3. Halfway(idx)' <=> Halfway(idx)
        BY <3>1 DEF Halfway
      <3> QED
        BY <2>3, <3>1, <3>2, <3>3
           DEF PlaceInv, EraseOut, ProgramOut, EraseIn, ProgramIn, WriteA, WriteB, Loop
    <2>4. CASE RecordOut
      <3>1. idx \in Swapped /\ idx' = idx /\ pc' = "eraseIn" /\ copyDone' = copyDone
        BY <2>2, <2>4 DEF RecordOut, Loop
      <3>2. ~RecordIn
        BY <2>4 DEF RecordOut, RecordIn
      <3>3. IsNext(idx)'
        BY <1>2, <2>1, <2>4, <3>1, <3>2, RecordsStep DEF IsNext, PlaceInv, RecordOut, Loop
      <3>4. Halfway(idx)'
        BY <1>2, <2>4, <3>1, RecordsStep
      <3> QED
        BY <2>4, <3>1, <3>3, <3>4 DEF PlaceInv, Loop, RecordOut
    <2>5. CASE RecordIn
      <3>1. PICK i \in Swapped : i = idx
        BY <2>2, <2>5 DEF RecordIn, Loop
      <3>2. /\ copyDone' = copyDone /\ pc = "recIn"
            /\ Finished(i)' /\ \A j \in Swapped : Earlier(j, i) => Finished(j)'
        BY <1>2, <2>5, <3>1, IndexSwapped, RecordsStep DEF RecordIn, Loop
      <3>3. \A j \in Swapped : j # i /\ ~Finished(j) => ~Finished(j)' /\ (~Halfway(j) => ~Halfway(j)')
        BY <1>2, <2>5, <3>1, RecordsStep DEF RecordIn, RecordOut
      <3>4. CASE i = LastIndex
        <4>1. \A j \in Swapped : Finished(j)'
          BY <3>2, <3>4, LoopOrder
        <4> QED
          BY <2>1, <2>5, <3>1, <3>2, <3>4, <4>1 DEF RecordIn, PlaceInv, Loop, AllFinished
      <3>5. CASE i # LastIndex
        <4>1. PICK k \in Swapped : /\ k = idx' /\ k # i /\ pc' = "eraseOut" /\ Earlier(i, k)
                                   /\ \A j \in Swapped : Earlier(j, k) => j = i \/ Earlier(j, i)
          BY <2>5, <3>1, <3>5, LoopOrder DEF RecordIn
        <4>2. ~Finished(k) /\ ~Halfway(k)
          BY <2>5, <3>1, <4>1, IndexSwapped DEF OrderInv, Loop, RecordIn
        <4>3. IsNext(k)' /\ ~Halfway(k)'
          BY <2>1, <3>2, <3>3, <4>1, <4>2 DEF IsNext
        <4>4. IsNext(idx)' /\ ~Halfway(idx)'
          BY <4>1, <4>3 DEF IsNext, Halfway, Finished
        <4> QED
          BY <3>2, <4>1, <4>4 DEF PlaceInv, Loop
      <3> QED
        BY <3>4, <3>5
    <2>6. CASE EraseLast
      BY <2>1, <2>6 DEF EraseLast, WriteB, PlaceInv, Loop, AllFinished, Finished
    <2>7. CASE SetCopyDone
      BY <2>1, <2>7 DEF SetCopyDone, PlaceInv, Loop, AllFinished, Finished
    <2>8. CASE RecordRefused
      BY <2>8 DEF RecordRefused, PlaceInv, Loop
    <2>9. CASE Resume
      <3>1. CASE AllFinished /\ pc' = IF Forward THEN "eraseLast" ELSE "setDone"
        BY <2>1, <2>9, <3>1 DEF Resume, PlaceInv, Loop, AllFinished, Finished
      <3>2. CASE \E i \in Swapped : /\ IsNext(i) /\ idx' = i
                                    /\ pc' = IF Halfway(i) THEN "eraseIn" ELSE "eraseOut"
        <4>1. swapStatus' = swapStatus /\ copyDone' = copyDone /\ copyDone # "set"
          BY <2>9 DEF Resume
        <4>2. PICK i \in Swapped : /\ IsNext(i) /\ idx' = i
                                   /\ pc' = IF Halfway(i) THEN "eraseIn" ELSE "eraseOut"
          BY <3>2
        <4>3. IsNext(idx)' /\ (Halfway(idx)' <=> Halfway(i))
          BY <2>1, <4>1, <4>2 DEF IsNext, Finished, Halfway
        <4> QED
          BY <4>1, <4>2, <4>3 DEF PlaceInv, Loop
      <3> QED
        BY <2>9, <3>1, <3>2 DEF Resume
    <2>10. CASE Interrupt
      BY <2>10 DEF Interrupt, TearRecord, Tear, PlaceInv, Loop
    <2>11. CASE pc = "done" /\ UNCHANGED swapVars
      BY <1>1, <2>11
    <2> QED
      BY <1>2, <2>3, <2>4, <2>5, <2>6, <2>7, <2>8, <2>9, <2>10, <2>11 DEF Next, SwapStep
  <1> QED
    BY <1>1, <1>2

\* A step writes one page at most: the page of slot B its round fills while
\* the page of slot A is not safe there yet, then that page of slot A.
LEMMA PagesStep ==
    ASSUME SwapInv, Next
    PROVE  /\ \A i \in PagesOfA : pagesA'[i] = pagesA[i] \/ (i = idx /\ pc \in {"eraseIn", "progIn"})
           /\ \A i \in PagesOfB : \/ pagesB'[i] = pagesB[i]
                                  \/ i = Out(idx) /\ pc \in {"eraseOut", "progOut"}
                                  \/ i = swapSize /\ pc = "eraseLast"
  BY DEF SwapInv, TypeOK, Next, SwapStep, EraseOut, ProgramOut, EraseIn, ProgramIn, EraseLast,
         WriteA, WriteB, RecordOut, RecordIn, SetCopyDone, RecordRefused, Resume,
         Interrupt, TearPage, swapVars

LEMMA TargetStep == SwapInv /\ [Next]_swapVars => TargetInv'
  <1> SUFFICES ASSUME SwapInv, [Next]_swapVars PROVE TargetInv'
    OBVIOUS
  <1> TypeOK /\ OrderInv /\ PlaceInv /\ TargetInv
    BY DEF SwapInv
  <1>1. CASE UNCHANGED swapVars
    BY <1>1 DEF TargetInv, swapVars, Out, In, Forward
  <1>2. CASE Next
    <2>1. pc \in Loop => /\ idx \in PagesOfA /\ Out(idx) \in PagesOfB
                        /\ In(idx) \in PagesOfB /\ Out(idx) # In(idx)
      BY IndexSwapped, PagesOfARound
    <2>2. CASE EraseOut \/ ProgramOut
      BY <2>1, <2>2 DEF EraseOut, ProgramOut, WriteB, TargetInv, TypeOK, Out, In, Forward,
                        Programmed, Loop
    <2>3. CASE EraseIn \/ ProgramIn
      BY <2>1, <2>3 DEF EraseIn, ProgramIn, WriteA, TargetInv, TypeOK, Out, In, Forward,
                        Programmed, Loop
    <2>4. CASE RecordOut
      BY <2>4 DEF RecordOut, TargetInv
    <2>5. CASE RecordIn
      BY <2>5 DEF RecordIn, TargetInv, Forward
    <2>6. CASE EraseLast
      BY <2>6, SizeAssumption DEF EraseLast, WriteB, TargetInv, TypeOK, PagesOfB
    <2>7. CASE SetCopyDone
      BY <2>7 DEF SetCopyDone, TargetInv, Forward
    <2>8. CASE RecordRefused \/ Interrupt
      BY <2>8 DEF RecordRefused, Interrupt, TargetInv
    <2>9. CASE Resume
      BY <2>9 DEF Resume, TargetInv, Forward
    <2>10. CASE pc = "done" /\ UNCHANGED swapVars
      BY <1>1, <2>10
    <2> QED
      BY <1>2, <2>2, <2>3, <2>4, <2>5, <2>6, <2>7, <2>8, <2>9, <2>10 DEF Next, SwapStep
  <1> QED
    BY <1>1, <1>2

\* The one place where both copies of a page are needed: when a record says
\* that the copy in the other slot is the one to trust from now on.
LEMMA NothingLostStep == SwapInv /\ [Next]_swapVars => NothingLost'
  <1> SUFFICES ASSUME SwapInv, [Next]_swapVars PROVE NothingLost'
    OBVIOUS
  <1> TypeOK /\ OrderInv /\ PlaceInv /\ TargetInv /\ NothingLost
    BY DEF SwapInv
  <1>1. CASE UNCHANGED swapVars
    BY <1>1 DEF NothingLost, PageOfOldA, PageOfOldB, Halfway, Finished, swapVars, Swapped,
                Out, In, Forward
  <1>2. CASE Next
    <2>1. Swapped' = Swapped /\ orig' = orig /\ \A i : Out(i)' = Out(i) /\ In(i)' = In(i)
      BY <1>2, Fixed DEF Swapped, Out, In, Forward
    <2> SUFFICES ASSUME NEW i \in Swapped
                 PROVE  PageOfOldA(i)' = orig.a[i] /\ PageOfOldB(i)' = orig.b[In(i)]
      BY <2>1 DEF NothingLost
    <2>2. /\ i \in PagesOfA /\ Out(i) \in PagesOfB /\ In(i) \in PagesOfB
          /\ Out(i) # In(i)
      BY PagesOfARound
    <2>3. PageOfOldA(i) = orig.a[i] /\ PageOfOldB(i) = orig.b[In(i)]
      BY DEF NothingLost
    <2>4. PageOfOldA(i)' = PageOfOldA(i)
      <3>1. CASE Halfway(i)
        <4>1. Halfway(i)'
          BY <1>2, <3>1, RecordsStep
        <4>2. pagesB'[Out(i)] = pagesB[Out(i)]
          <5>1. ~(Out(i) = Out(idx) /\ pc \in {"eraseOut", "progOut"})
            BY <3>1, IndexSwapped, PagesOfARound DEF PlaceInv, Loop
          <5>2. ~(Out(i) = swapSize /\ pc = "eraseLast")
            BY DEF PlaceInv, Out, Swapped, TypeOK
          <5> QED
            BY <1>2, <2>2, <5>1, <5>2, PagesStep
        <4> QED
          BY <2>1, <3>1, <4>1, <4>2 DEF PageOfOldA
      <3>2. CASE ~Halfway(i) /\ ~(RecordOut /\ i = idx)
        <4>1. ~Halfway(i)'
          BY <1>2, <3>2, RecordsStep
        <4>2. pagesA'[i] = pagesA[i]
          BY <1>2, <2>2, <3>2, PagesStep DEF PlaceInv
        <4> QED
          BY <3>2, <4>1, <4>2 DEF PageOfOldA
      <3>3. CASE ~Halfway(i) /\ RecordOut /\ i = idx
        <4>1. Halfway(i)'
          BY <1>2, <3>3, RecordsStep
        <4> QED
          BY <2>1, <3>3, <4>1 DEF PageOfOldA, RecordOut, TargetInv
      <3> QED
        BY <3>1, <3>2, <3>3
    <2>5. PageOfOldB(i)' = PageOfOldB(i)
      <3>1. CASE Finished(i)
        <4>1. Finished(i)'
          BY <1>2, <3>1, RecordsStep
        <4>2. pagesA'[i] = pagesA[i]
          BY <1>2, <2>2, <3>1, PagesStep, IndexSwapped DEF Loop
        <4> QED
          BY <3>1, <4>1, <4>2 DEF PageOfOldB
      <3>2. CASE ~Finished(i) /\ ~(RecordIn /\ i = idx)
        <4>1. ~Finished(i)'
          BY <1>2, <3>2, RecordsStep
        <4>2. pagesB'[In(i)] = pagesB[In(i)]
          <5>1. ~(In(i) = Out(idx) /\ pc \in {"eraseOut", "progOut"})
            BY <3>2, IndexSwapped, PagesOfARound DEF Loop
          <5>2. pc # "eraseLast"
            BY <3>2 DEF PlaceInv, AllFinished
          <5> QED
            BY <1>2, <2>2, <5>1, <5>2, PagesStep
        <4> QED
          BY <2>1, <3>2, <4>1, <4>2 DEF PageOfOldB
      <3>3. CASE ~Finished(i) /\ RecordIn /\ i = idx
        <4>1. Finished(i)'
          BY <1>2, <3>3, RecordsStep
        <4> QED
          BY <3>3, <4>1 DEF PageOfOldB, RecordIn, TargetInv
      <3> QED
        BY <3>1, <3>2, <3>3
    <2> QED
      BY <2>3, <2>4, <2>5
  <1> QED
    BY <1>1, <1>2

\* The parts together.
LEMMA SwapInvStep == SwapInv /\ [Next]_swapVars => SwapInv'
  BY TypeStep, OrderStep, PlaceStep, TargetStep, NothingLostStep DEF SwapInv

-----------------------------------------------------------------------------

\* The inductive invariant of the swap: its records are in order, every
\* program point finds the page it is about to write in the state it expects,
\* and both images can be recovered.
THEOREM SwapInvariant == Spec => []SwapInv
  <1>1. Init => SwapInv
    BY InitSwapInv
  <1> QED
    BY <1>1, SwapInvStep, PTL DEF Spec

\* Every variable of the swap keeps its type, for slots of every size.
THEOREM TypeCorrect == Spec => []TypeOK
  BY SwapInvariant, PTL DEF SwapInv

\* At no point of any swap, however often interrupted, is the only copy of a
\* page of either image destroyed.
THEOREM ImagesRecoverable == Spec => []NothingLost
  BY SwapInvariant, PTL DEF SwapInv

LEMMA InvExchange == SwapInv => ExchangeExact
  <1> SUFFICES ASSUME SwapInv, copyDone = "set", NEW i \in Swapped
               PROVE  /\ pagesA[i] = orig.b[In(i)] /\ pagesB[Out(i)] = orig.a[i]
                      /\ Forward => pagesB[swapSize] = Erased
    BY DEF ExchangeExact
  <1>1. pc = "done" /\ Finished(i)
    BY DEF SwapInv, PlaceInv, AllFinished
  <1>2. Halfway(i)
    BY <1>1 DEF SwapInv, OrderInv
  <1> QED
    BY <1>1, <1>2 DEF SwapInv, NothingLost, PageOfOldA, PageOfOldB, TargetInv

\* A swap that set copy_done has exchanged exactly the two images.
THEOREM ExchangeIsExact == Spec => []ExchangeExact
  BY SwapInvariant, InvExchange, PTL

\* No page is written whose index the loop does not reach.
LEMMA ConfinedStep == SwapInv /\ Confined /\ [Next]_swapVars => Confined'
  <1> SUFFICES ASSUME SwapInv, Confined, [Next]_swapVars PROVE Confined'
    OBVIOUS
  <1>1. CASE UNCHANGED swapVars
    BY <1>1 DEF Confined, Swapped, swapVars
  <1>2. CASE Next
    <2>1. pc \in Loop => idx \in Swapped /\ Out(idx) <= swapSize
      BY IndexSwapped DEF Swapped, Out, SwapInv, TypeOK
    <2>2. Swapped' = Swapped /\ orig' = orig /\ swapSize' = swapSize
      BY <1>2, Fixed DEF Swapped
    <2>3. \A i \in PagesOfA \ Swapped : pagesA'[i] = pagesA[i]
      BY <1>2, <2>1, PagesStep DEF Loop
    <2>4. \A i \in PagesOfB : i > swapSize => pagesB'[i] = pagesB[i]
      BY <1>2, <2>1, PagesStep DEF Loop, PagesOfB, SwapInv, TypeOK
    <2> QED
      BY <2>2, <2>3, <2>4 DEF Confined
  <1> QED
    BY <1>1, <1>2

\* Pages that the swap does not exchange keep what they held.
THEOREM OtherPagesKept == Spec => []Confined
  BY InitSwapInv, ConfinedStep, SwapInvariant, PTL DEF Spec

\* A page that a record says is swapped stays swapped: no step, not even of a
\* resumed swap, writes either of its copies again.
THEOREM SwappedStaysSwapped == Spec => ProgressKept
  <1>1. ASSUME SwapInv, [Next]_swapVars, NEW i \in Swapped, Finished(i)
        PROVE  Finished(i)' /\ pagesA'[i] = pagesA[i] /\ pagesB'[Out(i)] = pagesB[Out(i)]
    <2>1. CASE UNCHANGED swapVars
      BY <1>1, <2>1 DEF swapVars, Finished
    <2>2. CASE Next
      <3>1. Forward => Out(i) # swapSize
        BY <1>1, PagesOfARound DEF SwapInv, Out, Swapped, TypeOK
      <3>2. i \in PagesOfA /\ Out(i) \in PagesOfB
        BY <1>1, PagesOfARound DEF SwapInv
      <3>3. ~(i = idx /\ pc \in Loop) /\ ~(Out(i) = Out(idx) /\ pc \in Loop)
        BY <1>1, IndexSwapped, PagesOfARound DEF SwapInv
      <3>4. pc = "eraseLast" => Forward
        BY <1>1 DEF SwapInv, PlaceInv
      <3>5. Finished(i)'
        BY <1>1, <2>2, RecordsStep
      <3> QED
        BY <1>1, <2>2, <3>1, <3>2, <3>3, <3>4, <3>5, PagesStep DEF Loop
    <2> QED
      BY <1>1, <2>1, <2>2
  <1>2. SwapInv /\ [Next]_swapVars => [StaysSwapped]_swapVars
    BY <1>1 DEF StaysSwapped
  <1> QED
    BY <1>2, SwapInvariant, PTL DEF Spec, ProgressKept

\* The swap, flash operation by flash operation and interrupted anywhere, is
\* one indivisible exchange of the images the two slots stand for.
THEOREM Refinement == Spec => ImplementsAtomicSwap
  <1>1. Init => Atomic!Init
    BY DEF Init, SwapInit, Atomic!Init
  <1>2. ASSUME SwapInv, SwapInv', [Next]_swapVars
        PROVE  [Atomic!Exchange]_<<Primary, Secondary, copyDone = "set">>
    <2>1. ASSUME UNCHANGED swapVars
          PROVE  UNCHANGED <<Primary, Secondary, copyDone = "set">>
      BY <2>1 DEF swapVars, Primary, Secondary, PageOfOldA, PageOfOldB, Halfway, Finished,
                  Swapped, Out, In, Forward
    <2>2. CASE Next
      <3>1. Swapped' = Swapped /\ orig' = orig /\ \A i : Out(i)' = Out(i) /\ In(i)' = In(i)
        BY <2>2, Fixed DEF Swapped, Out, In, Forward
      <3>2. ASSUME copyDone # "set"
            PROVE  /\ Primary = [i \in Swapped |-> orig.a[i]]
                   /\ Secondary = [i \in Swapped |-> orig.b[In(i)]]
        BY <1>2, <3>2 DEF SwapInv, NothingLost, Primary, Secondary
      <3>3. ASSUME (copyDone # "set")'
            PROVE  /\ Primary' = [i \in Swapped |-> orig.a[i]]
                   /\ Secondary' = [i \in Swapped |-> orig.b[In(i)]]
        BY <1>2, <3>1, <3>3 DEF SwapInv, NothingLost, Primary, Secondary
      <3>4. ASSUME (copyDone = "set")'
            PROVE  /\ Primary' = [i \in Swapped |-> orig.b[In(i)]]
                   /\ Secondary' = [i \in Swapped |-> orig.a[i]]
        <4>1. ExchangeExact'
          BY <1>2, InvExchange, PTL
        <4> QED
          BY <3>1, <3>4, <4>1 DEF ExchangeExact, Primary, Secondary
      <3>5. CASE copyDone # "set" /\ copyDone' # "set"
        BY <3>2, <3>3, <3>5
      <3>6. CASE copyDone # "set" /\ copyDone' = "set"
        BY <3>2, <3>4, <3>6 DEF Atomic!Exchange
      <3>7. CASE copyDone = "set"
        <4>1. UNCHANGED swapVars
          BY <1>2, <2>2, <3>7
             DEF SwapInv, PlaceInv, Loop, Next, SwapStep, EraseOut, ProgramOut, EraseIn, ProgramIn,
                 EraseLast, RecordOut, RecordIn, SetCopyDone, RecordRefused, Resume, Interrupt
        <4> QED
          BY <2>1, <4>1
      <3> QED
        BY <3>5, <3>6, <3>7
    <2> QED
      BY <1>2, <2>1, <2>2
  <1> QED
    BY <1>1, <1>2, SwapInvariant, PTL DEF Spec, ImplementsAtomicSwap, Atomic!Spec
=============================================================================
