------------------------------ MODULE PageSwap ------------------------------
(***************************************************************************)
(* The power-fail-safe exchange of slot A and slot B, as                   *)
(* boot_core/Src/image_handler.c performs it one flash operation at a time.*)
(*                                                                         *)
(* swap_forward moves p(i) to s(i) and s(i+1) to p(i), counting up, for a  *)
(* TEST swap; swap_revert moves p(i) to s(i+1) and s(i) to p(i), counting  *)
(* down, for a REVERT.  After each of the two copies of a page one record  *)
(* of slot A's trailer is written, and get_swap_status reads the records   *)
(* to find where an interrupted swap is to go on.                          *)
(*                                                                         *)
(* The swap may be interrupted between any two flash operations and inside *)
(* any of them.  An interruption is a loss of power, or an error of the    *)
(* flash driver, which main() answers with sr_reset_mcu: RAM is gone and   *)
(* the operation in flight left its target half done.                      *)
(***************************************************************************)
EXTENDS Integers

CONSTANTS
    Page,          \* what a page of flash may hold, Erased and Torn aside
    Erased,        \* the contents of an erased page, all 0xFF
    Torn,          \* a page whose erasure or programming was interrupted
    FwPages,       \* FW_ACTUAL_SIZE_PAGES: the pages of a slot an image may use
    TornRecords,   \* may an interrupted 8-byte record write leave garbage?
    MaxLosses      \* bound on the number of interruptions

ASSUME PageAssumption == Erased \notin Page /\ Torn \notin Page /\ Erased # Torn
ASSUME SizeAssumption == FwPages \in Nat \ {0} /\ FwPages < 255
ASSUME LossAssumption == TornRecords \in BOOLEAN /\ MaxLosses \in Nat

VARIABLES
    pagesA,        \* slot A without its trailer: p(0) .. p(FwPages - 1)
    pagesB,        \* slot B without its trailer: s(0) .. s(FwPages)
    swapStatus,    \* trailer_swap_status of slot A, two records per page
    swapSize,      \* trailer_swap_size of slot A, 255 when erased
    swapInfo,      \* trailer_swap_info of slot A
    copyDone,      \* trailer_copy_done of slot A
    pc,            \* the flash operation the bootloader is about to perform
    idx,           \* the loop index of swap_forward and swap_revert, in RAM
    losses,        \* interruptions so far
    orig           \* history: both slots as they were when the swap began

swapVars == <<pagesA, pagesB, swapStatus, swapSize, swapInfo, copyDone,
              pc, idx, losses, orig>>

Content == Page \cup {Erased, Torn}
Record == {"erased", "set", "torn"}
PagesOfA == 0 .. FwPages - 1
PagesOfB == 0 .. FwPages
Unset == 255
NoRecords == [r \in 0 .. 2 * FwPages - 1 |-> "erased"]

Loop == {"eraseOut", "progOut", "recOut", "eraseIn", "progIn", "recIn"}
SwapPc == Loop \cup {"off", "eraseLast", "setDone", "done"}

-----------------------------------------------------------------------------
(* The two directions.  Out(i) is the page of slot B that receives p(i),   *)
(* In(i) the page of slot B that is moved to p(i).                          *)

Forward == swapInfo # "REVERT"
Swapped == 0 .. swapSize - 1
Out(i) == IF Forward THEN i ELSE i + 1
In(i) == IF Forward THEN i + 1 ELSE i
EarlierCountsUp(i, j) == i < j                       \* mutant
Earlier(i, j) == IF Forward THEN i < j ELSE i > j
FirstIndexZero == 0                                  \* mutant
FirstIndex == IF Forward THEN 0 ELSE swapSize - 1
LastIndex == IF Forward THEN swapSize - 1 ELSE 0
FollowingSame(i) == i                                \* mutant
Following(i) == IF Forward THEN i + 1 ELSE i - 1

\* get_swap_status: a page is swapped once its second record is set, and
\* halfway there once its first one is.
Finished(i) == swapStatus[2 * i + 1] = "set"
Halfway(i) == swapStatus[2 * i] = "set"
IsNextFromStart(i) == i = FirstIndex                 \* mutant
IsNext(i) == /\ i \in Swapped
             /\ ~Finished(i)
             /\ \A j \in Swapped : Earlier(j, i) => Finished(j)
AllFinished == \A i \in Swapped : Finished(i)

-----------------------------------------------------------------------------
(* Flash.  Programming needs an erased page; on any other one the driver's *)
(* readback fails after having changed it.                                  *)

Programmed(old, new) == IF old = Erased THEN new ELSE Torn

\* The flash operation that pc names, on a page of slot B or of slot A.
WriteB(i, content, next) ==
    /\ pagesB' = [pagesB EXCEPT ![i] = content]
    /\ pc' = next
    /\ UNCHANGED <<pagesA, swapStatus, swapSize, swapInfo, copyDone, idx, losses, orig>>

WriteA(i, content, next) ==
    /\ pagesA' = [pagesA EXCEPT ![i] = content]
    /\ pc' = next
    /\ UNCHANGED <<pagesB, swapStatus, swapSize, swapInfo, copyDone, idx, losses, orig>>

EraseOutSkipped == pc = "eraseOut" /\ WriteB(Out(idx), pagesB[Out(idx)], "progOut")   \* mutant
EraseOut == pc = "eraseOut" /\ WriteB(Out(idx), Erased, "progOut")
ProgramOut ==
    pc = "progOut" /\ WriteB(Out(idx), Programmed(pagesB[Out(idx)], pagesA[idx]), "recOut")
EraseIn == pc = "eraseIn" /\ WriteA(idx, Erased, "progIn")
ProgramIn ==
    pc = "progIn" /\ WriteA(idx, Programmed(pagesA[idx], pagesB[In(idx)]), "recIn")

\* set_swap_status(2 * idx): the page of slot A is safe in slot B.
RecordOut ==
    /\ pc = "recOut"
    /\ swapStatus[2 * idx] # "torn"
    /\ swapStatus' = [swapStatus EXCEPT ![2 * idx] = "set"]
    /\ pc' = "eraseIn"
    /\ UNCHANGED <<pagesA, pagesB, swapSize, swapInfo, copyDone, idx, losses, orig>>

\* Mutant: the loop index runs past 0.
RecordInUnderflow ==
    /\ pc = "recIn"
    /\ swapStatus[2 * idx + 1] # "torn"
    /\ swapStatus' = [swapStatus EXCEPT ![2 * idx + 1] = "set"]
    /\ idx' = Following(idx)
    /\ pc' = IF idx # LastIndex THEN "eraseOut" ELSE IF Forward THEN "eraseLast" ELSE "setDone"
    /\ UNCHANGED <<pagesA, pagesB, swapSize, swapInfo, copyDone, losses, orig>>

\* set_swap_status(2 * idx + 1), then the next round of the loop or its end.
RecordIn ==
    /\ pc = "recIn"
    /\ swapStatus[2 * idx + 1] # "torn"
    /\ swapStatus' = [swapStatus EXCEPT ![2 * idx + 1] = "set"]
    /\ IF idx = LastIndex
         THEN /\ pc' = IF Forward THEN "eraseLast" ELSE "setDone"
              /\ idx' = idx
         ELSE /\ pc' = "eraseOut"
              /\ idx' = Following(idx)
    /\ UNCHANGED <<pagesA, pagesB, swapSize, swapInfo, copyDone, losses, orig>>

\* Mutants: the last page of the exchange, the last page of the slot, none.
EraseLastEarly == pc = "eraseLast" /\ WriteB(swapSize - 1, Erased, "setDone")
EraseLastOfSlot == pc = "eraseLast" /\ WriteB(FwPages, Erased, "setDone")
EraseLastSkipped == pc = "eraseLast" /\ WriteB(swapSize, pagesB[swapSize], "setDone")

\* swap_forward ends by erasing s(total_pages).
EraseLast == pc = "eraseLast" /\ WriteB(swapSize, Erased, "setDone")

SetCopyDone ==
    /\ pc = "setDone"
    /\ copyDone # "torn"
    /\ copyDone' = "set"
    /\ pc' = "done"
    /\ UNCHANGED <<pagesA, pagesB, swapStatus, swapSize, swapInfo, idx, losses, orig>>

\* set_record finds neither an erased record nor the value it wants: the
\* error goes up to main(), which resets the MCU.
RecordRefused ==
    /\ \/ pc = "recOut" /\ swapStatus[2 * idx] = "torn"
       \/ pc = "recIn" /\ swapStatus[2 * idx + 1] = "torn"
       \/ pc = "setDone" /\ copyDone = "torn"
    /\ pc' = "off"
    /\ UNCHANGED <<pagesA, pagesB, swapStatus, swapSize, swapInfo, copyDone, idx, losses, orig>>

\* The resume branch of main(): index and is_halfway_done come from flash.
Resume ==
    /\ pc = "off"
    /\ copyDone # "set"
    /\ \/ \E i \in Swapped :
            /\ IsNext(i)
            /\ idx' = i
            /\ pc' = IF Halfway(i) THEN "eraseIn" ELSE "eraseOut"
       \/ /\ AllFinished
          /\ idx' = swapSize
          /\ pc' = IF Forward THEN "eraseLast" ELSE "setDone"
    /\ UNCHANGED <<pagesA, pagesB, swapStatus, swapSize, swapInfo, copyDone, losses, orig>>

-----------------------------------------------------------------------------
(* Interruptions: nothing of the operation in flight happened, or part of  *)
(* it.  That all of it happened is the operation followed by the first.     *)

TearPage ==
    \/ /\ pc \in {"eraseOut", "progOut"}
       /\ pagesB' = [pagesB EXCEPT ![Out(idx)] = Torn]
       /\ UNCHANGED pagesA
    \/ /\ pc \in {"eraseIn", "progIn"}
       /\ pagesA' = [pagesA EXCEPT ![idx] = Torn]
       /\ UNCHANGED pagesB
    \/ /\ pc = "eraseLast"
       /\ pagesB' = [pagesB EXCEPT ![swapSize] = Torn]
       /\ UNCHANGED pagesA

Tear(r) == IF r = "erased" THEN "torn" ELSE r

TearRecord ==
    /\ TornRecords
    /\ \/ /\ pc = "recOut"
          /\ swapStatus' = [swapStatus EXCEPT ![2 * idx] = Tear(@)]
          /\ UNCHANGED copyDone
       \/ /\ pc = "recIn"
          /\ swapStatus' = [swapStatus EXCEPT ![2 * idx + 1] = Tear(@)]
          /\ UNCHANGED copyDone
       \/ /\ pc = "setDone"
          /\ copyDone' = Tear(copyDone)
          /\ UNCHANGED swapStatus

Interrupt ==
    /\ pc \in Loop \cup {"eraseLast", "setDone"}
    /\ losses < MaxLosses
    /\ losses' = losses + 1
    /\ pc' = "off"
    /\ \/ TearPage /\ UNCHANGED <<swapStatus, copyDone>>
       \/ TearRecord /\ UNCHANGED <<pagesA, pagesB>>
       \/ UNCHANGED <<pagesA, pagesB, swapStatus, copyDone>>
    /\ UNCHANGED <<swapSize, swapInfo, idx, orig>>

-----------------------------------------------------------------------------
\* The call of swap_forward(0, ..) or swap_revert(swap_size - 1, ..), with
\* the trailer as start_test_swap and start_revert have just written it.
SwapInit ==
    /\ swapSize \in 1 .. FwPages
    /\ swapInfo \in {"TEST", "REVERT"}
    /\ swapStatus = NoRecords
    /\ copyDone = "erased"
    /\ pc = "eraseOut"
    /\ idx = FirstIndex
    /\ orig = [a |-> pagesA, b |-> pagesB]

Init ==
    /\ pagesA \in [PagesOfA -> Content]
    /\ pagesB \in [PagesOfB -> Content]
    /\ losses = 0
    /\ SwapInit

SwapStep ==
    \/ EraseOut \/ ProgramOut \/ RecordOut
    \/ EraseIn \/ ProgramIn \/ RecordIn
    \/ EraseLast \/ SetCopyDone
    \/ RecordRefused

Next == SwapStep \/ Resume \/ Interrupt \/ (pc = "done" /\ UNCHANGED swapVars)

Spec == Init /\ [][Next]_swapVars

\* main() runs on by itself; after an interruption the MCU boots again.
FairSpec == Spec /\ WF_swapVars(SwapStep \/ Resume)

-----------------------------------------------------------------------------
(* Properties                                                               *)

TypeOK ==
    /\ pagesA \in [PagesOfA -> Content]
    /\ pagesB \in [PagesOfB -> Content]
    /\ swapStatus \in [0 .. 2 * FwPages - 1 -> Record]
    /\ swapSize \in 1 .. FwPages
    /\ swapInfo \in {"TEST", "REVERT"}
    /\ copyDone \in Record
    /\ pc \in SwapPc
    /\ idx \in 0 .. FwPages
    /\ losses \in 0 .. MaxLosses
    /\ orig \in [a : [PagesOfA -> Content], b : [PagesOfB -> Content]]

\* Where the page that began in p(i), or in s(In(i)), is to be found, going
\* by the records in flash alone.
PageOfOldA(i) == IF Halfway(i) THEN pagesB[Out(i)] ELSE pagesA[i]
PageOfOldB(i) == IF Finished(i) THEN pagesA[i] ELSE pagesB[In(i)]

\* Whatever is interrupted, and however often, both images can be put
\* together again from flash, page by page and by the progress records
\* alone: neither copy_page of a round ever overwrites the only copy.
NothingLost ==
    \A i \in Swapped : /\ PageOfOldA(i) = orig.a[i]
                       /\ PageOfOldB(i) = orig.b[In(i)]

\* A swap that set copy_done has exchanged the slots exactly, one page
\* position apart, and after a TEST swap the vacated s(total_pages), where a
\* stale header could be taken for a pending update, is erased.
ExchangeExact ==
    copyDone = "set" =>
      \A i \in Swapped : /\ pagesA[i] = orig.b[In(i)]
                         /\ pagesB[Out(i)] = orig.a[i]
                         /\ Forward => pagesB[swapSize] = Erased

\* The swap never touches a page beyond the ones it exchanges.
Confined ==
    /\ \A i \in PagesOfA \ Swapped : pagesA[i] = orig.a[i]
    /\ \A i \in PagesOfB : i > swapSize => pagesB[i] = orig.b[i]

StaysSwapped ==
    \A i \in Swapped : Finished(i) =>
        /\ Finished(i)'
        /\ pagesA'[i] = pagesA[i]
        /\ pagesB'[Out(i)] = pagesB[Out(i)]

\* Progress in flash is never taken back: a page the records call swapped is
\* not written again, neither of its copies, by this run of the loop or by one
\* that resumes it.
ProgressKept == [][StaysSwapped]_swapVars

\* The swap completes after finitely many interruptions, unless one of them
\* left a record half written.
SomeRecordTorn == copyDone = "torn" \/ \E r \in DOMAIN swapStatus : swapStatus[r] = "torn"
Completes == <>(copyDone = "set" \/ SomeRecordTorn)
-----------------------------------------------------------------------------
(* The inductive invariant behind NothingLost, in parts.                    *)

\* Records are set in the order in which get_swap_status looks for them.
OrderInv ==
    \A i \in Swapped :
        /\ Finished(i) => Halfway(i)
        /\ (Halfway(i) \/ Finished(i)) =>
              \A j \in Swapped : Earlier(j, i) => Finished(j)

\* What each program point knows of the loop index and the records, ...
PlaceInv ==
    /\ pc \in Loop => IsNext(idx)
    /\ pc \in {"eraseOut", "progOut", "recOut"} => ~Halfway(idx)
    /\ pc \in {"eraseIn", "progIn", "recIn"} => Halfway(idx)
    /\ pc \in {"eraseLast", "setDone", "done"} => AllFinished
    /\ pc = "eraseLast" => Forward
    /\ copyDone = "set" <=> pc = "done"

\* ... and of the page the round is about to write.
TargetInv ==
    /\ pc = "progOut" => pagesB[Out(idx)] = Erased
    /\ pc = "recOut" => pagesB[Out(idx)] = pagesA[idx]
    /\ pc = "progIn" => pagesA[idx] = Erased
    /\ pc = "recIn" => pagesA[idx] = pagesB[In(idx)]
    /\ pc \in {"setDone", "done"} => (Forward => pagesB[swapSize] = Erased)

SwapInv == TypeOK /\ OrderInv /\ PlaceInv /\ TargetInv /\ NothingLost

-----------------------------------------------------------------------------
(* The swap implements the indivisible exchange of AtomicSwap: until       *)
(* copy_done the slots stand for the images found by the records, from     *)
(* then on for what they hold.                                              *)

Primary == [i \in Swapped |-> IF copyDone = "set" THEN pagesA[i] ELSE PageOfOldA(i)]
Secondary == [i \in Swapped |-> IF copyDone = "set" THEN pagesB[Out(i)] ELSE PageOfOldB(i)]

Atomic == INSTANCE AtomicSwap WITH
            primary <- Primary, secondary <- Secondary, exchanged <- copyDone = "set"

\* Seen through the records, all the flash operations of a swap, however
\* interrupted, are one exchange of the two images.
ImplementsAtomicSwap == Atomic!Spec
=============================================================================
