----------------------------- MODULE Bootloader -----------------------------
(***************************************************************************)
(* The life of an image in the two slots: main() of                        *)
(* boot_core/Src/bootloader_main.c decides after every reset, from the two *)
(* trailers alone, whether to resume a swap, to revert, to install or      *)
(* reject an update, to delete slot A, to serve UDS or to start the        *)
(* application.  The swap itself is PageSwap, flash operation by flash     *)
(* operation; the download and the application's confirmation appear by    *)
(* what they do to flash.                                                   *)
(*                                                                         *)
(* A page of an image is <<image, number>>; page 0 has the header and the  *)
(* last page the TLV area with hash and signature.                          *)
(***************************************************************************)
EXTENDS PageSwap, FiniteSets

CONSTANTS
    Image,         \* the images a client may send
    None,          \* no image
    ImageSize,     \* [Image -> pages of an image, its TLV area included]
    Version,       \* [Image -> ih_img_ver], in the order is_update_older uses
    WellFormed,    \* images whose header, sizes and ECU ID are right
    Authentic,     \* images whose hash and signature verify
    Sendable       \* the pages a client may send, of whichever image, in any order

ASSUME ImageAssumption ==
    /\ Page = Image \X (0 .. FwPages - 1)
    /\ ImageSize \in [Image -> 1 .. FwPages]
    /\ Version \in [Image -> Nat]
    /\ Authentic \subseteq WellFormed /\ WellFormed \subseteq Image
    /\ Sendable \subseteq Page
    /\ None \notin Image

VARIABLES
    magicA, imageOk,       \* the rest of slot A's trailer
    magicB, copyDoneB,     \* slot B's trailer; its image_ok is never written
    plan,                  \* RAM: the swap that start_revert or start_test_swap prepares
    hold,                  \* the boot magic register holds BOOT_HOLD_MAGIC
    iwdg,                  \* the watchdog runs
    dl,                    \* RAM: the download in progress, or None
    good,                  \* history: the last image that was confirmed
    trial,                 \* history: the image on trial since the last download
    misled                 \* history: an update with misplaced headers was accepted

bootVars == <<magicA, imageOk, magicB, copyDoneB, plan, hold, iwdg, dl, good,
              trial, misled>>
vars == <<swapVars, bootVars>>

trailerA == <<swapStatus, swapSize, swapInfo, copyDone, magicA, imageOk>>
trailerB == <<magicB, copyDoneB>>
pages == <<pagesA, pagesB>>
history == <<losses, orig, good, trial, misled>>

-----------------------------------------------------------------------------
(* Reading the slots (get_header, is_image_valid, get_total_image_size)     *)

IsHeader(content) == content \in Page /\ content[2] = 0

\* A downloaded update lies one page up; s(1) is looked at first.
BaseB == IF IsHeader(pagesB[1]) THEN 1 ELSE 0

Holds(slot, base, image) ==
    \A k \in 0 .. ImageSize[image] - 1 : slot[base + k] = <<image, k>>

\* is_image_valid(slot, 0): the header is sound, and a TLV area is found
\* where the header says, whichever image of that size it belongs to.
Plausible(slot, base) ==
    /\ IsHeader(slot[base])
    /\ slot[base][1] \in WellFormed
    /\ LET size == ImageSize[slot[base][1]]
           last == slot[base + size - 1]
       IN  last \in Page /\ ImageSize[last[1]] = size /\ last[2] = size - 1

VerifiedNoCrypto(slot, base) == Plausible(slot, base)   \* mutant

\* is_image_valid(slot, 1): hash and signature are checked as well.
Verified(slot, base) ==
    /\ Plausible(slot, base)
    /\ slot[base][1] \in Authentic
    /\ Holds(slot, base, slot[base][1])

PagesInOneMore(slot, base) ==                           \* mutant
    IF IsHeader(slot[base]) THEN ImageSize[slot[base][1]] + 1 ELSE 0
PagesIn(slot, base) == IF IsHeader(slot[base]) THEN ImageSize[slot[base][1]] ELSE 0
Running == pagesA[0][1]

UpdateOlderNever == FALSE                               \* mutant
UpdateOlder ==
    /\ IsHeader(pagesA[0])
    /\ Version[pagesB[BaseB][1]] < Version[pagesA[0][1]]

-----------------------------------------------------------------------------
(* The decision of main(), in the order of its branches                     *)

InSwap == magicA = "set" /\ copyDone # "set" /\ magicB # "set"
RevertPending == magicB = "set" /\ copyDoneB = "set"
UpdatePending == magicB = "set" /\ copyDoneB # "set"
Unconfirmed == /\ magicA = "set" /\ copyDone = "set" /\ imageOk # "set"
               /\ swapInfo \in {"TEST", "REVERT"}
TestFailed == Unconfirmed /\ swapInfo = "TEST" /\ magicB # "set"
RevertFailed == Unconfirmed /\ swapInfo = "REVERT" /\ magicB # "set"

\* Between two swaps nothing is kept for one.
NoSwap == [a |-> [k \in PagesOfA |-> Erased], b |-> [k \in PagesOfB |-> Erased]]

Boot ==
    /\ pc = "off" /\ orig' = NoSwap
    /\ UNCHANGED <<pages, trailerA, trailerB, losses, trial, iwdg, dl>>

\* The update does not begin at s(1), so that get_header falls back to what is
\* left in s(0), or has a header that is not its own in a page behind.
Misplaced == ~IsHeader(pagesB[1]) \/ \E k \in 2 .. FwPages : IsHeader(pagesB[k])

BootResume == InSwap /\ Resume /\ UNCHANGED bootVars

BootRevertAgain ==
    /\ Boot /\ RevertPending
    /\ plan' = "REVERT" /\ pc' = "trailerA"
    /\ UNCHANGED <<idx, hold, good, misled>>

BootUpdate ==
    /\ Boot /\ UpdatePending
    /\ IF ~Verified(pagesB, BaseB) \/ UpdateOlder
         THEN pc' = "eraseSlotB" /\ UNCHANGED <<plan, misled>>
         ELSE /\ pc' = "trailerA" /\ plan' = "TEST"
              /\ misled' = (misled \/ Misplaced)
    /\ idx' = 0
    /\ UNCHANGED <<hold, good>>

\* Mutant: boot_allowed stays set and slot A as it is.
BootTestFailedBoots ==
    /\ Boot /\ TestFailed
    /\ pc' = IF Plausible(pagesB, BaseB) THEN "prepTrailerB" ELSE "tryBoot"
    /\ idx' = 0
    /\ UNCHANGED <<plan, hold, good, misled>>

BootTestFailed ==
    /\ Boot /\ TestFailed
    /\ pc' = IF Plausible(pagesB, BaseB) THEN "prepTrailerB" ELSE "eraseSlotA"
    /\ idx' = 0
    /\ UNCHANGED <<plan, hold, good, misled>>

\* A reverted image that was not confirmed is deleted, last good or not.
BootRevertFailed ==
    /\ Boot /\ RevertFailed
    /\ pc' = "eraseSlotA" /\ idx' = 0
    /\ good' = None
    /\ UNCHANGED <<plan, hold, misled>>

\* sr_uds_server_start only returns when CAN cannot be started.
BootNormal ==
    /\ Boot /\ ~(InSwap \/ RevertPending \/ UpdatePending \/ Unconfirmed)
    /\ pc' \in IF hold THEN {"uds", "tryBoot"} ELSE {"tryBoot"}
    /\ idx' = 0 /\ plan' = "none" /\ hold' = FALSE
    /\ UNCHANGED <<good, misled>>

-----------------------------------------------------------------------------
(* Preparing a swap: start_revert and start_test_swap, and before           *)
(* start_revert the marking of slot B by main()                             *)

Step(from, to) == pc = from /\ pc' = to /\ UNCHANGED <<plan, hold, iwdg, dl>>

\* Mutant: slot B is marked with the magic alone.
PrepTrailerBOnly ==
    /\ Step("prepTrailerB", "prepMagicB")
    /\ magicB' = "erased" /\ copyDoneB' = "erased"
    /\ UNCHANGED <<pages, trailerA, idx, history>>
PrepTrailerB ==
    /\ Step("prepTrailerB", "prepCopyDoneB")
    /\ magicB' = "erased" /\ copyDoneB' = "erased"
    /\ UNCHANGED <<pages, trailerA, idx, history>>
PrepCopyDoneB ==
    /\ Step("prepCopyDoneB", "prepMagicB")
    /\ copyDoneB' = "set"
    /\ UNCHANGED <<pages, trailerA, magicB, idx, history>>
PrepMagicB ==
    /\ pc = "prepMagicB" /\ pc' = "trailerA"
    /\ magicB' = "set" /\ plan' = "REVERT"
    /\ UNCHANGED <<pages, trailerA, copyDoneB, idx, history, hold, iwdg, dl>>

EraseTrailerA ==
    /\ swapStatus' = NoRecords /\ swapSize' = Unset /\ swapInfo' = "none"
    /\ copyDone' = "erased" /\ imageOk' = "erased" /\ magicA' = "erased"

StartTrailerA ==
    /\ Step("trailerA", "info")
    /\ EraseTrailerA
    /\ UNCHANGED <<pages, trailerB, idx, history>>
StartInfo ==
    /\ Step("info", "size")
    /\ swapInfo' = plan
    /\ UNCHANGED <<pages, swapStatus, swapSize, copyDone, magicA, imageOk, trailerB, idx, history>>
StartSize ==
    /\ Step("size", "magicA")
    /\ swapSize' = LET a == PagesIn(pagesA, 0)
                       b == PagesIn(pagesB, BaseB)
                   IN  IF a > b THEN a ELSE b
    /\ UNCHANGED <<pages, swapStatus, swapInfo, copyDone, magicA, imageOk, trailerB, idx, history>>
StartMagicA ==
    /\ Step("magicA", "trailerB")
    /\ magicA' = "set"
    /\ UNCHANGED <<pages, swapStatus, swapSize, swapInfo, copyDone, imageOk, trailerB, idx, history>>
\* erase_trailer(SLOT_B) hands over to the swap, whose records take it from
\* here: now an interruption is resumed, no longer started over.
StartSwap ==
    /\ Step("trailerB", "eraseOut")
    /\ swapSize > 0
    /\ magicB' = "erased" /\ copyDoneB' = "erased"
    /\ idx' = FirstIndex
    /\ orig' = [a |-> pagesA, b |-> pagesB]
    /\ UNCHANGED <<pages, trailerA, losses, good, trial, misled>>

Prepare == \/ PrepTrailerB \/ PrepCopyDoneB \/ PrepMagicB
           \/ StartTrailerA \/ StartInfo \/ StartSize \/ StartMagicA \/ StartSwap

-----------------------------------------------------------------------------
(* erase_slot, the trailer last                                             *)

\* sr_uds_server_start(1); if it returns, so does main().
Distress == pc' \in {"distress", "halted"}

EraseSlotA ==
    /\ pc = "eraseSlotA"
    /\ IF idx < FwPages
         THEN /\ pagesA' = [pagesA EXCEPT ![idx] = Erased]
              /\ idx' = idx + 1 /\ pc' = pc
              /\ UNCHANGED trailerA
         ELSE /\ EraseTrailerA
              /\ Distress
              /\ UNCHANGED <<pagesA, idx>>
    /\ UNCHANGED <<pagesB, trailerB, plan, hold, iwdg, dl, history>>

EraseSlotB ==
    /\ pc = "eraseSlotB"
    /\ IF idx <= FwPages
         THEN /\ pagesB' = [pagesB EXCEPT ![idx] = Erased]
              /\ idx' = idx + 1 /\ pc' = pc
              /\ UNCHANGED trailerB
         ELSE /\ magicB' = "erased" /\ copyDoneB' = "erased"
              /\ pc' = "tryBoot"
              /\ UNCHANGED <<pagesB, idx>>
    /\ UNCHANGED <<pagesA, trailerA, plan, hold, iwdg, dl, history>>

-----------------------------------------------------------------------------
(* Starting the application                                                 *)

\* sr_iwdg_start is called on the first boot after a swap.
WatchTestOnly == Unconfirmed /\ swapInfo = "TEST"       \* mutant
Watch == Unconfirmed

TryBoot ==
    /\ pc \in {"tryBoot", "done"}
    /\ idx' = 0 /\ plan' = "none" /\ orig' = NoSwap
    /\ IF Plausible(pagesA, 0)
         THEN /\ pc' = "app"
              /\ iwdg' = Watch
              /\ trial' = IF Unconfirmed THEN Running ELSE trial
         ELSE /\ Distress
              /\ UNCHANGED <<iwdg, trial>>
    /\ UNCHANGED <<pages, trailerA, trailerB, hold, dl, losses, good, misled>>

\* The application, linked with app_sdk, has its boot confirmed by the
\* client: it writes image_ok and resets.
AppConfirm ==
    /\ pc = "app" /\ Unconfirmed
    /\ imageOk = "erased"
    /\ imageOk' = "set"
    /\ pc' = "off" /\ iwdg' = FALSE
    /\ good' = Running /\ trial' = None
    /\ UNCHANGED <<pages, swapStatus, swapSize, swapInfo, copyDone, magicA, trailerB,
                   idx, plan, hold, dl, losses, orig, misled>>

\* Reset by the watchdog, by the application or by a power cycle; the
\* application may have asked to be held in the bootloader.
AppReset ==
    /\ pc = "app"
    /\ pc' = "off" /\ iwdg' = FALSE
    /\ hold' \in BOOLEAN
    /\ UNCHANGED <<pages, trailerA, trailerB, idx, plan, dl, history>>

\* The way out once main() has returned.
PowerCycle ==
    /\ pc = "halted"
    /\ pc' = "off" /\ hold' = FALSE
    /\ UNCHANGED <<pages, trailerA, trailerB, idx, plan, iwdg, dl, history>>

-----------------------------------------------------------------------------
(* The UDS server, by what it does to slot B: 0x34 erases the trailer and   *)
(* s(1), 0x36 fills s(1), s(2), ... with whatever the client sends, header  *)
(* or not, and 0x37 marks it pending.  Nothing but the size is checked.     *)

Serving == pc \in {"uds", "distress"}

RequestDownload ==
    /\ Serving
    /\ magicB' = "erased" /\ copyDoneB' = "erased"
    /\ pagesB' = [pagesB EXCEPT ![1] = Erased]
    /\ \E n \in 1 .. FwPages : dl' = [left |-> n, next |-> 0]
    /\ UNCHANGED <<pagesA, trailerA, pc, idx, plan, hold, iwdg, history>>

TransferPage ==
    /\ Serving /\ dl # None /\ dl.left > 0
    /\ \E page \in Sendable : pagesB' = [pagesB EXCEPT ![dl.next + 1] = page]
    /\ dl' = [dl EXCEPT !.left = @ - 1, !.next = @ + 1]
    /\ UNCHANGED <<pagesA, trailerA, trailerB, pc, idx, plan, hold, iwdg, history>>

TransferExit ==
    /\ Serving /\ dl # None /\ dl.left = 0
    /\ magicB' = "set"
    /\ dl' = None
    /\ trial' = None
    /\ UNCHANGED <<pages, trailerA, copyDoneB, pc, idx, plan, hold, iwdg, losses, orig, good,
                   misled>>

\* A download ends early: the flash fails under 0x34, 0x36 or 0x37, or the
\* session is left.
DownloadFails ==
    /\ Serving
    /\ dl' = None
    /\ \/ /\ magicB' = "erased" /\ copyDoneB' = "erased"
          /\ pagesB' \in {pagesB, [pagesB EXCEPT ![1] = Torn]}
       \/ \* 0x37 may fail while it flushes the end of the last page
          /\ dl # None
          /\ LET page == IF dl.left > 0 THEN dl.next + 1 ELSE dl.next
             IN  pagesB' = [pagesB EXCEPT ![page] = Torn]
          /\ UNCHANGED trailerB
       \/ /\ dl # None /\ dl.left = 0 /\ TornRecords
          /\ magicB' = Tear(magicB)
          /\ UNCHANGED <<pagesB, copyDoneB>>
       \/ dl # None /\ UNCHANGED <<pagesB, trailerB>>
    /\ UNCHANGED <<pagesA, trailerA, pc, idx, plan, hold, iwdg, history>>

UdsReset ==
    /\ Serving
    /\ pc' = "off" /\ dl' = None
    /\ UNCHANGED <<pages, trailerA, trailerB, idx, plan, hold, iwdg, history>>

-----------------------------------------------------------------------------
(* Interruptions outside the swap; one in the middle of a download is a     *)
(* DownloadFails first.  Erasing a trailer page is taken to happen whole or *)
(* not at all.                                                              *)

TearBootPage ==
    \/ /\ pc = "eraseSlotA" /\ idx < FwPages
       /\ pagesA' = [pagesA EXCEPT ![idx] = Torn]
       /\ UNCHANGED pagesB
    \/ /\ pc = "eraseSlotB" /\ idx <= FwPages
       /\ pagesB' = [pagesB EXCEPT ![idx] = Torn]
       /\ UNCHANGED pagesA

TearBootRecord ==
    /\ TornRecords
    /\ \/ /\ pc = "magicA" /\ magicA' = Tear(magicA)
          /\ UNCHANGED <<imageOk, magicB, copyDoneB>>
       \/ /\ pc = "app" /\ Unconfirmed /\ imageOk' = Tear(imageOk)
          /\ UNCHANGED <<magicA, magicB, copyDoneB>>
       \/ /\ pc = "prepCopyDoneB" /\ copyDoneB' = Tear(copyDoneB)
          /\ UNCHANGED <<magicA, imageOk, magicB>>
       \/ /\ pc = "prepMagicB" /\ magicB' = Tear(magicB)
          /\ UNCHANGED <<magicA, imageOk, copyDoneB>>

BootInterrupt ==
    /\ pc \notin {"off", "halted"} \cup Loop \cup {"eraseLast", "setDone"}
    /\ losses < MaxLosses
    /\ losses' = losses + 1
    /\ pc' = "off" /\ iwdg' = FALSE /\ dl' = None /\ hold' = FALSE
    /\ \/ TearBootPage /\ UNCHANGED <<magicA, imageOk, trailerB>>
       \/ TearBootRecord /\ UNCHANGED pages
       \/ UNCHANGED <<pages, magicA, imageOk, trailerB>>
    /\ UNCHANGED <<swapStatus, swapSize, swapInfo, copyDone, idx, plan, orig, good, trial,
                   misled>>

SwapInterrupt ==
    /\ Interrupt
    /\ hold' \in {hold, FALSE}
    /\ UNCHANGED <<magicA, imageOk, trailerB, plan, iwdg, dl, good, trial, misled>>

-----------------------------------------------------------------------------

FactoryImage(image) ==
    [k \in PagesOfA |-> IF image # None /\ k < ImageSize[image] THEN <<image, k>> ELSE Erased]

BootInit ==
    /\ good \in Authentic \cup {None}
    /\ pagesA = FactoryImage(good)
    /\ pagesB = [k \in PagesOfB |-> Erased]
    /\ swapStatus = NoRecords /\ swapSize = Unset /\ swapInfo = "none"
    /\ copyDone = "erased" /\ magicA = "erased" /\ imageOk = "erased"
    /\ magicB = "erased" /\ copyDoneB = "erased"
    /\ pc = "off" /\ idx = 0 /\ plan = "none" /\ losses = 0
    /\ orig = NoSwap
    /\ hold = FALSE /\ iwdg = FALSE /\ dl = None /\ trial = None
    /\ misled = FALSE

BootStep ==
    \/ BootResume \/ BootRevertAgain \/ BootUpdate
    \/ BootTestFailed \/ BootRevertFailed \/ BootNormal
    \/ Prepare \/ (SwapStep /\ UNCHANGED bootVars)
    \/ EraseSlotA \/ EraseSlotB \/ TryBoot

BootNext ==
    \/ BootStep
    \/ AppConfirm \/ AppReset \/ PowerCycle
    \/ RequestDownload \/ TransferPage \/ TransferExit
    \/ DownloadFails \/ UdsReset
    \/ BootInterrupt
    \/ SwapInterrupt

BootSpec == BootInit /\ [][BootNext]_vars

\* The bootloader runs on by itself, and the watchdog resets an application
\* that is not confirmed in time.
BootFairSpec ==
    /\ BootSpec
    /\ WF_vars(BootStep)
    /\ WF_vars(iwdg /\ AppReset)

-----------------------------------------------------------------------------
(* Properties                                                               *)

BootPc == {"trailerA", "info", "size", "magicA", "trailerB", "prepTrailerB", "prepCopyDoneB",
           "prepMagicB", "eraseSlotA", "eraseSlotB", "tryBoot", "app", "uds", "distress", "halted"}

BootTypeOK ==
    /\ pagesA \in [PagesOfA -> Content] /\ pagesB \in [PagesOfB -> Content]
    /\ swapStatus \in [0 .. 2 * FwPages - 1 -> Record]
    /\ swapSize \in 1 .. FwPages \cup {Unset} /\ swapInfo \in {"none", "TEST", "REVERT"}
    /\ {copyDone, magicA, imageOk, magicB, copyDoneB} \subseteq Record
    /\ pc \in SwapPc \cup BootPc /\ idx \in 0 .. FwPages + 1
    /\ plan \in {"none", "TEST", "REVERT"} /\ {hold, iwdg, misled} \subseteq BOOLEAN
    /\ losses \in 0 .. MaxLosses
    /\ dl \in {None} \cup [left : 0 .. FwPages, next : 0 .. FwPages]
    /\ good \in Authentic \cup {None} /\ trial \in Image \cup {None}

\* The application that runs is one complete image whose signature was
\* verified, although main() starts it after a check without crypto: no
\* download with or without a header, rejection, swap or interruption leaves
\* a mixture of images, or an unverified one, that passes
\* is_image_valid(SLOT_A, 0).  That, and what follows, ends when an update
\* with misplaced headers is accepted, see SafeRollback.
BootsIntact == (pc = "app" /\ ~misled) => Running \in Authentic /\ Holds(pagesA, 0, Running)

\* Where an image can be put together from: slot A, the shifted or unshifted
\* pages of slot B, or, during a swap, both slots by the progress records.
Recoverable(image) ==
    \/ Holds(pagesA, 0, image)
    \/ Holds(pagesB, 0, image)
    \/ /\ InSwap
       /\ LET Part(k) == IF Forward THEN PageOfOldA(k) ELSE PageOfOldB(k)
          IN  \A k \in 0 .. ImageSize[image] - 1 : k \in Swapped /\ Part(k) = <<image, k>>

\* README.md:10 promises a layout "which enables safe rollback of new
\* firmware": the last image that was confirmed is never lost.  It is: the
\* download need not begin with a header, get_header then finds the one that
\* a swap or a revert left in s(0), and main() verifies that image, moves
\* s(1) to where its header should be, and cannot start it; the next 0x34, or
\* the rejection of what it brings, erases the only copy.
SafeRollback == good # None => Recoverable(good)

\* The last image that was confirmed stays recoverable through every
\* download, rejection, swap, revert and interruption, until another one is
\* confirmed or it fails its own confirmation after a revert, unless main()
\* accepts an update with misplaced headers.
GoodImageKept == ~misled => SafeRollback

\* While an update is on trial the image it replaced lies complete in
\* slot B, and get_header finds that image and not a leftover header in s(1).
RollbackReady ==
    (pc = "app" /\ Unconfirmed /\ swapInfo = "TEST" /\ good # None /\ ~misled) =>
        BaseB = 0 /\ Holds(pagesB, 0, good)

\* As long as a confirmed image exists nothing older than it is run, and a
\* revert brings back that image and no other.
NoDowngrade ==
    (pc = "app" /\ good # None /\ ~misled) =>
        /\ Version[Running] >= Version[good]
        /\ (swapInfo = "REVERT" /\ magicA = "set") => Running = good

\* An image whose trial ended without confirmation is not started again
\* until the client has downloaded an update once more; only the confirmed
\* image itself may have been installed again.
OneTrial == [][(pc # "app" /\ pc' = "app") => Running' = good \/ Running' # trial]_vars

\* With records written whole, main() always gets to the application or to
\* the UDS server, or halts for want of CAN: no path resets, swaps or erases
\* for ever.
Settles == []<>(pc \in {"app", "uds", "distress", "halted"})

\* An update on trial is confirmed, or the watchdog takes the device back to
\* an image that is confirmed, or to the UDS server.
TrialEnds ==
    (pc = "app" /\ Unconfirmed) ~> (\/ pc \in {"uds", "distress", "halted"}
                                    \/ pc = "app" /\ ~Unconfirmed)
=============================================================================
