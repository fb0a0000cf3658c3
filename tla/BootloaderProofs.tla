-------------------------- MODULE BootloaderProofs --------------------------
(***************************************************************************)
(* Proofs about the bootloader for every slot size, every set of images    *)
(* with ImageAssumption, every set of pages a client may send and any      *)
(* number of interruptions, on top of those about the swap.                *)
(***************************************************************************)
EXTENDS Bootloader, PageSwapProofs

-----------------------------------------------------------------------------
(* The inductive invariant.  What it says of whole images ends when an      *)
(* update with misplaced headers is accepted; what it says of the trailers, *)
(* of the swap and of the header in the first page of each slot does not.   *)

SwapActive == Loop \cup {"eraseLast", "setDone"}
Preparing == {"trailerA", "info", "size", "magicA", "trailerB"}
Marking == {"prepTrailerB", "prepCopyDoneB", "prepMagicB"}
Idling == {"tryBoot", "uds", "distress", "halted"}

OnTrial == Unconfirmed /\ swapInfo = "TEST"
Reverted == Unconfirmed /\ swapInfo = "REVERT"
\* The trailer of slot A says that its swap is not over.
Unfinished == magicA = "set" /\ copyDone # "set"

\* Slot a holds the confirmed image, if there is one, and else none at all;
\* or at least it has no other image's header.
HoldsGood(slot) == IF good = None THEN ~IsHeader(slot[0]) ELSE Holds(slot, 0, good)
HeadIsGood(slot) == IsHeader(slot[0]) => good # None /\ slot[0][1] = good

\* No header beyond the first page of a slot, or beyond the two places in
\* slot B where get_header looks for one.
BodyOfA(a) == \A k \in PagesOfA : k >= 1 => ~IsHeader(a[k])
BodyOfB(b) == \A k \in PagesOfB : k >= 1 => ~IsHeader(b[k])
HeadersOf(a, b) == BodyOfA(a) /\ \A k \in PagesOfB : k >= 2 => ~IsHeader(b[k])

NotOlder(image) == good # None => Version[image] >= Version[good]

HeaderInv == ~misled => IF InSwap THEN HeadersOf(orig.a, orig.b) ELSE BodyOfA(pagesA)

\* What is being exchanged: a verified update for the confirmed image, or the
\* confirmed image for an update that failed its trial.
SwapMode == InSwap =>
    /\ SwapInv /\ Confined /\ imageOk # "set"
    /\ swapInfo = "TEST" =>
         /\ HeadIsGood(orig.a) /\ trial = None
         /\ IsHeader(orig.b[1]) =>
              \E u \in Authentic : Holds(orig.b, 1, u) /\ ImageSize[u] <= swapSize
    /\ swapInfo = "REVERT" => HeadIsGood(orig.b)

SwapImages == InSwap /\ ~misled =>
    /\ good # None => ImageSize[good] <= swapSize
    /\ swapInfo = "TEST" =>
         /\ HoldsGood(orig.a)
         /\ \E u \in Authentic : /\ Holds(orig.b, 1, u) /\ ImageSize[u] <= swapSize
                                 /\ NotOlder(u)
    /\ swapInfo = "REVERT" => good # None /\ Holds(orig.b, 0, good) /\ ~IsHeader(orig.b[1])

\* With nothing to swap or to try out, slot A is the confirmed image; where
\* main() may install an update it has at least no other header.
SettledMode ==
    /\ ~InSwap /\ ~Unconfirmed /\ ~RevertPending =>
         HeadIsGood(pagesA) /\ (~misled => HoldsGood(pagesA))
    /\ UpdatePending \/ pc \in Idling => HeadIsGood(pagesA)

\* On trial, and until the revert of a failed trial has begun to move pages,
\* the confirmed image is in slot B and no other one can be found there.
TrialMode == OnTrial \/ RevertPending =>
    /\ HeadIsGood(pagesB)
    /\ IsHeader(pagesA[0]) => Running \in Authentic /\ Holds(pagesA, 0, Running)
    /\ RevertPending => IsHeader(pagesB[BaseB])

TrialImages == (OnTrial \/ RevertPending) /\ ~misled =>
    /\ HoldsGood(pagesB) /\ BodyOfB(pagesB) /\ ~UpdatePending
    /\ IsHeader(pagesA[0]) => NotOlder(Running)
    /\ good # None => IsHeader(pagesA[0])
    /\ RevertPending => good # None

RevertedMode == Reverted =>
    /\ HeadIsGood(pagesA) \/ (good = None /\ magicB # "set" /\ pc \in {"off", "eraseSlotA"})
    /\ ~misled => /\ magicB # "set"
                  /\ IF good = None THEN pc \in {"off", "eraseSlotA"} ELSE Holds(pagesA, 0, good)

\* A pending update is the one that was downloaded last, and a swap that was
\* prepared for it is still called for.
UpdateMode == UpdatePending =>
    /\ trial = None /\ (~misled => ~Unconfirmed)
    /\ Unfinished => Verified(pagesB, BaseB) /\ ~UpdateOlder

\* What each activity knows of the trailers.
PlaceMode ==
    /\ pc \in SwapActive => InSwap
    /\ InSwap => pc \in SwapActive \cup {"off"}
    /\ pc = "done" => /\ Unconfirmed /\ magicB # "set"
                      /\ OnTrial => trial = None
    /\ pc \in Marking => OnTrial /\ magicB # "set" /\ IsHeader(pagesB[BaseB])
    /\ pc = "prepMagicB" => copyDoneB = "set"
    /\ pc = "eraseSlotA" => Unconfirmed /\ magicB # "set" /\ (idx > 0 => ~IsHeader(pagesA[0]))
    /\ pc = "eraseSlotB" => UpdatePending /\ ~Unfinished
    /\ pc \in Idling => ~Unfinished /\ ~RevertPending
    /\ pc \in {"tryBoot", "app"} => magicB # "set"
    /\ pc = "app" => Plausible(pagesA, 0)

PlaceImages == ~misled =>
    /\ pc = "done" => IsHeader(pagesA[0])
    /\ pc \in Marking => good # None
    /\ pc = "eraseSlotA" => good = None
    /\ pc \in Idling => ~Unconfirmed

PrepareMode ==
    /\ pc \in Preparing =>
         \/ plan = "REVERT" /\ RevertPending
         \/ /\ plan = "TEST" /\ UpdatePending /\ Verified(pagesB, BaseB) /\ ~UpdateOlder
            /\ ~misled => ~Misplaced
    /\ pc \in Preparing \ {"trailerA"} =>
         /\ swapStatus = NoRecords /\ copyDone = "erased" /\ imageOk = "erased"
         /\ magicA = IF pc = "trailerB" THEN "set" ELSE "erased"
    /\ pc \in {"size", "magicA", "trailerB"} => swapInfo = plan
    /\ pc \in {"magicA", "trailerB"} =>
         /\ swapSize \in 1 .. FwPages
         /\ swapSize >= PagesIn(pagesA, 0) /\ swapSize >= PagesIn(pagesB, BaseB)

\* A download in progress stays within the slot, and nothing is marked yet.
DownloadMode == dl # None =>
    /\ Serving /\ magicB # "set" /\ copyDoneB # "set"
    /\ dl.left + dl.next \in 1 .. FwPages

BootInv ==
    /\ BootTypeOK /\ HeaderInv /\ SwapMode /\ SwapImages /\ SettledMode /\ TrialMode
    /\ TrialImages /\ RevertedMode /\ UpdateMode /\ PlaceMode /\ PlaceImages
    /\ PrepareMode /\ DownloadMode

-----------------------------------------------------------------------------
(* Images and headers                                                       *)

\* The parts of the assumption that the proofs use.
LEMMA Images ==
  /\ FwPages \in Nat /\ FwPages > 0 /\ FwPages < 255
  /\ \A i \in Image : ImageSize[i] \in Nat /\ ImageSize[i] >= 1 /\ ImageSize[i] <= FwPages
  /\ \A i \in Image : Version[i] \in Nat
  /\ Authentic \subseteq WellFormed /\ WellFormed \subseteq Image /\ None \notin Image
  /\ \A i \in Image, k \in 0 .. FwPages - 1 : <<i, k>> \in Page
  /\ Page \subseteq Content /\ Erased \in Content /\ Torn \in Content
  /\ ~IsHeader(Erased) /\ ~IsHeader(Torn)
BY ImageAssumption, SizeAssumption, PageAssumption DEF ImageAssumption, Content, IsHeader

\* A header tells of which image it is.
LEMMA HeaderOf ==
  ASSUME NEW c, IsHeader(c)
  PROVE  c[1] \in Image /\ c = <<c[1], 0>>
BY ImageAssumption DEF ImageAssumption, IsHeader

\* An image that is held begins with its header.
LEMMA HeldHeader ==
  ASSUME NEW slot, NEW base \in Nat, NEW i \in Image, Holds(slot, base, i)
  PROVE  slot[base] = <<i, 0>> /\ IsHeader(slot[base]) /\ slot[base][1] = i
<1>1. slot[base + 0] = <<i, 0>>
  BY Images DEF Holds
<1>2. <<i, 0>> \in Page
  BY Images
<1>. QED
  BY <1>1, <1>2 DEF IsHeader

\* An authentic image that is held passes the check without crypto.
LEMMA HeldPlausible ==
  ASSUME NEW slot, NEW base \in Nat, NEW i \in Authentic, Holds(slot, base, i)
  PROVE  Plausible(slot, base)
<1>1. i \in Image /\ i \in WellFormed
  BY Images
<1>2. slot[base] = <<i, 0>> /\ IsHeader(slot[base]) /\ slot[base][1] = i
  BY <1>1, HeldHeader
<1>3. ImageSize[i] - 1 \in 0 .. ImageSize[i] - 1
  BY <1>1, Images
<1>4. slot[base + (ImageSize[i] - 1)] = <<i, ImageSize[i] - 1>>
  BY <1>3 DEF Holds
<1>5. base + ImageSize[i] - 1 = base + (ImageSize[i] - 1)
  BY <1>1, Images
<1>6. <<i, ImageSize[i] - 1>> \in Page
  BY <1>1, <1>3, Images
<1>. QED
  BY <1>1, <1>2, <1>4, <1>5, <1>6 DEF Plausible

\* What is verified is held, and authentic.
LEMMA VerifiedHeld ==
  ASSUME NEW slot, NEW base, Verified(slot, base)
  PROVE  /\ slot[base][1] \in Authentic /\ Holds(slot, base, slot[base][1])
         /\ IsHeader(slot[base])
BY DEF Verified, Plausible

\* An image has at least one page and fits its slot.
LEMMA PagesInSlot ==
  ASSUME NEW slot, NEW base
  PROVE  /\ PagesIn(slot, base) \in 0 .. FwPages
         /\ IsHeader(slot[base]) =>
              /\ PagesIn(slot, base) \in 1 .. FwPages
              /\ PagesIn(slot, base) = ImageSize[slot[base][1]]
<1>1. CASE IsHeader(slot[base])
  <2>1. slot[base][1] \in Image
    BY <1>1, HeaderOf
  <2>2. ImageSize[slot[base][1]] \in 1 .. FwPages
    BY <2>1, Images
  <2>. QED
    BY <1>1, <2>2, Images DEF PagesIn
<1>2. CASE ~IsHeader(slot[base])
  BY <1>2, Images DEF PagesIn
<1>. QED
  BY <1>1, <1>2

\* What runs was verified: it is the confirmed image or the one on trial.
LEMMA RunsIntact ==
  ASSUME BootInv, pc = "app", ~misled
  PROVE  Running \in Authentic /\ Holds(pagesA, 0, Running)
<1>. USE DEF InSwap, Unconfirmed, OnTrial, Reverted, RevertPending, Running, HoldsGood
<1>1. magicB # "set" /\ ~InSwap /\ IsHeader(pagesA[0])
  BY DEF BootInv, PlaceMode, SwapActive, Loop, Plausible
<1>2. good # None => good \in Authentic /\ good \in Image
  BY Images DEF BootInv, BootTypeOK
<1>3. CASE ~Unconfirmed
  <2>1. good # None /\ Holds(pagesA, 0, good)
    BY <1>1, <1>3 DEF BootInv, SettledMode
  <2>. QED
    BY <1>2, <2>1, HeldHeader
<1>4. CASE OnTrial
  BY <1>1, <1>4 DEF BootInv, TrialMode
<1>5. CASE Reverted
  <2>1. good # None /\ Holds(pagesA, 0, good)
    BY <1>5 DEF BootInv, RevertedMode
  <2>. QED
    BY <1>2, <2>1, HeldHeader
<1>. QED
  BY <1>3, <1>4, <1>5

\* Where an update on trial replaced a confirmed image, and only there, main()
\* finds an image to go back to.
LEMMA RollbackFound ==
  ASSUME BootInv, OnTrial, ~misled
  PROVE  BaseB = 0 /\ (Plausible(pagesB, BaseB) <=> good # None)
<1>1. HoldsGood(pagesB) /\ BodyOfB(pagesB)
  BY DEF BootInv, TrialImages
<1>2. BaseB = 0
  <2>1. 1 \in PagesOfB
    BY Images DEF PagesOfB
  <2>. QED
    BY <1>1, <2>1 DEF BaseB, BodyOfB
<1>3. good # None => Plausible(pagesB, 0)
  BY <1>1, HeldPlausible DEF BootInv, BootTypeOK, HoldsGood
<1>4. good = None => ~Plausible(pagesB, 0)
  BY <1>1 DEF HoldsGood, Plausible
<1>. QED
  BY <1>2, <1>3, <1>4

\* What a swap is prepared for lies in slot B: a verified update, for an image
\* that is the confirmed one or none, or what has the confirmed image's header.
LEMMA ToBeSwapped ==
  ASSUME BootInv, pc \in Preparing
  PROVE  /\ IsHeader(pagesB[BaseB])
         /\ plan = "TEST" => /\ HeadIsGood(pagesA) /\ trial = None
                             /\ Verified(pagesB, BaseB) /\ UpdatePending
         /\ plan = "REVERT" => HeadIsGood(pagesB)
         /\ plan \in {"TEST", "REVERT"}
<1>. USE DEF InSwap, RevertPending, UpdatePending
<1>1. plan \in {"TEST", "REVERT"}
  BY DEF BootInv, PrepareMode
<1>2. CASE plan = "TEST"
  <2>1. UpdatePending /\ Verified(pagesB, BaseB)
    BY <1>2 DEF BootInv, PrepareMode
  <2>2. trial = None /\ HeadIsGood(pagesA)
    BY <2>1 DEF BootInv, UpdateMode, SettledMode
  <2>. QED
    BY <1>2, <2>1, <2>2, VerifiedHeld
<1>3. CASE plan = "REVERT"
  <2>1. RevertPending
    BY <1>3 DEF BootInv, PrepareMode
  <2>. QED
    BY <1>3, <2>1 DEF BootInv, TrialMode
<1>. QED
  BY <1>1, <1>2, <1>3

\* Without misplaced headers it is the update, one page up, for the confirmed
\* image, or the confirmed image itself.
LEMMA ImagesToBeSwapped ==
  ASSUME BootInv, pc \in Preparing, ~misled
  PROVE  /\ plan = "TEST" => /\ HoldsGood(pagesA) /\ BaseB = 1
                             /\ pagesB[1][1] \in Authentic /\ Holds(pagesB, 1, pagesB[1][1])
                             /\ NotOlder(pagesB[1][1])
         /\ plan = "REVERT" => /\ good # None /\ Holds(pagesB, 0, good)
                               /\ BaseB = 0 /\ ~IsHeader(pagesB[1])
         /\ HeadersOf(pagesA, pagesB)
<1>. USE DEF InSwap, RevertPending, UpdatePending
<1>1. ~InSwap /\ plan \in {"TEST", "REVERT"}
  BY DEF BootInv, PlaceMode, PrepareMode, SwapActive, Loop, Preparing
<1>2. good # None => good \in Image
  BY Images DEF BootInv, BootTypeOK
<1>3. BodyOfA(pagesA)
  BY <1>1 DEF BootInv, HeaderInv
<1>4. CASE plan = "TEST"
  <2>1. UpdatePending /\ Verified(pagesB, BaseB) /\ ~UpdateOlder /\ ~Misplaced
    BY <1>4 DEF BootInv, PrepareMode
  <2>2. BaseB = 1 /\ \A k \in 2 .. FwPages : ~IsHeader(pagesB[k])
    BY <2>1 DEF BaseB, Misplaced
  <2>3. HeadersOf(pagesA, pagesB)
    BY <1>3, <2>2, Images DEF HeadersOf, PagesOfB
  <2>4. pagesB[1][1] \in Authentic /\ Holds(pagesB, 1, pagesB[1][1])
    BY <2>1, <2>2, VerifiedHeld
  <2>5. HoldsGood(pagesA)
    BY <1>1, <2>1 DEF BootInv, UpdateMode, SettledMode
  <2>6. NotOlder(pagesB[1][1])
    <3>. SUFFICES ASSUME good # None PROVE Version[pagesB[1][1]] >= Version[good]
      BY DEF NotOlder
    <3>1. pagesA[0][1] = good /\ IsHeader(pagesA[0])
      BY <1>2, <2>5, HeldHeader DEF HoldsGood
    <3>2. ~(Version[pagesB[1][1]] < Version[good])
      BY <2>1, <2>2, <3>1 DEF UpdateOlder
    <3>3. Version[pagesB[1][1]] \in Nat /\ Version[good] \in Nat
      BY <1>2, <2>4, Images
    <3>. QED
      BY <3>2, <3>3
  <2>. QED
    BY <1>4, <2>2, <2>3, <2>4, <2>5, <2>6
<1>5. CASE plan = "REVERT"
  <2>1. RevertPending
    BY <1>5 DEF BootInv, PrepareMode
  <2>2. good # None /\ HoldsGood(pagesB) /\ BodyOfB(pagesB)
    BY <2>1 DEF BootInv, TrialImages
  <2>3. 1 \in PagesOfB /\ \A k \in PagesOfB : k >= 2 => k >= 1
    BY Images DEF PagesOfB
  <2>4. ~IsHeader(pagesB[1]) /\ HeadersOf(pagesA, pagesB)
    BY <1>3, <2>2, <2>3 DEF BodyOfB, HeadersOf
  <2>. QED
    BY <1>5, <2>2, <2>4 DEF BaseB, HoldsGood
<1>. QED
  BY <1>1, <1>4, <1>5

-----------------------------------------------------------------------------
(* The swap                                                                 *)

\* What a finished swap leaves in the slots: after a TEST swap the verified
\* update in slot A and the confirmed image in slot B, after a REVERT the
\* confirmed image in slot A; and a header nowhere else.
FinishedAs(a, b) ==
    LET whole == good # None => ImageSize[good] <= swapSize
    IN  /\ swapInfo = "TEST" =>
             /\ HeadIsGood(orig.a) => HeadIsGood(b)
             /\ whole /\ HoldsGood(orig.a) => HoldsGood(b)
             /\ IsHeader(a[0]) => IsHeader(orig.b[1])
             /\ \A u \in Image : Holds(orig.b, 1, u) /\ ImageSize[u] <= swapSize => Holds(a, 0, u)
             /\ HeadersOf(orig.a, orig.b) => BodyOfA(a) /\ BodyOfB(b)
        /\ swapInfo = "REVERT" =>
             /\ HeadIsGood(orig.b) => HeadIsGood(a)
             /\ whole /\ good # None /\ Holds(orig.b, 0, good) => Holds(a, 0, good)
             /\ HeadersOf(orig.a, orig.b) /\ ~IsHeader(orig.b[1]) => BodyOfA(a)

\* The exchange that the swap is proved to be ends this way.
LEMMA SwapFinishes ==
    /\ SwapInv /\ Confined /\ copyDone = "set" /\ good \in Image \cup {None}
    => FinishedAs(pagesA, pagesB)
<1>. SUFFICES ASSUME SwapInv, Confined, copyDone = "set", good \in Image \cup {None}
              PROVE  FinishedAs(pagesA, pagesB)
  OBVIOUS
<1>. USE DEF FinishedAs
<1>1. /\ swapSize \in Nat /\ swapSize >= 1 /\ swapSize <= FwPages /\ FwPages \in Nat
      /\ swapInfo \in {"TEST", "REVERT"} /\ (Forward <=> swapInfo = "TEST")
  BY Images DEF SwapInv, TypeOK, Forward
<1>2. /\ \A i \in Nat : i < swapSize => pagesA[i] = orig.b[In(i)] /\ pagesB[Out(i)] = orig.a[i]
      /\ Forward => pagesB[swapSize] = Erased
  BY <1>1, InvExchange DEF ExchangeExact, Swapped
<1>3. /\ \A i \in PagesOfA : i >= swapSize => pagesA[i] = orig.a[i]
      /\ \A i \in PagesOfB : i > swapSize => pagesB[i] = orig.b[i]
  BY <1>1 DEF Confined, Swapped, PagesOfA
<1>4. CASE swapInfo = "TEST"
  <2>1. \A i \in Nat : i < swapSize => pagesA[i] = orig.b[1 + i] /\ pagesB[i] = orig.a[i]
    BY <1>1, <1>2, <1>4 DEF In, Out
  <2>2. pagesB[swapSize] = Erased /\ ~IsHeader(Erased)
    BY <1>1, <1>2, <1>4, Images
  <2>3. pagesB[0] = orig.a[0] /\ pagesA[0] = orig.b[1]
    BY <1>1, <2>1
  <2>4. ASSUME good # None => ImageSize[good] <= swapSize, HoldsGood(orig.a)
        PROVE  HoldsGood(pagesB)
    <3>1. CASE good = None
      BY <2>3, <2>4, <3>1 DEF HoldsGood
    <3>2. CASE good # None
      <4>1. \A k \in 0 .. ImageSize[good] - 1 : k \in Nat /\ k < swapSize /\ 0 + k = k
        BY <1>1, <2>4, <3>2, Images
      <4>. QED
        BY <2>1, <2>4, <3>2, <4>1 DEF HoldsGood, Holds
    <3>. QED
      BY <3>1, <3>2
  <2>5. ASSUME NEW u \in Image, Holds(orig.b, 1, u), ImageSize[u] <= swapSize
        PROVE  Holds(pagesA, 0, u)
    <3>1. \A k \in 0 .. ImageSize[u] - 1 : k \in Nat /\ k < swapSize /\ 0 + k = k
      BY <1>1, <2>5, Images
    <3>. QED
      BY <2>1, <2>5, <3>1 DEF Holds
  <2>6. ASSUME HeadersOf(orig.a, orig.b), NEW k \in PagesOfA, k >= 1 PROVE ~IsHeader(pagesA[k])
    <3>1. CASE k >= swapSize
      BY <1>3, <2>6, <3>1 DEF HeadersOf, BodyOfA
    <3>2. CASE k < swapSize
      <4>1. 1 + k \in PagesOfB /\ 1 + k >= 2 /\ k \in Nat
        BY <1>1, <2>6, <3>2 DEF PagesOfA, PagesOfB
      <4>2. pagesA[k] = orig.b[1 + k]
        BY <2>1, <3>2, <4>1
      <4>. QED
        BY <2>6, <4>1, <4>2 DEF HeadersOf
    <3>. QED
      BY <1>1, <3>1, <3>2 DEF PagesOfA
  <2>7. ASSUME HeadersOf(orig.a, orig.b), NEW k \in PagesOfB, k >= 1 PROVE ~IsHeader(pagesB[k])
    <3>1. CASE k = swapSize
      BY <2>2, <3>1
    <3>2. CASE k < swapSize
      <4>1. k \in PagesOfA /\ k \in Nat
        BY <1>1, <2>7, <3>2 DEF PagesOfA, PagesOfB
      <4>2. pagesB[k] = orig.a[k]
        BY <2>1, <3>2, <4>1
      <4>. QED
        BY <2>7, <4>1, <4>2 DEF HeadersOf, BodyOfA
    <3>3. CASE k > swapSize
      <4>1. k >= 2
        BY <1>1, <3>3 DEF PagesOfB
      <4>. QED
        BY <1>3, <2>7, <3>3, <4>1 DEF HeadersOf
    <3>. QED
      BY <1>1, <3>1, <3>2, <3>3 DEF PagesOfB
  <2>8. HeadersOf(orig.a, orig.b) => BodyOfA(pagesA) /\ BodyOfB(pagesB)
    BY <2>6, <2>7 DEF BodyOfA, BodyOfB
  <2>. QED
    BY <1>4, <2>3, <2>4, <2>5, <2>8 DEF HeadIsGood
<1>5. CASE swapInfo = "REVERT"
  <2>1. \A i \in Nat : i < swapSize => pagesA[i] = orig.b[i]
    BY <1>1, <1>2, <1>5 DEF In
  <2>2. pagesA[0] = orig.b[0]
    BY <1>1, <2>1
  <2>3. ASSUME good # None, ImageSize[good] <= swapSize, Holds(orig.b, 0, good)
        PROVE  Holds(pagesA, 0, good)
    <3>1. \A k \in 0 .. ImageSize[good] - 1 : k \in Nat /\ k < swapSize /\ 0 + k = k
      BY <1>1, <2>3, Images
    <3>. QED
      BY <2>1, <2>3, <3>1 DEF Holds
  <2>4. ASSUME HeadersOf(orig.a, orig.b), ~IsHeader(orig.b[1]), NEW k \in PagesOfA, k >= 1
        PROVE  ~IsHeader(pagesA[k])
    <3>1. CASE k >= swapSize
      BY <1>3, <2>4, <3>1 DEF HeadersOf, BodyOfA
    <3>2. CASE k < swapSize
      <4>1. k \in PagesOfB /\ k \in Nat /\ (k >= 2 \/ k = 1)
        BY <1>1, <2>4, <3>2 DEF PagesOfA, PagesOfB
      <4>2. pagesA[k] = orig.b[k]
        BY <2>1, <3>2, <4>1
      <4>. QED
        BY <2>4, <4>1, <4>2 DEF HeadersOf
    <3>. QED
      BY <1>1, <3>1, <3>2 DEF PagesOfA
  <2>5. HeadersOf(orig.a, orig.b) /\ ~IsHeader(orig.b[1]) => BodyOfA(pagesA)
    BY <2>4 DEF BodyOfA
  <2>. QED
    BY <1>5, <2>2, <2>3, <2>5 DEF HeadIsGood
<1>. QED
  BY <1>1, <1>4, <1>5


\* Every step and every interruption of a swap, and its resumption, keep the
\* invariant; the last one ends the swap and begins the trial.
LEMMA SwapKeeps ==
  ASSUME BootInv, Next, InSwap, hold' \in BOOLEAN,
         UNCHANGED <<magicA, imageOk, trailerB, plan, iwdg, dl, good, trial, misled>>
  PROVE  BootInv'
<1>. USE DEF trailerB, InSwap, Unconfirmed, OnTrial, Reverted, Unfinished, RevertPending,
             UpdatePending
<1>1. pc \in SwapActive \cup {"off"} /\ magicA = "set" /\ copyDone # "set" /\ magicB # "set"
  BY DEF BootInv, PlaceMode
<1>2. swapSize' = swapSize /\ swapInfo' = swapInfo /\ orig' = orig
  BY Fixed
<1>3. SwapInv /\ Confined /\ SwapInv' /\ Confined'
  BY SwapInvStep, ConfinedStep DEF BootInv, SwapMode
<1>4. dl = None
  BY <1>1 DEF BootInv, DownloadMode, Serving, SwapActive, Loop
<1>5. pc' \in SwapPc /\ (copyDone' = "set" <=> pc' = "done") /\ imageOk # "set"
      /\ swapInfo \in {"TEST", "REVERT"}
  BY <1>1, <1>3 DEF SwapInv, PlaceInv, TypeOK, BootInv, SwapMode
<1>6. BootTypeOK'
  <2>1. idx' \in 0 .. FwPages + 1
    BY <1>3, Images DEF SwapInv, TypeOK
  <2>2. {copyDone, magicA, imageOk, magicB, copyDoneB}' \subseteq Record
    BY <1>3 DEF SwapInv, TypeOK, BootInv, BootTypeOK
  <2>3. {hold, iwdg, misled}' \subseteq BOOLEAN
    BY DEF BootInv, BootTypeOK
  <2>. QED
    BY <1>3, <1>5, <2>1, <2>2, <2>3 DEF SwapInv, TypeOK, BootInv, BootTypeOK
<1>7. UpdateMode' /\ PrepareMode' /\ DownloadMode'
  BY <1>1, <1>4, <1>5
     DEF UpdateMode, PrepareMode, DownloadMode, SwapPc, Loop, Preparing
<1>8. ~misled => HeadersOf(orig.a, orig.b)
  BY DEF BootInv, HeaderInv
<1>9. CASE copyDone' # "set"
  <2>1. InSwap'
    BY <1>1, <1>9
  <2>2. HeaderInv'
    BY <1>2, <1>8, <2>1 DEF HeaderInv
  <2>3. SwapMode' /\ SwapImages'
    BY <1>2, <1>3, <1>9 DEF BootInv, SwapMode, SwapImages, HoldsGood, HeadIsGood, NotOlder
  <2>4. SettledMode' /\ TrialMode' /\ TrialImages' /\ RevertedMode'
    BY <1>1, <1>5, <1>9, <2>1
       DEF SettledMode, TrialMode, TrialImages, RevertedMode, SwapPc, Loop, Idling
  <2>5. PlaceMode' /\ PlaceImages'
    BY <1>1, <1>5, <1>9, <2>1
       DEF PlaceMode, PlaceImages, SwapPc, SwapActive, Loop, Marking, Idling
  <2>. QED
    BY <1>6, <1>7, <2>2, <2>3, <2>4, <2>5 DEF BootInv
<1>10. CASE copyDone' = "set"
  <2>1. /\ pc' = "done" /\ Unconfirmed' /\ ~InSwap' /\ ~RevertPending' /\ ~UpdatePending'
    BY <1>1, <1>2, <1>5, <1>10
  <2>2. good # None => good \in Image /\ (~misled => ImageSize[good] <= swapSize)
    BY Images DEF BootInv, BootTypeOK, SwapImages
  <2>3. FinishedAs(pagesA', pagesB')
    <3>1. /\ SwapInv' /\ Confined' /\ (copyDone = "set")' /\ (good \in Image \cup {None})'
      BY <1>2, <1>3, <1>10, <2>2
    <3>2. FinishedAs(pagesA, pagesB)'
      BY <3>1, SwapFinishes, PTL
    <3>. QED
      BY <1>2, <3>2 DEF FinishedAs, HoldsGood, HeadIsGood
  <2>4. CASE swapInfo = "TEST"
    <3>1. HeadIsGood(pagesB)' /\ trial' = None
      BY <2>3, <2>4 DEF FinishedAs, BootInv, SwapMode, HeadIsGood
    <3>2. ASSUME IsHeader(pagesA'[0])
          PROVE  pagesA'[0][1] \in Authentic /\ Holds(pagesA', 0, pagesA'[0][1])
      <4>1. PICK u \in Authentic : Holds(orig.b, 1, u) /\ ImageSize[u] <= swapSize
        BY <2>3, <2>4, <3>2 DEF FinishedAs, BootInv, SwapMode
      <4>2. u \in Image
        BY Images
      <4>3. Holds(pagesA', 0, u)
        BY <2>3, <2>4, <4>1, <4>2 DEF FinishedAs
      <4>. QED
        BY <4>2, <4>3, HeldHeader
    <3>3. TrialMode'
      BY <2>1, <3>1, <3>2 DEF TrialMode, Running
    <3>4. HeaderInv' /\ (~misled => BodyOfB(pagesB'))
      BY <1>8, <2>1, <2>3, <2>4 DEF HeaderInv, FinishedAs
    <3>5. ASSUME ~misled
          PROVE  HoldsGood(pagesB)' /\ IsHeader(pagesA'[0]) /\ NotOlder(pagesA'[0][1])
      <4>1. PICK u \in Authentic : /\ Holds(orig.b, 1, u) /\ ImageSize[u] <= swapSize
                                   /\ NotOlder(u)
        BY <2>4, <3>5 DEF BootInv, SwapImages
      <4>2. u \in Image
        BY Images
      <4>3. Holds(pagesA', 0, u)
        BY <2>3, <2>4, <4>1, <4>2 DEF FinishedAs
      <4>4. IsHeader(pagesA'[0]) /\ pagesA'[0][1] = u
        BY <4>2, <4>3, HeldHeader
      <4>5. HoldsGood(pagesB)'
        BY <2>2, <2>3, <2>4, <3>5 DEF FinishedAs, BootInv, SwapImages, HoldsGood
      <4>. QED
        BY <4>1, <4>4, <4>5
    <3>6. TrialImages' /\ PlaceImages'
      BY <2>1, <3>4, <3>5
         DEF TrialImages, PlaceImages, Running, NotOlder, Marking, Idling
    <3>7. SwapMode' /\ SwapImages' /\ SettledMode' /\ RevertedMode'
      BY <1>2, <2>1, <2>4 DEF SwapMode, SwapImages, SettledMode, RevertedMode, Idling
    <3>8. PlaceMode'
      BY <1>1, <2>1, <3>1 DEF PlaceMode, SwapActive, Loop, Marking, Idling
    <3>. QED
      BY <1>6, <1>7, <3>3, <3>4, <3>6, <3>7, <3>8 DEF BootInv
  <2>5. CASE swapInfo = "REVERT"
    <3>1. HeadIsGood(pagesA)'
      BY <2>3, <2>5 DEF FinishedAs, BootInv, SwapMode, HeadIsGood
    <3>2. ~misled => good # None /\ Holds(orig.b, 0, good) /\ ~IsHeader(orig.b[1])
      BY <2>5 DEF BootInv, SwapImages
    <3>3. ~misled => Holds(pagesA', 0, good) /\ BodyOfA(pagesA')
      BY <1>8, <2>2, <2>3, <2>5, <3>2 DEF FinishedAs
    <3>4. ~misled => IsHeader(pagesA'[0])
      BY <2>2, <3>2, <3>3, HeldHeader
    <3>5. HeaderInv' /\ PlaceImages'
      BY <2>1, <3>3, <3>4 DEF HeaderInv, PlaceImages, Marking, Idling
    <3>6. SwapMode' /\ SwapImages' /\ SettledMode' /\ TrialMode' /\ TrialImages'
      BY <1>2, <2>1, <2>5 DEF SwapMode, SwapImages, SettledMode, TrialMode, TrialImages, Idling
    <3>7. RevertedMode'
      BY <1>1, <3>1, <3>2, <3>3 DEF RevertedMode, HeadIsGood
    <3>8. PlaceMode'
      BY <1>1, <1>2, <2>1, <2>5 DEF PlaceMode, SwapActive, Loop, Marking, Idling
    <3>. QED
      BY <1>6, <1>7, <3>5, <3>6, <3>7, <3>8 DEF BootInv
  <2>. QED
    BY <1>5, <2>4, <2>5
<1>. QED
  BY <1>9, <1>10

-----------------------------------------------------------------------------
(* The rest of main(), action by action.  The proofs look into what main()  *)
(* decides by, and into the tuples that name what an action leaves alone.   *)

USE DEF InSwap, RevertPending, UpdatePending, Unconfirmed, OnTrial, Reverted, Unfinished,
        Idling, HoldsGood, HeadIsGood, BaseB, Running, NotOlder, UpdateOlder,
        SwapActive, Loop, Preparing, Marking, Serving,
        trailerA, trailerB, pages, history, swapVars, bootVars

\* What the type invariant says of a download in progress.
LEMMA DownloadPage ==
  ASSUME BootInv, dl # None
  PROVE  /\ dl.left \in Nat /\ dl.next \in Nat
         /\ dl = [left |-> dl.left, next |-> dl.next]
         /\ dl.left + dl.next >= 1 /\ dl.left + dl.next <= FwPages
<1>1. dl \in [left : 0 .. FwPages, next : 0 .. FwPages]
  BY DEF BootInv, BootTypeOK
<1>2. dl.left + dl.next \in 1 .. FwPages
  BY DEF BootInv, DownloadMode
<1>. QED
  BY <1>1, <1>2, Images

\* A revert is prepared once more.
LEMMA BootRevertAgainKeeps ==
  ASSUME BootInv, BootRevertAgain
  PROVE  BootInv'
<1>. USE DEF BootRevertAgain, Boot
<1>1. ~InSwap /\ ~InSwap'
  BY DEF BootInv, PlaceMode, PrepareMode, BootTypeOK, Record
<1>2. BootTypeOK'
  BY Images DEF BootInv, BootTypeOK, SwapPc, BootPc, Record, Content, NoRecords, Unset
<1>3. HeaderInv' /\ SwapMode' /\ SwapImages' /\ SettledMode' /\ RevertedMode'
  BY <1>1
     DEF BootInv, HeaderInv, SwapMode, SwapImages, SettledMode, RevertedMode, PlaceMode,
         PlaceImages, PrepareMode
<1>4. TrialMode' /\ TrialImages'
  BY <1>1
     DEF BootInv, TrialMode, TrialImages, PlaceMode, PlaceImages, PrepareMode, UpdateMode
<1>5. UpdateMode' /\ PlaceMode' /\ PlaceImages'
  BY <1>1 DEF BootInv, UpdateMode, TrialMode, PlaceMode, PlaceImages, PrepareMode
<1>6. PrepareMode' /\ DownloadMode'
  BY <1>1 DEF BootInv, PrepareMode, PlaceMode, DownloadMode, Misplaced
<1>. QED
  BY <1>2, <1>3, <1>4, <1>5, <1>6 DEF BootInv

\* A pending update is prepared or rejected.
LEMMA BootUpdateKeeps ==
  ASSUME BootInv, BootUpdate
  PROVE  BootInv'
<1>. USE DEF BootUpdate, Boot
<1>1. ~InSwap /\ ~InSwap'
  BY DEF BootInv, PlaceMode, PrepareMode, BootTypeOK, Record
<1>2. /\ misled' \in BOOLEAN /\ (~misled' => ~misled)
      /\ pc' = "trailerA" => (~misled' => ~Misplaced)
      /\ pc' \in {"eraseSlotB", "trailerA"}
      /\ pc' = "trailerA" => plan' = "TEST" /\ Verified(pagesB, BaseB) /\ ~UpdateOlder
      /\ pc' = "eraseSlotB" => ~(Verified(pagesB, BaseB) /\ ~UpdateOlder) /\ plan' = plan
  BY DEF BootInv, BootTypeOK
<1>3. /\ pc = "off" /\ UpdatePending /\ idx' = 0
      /\ UNCHANGED <<pages, trailerA, trailerB, losses, trial, iwdg, dl, hold, good>>
  OBVIOUS
<1>4. orig' = NoSwap
  OBVIOUS
<1>. HIDE DEF BootUpdate, Boot
<1>5. BootTypeOK'
  <2>1. {hold, iwdg, misled}' \subseteq BOOLEAN
    BY <1>2, <1>3 DEF BootInv, BootTypeOK
  <2>2. idx' \in 0 .. FwPages + 1 /\ pc' \in SwapPc \cup BootPc
        /\ plan' \in {"none", "TEST", "REVERT"}
    BY <1>2, <1>3, Images DEF BootInv, BootTypeOK, BootPc
  <2>. QED
    BY <1>3, <2>1, <2>2 DEF BootInv, BootTypeOK
<1>6. HeaderInv' /\ SwapMode' /\ SwapImages' /\ SettledMode'
  BY <1>1, <1>2, <1>3 DEF BootInv, HeaderInv, SwapMode, SwapImages, SettledMode
<1>7. TrialMode' /\ TrialImages' /\ RevertedMode'
  BY <1>1, <1>2, <1>3 DEF BootInv, TrialMode, TrialImages, UpdateMode, RevertedMode
<1>8. UpdateMode' /\ PlaceMode' /\ PlaceImages' /\ DownloadMode'
  BY <1>1, <1>2, <1>3 DEF BootInv, UpdateMode, PlaceMode, PlaceImages, DownloadMode
<1>9. PrepareMode'
  BY <1>1, <1>2, <1>3 DEF PrepareMode, Misplaced
<1>. QED
  BY <1>5, <1>6, <1>7, <1>8, <1>9 DEF BootInv

\* After a failed trial main() finds the confirmed image in slot B, if there is one.
LEMMA BootTestFailedKeeps ==
  ASSUME BootInv, BootTestFailed
  PROVE  BootInv'
<1>. USE DEF BootTestFailed, Boot, TestFailed
<1>1. ~InSwap /\ ~InSwap'
  BY DEF BootInv, PlaceMode, PrepareMode, BootTypeOK, Record
<1>2. /\ OnTrial /\ magicB # "set"
      /\ Plausible(pagesB, BaseB) => IsHeader(pagesB[BaseB])
      /\ ~misled => (Plausible(pagesB, BaseB) <=> good # None)
  BY RollbackFound DEF Plausible
<1>3. BootTypeOK'
  BY Images DEF BootInv, BootTypeOK, SwapPc, BootPc, Record, Content, NoRecords, Unset
<1>4. HeaderInv' /\ SwapMode' /\ SwapImages' /\ SettledMode' /\ RevertedMode'
  BY <1>1, <1>2 DEF BootInv, HeaderInv, SwapMode, SwapImages, SettledMode, RevertedMode
<1>5. TrialMode' /\ TrialImages' /\ UpdateMode' /\ PrepareMode' /\ DownloadMode'
  BY <1>1, <1>2
     DEF BootInv, TrialMode, TrialImages, UpdateMode, PrepareMode, PlaceMode, DownloadMode
<1>6. PlaceMode' /\ PlaceImages'
  BY <1>1, <1>2 DEF BootInv, PlaceMode, PlaceImages, UpdateMode, PrepareMode
<1>. QED
  BY <1>3, <1>4, <1>5, <1>6 DEF BootInv

\* From here on there is no confirmed image.
LEMMA BootRevertFailedKeeps ==
  ASSUME BootInv, BootRevertFailed
  PROVE  BootInv'
<1>. USE DEF BootRevertFailed, Boot, RevertFailed
<1>1. ~InSwap /\ ~InSwap'
  BY DEF BootInv, PlaceMode, PrepareMode, BootTypeOK, Record
<1>2. BootTypeOK'
  BY Images DEF BootInv, BootTypeOK, SwapPc, BootPc, Record, Content, NoRecords, Unset
<1>3. HeaderInv' /\ SwapMode' /\ SwapImages' /\ SettledMode' /\ RevertedMode'
  BY <1>1
     DEF BootInv, HeaderInv, SwapMode, SwapImages, SettledMode, RevertedMode, PlaceMode,
         PlaceImages, PrepareMode
<1>4. TrialMode' /\ TrialImages'
  BY <1>1
     DEF BootInv, TrialMode, TrialImages, PlaceMode, PlaceImages, PrepareMode, UpdateMode
<1>5. UpdateMode' /\ PlaceMode' /\ PlaceImages'
  BY <1>1 DEF BootInv, UpdateMode, TrialMode, PlaceMode, PlaceImages, PrepareMode
<1>6. PrepareMode' /\ DownloadMode'
  BY <1>1 DEF BootInv, PrepareMode, PlaceMode, DownloadMode, Misplaced
<1>. QED
  BY <1>2, <1>3, <1>4, <1>5, <1>6 DEF BootInv

\* Nothing to do: the trailers are left as they are.
LEMMA BootNormalKeeps ==
  ASSUME BootInv, BootNormal
  PROVE  BootInv'
<1>. USE DEF BootNormal, Boot
<1>1. ~InSwap /\ ~InSwap'
  BY DEF BootInv, PlaceMode, PrepareMode, BootTypeOK, Record
<1>2. BootTypeOK'
  <2>1. {hold, iwdg, misled}' \subseteq BOOLEAN
    BY Zenon DEF BootInv, BootTypeOK
  <2>2. /\ idx' \in 0 .. FwPages + 1 /\ pc' \in SwapPc \cup BootPc /\ plan' = "none"
        /\ UNCHANGED <<pages, trailerA, trailerB, losses, good, trial, dl>>
    BY Images DEF BootPc
  <2>. HIDE DEF BootNormal, Boot
  <2>. QED
    BY <2>1, <2>2 DEF BootInv, BootTypeOK
<1>3. HeaderInv' /\ SwapMode' /\ SwapImages' /\ SettledMode' /\ RevertedMode'
  BY <1>1
     DEF BootInv, HeaderInv, SwapMode, SwapImages, SettledMode, RevertedMode, PlaceMode,
         PlaceImages, PrepareMode
<1>4. TrialMode' /\ TrialImages'
  BY <1>1
     DEF BootInv, TrialMode, TrialImages, PlaceMode, PlaceImages, PrepareMode, UpdateMode
<1>5. UpdateMode' /\ PlaceMode' /\ PlaceImages'
  BY <1>1 DEF BootInv, UpdateMode, TrialMode, PlaceMode, PlaceImages, PrepareMode
<1>6. PrepareMode' /\ DownloadMode'
  BY <1>1 DEF BootInv, PrepareMode, PlaceMode, DownloadMode, Misplaced
<1>. QED
  BY <1>2, <1>3, <1>4, <1>5, <1>6 DEF BootInv

\* Slot B is marked for a revert: its trailer is erased, ...
LEMMA PrepTrailerBKeeps ==
  ASSUME BootInv, PrepTrailerB
  PROVE  BootInv'
<1>. USE DEF PrepTrailerB, Step
<1>1. ~InSwap /\ ~InSwap'
  BY DEF BootInv, PlaceMode, PrepareMode, BootTypeOK, Record
<1>2. BootTypeOK'
  BY Images DEF BootInv, BootTypeOK, SwapPc, BootPc, Record, Content, NoRecords, Unset
<1>3. HeaderInv' /\ SwapMode' /\ SwapImages' /\ SettledMode' /\ RevertedMode'
  BY <1>1
     DEF BootInv, HeaderInv, SwapMode, SwapImages, SettledMode, RevertedMode, PlaceMode,
         PlaceImages, PrepareMode
<1>4. TrialMode' /\ TrialImages'
  BY <1>1
     DEF BootInv, TrialMode, TrialImages, PlaceMode, PlaceImages, PrepareMode, UpdateMode
<1>5. UpdateMode' /\ PlaceMode' /\ PlaceImages'
  BY <1>1 DEF BootInv, UpdateMode, TrialMode, PlaceMode, PlaceImages, PrepareMode
<1>6. PrepareMode' /\ DownloadMode'
  BY <1>1 DEF BootInv, PrepareMode, PlaceMode, DownloadMode, Misplaced
<1>. QED
  BY <1>2, <1>3, <1>4, <1>5, <1>6 DEF BootInv

\* ... copy_done is set, ...
LEMMA PrepCopyDoneBKeeps ==
  ASSUME BootInv, PrepCopyDoneB
  PROVE  BootInv'
<1>. USE DEF PrepCopyDoneB, Step
<1>1. ~InSwap /\ ~InSwap'
  BY DEF BootInv, PlaceMode, PrepareMode, BootTypeOK, Record
<1>2. BootTypeOK'
  BY Images DEF BootInv, BootTypeOK, SwapPc, BootPc, Record, Content, NoRecords, Unset
<1>3. HeaderInv' /\ SwapMode' /\ SwapImages' /\ SettledMode' /\ RevertedMode'
  BY <1>1
     DEF BootInv, HeaderInv, SwapMode, SwapImages, SettledMode, RevertedMode, PlaceMode,
         PlaceImages, PrepareMode
<1>4. TrialMode' /\ TrialImages'
  BY <1>1
     DEF BootInv, TrialMode, TrialImages, PlaceMode, PlaceImages, PrepareMode, UpdateMode
<1>5. UpdateMode' /\ PlaceMode' /\ PlaceImages'
  BY <1>1 DEF BootInv, UpdateMode, TrialMode, PlaceMode, PlaceImages, PrepareMode
<1>6. PrepareMode' /\ DownloadMode'
  BY <1>1 DEF BootInv, PrepareMode, PlaceMode, DownloadMode, Misplaced
<1>. QED
  BY <1>2, <1>3, <1>4, <1>5, <1>6 DEF BootInv

\* ... and magic last, which makes the revert pending.
LEMMA PrepMagicBKeeps ==
  ASSUME BootInv, PrepMagicB
  PROVE  BootInv'
<1>. USE DEF PrepMagicB
<1>1. ~InSwap /\ ~InSwap'
  BY DEF BootInv, PlaceMode, PrepareMode, BootTypeOK, Record
<1>2. BootTypeOK'
  BY Images DEF BootInv, BootTypeOK, SwapPc, BootPc, Record, Content, NoRecords, Unset
<1>3. HeaderInv' /\ SwapMode' /\ SwapImages' /\ SettledMode' /\ RevertedMode'
  BY <1>1
     DEF BootInv, HeaderInv, SwapMode, SwapImages, SettledMode, RevertedMode, PlaceMode,
         PlaceImages, PrepareMode
<1>4. TrialMode' /\ TrialImages'
  BY <1>1
     DEF BootInv, TrialMode, TrialImages, PlaceMode, PlaceImages, PrepareMode, UpdateMode
<1>5. UpdateMode' /\ PlaceMode' /\ PlaceImages'
  BY <1>1 DEF BootInv, UpdateMode, TrialMode, PlaceMode, PlaceImages, PrepareMode
<1>6. PrepareMode' /\ DownloadMode'
  BY <1>1 DEF BootInv, PrepareMode, PlaceMode, DownloadMode, Misplaced
<1>. QED
  BY <1>2, <1>3, <1>4, <1>5, <1>6 DEF BootInv

\* Slot A is the confirmed image before a TEST swap; before a REVERT the
\* revert stays pending.
LEMMA StartTrailerAKeeps ==
  ASSUME BootInv, StartTrailerA
  PROVE  BootInv'
<1>. USE DEF StartTrailerA, Step, EraseTrailerA
<1>1. ~InSwap /\ ~InSwap'
  BY DEF BootInv, PlaceMode, PrepareMode, BootTypeOK, Record
<1>2. BootTypeOK'
  BY Images DEF BootInv, BootTypeOK, SwapPc, BootPc, Record, Content, NoRecords, Unset
<1>3. HeaderInv' /\ SwapMode' /\ SwapImages' /\ TrialMode' /\ TrialImages' /\ RevertedMode'
  BY <1>1, Images
     DEF BootInv, HeaderInv, SwapMode, SwapImages, TrialMode, TrialImages, RevertedMode,
         PlaceMode, PlaceImages, PrepareMode, UpdateMode
<1>4. SettledMode'
  BY <1>1 DEF BootInv, SettledMode, PlaceMode, PlaceImages, PrepareMode, UpdateMode
<1>5. UpdateMode' /\ PlaceMode' /\ PlaceImages'
  BY <1>1 DEF BootInv, UpdateMode, TrialMode, PlaceMode, PlaceImages, PrepareMode
<1>6. PrepareMode' /\ DownloadMode'
  BY <1>1 DEF BootInv, PrepareMode, PlaceMode, DownloadMode, Misplaced
<1>. QED
  BY <1>2, <1>3, <1>4, <1>5, <1>6 DEF BootInv

\* The direction is recorded, ...
LEMMA StartInfoKeeps ==
  ASSUME BootInv, StartInfo
  PROVE  BootInv'
<1>. USE DEF StartInfo, Step
<1>1. ~InSwap /\ ~InSwap'
  BY DEF BootInv, PlaceMode, PrepareMode, BootTypeOK, Record
<1>2. BootTypeOK'
  BY Images DEF BootInv, BootTypeOK, SwapPc, BootPc, Record, Content, NoRecords, Unset
<1>3. HeaderInv' /\ SwapMode' /\ SwapImages' /\ SettledMode' /\ RevertedMode'
  BY <1>1
     DEF BootInv, HeaderInv, SwapMode, SwapImages, SettledMode, RevertedMode, PlaceMode,
         PlaceImages, PrepareMode
<1>4. TrialMode' /\ TrialImages'
  BY <1>1
     DEF BootInv, TrialMode, TrialImages, PlaceMode, PlaceImages, PrepareMode, UpdateMode
<1>5. UpdateMode' /\ PlaceMode' /\ PlaceImages'
  BY <1>1 DEF BootInv, UpdateMode, TrialMode, PlaceMode, PlaceImages, PrepareMode
<1>6. PrepareMode' /\ DownloadMode'
  BY <1>1 DEF BootInv, PrepareMode, PlaceMode, DownloadMode, Misplaced
<1>. QED
  BY <1>2, <1>3, <1>4, <1>5, <1>6 DEF BootInv

\* ... then the size, which is that of the larger image ...
LEMMA StartSizeKeeps ==
  ASSUME BootInv, StartSize
  PROVE  BootInv'
<1>. USE DEF StartSize, Step
<1>1. ~InSwap /\ ~InSwap'
  BY DEF BootInv, PlaceMode, PrepareMode, BootTypeOK, Record
<1>2. IsHeader(pagesB[BaseB])
  BY ToBeSwapped
<1>3. /\ PagesIn(pagesA, 0) \in 0 .. FwPages /\ PagesIn(pagesB, BaseB) \in 1 .. FwPages
      /\ FwPages \in Nat
  BY <1>2, PagesInSlot, Images
<1>4. /\ swapSize' \in 1 .. FwPages /\ swapSize' >= PagesIn(pagesA, 0)
      /\ swapSize' >= PagesIn(pagesB, BaseB)
  BY <1>3
<1>5. BootTypeOK'
  BY <1>4, Images DEF BootInv, BootTypeOK, SwapPc, BootPc, Record, Content, NoRecords, Unset
<1>6. HeaderInv' /\ SwapMode' /\ SwapImages' /\ SettledMode' /\ RevertedMode'
  BY <1>1
     DEF BootInv, HeaderInv, SwapMode, SwapImages, SettledMode, RevertedMode, PlaceMode,
         PlaceImages, PrepareMode
<1>7. TrialMode' /\ TrialImages'
  BY <1>1
     DEF BootInv, TrialMode, TrialImages, PlaceMode, PlaceImages, PrepareMode, UpdateMode
<1>8. UpdateMode' /\ PlaceMode' /\ PlaceImages' /\ DownloadMode'
  BY <1>1 DEF BootInv, UpdateMode, PlaceMode, PlaceImages, PrepareMode, DownloadMode
<1>9. PrepareMode'
  BY <1>1, <1>4 DEF BootInv, PrepareMode, PlaceMode, Misplaced
<1>. QED
  BY <1>5, <1>6, <1>7, <1>8, <1>9 DEF BootInv

\* ... and magic.
LEMMA StartMagicAKeeps ==
  ASSUME BootInv, StartMagicA
  PROVE  BootInv'
<1>. USE DEF StartMagicA, Step
<1>1. ~InSwap /\ ~InSwap'
  BY DEF BootInv, PlaceMode, PrepareMode, BootTypeOK, Record
<1>2. BootTypeOK'
  BY Images DEF BootInv, BootTypeOK, SwapPc, BootPc, Record, Content, NoRecords, Unset
<1>3. HeaderInv' /\ SwapMode' /\ SwapImages' /\ SettledMode' /\ RevertedMode'
  BY <1>1
     DEF BootInv, HeaderInv, SwapMode, SwapImages, SettledMode, RevertedMode, PlaceMode,
         PlaceImages, PrepareMode
<1>4. TrialMode' /\ TrialImages'
  BY <1>1
     DEF BootInv, TrialMode, TrialImages, PlaceMode, PlaceImages, PrepareMode, UpdateMode
<1>5. UpdateMode' /\ PlaceMode' /\ PlaceImages'
  BY <1>1 DEF BootInv, UpdateMode, TrialMode, PlaceMode, PlaceImages, PrepareMode
<1>6. PrepareMode' /\ DownloadMode'
  BY <1>1 DEF BootInv, PrepareMode, PlaceMode, DownloadMode, Misplaced
<1>. QED
  BY <1>2, <1>3, <1>4, <1>5, <1>6 DEF BootInv

\* Slot A loses its header with its first page, and its trailer last.
LEMMA EraseSlotAKeeps ==
  ASSUME BootInv, EraseSlotA
  PROVE  BootInv'
<1>. USE DEF EraseSlotA, EraseTrailerA, Distress
<1>1. ~InSwap /\ ~InSwap'
  BY DEF BootInv, PlaceMode, PrepareMode, BootTypeOK, Record
<1>2. /\ pagesA \in [PagesOfA -> Content] /\ idx \in 0 .. FwPages + 1
      /\ ~misled => BodyOfA(pagesA)
      /\ idx > 0 => ~IsHeader(pagesA[0])
  BY <1>1 DEF BootInv, BootTypeOK, HeaderInv, PlaceMode
<1>3. ~IsHeader(pagesA'[0])
  BY <1>2, Images DEF PagesOfA
<1>4. ~misled => BodyOfA(pagesA')
  BY <1>2, Images DEF BodyOfA
<1>5. BootTypeOK'
  BY <1>2, Images DEF BootInv, BootTypeOK, SwapPc, BootPc, Record, Content, NoRecords, Unset
<1>6. SwapMode' /\ SwapImages' /\ RevertedMode'
  BY <1>1, <1>3 DEF SwapMode, SwapImages, RevertedMode, BootInv, PlaceMode, PlaceImages
<1>7. HeaderInv'
  BY <1>1, <1>4 DEF HeaderInv
<1>8. SettledMode'
  BY <1>1, <1>3 DEF BootInv, SettledMode, PlaceMode, PlaceImages
<1>9. TrialMode' /\ TrialImages'
  BY <1>1, <1>3 DEF BootInv, TrialMode, TrialImages, PlaceMode, PlaceImages
<1>10. UpdateMode' /\ PrepareMode' /\ DownloadMode'
  BY <1>1 DEF BootInv, UpdateMode, PlaceMode, PrepareMode, DownloadMode
<1>11. PlaceMode' /\ PlaceImages'
  BY <1>1, <1>3 DEF BootInv, PlaceMode, PlaceImages
<1>. QED
  BY <1>5, <1>6, <1>7, <1>8, <1>9, <1>10, <1>11 DEF BootInv

\* A rejected update loses both places of a header before its trailer.
LEMMA EraseSlotBKeeps ==
  ASSUME BootInv, EraseSlotB
  PROVE  BootInv'
<1>. USE DEF EraseSlotB
<1>1. ~InSwap /\ ~InSwap' /\ UpdatePending /\ HeadIsGood(pagesA) /\ ~Unfinished
  BY DEF BootInv, PlaceMode, PrepareMode, SettledMode, BootTypeOK, Record
<1>2. pagesB \in [PagesOfB -> Content] /\ idx \in 0 .. FwPages + 1
  BY DEF BootInv, BootTypeOK
<1>3. IsHeader(pagesB'[0]) => pagesB'[0] = pagesB[0]
  BY <1>2, Images DEF PagesOfB
<1>4. BootTypeOK'
  BY <1>2, Images DEF BootInv, BootTypeOK, SwapPc, BootPc, Record, Content, NoRecords, Unset
<1>5. HeaderInv' /\ SwapMode' /\ SwapImages' /\ SettledMode' /\ RevertedMode'
  BY <1>1 DEF BootInv, HeaderInv, SwapMode, SwapImages, SettledMode, RevertedMode
<1>6. TrialMode' /\ TrialImages'
  BY <1>1, <1>3 DEF BootInv, TrialMode, TrialImages, UpdateMode
<1>7. UpdateMode' /\ PrepareMode' /\ DownloadMode'
  BY <1>1 DEF BootInv, UpdateMode, PrepareMode, DownloadMode
<1>8. PlaceMode' /\ PlaceImages'
  BY <1>1 DEF BootInv, PlaceMode, PlaceImages, UpdateMode
<1>. QED
  BY <1>4, <1>5, <1>6, <1>7, <1>8 DEF BootInv

\* After a swap the image in slot A is always started.
LEMMA TryBootKeeps ==
  ASSUME BootInv, TryBoot
  PROVE  BootInv'
<1>. USE DEF TryBoot, Distress, Watch
<1>1. /\ ~InSwap /\ ~InSwap' /\ magicB # "set"
      /\ pc' \in {"app", "distress", "halted"} /\ (pc' = "app" <=> Plausible(pagesA, 0))
  BY DEF BootInv, PlaceMode, PrepareMode, BootTypeOK, Record
<1>2. HeadIsGood(pagesA) \/ Plausible(pagesA, 0)
  <2>1. CASE pc = "tryBoot"
    BY <2>1 DEF BootInv, SettledMode
  <2>2. CASE pc = "done" /\ OnTrial
    BY <2>2, HeldPlausible DEF BootInv, TrialMode
  <2>3. CASE pc = "done" /\ Reverted
    BY <2>3 DEF BootInv, RevertedMode
  <2>. QED
    BY <2>1, <2>2, <2>3 DEF BootInv, PlaceMode
<1>3. ~misled /\ pc' # "app" => ~Unconfirmed
  <2>. SUFFICES ASSUME ~misled, pc = "done" PROVE Plausible(pagesA, 0)
    BY <1>1 DEF BootInv, PlaceImages
  <2>1. IsHeader(pagesA[0])
    BY DEF BootInv, PlaceImages
  <2>2. CASE OnTrial
    BY <2>1, <2>2, HeldPlausible DEF BootInv, TrialMode
  <2>3. CASE Reverted
    <3>1. good # None /\ Holds(pagesA, 0, good)
      BY <2>3 DEF BootInv, RevertedMode
    <3>2. good \in Authentic
      BY <3>1 DEF BootInv, BootTypeOK
    <3>. QED
      BY <3>1, <3>2, HeldPlausible
  <2>. QED
    BY <2>2, <2>3 DEF BootInv, PlaceMode
<1>4. Plausible(pagesA, 0) => Running \in Image
  BY HeaderOf DEF Plausible
<1>5. {hold, iwdg, misled}' \subseteq BOOLEAN
  BY Zenon DEF BootInv, BootTypeOK
<1>6. /\ trial' \in Image \cup {None} /\ idx' = 0 /\ plan' = "none"
      /\ UNCHANGED <<pages, trailerA, trailerB, hold, dl, losses, good, misled>>
  BY <1>4 DEF BootInv, BootTypeOK
<1>7. BootTypeOK'
  <2>1. idx' \in 0 .. FwPages + 1 /\ pc' \in SwapPc \cup BootPc
    BY <1>1, <1>6, Images DEF BootPc
  <2>. HIDE DEF TryBoot
  <2>. QED
    BY <1>5, <1>6, <2>1 DEF BootInv, BootTypeOK
<1>8. pc \in {"tryBoot", "done"}
  OBVIOUS
<1>. HIDE DEF TryBoot
<1>9. HeaderInv' /\ SwapMode' /\ SwapImages' /\ SettledMode'
  <2>1. pc' \in Idling => HeadIsGood(pagesA)
    BY <1>1, <1>2
  <2>. QED
    BY <1>1, <1>6, <2>1 DEF BootInv, HeaderInv, SwapMode, SwapImages, SettledMode
<1>10. TrialMode' /\ TrialImages' /\ RevertedMode'
  BY <1>1, <1>6, <1>8 DEF BootInv, TrialMode, TrialImages, RevertedMode
<1>11. UpdateMode' /\ PrepareMode' /\ DownloadMode'
  BY <1>1, <1>6, <1>8 DEF BootInv, UpdateMode, PrepareMode, DownloadMode
<1>12. PlaceMode' /\ PlaceImages'
  BY <1>1, <1>3, <1>6, <1>8 DEF BootInv, PlaceMode, PlaceImages
<1>. QED
  BY <1>7, <1>9, <1>10, <1>11, <1>12 DEF BootInv

\* The image that runs becomes the confirmed one.
LEMMA AppConfirmKeeps ==
  ASSUME BootInv, AppConfirm
  PROVE  BootInv'
<1>. USE DEF AppConfirm
<1>1. ~InSwap /\ ~InSwap' /\ magicB # "set" /\ IsHeader(pagesA[0])
  BY DEF BootInv, PlaceMode, PrepareMode, BootTypeOK, Record, Plausible
<1>2. Running \in Authentic
  BY <1>1 DEF BootInv, BootTypeOK, TrialMode, RevertedMode
<1>3. ~misled => Holds(pagesA, 0, Running)
  BY RunsIntact
<1>4. Running # None
  BY <1>2, Images
<1>5. BootTypeOK'
  BY <1>2, Images DEF BootInv, BootTypeOK, SwapPc, BootPc, Record, Content, NoRecords, Unset
<1>6. HeaderInv' /\ SwapMode' /\ SwapImages' /\ TrialMode' /\ TrialImages' /\ RevertedMode'
  BY <1>1 DEF BootInv, HeaderInv, SwapMode, SwapImages, TrialMode, TrialImages, RevertedMode
<1>7. SettledMode'
  BY <1>1, <1>3, <1>4 DEF SettledMode
<1>8. UpdateMode' /\ PlaceMode' /\ PlaceImages' /\ PrepareMode' /\ DownloadMode'
  BY <1>1 DEF BootInv, UpdateMode, PlaceMode, PlaceImages, PrepareMode, DownloadMode
<1>. QED
  BY <1>5, <1>6, <1>7, <1>8 DEF BootInv

\* A reset without confirmation.
LEMMA AppResetKeeps ==
  ASSUME BootInv, AppReset
  PROVE  BootInv'
<1>. USE DEF AppReset
<1>1. ~InSwap /\ ~InSwap'
  BY DEF BootInv, PlaceMode, PrepareMode, BootTypeOK, Record
<1>2. BootTypeOK'
  BY Images DEF BootInv, BootTypeOK, SwapPc, BootPc, Record, Content, NoRecords, Unset
<1>3. HeaderInv' /\ SwapMode' /\ SwapImages' /\ SettledMode' /\ RevertedMode'
  BY <1>1
     DEF BootInv, HeaderInv, SwapMode, SwapImages, SettledMode, RevertedMode, PlaceMode,
         PlaceImages, PrepareMode
<1>4. TrialMode' /\ TrialImages'
  BY <1>1
     DEF BootInv, TrialMode, TrialImages, PlaceMode, PlaceImages, PrepareMode, UpdateMode
<1>5. UpdateMode' /\ PlaceMode' /\ PlaceImages'
  BY <1>1 DEF BootInv, UpdateMode, TrialMode, PlaceMode, PlaceImages, PrepareMode
<1>6. PrepareMode' /\ DownloadMode'
  BY <1>1 DEF BootInv, PrepareMode, PlaceMode, DownloadMode, Misplaced
<1>. QED
  BY <1>2, <1>3, <1>4, <1>5, <1>6 DEF BootInv

\* A power cycle after main() has returned.
LEMMA PowerCycleKeeps ==
  ASSUME BootInv, PowerCycle
  PROVE  BootInv'
<1>. USE DEF PowerCycle
<1>1. ~InSwap /\ ~InSwap'
  BY DEF BootInv, PlaceMode, PrepareMode, BootTypeOK, Record
<1>2. BootTypeOK'
  BY Images DEF BootInv, BootTypeOK, SwapPc, BootPc, Record, Content, NoRecords, Unset
<1>3. HeaderInv' /\ SwapMode' /\ SwapImages' /\ SettledMode' /\ RevertedMode'
  BY <1>1
     DEF BootInv, HeaderInv, SwapMode, SwapImages, SettledMode, RevertedMode, PlaceMode,
         PlaceImages, PrepareMode
<1>4. TrialMode' /\ TrialImages'
  BY <1>1
     DEF BootInv, TrialMode, TrialImages, PlaceMode, PlaceImages, PrepareMode, UpdateMode
<1>5. UpdateMode' /\ PlaceMode' /\ PlaceImages'
  BY <1>1 DEF BootInv, UpdateMode, TrialMode, PlaceMode, PlaceImages, PrepareMode
<1>6. PrepareMode' /\ DownloadMode'
  BY <1>1 DEF BootInv, PrepareMode, PlaceMode, DownloadMode, Misplaced
<1>. QED
  BY <1>2, <1>3, <1>4, <1>5, <1>6 DEF BootInv

\* 0x34 takes the header place of slot B.
LEMMA RequestDownloadKeeps ==
  ASSUME BootInv, RequestDownload
  PROVE  BootInv'
<1>. USE DEF RequestDownload
<1>1. ~InSwap /\ ~InSwap'
  BY DEF BootInv, PlaceMode, PrepareMode, BootTypeOK, Record
<1>2. pagesB \in [PagesOfB -> Content] /\ pagesB'[0] = pagesB[0]
  BY Images DEF BootInv, BootTypeOK, PagesOfB
<1>3. /\ dl' \in [left : 0 .. FwPages, next : 0 .. FwPages]
      /\ dl'.left + dl'.next \in 1 .. FwPages
  BY Images
<1>4. BootTypeOK'
  BY <1>2, <1>3, Images
     DEF BootInv, BootTypeOK, SwapPc, BootPc, Record, Content,
         NoRecords, Unset
<1>5. HeaderInv' /\ SwapMode' /\ SwapImages' /\ SettledMode' /\ RevertedMode'
  BY <1>1
     DEF BootInv, HeaderInv, SwapMode, SwapImages, SettledMode, PlaceMode, RevertedMode
<1>6. TrialMode' /\ TrialImages'
  BY <1>1, <1>2 DEF BootInv, TrialMode, TrialImages, PlaceImages
<1>7. UpdateMode' /\ PlaceMode' /\ PlaceImages' /\ PrepareMode'
  BY <1>1 DEF BootInv, UpdateMode, PlaceMode, PlaceImages, PrepareMode
<1>8. DownloadMode'
  BY <1>3 DEF DownloadMode
<1>. QED
  BY <1>4, <1>5, <1>6, <1>7, <1>8 DEF BootInv

\* 0x36 fills the next page, the header first.
LEMMA TransferPageKeeps ==
  ASSUME BootInv, TransferPage
  PROVE  BootInv'
<1>. USE DEF TransferPage
<1>1. /\ ~InSwap /\ ~InSwap' /\ magicB # "set" /\ copyDoneB # "set"
  BY DEF BootInv, PlaceMode, PrepareMode, DownloadMode, BootTypeOK, Record
<1>2. /\ dl.left \in Nat /\ dl.next \in Nat /\ FwPages \in Nat
      /\ dl.left + dl.next <= FwPages /\ dl.left > 0
      /\ pagesB \in [PagesOfB -> Content]
  BY <1>1, DownloadPage, Images DEF BootInv, BootTypeOK
<1>3. Sendable \subseteq Content /\ dl.next + 1 \in PagesOfB /\ dl.next + 1 # 0
  BY <1>2, Images, ImageAssumption DEF PagesOfB, ImageAssumption
<1>4. pagesB' \in [PagesOfB -> Content] /\ pagesB'[0] = pagesB[0]
  BY <1>2, <1>3, Images DEF PagesOfB
<1>5. dl' = [left |-> dl.left - 1, next |-> dl.next + 1]
  BY DownloadPage
<1>6. /\ Serving /\ dl # None
      /\ UNCHANGED <<pagesA, trailerA, trailerB, pc, idx, plan, hold, iwdg, history>>
  OBVIOUS
<1>. HIDE DEF TransferPage
<1>7. /\ dl' \in [left : 0 .. FwPages, next : 0 .. FwPages]
      /\ dl'.left + dl'.next \in 1 .. FwPages
  BY <1>2, <1>5, DownloadPage, <1>6
<1>8. BootTypeOK'
  BY <1>4, <1>6, <1>7 DEF BootInv, BootTypeOK
<1>9. HeaderInv' /\ SwapMode' /\ SwapImages' /\ SettledMode' /\ RevertedMode'
  BY <1>1, <1>6
     DEF BootInv, HeaderInv, SwapMode, SwapImages, SettledMode, RevertedMode
<1>10. TrialMode' /\ TrialImages'
  BY <1>1, <1>4, <1>6 DEF BootInv, TrialMode, TrialImages, PlaceImages
<1>11. UpdateMode' /\ PlaceMode' /\ PlaceImages' /\ PrepareMode'
  BY <1>1, <1>6 DEF BootInv, UpdateMode, PlaceMode, PlaceImages, PrepareMode
<1>12. DownloadMode'
  BY <1>1, <1>6, <1>7 DEF DownloadMode
<1>. QED
  BY <1>8, <1>9, <1>10, <1>11, <1>12 DEF BootInv

\* 0x37 leaves a header in s(1) and an update pending.
LEMMA TransferExitKeeps ==
  ASSUME BootInv, TransferExit
  PROVE  BootInv'
<1>. USE DEF TransferExit
<1>1. ~InSwap /\ ~InSwap' /\ copyDoneB # "set" /\ HeadIsGood(pagesA) /\ ~Unfinished
  BY DEF BootInv, PlaceMode, PrepareMode, DownloadMode, SettledMode, BootTypeOK, Record
<1>2. ~misled => ~Unconfirmed
  BY DEF BootInv, PlaceImages
<1>3. BootTypeOK'
  BY Images DEF BootInv, BootTypeOK, SwapPc, BootPc, Record, Content, NoRecords, Unset
<1>4. HeaderInv' /\ SwapMode' /\ SwapImages' /\ SettledMode' /\ RevertedMode'
  BY <1>1, <1>2
     DEF BootInv, HeaderInv, SwapMode, SwapImages, SettledMode, RevertedMode, DownloadMode
<1>5. TrialMode' /\ TrialImages'
  BY <1>1, <1>2 DEF BootInv, TrialMode, TrialImages
<1>6. PrepareMode' /\ DownloadMode'
  BY <1>1 DEF BootInv, PrepareMode, DownloadMode
<1>7. UpdateMode' /\ PlaceMode' /\ PlaceImages'
  BY <1>1, <1>2 DEF BootInv, UpdateMode, PlaceMode, PlaceImages
<1>. QED
  BY <1>3, <1>4, <1>5, <1>6, <1>7 DEF BootInv

\* A download that fails leaves no update pending, whatever it has torn.
LEMMA DownloadFailsKeeps ==
  ASSUME BootInv, DownloadFails
  PROVE  BootInv'
<1>. USE DEF DownloadFails
<1>1. ~InSwap /\ ~InSwap' /\ HeadIsGood(pagesA) /\ ~Unfinished /\ ~RevertPending
  BY DEF BootInv, PlaceMode, PrepareMode, SettledMode, BootTypeOK, Record
<1>2. magicB' # "set" /\ (~misled => ~Unconfirmed)
  BY DEF BootInv, DownloadMode, PlaceImages, Tear
<1>3. pagesB \in [PagesOfB -> Content] /\ (IsHeader(pagesB'[0]) => pagesB'[0] = pagesB[0])
  BY Images DEF BootInv, BootTypeOK, PagesOfB
<1>4. pagesB' \in [PagesOfB -> Content] /\ {magicB, copyDoneB}' \subseteq Record
  BY <1>3, Images DEF BootInv, BootTypeOK, Tear, Record
<1>5. /\ dl' = None /\ Serving
      /\ UNCHANGED <<pagesA, trailerA, pc, idx, plan, hold, iwdg, history>>
  OBVIOUS
<1>. HIDE DEF DownloadFails
<1>6. BootTypeOK'
  BY <1>4, <1>5 DEF BootInv, BootTypeOK
<1>7. HeaderInv' /\ SwapMode' /\ SwapImages' /\ SettledMode' /\ RevertedMode'
  BY <1>1, <1>2, <1>5
     DEF BootInv, HeaderInv, SwapMode, SwapImages, SettledMode, RevertedMode
<1>8. TrialMode' /\ TrialImages'
  BY <1>1, <1>2, <1>3, <1>5 DEF BootInv, TrialMode, TrialImages
<1>9. PrepareMode' /\ DownloadMode' /\ UpdateMode'
  BY <1>1, <1>2, <1>5 DEF PrepareMode, DownloadMode, UpdateMode
<1>10. PlaceMode' /\ PlaceImages'
  BY <1>1, <1>2, <1>5 DEF BootInv, PlaceMode, PlaceImages
<1>. QED
  BY <1>6, <1>7, <1>8, <1>9, <1>10 DEF BootInv

\* The server resets, and the download is over.
LEMMA UdsResetKeeps ==
  ASSUME BootInv, UdsReset
  PROVE  BootInv'
<1>. USE DEF UdsReset
<1>1. ~InSwap /\ ~InSwap'
  BY DEF BootInv, PlaceMode, PrepareMode, BootTypeOK, Record
<1>2. BootTypeOK'
  BY Images DEF BootInv, BootTypeOK, SwapPc, BootPc, Record, Content, NoRecords, Unset
<1>3. HeaderInv' /\ SwapMode' /\ SwapImages' /\ SettledMode' /\ RevertedMode'
  BY <1>1
     DEF BootInv, HeaderInv, SwapMode, SwapImages, SettledMode, RevertedMode, PlaceMode,
         PlaceImages, PrepareMode
<1>4. TrialMode' /\ TrialImages'
  BY <1>1
     DEF BootInv, TrialMode, TrialImages, PlaceMode, PlaceImages, PrepareMode, UpdateMode
<1>5. UpdateMode' /\ PlaceMode' /\ PlaceImages'
  BY <1>1 DEF BootInv, UpdateMode, TrialMode, PlaceMode, PlaceImages, PrepareMode
<1>6. PrepareMode' /\ DownloadMode'
  BY <1>1 DEF BootInv, PrepareMode, PlaceMode, DownloadMode, Misplaced
<1>. QED
  BY <1>2, <1>3, <1>4, <1>5, <1>6 DEF BootInv

\* A record that is torn was not set before and is not set now, and a page is
\* only torn where its slot was being erased.
LEMMA BootInterruptKeeps ==
  ASSUME BootInv, BootInterrupt
  PROVE  BootInv'
<1>. USE DEF BootInterrupt
<1>1. /\ (magicA' = "set" <=> magicA = "set") /\ (imageOk' = "set" <=> imageOk = "set")
      /\ (magicB' = "set" <=> magicB = "set") /\ (copyDoneB' = "set" <=> copyDoneB = "set")
  BY DEF TearBootPage, TearBootRecord, Tear
<1>2. ~InSwap /\ ~InSwap'
  BY <1>1 DEF BootInv, PlaceMode
<1>3. /\ pagesA \in [PagesOfA -> Content] /\ pagesB \in [PagesOfB -> Content]
      /\ idx \in 0 .. FwPages + 1 /\ (~misled => BodyOfA(pagesA))
  BY <1>2 DEF BootInv, BootTypeOK, HeaderInv
<1>4. /\ pagesA' \in [PagesOfA -> Content] /\ pagesB' \in [PagesOfB -> Content]
      /\ {magicA, imageOk, magicB, copyDoneB}' \subseteq Record
  BY <1>3, Images DEF BootInv, BootTypeOK, TearBootPage, TearBootRecord, Tear, Record
<1>5. pagesA' # pagesA => pc = "eraseSlotA" /\ ~IsHeader(pagesA'[0])
  <2>1. 0 \in PagesOfA /\ (pc = "eraseSlotA" /\ idx > 0 => ~IsHeader(pagesA[0]))
    BY Images DEF BootInv, PlaceMode, PagesOfA
  <2>2. \/ pagesA' = pagesA
        \/ pc = "eraseSlotA" /\ pagesA' = [pagesA EXCEPT ![idx] = Torn]
    BY DEF TearBootPage
  <2>. HIDE DEF BootInterrupt
  <2>. QED
    BY <1>3, <2>1, <2>2, Images
<1>6. /\ pagesB' # pagesB => pc = "eraseSlotB"
      /\ IsHeader(pagesB'[0]) => pagesB'[0] = pagesB[0]
  <2>1. 0 \in PagesOfB
    BY Images DEF PagesOfB
  <2>2. \/ pagesB' = pagesB
        \/ pc = "eraseSlotB" /\ pagesB' = [pagesB EXCEPT ![idx] = Torn]
    BY DEF TearBootPage
  <2>. HIDE DEF BootInterrupt
  <2>. QED
    BY <1>3, <2>1, <2>2, Images
<1>7. ~misled => BodyOfA(pagesA')
  BY <1>3, Images DEF TearBootPage, BodyOfA
<1>8. /\ pc' = "off" /\ dl' = None /\ pc \notin SwapActive \cup {"off", "halted"}
      /\ UNCHANGED <<swapStatus, swapSize, swapInfo, copyDone, idx, plan, orig, good, trial,
                     misled>>
  OBVIOUS
<1>9. BootTypeOK'
  <2>1. losses' \in 0 .. MaxLosses
    BY LossAssumption DEF BootInv, BootTypeOK
  <2>2. {hold, iwdg, misled}' \subseteq BOOLEAN /\ pc' \in SwapPc \cup BootPc
    BY DEF BootInv, BootTypeOK, SwapPc, BootPc
  <2>. HIDE DEF BootInterrupt
  <2>. QED
    BY <1>4, <1>8, <2>1, <2>2 DEF BootInv, BootTypeOK
<1>. HIDE DEF BootInterrupt
<1>10. SwapMode' /\ SwapImages'
  BY <1>2 DEF SwapMode, SwapImages
<1>11. HeaderInv'
  BY <1>2, <1>7, <1>8 DEF HeaderInv
<1>12. SettledMode'
  BY <1>1, <1>2, <1>5, <1>8 DEF BootInv, SettledMode, PlaceMode
<1>13. TrialMode' /\ TrialImages'
  BY <1>1, <1>2, <1>5, <1>6, <1>8
     DEF BootInv, TrialMode, TrialImages, PlaceMode, PlaceImages, UpdateMode
<1>14. RevertedMode'
  BY <1>1, <1>2, <1>5, <1>8 DEF BootInv, RevertedMode, PlaceMode, PlaceImages
<1>15. PrepareMode' /\ DownloadMode'
  BY <1>2, <1>8 DEF PrepareMode, DownloadMode
<1>16. UpdateMode'
  BY <1>1, <1>2, <1>5, <1>6, <1>8 DEF BootInv, UpdateMode, PlaceMode
<1>17. PlaceMode' /\ PlaceImages'
  BY <1>1, <1>2, <1>8 DEF BootInv, PlaceMode, PlaceImages
<1>. QED
  BY <1>9, <1>10, <1>11, <1>12, <1>13, <1>14, <1>15, <1>16, <1>17 DEF BootInv

\* The swap begins: what was prepared is what it exchanges.
LEMMA StartSwapKeeps ==
  ASSUME BootInv, StartSwap
  PROVE  BootInv'
<1>. USE DEF StartSwap, Step
<1>1. /\ ~InSwap /\ swapStatus = NoRecords /\ copyDone = "erased" /\ imageOk = "erased"
      /\ magicA = "set" /\ swapInfo = plan /\ swapSize \in 1 .. FwPages
      /\ swapSize >= PagesIn(pagesA, 0) /\ swapSize >= PagesIn(pagesB, BaseB)
  BY DEF BootInv, PlaceMode, PrepareMode
<1>2. InSwap' /\ pc' = "eraseOut" /\ swapInfo' = plan /\ plan \in {"TEST", "REVERT"}
  BY <1>1, ToBeSwapped
<1>3. BootTypeOK'
  <2>1. FirstIndex \in 0 .. FwPages + 1
    BY <1>1, Images DEF FirstIndex
  <2>2. {hold, iwdg, misled}' \subseteq BOOLEAN
    BY DEF BootInv, BootTypeOK
  <2>. QED
    BY <1>1, <2>1, <2>2 DEF BootInv, BootTypeOK, SwapPc, Record
<1>4. SwapInv' /\ Confined'
  <2>1. SwapInit'
    BY <1>1, <1>2 DEF SwapInit, FirstIndex, Forward
  <2>2. (/\ pagesA \in [PagesOfA -> Content] /\ pagesB \in [PagesOfB -> Content]
         /\ losses \in 0 .. MaxLosses)'
    BY <1>3 DEF BootTypeOK
  <2>. QED
    BY <2>1, <2>2, SwapStarts, PTL
<1>5. HeaderInv'
  BY <1>2, ImagesToBeSwapped DEF HeaderInv
<1>6. good # None => good \in Image
  BY Images DEF BootInv, BootTypeOK
<1>7. SwapMode'
  <2>1. CASE plan = "TEST"
    <3>1. /\ HeadIsGood(pagesA) /\ trial = None
          /\ pagesB[BaseB][1] \in Authentic /\ Holds(pagesB, BaseB, pagesB[BaseB][1])
          /\ IsHeader(pagesB[BaseB])
      BY <2>1, ToBeSwapped, VerifiedHeld
    <3>2. ImageSize[pagesB[BaseB][1]] <= swapSize
      BY <1>1, <3>1, PagesInSlot
    <3>. QED
      BY <1>1, <1>2, <1>4, <2>1, <3>1, <3>2 DEF SwapMode
  <2>2. CASE plan = "REVERT"
    <3>1. HeadIsGood(pagesB)
      BY <2>2, ToBeSwapped
    <3>. QED
      BY <1>1, <1>2, <1>4, <2>2, <3>1 DEF SwapMode
  <2>. QED
    BY <1>2, <2>1, <2>2
<1>8. SwapImages'
  <2>. SUFFICES ASSUME ~misled PROVE SwapImages'
    BY DEF SwapImages
  <2>1. CASE plan = "TEST"
    <3>1. /\ HoldsGood(pagesA) /\ BaseB = 1 /\ IsHeader(pagesB[1])
          /\ pagesB[1][1] \in Authentic /\ Holds(pagesB, 1, pagesB[1][1])
          /\ NotOlder(pagesB[1][1])
      BY <2>1, ToBeSwapped, ImagesToBeSwapped
    <3>2. ImageSize[pagesB[1][1]] <= swapSize
      BY <1>1, <3>1, PagesInSlot
    <3>3. good # None => ImageSize[good] <= swapSize
      <4>. SUFFICES ASSUME good # None PROVE ImageSize[good] <= swapSize
        OBVIOUS
      <4>1. IsHeader(pagesA[0]) /\ pagesA[0][1] = good
        BY <1>6, <3>1, HeldHeader
      <4>. QED
        BY <1>1, <4>1, PagesInSlot
    <3>. QED
      BY <1>2, <2>1, <3>1, <3>2, <3>3 DEF SwapImages
  <2>2. CASE plan = "REVERT"
    <3>1. good # None /\ Holds(pagesB, 0, good) /\ BaseB = 0 /\ ~IsHeader(pagesB[1])
      BY <2>2, ImagesToBeSwapped
    <3>2. IsHeader(pagesB[0]) /\ pagesB[0][1] = good
      BY <1>6, <3>1, HeldHeader
    <3>3. ImageSize[good] <= swapSize
      BY <1>1, <3>1, <3>2, PagesInSlot
    <3>. QED
      BY <1>2, <2>2, <3>1, <3>3 DEF SwapImages
  <2>. QED
    BY <1>2, <2>1, <2>2
<1>9. /\ SettledMode' /\ TrialMode' /\ TrialImages' /\ RevertedMode' /\ UpdateMode'
      /\ PrepareMode' /\ PlaceImages'
  BY <1>1, <1>2
     DEF SettledMode, TrialMode, TrialImages, RevertedMode, UpdateMode, PrepareMode,
         PlaceImages
<1>10. PlaceMode' /\ DownloadMode'
  BY <1>1, <1>2 DEF BootInv, PlaceMode, DownloadMode
<1>. QED
  BY <1>3, <1>5, <1>7, <1>8, <1>9, <1>10 DEF BootInv

-----------------------------------------------------------------------------
(* The invariant and what follows from it                                   *)

\* A device leaves the factory with a confirmed image in slot A, or with none.
LEMMA InitKeeps == BootInit => BootInv
<1>. SUFFICES ASSUME BootInit PROVE BootInv
  OBVIOUS
<1>. USE DEF BootInit
<1>1. ~InSwap /\ ~Unconfirmed /\ ~RevertPending /\ ~UpdatePending
  OBVIOUS
<1>2. good # None => good \in Authentic /\ good \in Image
  BY Images
<1>3. \A k \in PagesOfA : pagesA[k] = IF good # None /\ k < ImageSize[good] THEN <<good, k>>
                                                                           ELSE Erased
  BY DEF FactoryImage
<1>4. BootTypeOK
  <2>1. pagesA \in [PagesOfA -> Content]
    BY <1>2, Images DEF FactoryImage, PagesOfA
  <2>2. pagesB \in [PagesOfB -> Content]
    BY Images
  <2>3. 0 \in 0 .. MaxLosses /\ 0 \in 0 .. FwPages + 1
    BY LossAssumption, Images
  <2>. QED
    BY <2>1, <2>2, <2>3, Images DEF BootTypeOK, NoRecords, Record, SwapPc, Unset
<1>5. HeaderInv
  <2>. SUFFICES BodyOfA(pagesA)
    BY <1>1 DEF HeaderInv
  <2>1. \A k \in PagesOfA : k >= 1 => ~IsHeader(pagesA[k])
    <3>. SUFFICES ASSUME NEW k \in PagesOfA, k >= 1 PROVE ~IsHeader(pagesA[k])
      OBVIOUS
    <3>1. pagesA[k] = <<good, k>> \/ pagesA[k] = Erased
      BY <1>3
    <3>2. k # 0
      BY DEF PagesOfA
    <3>. QED
      BY <3>1, <3>2, Images DEF IsHeader
  <2>. QED
    BY <2>1 DEF BodyOfA
<1>6. SettledMode
  <2>1. HoldsGood(pagesA)
    <3>1. CASE good = None
      BY <1>3, <3>1, Images DEF PagesOfA
    <3>2. CASE good # None
      <4>1. \A k \in 0 .. ImageSize[good] - 1 :
              k \in PagesOfA /\ k < ImageSize[good] /\ 0 + k = k
        BY <1>2, <3>2, Images DEF PagesOfA
      <4>. QED
        BY <1>3, <3>2, <4>1 DEF Holds
    <3>. QED
      BY <3>1, <3>2
  <2>2. HeadIsGood(pagesA)
    BY <1>2, <2>1, HeldHeader
  <2>. QED
    BY <2>1, <2>2 DEF SettledMode
<1>7. SwapMode /\ SwapImages /\ TrialMode /\ TrialImages /\ RevertedMode /\ UpdateMode
  BY <1>1 DEF SwapMode, SwapImages, TrialMode, TrialImages, RevertedMode, UpdateMode
<1>8. PlaceMode /\ PlaceImages /\ PrepareMode /\ DownloadMode
  BY <1>1 DEF PlaceMode, PlaceImages, PrepareMode, DownloadMode
<1>. QED
  BY <1>4, <1>5, <1>6, <1>7, <1>8 DEF BootInv

\* Every step of main(), of the swap, of the application and of the UDS server.
LEMMA NextKeeps == BootInv /\ [BootNext]_vars => BootInv'
<1>. SUFFICES ASSUME BootInv, [BootNext]_vars PROVE BootInv'
  OBVIOUS
<1>1. CASE UNCHANGED vars
  <2>1. UNCHANGED <<swapVars, bootVars>>
    BY <1>1 DEF vars
  <2>2. InSwap => SwapInv' /\ Confined'
    BY <2>1, SwapInvStep, ConfinedStep DEF BootInv, SwapMode, SwapImages
  <2>3. SwapMode' /\ SwapImages'
    BY <2>1, <2>2 DEF BootInv, SwapMode, SwapImages
  <2>. QED
    BY <2>1, <2>3
       DEF BootInv, BootTypeOK, HeaderInv, SettledMode, TrialMode, TrialImages, RevertedMode,
           UpdateMode, PlaceMode, PlaceImages, PrepareMode, DownloadMode, Misplaced
<1>2. CASE BootResume
  <2>1. Next /\ InSwap /\ hold' \in BOOLEAN
    BY <1>2 DEF BootResume, Next, BootInv, BootTypeOK
  <2>. QED
    BY <1>2, <2>1, SwapKeeps DEF BootResume
<1>3. CASE SwapStep /\ UNCHANGED bootVars
  <2>1. pc \in SwapActive
    BY <1>3 DEF SwapStep, EraseOut, ProgramOut, EraseIn, ProgramIn, EraseLast,
                RecordOut, RecordIn, SetCopyDone, RecordRefused
  <2>2. Next /\ InSwap /\ hold' \in BOOLEAN
    BY <1>3, <2>1 DEF Next, BootInv, PlaceMode, PlaceImages, BootTypeOK
  <2>. QED
    BY <1>3, <2>2, SwapKeeps
<1>4. CASE SwapInterrupt
  <2>1. pc \in SwapActive
    BY <1>4 DEF SwapInterrupt, Interrupt
  <2>2. Next /\ InSwap /\ hold' \in BOOLEAN
    BY <1>4, <2>1 DEF SwapInterrupt, Next, BootInv, PlaceMode, PlaceImages, BootTypeOK
  <2>. QED
    BY <1>4, <2>2, SwapKeeps DEF SwapInterrupt
<1>5. CASE Prepare
  BY <1>5, PrepTrailerBKeeps, PrepCopyDoneBKeeps, PrepMagicBKeeps, StartTrailerAKeeps,
     StartInfoKeeps, StartSizeKeeps, StartMagicAKeeps, StartSwapKeeps DEF Prepare
<1>6. CASE BootRevertAgain \/ BootUpdate \/ BootTestFailed \/ BootRevertFailed \/ BootNormal
  BY <1>6, BootRevertAgainKeeps, BootUpdateKeeps, BootTestFailedKeeps, BootRevertFailedKeeps,
     BootNormalKeeps
<1>7. CASE EraseSlotA \/ EraseSlotB \/ TryBoot \/ AppConfirm \/ AppReset \/ PowerCycle
  BY <1>7, EraseSlotAKeeps, EraseSlotBKeeps, TryBootKeeps, AppConfirmKeeps, AppResetKeeps,
     PowerCycleKeeps
<1>8. CASE RequestDownload \/ TransferPage \/ TransferExit \/ DownloadFails \/ UdsReset
  BY <1>8, RequestDownloadKeeps, TransferPageKeeps, TransferExitKeeps, DownloadFailsKeeps,
     UdsResetKeeps
<1>9. CASE BootInterrupt
  BY <1>9, BootInterruptKeeps
<1>. QED
  BY <1>1, <1>2, <1>3, <1>4, <1>5, <1>6, <1>7, <1>8, <1>9 DEF BootNext, BootStep

\* In every state of every life of the device, the trailers and the first page
\* of each slot fit together; and until an update with misplaced headers is
\* accepted, the trailers alone tell what the slots hold: the confirmed image,
\* an update on trial, a swap between them.
THEOREM BootInvariant == BootSpec => []BootInv
BY InitKeeps, NextKeeps, PTL DEF BootSpec

\* Every variable of the bootloader keeps its type, with misplaced headers too.
THEOREM BootTypeCorrect == BootSpec => []BootTypeOK
<1>1. BootInv => BootTypeOK
  BY DEF BootInv
<1>. QED
  BY <1>1, BootInvariant, PTL

\* Although main() starts the application after a check without crypto, only
\* whole images whose signature was verified are started, until an update with
\* misplaced headers is accepted: downloads of anything else, in any order of
\* pages, are rejected or installed whole.
THEOREM OnlyVerifiedRuns == BootSpec => []BootsIntact
<1>1. BootInv => BootsIntact
  BY RunsIntact DEF BootsIntact
<1>. QED
  BY <1>1, BootInvariant, PTL

\* No sequence of downloads, rejections, swaps, reverts and interruptions costs
\* the device the image that was confirmed last, until an update with misplaced
\* headers is accepted.
THEOREM GoodImageSurvives == BootSpec => []GoodImageKept
<1>1. BootInv => GoodImageKept
  <2>. SUFFICES ASSUME BootInv, good # None, ~misled PROVE Recoverable(good)
    BY DEF GoodImageKept, SafeRollback
  <2>1. good \in Image
    BY Images DEF BootInv, BootTypeOK
  <2>2. CASE InSwap
    <3>1. /\ SwapInv /\ ImageSize[good] <= swapSize /\ swapSize \in Nat
          /\ swapInfo = "TEST" => Holds(orig.a, 0, good)
          /\ swapInfo = "REVERT" => Holds(orig.b, 0, good)
          /\ swapInfo \in {"TEST", "REVERT"}
      BY <2>2, Images DEF BootInv, SwapMode, SwapImages, SwapInv, TypeOK
    <3>2. ASSUME NEW k \in 0 .. ImageSize[good] - 1
          PROVE  /\ k \in Swapped
                 /\ (IF Forward THEN PageOfOldA(k) ELSE PageOfOldB(k)) = <<good, k>>
      <4>1. k \in Swapped /\ 0 + k = k
        BY <2>1, <3>1, Images DEF Swapped
      <4>2. PageOfOldA(k) = orig.a[k] /\ PageOfOldB(k) = orig.b[In(k)]
        BY <3>1, <4>1 DEF SwapInv, NothingLost
      <4>3. Forward => orig.a[k] = <<good, k>>
        BY <3>1, <4>1 DEF Forward, Holds
      <4>4. ~Forward => orig.b[In(k)] = <<good, k>>
        BY <3>1, <4>1 DEF Forward, In, Holds
      <4>. QED
        BY <4>1, <4>2, <4>3, <4>4
    <3>. QED
      BY <2>2, <3>2 DEF Recoverable
  <2>3. CASE ~InSwap
    <3>1. HoldsGood(pagesA) \/ HoldsGood(pagesB) \/ Holds(pagesA, 0, good)
      BY <2>3 DEF BootInv, SettledMode, TrialImages, RevertedMode
    <3>. QED
      BY <3>1 DEF Recoverable
  <2>. QED
    BY <2>2, <2>3
<1>. QED
  BY <1>1, BootInvariant, PTL

\* While an update is on trial, the way back to the confirmed image is open,
\* until an update with misplaced headers is accepted.
THEOREM TrialHasRollback == BootSpec => []RollbackReady
<1>1. BootInv => RollbackReady
  <2>. SUFFICES ASSUME BootInv, OnTrial, good # None, ~misled
                PROVE  BaseB = 0 /\ Holds(pagesB, 0, good)
    BY DEF RollbackReady
  <2>1. BaseB = 0 /\ HoldsGood(pagesB)
    BY RollbackFound DEF BootInv, TrialImages
  <2>. QED
    BY <2>1
<1>. QED
  BY <1>1, BootInvariant, PTL

\* The version that runs is never below that of the confirmed image, and a
\* revert only ever brings back that image, until an update with misplaced
\* headers is accepted.
THEOREM NoOlderImageRuns == BootSpec => []NoDowngrade
<1>1. BootInv => NoDowngrade
  <2>. SUFFICES ASSUME BootInv, pc = "app", good # None, ~misled
                PROVE  /\ Version[Running] >= Version[good]
                       /\ (swapInfo = "REVERT" /\ magicA = "set") => Running = good
    BY DEF NoDowngrade
  <2>1. good \in Image /\ Version[good] >= Version[good]
    BY Images DEF BootInv, BootTypeOK
  <2>2. ~InSwap /\ magicB # "set" /\ IsHeader(pagesA[0])
    BY DEF BootInv, PlaceMode, Plausible
  <2>3. CASE OnTrial
    BY <2>2, <2>3 DEF BootInv, TrialImages
  <2>4. CASE ~OnTrial
    <3>1. Holds(pagesA, 0, good)
      BY <2>2, <2>4 DEF BootInv, SettledMode, RevertedMode
    <3>2. Running = good
      BY <2>1, <3>1, HeldHeader
    <3>. QED
      BY <2>1, <3>2
  <2>. QED
    BY <2>3, <2>4
<1>. QED
  BY <1>1, BootInvariant, PTL

\* An update gets one trial: without another download nothing but an image with
\* the confirmed one's header is started after it.  This holds with misplaced
\* headers too.
THEOREM TriedOnce == BootSpec => OneTrial
<1>1. BootInv /\ [BootNext]_vars
        => [(pc # "app" /\ pc' = "app") => Running' = good \/ Running' # trial]_vars
  <2>. SUFFICES ASSUME BootInv, BootNext, pc # "app", pc' = "app"
                PROVE  Running' = good \/ Running' # trial
    OBVIOUS
  <2>1. TryBoot
    BY DEF BootNext, BootStep, BootResume, Resume, BootRevertAgain, BootUpdate, BootTestFailed,
           BootRevertFailed, BootNormal, Prepare, PrepTrailerB, PrepCopyDoneB, PrepMagicB,
           StartTrailerA, StartInfo, StartSize, StartMagicA, StartSwap, Step, SwapStep, EraseOut,
           ProgramOut, EraseIn, ProgramIn, EraseLast, WriteA, WriteB, RecordOut, RecordIn,
           SetCopyDone, RecordRefused, EraseSlotA, EraseSlotB, Distress, AppConfirm, AppReset,
           PowerCycle, RequestDownload, TransferPage, TransferExit, DownloadFails, UdsReset,
           BootInterrupt, SwapInterrupt, Interrupt
  <2>2. Plausible(pagesA, 0) /\ Running' = Running /\ IsHeader(pagesA[0]) /\ Running \in Image
    BY <2>1, HeaderOf DEF TryBoot, Distress, Plausible
  <2>3. CASE pc = "tryBoot"
    BY <2>2, <2>3 DEF BootInv, SettledMode
  <2>4. CASE pc = "done" /\ OnTrial
    <3>1. trial = None
      BY <2>4 DEF BootInv, PlaceMode
    <3>. QED
      BY <2>2, <3>1, Images
  <2>5. CASE pc = "done" /\ Reverted
    BY <2>2, <2>5 DEF BootInv, RevertedMode
  <2>. QED
    BY <2>1, <2>3, <2>4, <2>5 DEF TryBoot, BootInv, PlaceMode
<1>. QED
  BY <1>1, BootInvariant, PTL DEF BootSpec, OneTrial
=============================================================================
