# Verification of the sr-update bootloader

TLA+ models of the firmware-update bootloader in this repository, checked with TLC on small
instances, and proved with TLAPS where the result should hold for every size. Paths are
relative to the repository root.

## 1. Inventory

| Component | State | Operations |
|---|---|---|
| Page swap, `boot_core/Src/image_handler.c` | two slots of flash pages; slot A's trailer: two records per page, `swap_size`, `swap_info`, `copy_done` | `swap_forward`, `swap_revert`, `get_swap_status`, `set_record`, `copy_page` |
| Image handler, same file | headers, TLV areas, both trailers | `get_header`, `is_image_valid`, `set_*`, `erase_trailer`, `erase_slot` |
| `main()`, `boot_core/Src/bootloader_main.c` | none but flash and the boot magic register | the decision after each reset, `start_test_swap`, `start_revert`, `send_rejection` |
| Flash writer, `boot_core/Src/flash_writer.c` | session, write address, erased page, carry buffer | `begin`, `write`, `finish`, `abort` |
| UDS server, `boot_core/Src/uds/` | session and S3 deadline; seed, attempts, lockout; download state | receive loop, services 0x10 0x11 0x22 0x27 0x34 0x36 0x37 0x3E 0x80 |
| ISO-TP wrapper, `boot_core/Src/isotp/isotp.c` | flags shared with the CAN interrupt, the library's session | `sr_isotp_rx`, `sr_isotp_tx`, the interrupt callback |
| Application SDK, `app_sdk/sr_app.c` | slot A's `image_ok` | `sr_app_confirm_boot` |
| Host client, `host_scripts/ota_client` | progress of one update | download, reset, `confirm_update` |
| fmt_tool | none | packs and signs an image file |
| MCU port, `mcu/stm32g431cb` | registers | flash, CAN, RNG, clock, reset drivers |
| TweetNaCl, isotplib, HAL, CubeMX | third party | |

How they interact. A client sends UDS requests over ISO-TP to the server, which runs in the
bootloader when the application asked for it (boot magic) or when there is no valid
application. 0x34/0x36/0x37 pass data through the flash writer into slot B *one page up* and
mark the slot in its trailer. After a reset `main()` reads both trailers, verifies the
update and swaps the slots page by page; the free page of slot B makes the swap possible
without a scratch area. The new image runs under the watchdog until the application, told by
the client, writes `image_ok`. If it does not, the next boot reverts. Flash is the only
state that survives a reset, and nothing but the order of flash operations makes it
consistent.

What is hard: power loss between and inside flash operations, including one that leaves a
page or a record half written; resuming in the right place in either direction; trailers
written in the wrong order; leftovers of one update met by the next; session timeouts in the
middle of downloads and key exchanges; repeated requests; the CAN interrupt against the main
loop; lost frames at the end of an update, where the watchdog and the client's deadlines
decide. `PROJECT.json` lists these hazards line by line with the properties that watch each.

What makes the components correct:

- swap: no page of either image is lost, no finished work is redone, the end result is an
  exact exchange, and interrupted swaps finish;
- boot decision: only complete, signed images run; the confirmed image stays recoverable; no
  downgrade; every trial is watched and ends; every boot settles;
- download: what is announced, written and counted agrees, and slot B is only marked when
  complete;
- session and access: nothing is in progress outside an unlocked programming session; a seed
  is answered once; the lockout can not be worn down;
- flash writer: the bytes in flash are the bytes written, and no other page is touched;
- ISO-TP: a message that is received is one that was sent, whole, and the ECU never stops
  listening;
- transfer: whatever is lost or repeated, slot B holds the beginning of one file, and both
  sides agree how far it got;
- handshake: what the client reports is so, it waits long enough for the ECU, and the last
  image is not deleted for want of a frame.

## 2. Modules

| Module | Models |
|---|---|
| `PageSwap` | the swap, one action per flash operation, with interruptions |
| `AtomicSwap` | what the swap promises: one indivisible exchange |
| `PageSwapProofs` | the theorems about `PageSwap` |
| `Bootloader` | extends `PageSwap` by `main()`, both trailers, the application's confirmation and the download as it touches flash |
| `BootloaderProofs` | the theorems about `Bootloader`, on top of those about `PageSwap` |
| `Download` | 0x34, 0x36, 0x37 and `reset_programming`, handlers as operators |
| `DownloadProofs` | lemmas about the handlers, for every module that uses them |
| `Uds` | extends `Download` by the server loop, session, S3, security access and reset |
| `UdsProofs` | the theorems about `Uds`, on top of `DownloadProofs` |
| `FlashWriter` | the writer under 0x34/0x36/0x37, one action per flash operation |
| `FlashWriterProofs` | the theorems about `FlashWriter` |
| `Transfer` | extends `Download` by a client and two channels that delay and lose messages |
| `TransferProofs` | the theorems about `Transfer`, on top of `DownloadProofs` |
| `IsoTp` | `sr_isotp_rx` and `sr_isotp_tx` against the CAN interrupt and a tester |
| `IsoTpProofs` | the theorems about `IsoTp` |
| `Handshake` | from the reset after a download to the client's report, in seconds |
| `HandshakeProofs` | the theorems about `Handshake` |
| `MCPageSwap`, `MCBootloader`, `MCUds`, `MCTransfer` | the instances TLC checks; the other modules are checked as they are |

Definitions marked *mutant* are plausible bugs of the definition that follows them. No
specification uses them; putting one in the place of that definition must break a property,
which shows that the property depends on the code.

### PageSwap

`pc` names the flash operation that comes next, in the order of the loop bodies: erase and
program the page of slot B that receives p(i), record, erase and program p(i), record. `idx`
is the loop index in RAM. Both loops share these actions; `Out(i)`, `In(i)`, `Earlier` and
`Following` hold the difference in direction and offset. A page holds what was put there,
`Erased`, or `Torn`; programming a page that is not erased gives `Torn`, as the driver's
readback would find. Programming a page is one action although the driver writes 8 bytes at
a time: in between the page is `Torn`, and nothing reads it. `Interrupt` stands for loss of
power and for an error of the flash driver, which `main()` answers with a reset; it may
leave the target of the operation in flight torn. `Resume` is the first branch of `main()`.
`orig` is a history variable, the slots when the swap began.

With `TornRecords` an interrupted 8-byte record write may leave a record that is neither
erased nor set. The code can then never write it and resets at each boot. Safety is
checked and proved with such records; `Completes` promises an end only without them.

### Bootloader

After a reset (`pc = "off"`) one action per branch of `main()`, guarded by the negation of
those before it, then one action per flash operation of the branch. A page of an image is
`<<image, number>>`, so that mixtures of images, truncated downloads and leftovers can be
told apart. `is_image_valid(slot, 0)` accepts any header followed by a TLV area at the right
distance (`Plausible`); `is_image_valid(slot, 1)` also wants every page of one authentic
image (`Verified`). The server checks nothing of a download but its size, so the client may
send any pages (`Sendable`) in any places, with a header in the first one, in another one or
in none, and as often as it likes. 0x34 erases slot B's trailer and then s(1), and
`DownloadFails` is a flash error under any of the three services, or the end of the session.
The application may be confirmed, hang, reset or be power cycled. The UDS server's part is
what it does to slot B; sessions and access are in `Uds`.

`good`, `trial` and `misled` are history variables: the last confirmed image, the one on
trial, and whether `main()` ever accepted an update with misplaced headers (`Misplaced`),
with none in s(1) or with one in a page behind. It may: swaps and reverts leave the first
page of an image in s(0), and `get_header` looks there when s(1) has no header. A download
that brings the rest of that image to s(1), s(2) and so on is verified as that image, and
the swap moves all of it but the header to slot A, which can not be started; the next 0x34
erases s(1), a page of the only copy, and a reset before the next download is complete may
even revert, without crypto, to what is left. A header behind the image in s(1) is swapped
along with it, and the next swap brings it to s(1), where `get_header` finds it instead of
the image in s(0). So `BootsIntact`, `GoodImageKept`, `RollbackReady` and `NoDowngrade` hold
until such an update is accepted, and the run `header_less_update` shows that they need
this. Downloads of this kind that are cut short, rejected or replaced break none of them.
`OneTrial`, `Settles` and `TrialEnds` hold in any case.

### Download and Uds

The handlers relate the state before and after with the answer; failures of the flash driver
or of the CAN driver are alternatives of the answer. In `Uds` the loop alternates between
the S3 check and the reception of one request, chosen freely, with `Tick` at any time
between: S3 may run out after the check and a late request then revives the session, as in
the code. A key is right when it signs the current seed. `wrong` and `quiet` are history
variables that count wrong keys and time in terms of the requests alone.

### FlashWriter

What `Download` keeps as `stream` and `Bootloader` as whole pages is here brought to flash
byte by byte: `carry` is the buffer of less than a double word, `page` how far pages were
erased, `next` the address of the next double word. `erase_up_to`, the programming loop and
`finish` are one action per flash operation, each of which may fail with the page or the
double word torn, or be cut off by `PowerLoss`. The callers appear as they use the writer: a
failure of a write gives the download up (`GiveUp`), 0x34 erases the trailer first, 0x37
marks it last. A byte is its place in its download and the parity of the download, so that
leftovers, repetitions and swaps of bytes can be told from the right ones. Bytes of 0xFF,
which read as blank, are the padding. Flash that is not blank is never programmed: the
controller refuses it.

### Transfer

`Download`'s handlers, unchanged, behind two queues. The client is `download` in `cli.py`:
0x34, the blocks, 0x37, each sent and awaited in turn; sending throws away what came in
before, as udsoncan does, and an answer that does not belong to the request that is out ends
the download. The repository's client gives up at the first timeout; the server is written
for clients that send a block again (`srv_download.c:113`). `Timeout` allows both, at any
moment, also while the request or its answer is only late. The operator may have the server
unlocked before a download or not, and the session may lapse at any time (`SessionEnds`):
then 0x34 is refused with 0x33, and 0x36 and 0x37 with 0x24. A new attempt starts by hand,
whatever became of the one before, and with empty channels: a block delayed from one attempt
into the next would be taken for one of the new file, which nothing in the protocol could
notice.

### IsoTp

A step of the main loop is one access to what the interrupt can change: the session, its
buffer, `rx_done_flag` and `last_err`. So `isotp_session_idle`, `isotp_session_send` and the
transmission callbacks are several steps, and the interrupt, `sr_isotp_can_isr_callback`
with the library's handlers, comes between any two. A message is the sequence of its frames,
`<<message, frame>>`, so that a mixture of two messages shows; a message has one frame or
three. `budget` stands for the calls a handler makes to `sr_isotp_tx`, two at most for a
request. The tester is any client: it may abandon a message, begin another, send any number
of flow controls, to go on, to wait or to abort, and faulty frames whenever it likes.

`late` says that the loop's timeout has passed, which it may whenever the loop has nothing
to send (`Elapse`), and `heard` what the interrupt counts: as in the code a flow control
restarts the timeout of a transmission, a consecutive frame that of a reception, and a frame
sent either. So transmissions end when the tester falls silent, aborts or lets them go on,
but not while it keeps sending WAIT, which `test_isotp.py:405` wants so.

### Handshake

`Bootloader` says what `main()` does to flash; here it is one decision, whole slots and the
time that passes, which is what the client can notice. `Tick` is a second, and waits for
everything that takes less. Both sides repeat their frames several times a second; one frame
of the model is those of a second, so that a loss is a second without any. `verdict`,
`hadOld` and `sameVersion` are chosen at the start: is the update valid, was there an image
before, do the two have the same version. An old image behaves as an image that was
confirmed once: it calls `sr_app_confirm_boot` when it is on trial. A new one may hang. The
client is `confirm_update`, with its two deadlines, its disregard for which image sends a
result, and its way to tell a revert by the version only.

## 3. Runs

| Run | Bounds | Shows |
|---|---|---|
| `page_swap` | 1 to 4 swapped pages of 4, both directions, 3 interruptions, torn pages and records | `NothingLost`, `ExchangeExact`, `Confined`, `ProgressKept`, the inductive invariant `SwapInv`, refinement of `AtomicSwap`, `Completes` |
| `bootloader` | 3 pages per slot, 2 images of 1 and 3 pages, downloads of any of these pages in any places, 2 interruptions, torn pages and records | `BootsIntact`, `GoodImageKept`, `RollbackReady`, `NoDowngrade`, `OneTrial` |
| `bootloader_live` | 2 pages per slot, these images and the header of a foreign one, 1 interruption, whole records | `Settles`, `TrialEnds` |
| `uds` | 3 units of data in blocks of 1 or 2, counter modulo 4, 2 seeds, 2 attempts, clocks of 2 ticks | `MarkedComplete`, `DownloadAuthorised`, `LockoutHolds`, the inductive invariant `UdsInv` |
| `flash_writer` | 3 pages of 2 double words of 2 bytes, blocks of 1 to 6 bytes, any sizes and number of downloads | `Stored`, `NeverOverprogrammed`, `TrailerKept`, `MarkedStored` |
| `transfer` | 3 attempts, files of 5 units in blocks of 2, counter modulo 2, 3 tries, locked or unlocked | `OneFile`, `Agree`, `FailedMark`, `Ends` |
| `iso_tp` | 3 messages, frame index modulo 3; flow controls and faulty frames without bound | `DeliveredIntact`, `BufferHeld`, `HearsAgain`, `Listens` |
| `handshake` | the times of the code (20 s, 45 s, 2 s), 5 s per swap, 2 seconds lost, 1 loss of power, 1 failure of flash or CAN | `ReportsTrue`, `WaitCovers`, `LastResort` |
| `header_less_update`, `new_request_short`, `single_frame_claim`, `handshake_report` | as above | four sentences of the repository that the code does not bear out |

Why these are enough. Four pages give a first, a middle and a last round in both directions
and pages beyond the swap; three interruptions allow one in the swap, one in its resumption
and one more. (The proofs of section 4 hold for all values of the constants, so they lift
these bounds from every property but liveness; what follows says why the runs are worth
something by themselves.) In `bootloader` one image fills one page and the other the slot,
so that swaps grow, shrink and cover the one-page case in which a stale header can appear in
s(1), and the pages of both meet in every order; number and order of downloads, resets and
boots are not bounded. Two interruptions hit a preparation and the swap that follows it. In
`uds` the counter wraps within one download's reach, retries and refusals are unbounded, and
only the clocks and the data are small. In `flash_writer` blocks start and end at every
place in a double word and in a page, some reach over two page boundaries, and downloads may
fill the slot to the last byte. In `transfer` the last block is short, the counter wraps
within a file, a request and its repetitions can both be late, and each attempt meets what
the earlier ones left, a marked slot among it. In `iso_tp` the index of frames wraps, one
message may replace another in reception or in transmission, and a third is there to be
received rightly afterwards. In `handshake` the counters have the code's values, and each
kind of fault may happen at every moment.

Four sentences disagree with the code (violation runs).

- `README.md:10` promises a "dual-slot flash layout which enables safe rollback of new
  firmware". A download without a header can cost the confirmed image, as section 2 says
  (`header_less_update`).
- `srv_download.c:27` says that a new request cancels the download in progress even when
  rejected; one shorter than three bytes is rejected before that, and changes nothing.
- `isotp.c:114` says that a single frame that arrives during a transmission waits to be
  claimed. When it arrives in its last steps, `isotp_session_idle` wipes it and leaves the
  flag set: the next `sr_isotp_rx` reports an invalid frame, the request is lost, and the
  client sees a timeout. `HearsAgain` shows that nothing worse comes of it.
- `cli.py:325` says that `confirm_update` reports whether the update stuck. The result is
  one frame, sent once (`sr_app.c:107`); when it is lost the client announces a rollback of
  an update that is confirmed and stays. `ReportsTrue` says what holds when frames do
  arrive.

What else the models brought up. `image_handler.c:247` says that a revert leaves s(0) empty,
but nothing erases it: it keeps the image that was moved, and this is where the header of
`header_less_update` comes from. An answer to 0x37 that is lost leaves an update installed
that the client reports as failed, and an attempt of which the server took nothing leaves an
earlier update pending; in no other case does a failed download leave slot B marked
(`FailedMark`). With a loss of power or a failing flash a reverted old image can answer the
confirm meant for the update, which the client then reports as a success (hence `power +
broken = 0` in `ReportsTrue`). After FAILED the client leaves, nobody confirms the image
rolled back to, and the bootloader deletes it (`LastResort` shows what it takes). When the
update has the version of the image it replaces, a revert can not be told from a success.

Fairness. The bootloader is one loop that runs by itself, so its steps are weakly fair as a
whole (`WF(SwapStep \/ Resume)`, `WF(BootStep)`); interruptions are not fair and are finite
in number. The watchdog, once started, resets an application that does not confirm (`WF(iwdg
/\ AppReset)`). The client and the user owe nothing. In `IsoTp` the main loop is fair as a
whole (`WF(Main)`): it is the only thread, every loop in it has a timeout, and the clock
runs by itself. In `Transfer` the client's steps are (`WF(Client)`): each wait of the client
has a deadline, and neither the server nor the channels owe anything. `Handshake` needs
none: its promises are bounded in time, and stated as safety of the states in which the
client has reported.

## 4. Proofs

`PageSwapProofs` proves for every number of pages below 255, any contents and any number of
interruptions, torn records included:

- `SwapInvariant`: `Spec => []SwapInv`, with `TypeCorrect` (`TypeOK`) and
  `ImagesRecoverable` (`NothingLost`) as parts of it;
- `ExchangeIsExact`, `OtherPagesKept`, `SwappedStaysSwapped`: `ExchangeExact`, `Confined`,
  `ProgressKept`;
- `Refinement`: `PageSwap` implements `AtomicSwap`.

Assumptions: the three on the constants in `PageSwap`. `NothingLost` alone is not inductive:
that a round may erase p(i) depends on the record just written, and that record on the page
just programmed. The strengthening has three parts. `OrderInv`: records are set in the order
in which the swap runs, so that `get_swap_status` finds the one place to go on. `PlaceInv`:
at each program point `idx` is that place, and the first record of the round is set or not.
`TargetInv`: what the page about to be recorded holds. Each has a lemma that every step
keeps it, with one step per group of actions; `NothingLostStep` puts them together.
`Confined` is an invariant of its own, since the written page is always one of the exchanged
ones. The refinement maps the slots seen through the records; all steps but `SetCopyDone`
stutter.

`UdsProofs` proves for every capacity, block length, counter range (of two values or more),
number of attempts and length of the timers, whatever the requests carry:

- `UdsInvariant`: `Spec => []UdsInv`, with `UdsTypes` (`UdsTypeOK`) as a part of it;
- `SlotBComplete`: `Accounting` and `MarkedComplete`;
- `Authorised`: `DownloadAuthorised` and `AccessInSession`;
- `Lockout`: `LockoutHolds`.

Assumptions: `DownloadAssumption` and `UdsAssumption`. The handlers of `Download` have a
lemma each that they keep `DownloadInv`, and start a download only when told that the tester
may; these lemmas know nothing of sessions. The server's actions then have one lemma each.
Two facts had to be added to make the invariant inductive: a slot is unmarked while a
download is in progress (`DownloadInv`), and, for the lockout, that the counter in the code
tells how many wrong keys there were unless the pause has already been long enough, and that
a full counter expires together with that pause (`LockoutInv`). That `MarkedComplete` and
`LockoutHolds` speak of history variables which no guard reads is what gives them content.

`BootloaderProofs` proves for slots of every size, any set of images of any sizes and
versions, downloads of any pages in any places and any number of interruptions, torn pages
and records included:

- `BootInvariant`: `Spec => []BootInv`, the inductive invariant, with `BootTypeCorrect`
  (`BootTypeOK`) as a part of it;
- `OnlyVerifiedRuns` (`BootsIntact`), `GoodImageSurvives` (`GoodImageKept`),
  `TrialHasRollback` (`RollbackReady`), `NoOlderImageRuns` (`NoDowngrade`), all four until
  an update with misplaced headers is accepted;
- `TriedOnce`: the action property `OneTrial`, without this condition.

Assumptions: `ImageAssumption` and the three of `PageSwap`. The properties speak of what
`main()` does next, and `main()` decides by the trailers alone. So the invariant says what
the trailers tell about the slots: which image slot A holds when nothing is under way
(`SettledMode`), on trial (`TrialMode`) or after a revert (`RevertedMode`); what slot B
holds while it is written, marked and prepared (`DownloadMode`, `UpdateMode`,
`PrepareMode`); and during a swap, that `SwapInv` and `Confined` hold and which two images
are exchanged (`SwapMode`). Each of these has a part that holds in any case: whose header
may stand in p(0) and s(0), and that the trailers call for what is being done. What it says
of whole images (`SwapImages`, `TrialImages`, `PlaceImages`, `HeaderInv`) holds until
`misled`. Until then an update that is swapped has its header in s(1) and nowhere else,
which is why a leftover can not be taken for an image where it matters. The steps of the
swap are those of `PageSwap`, and its lemmas are used again; every other action has a lemma
of its own.

`FlashWriterProofs` proves for every size of slot, page, double word and block:

- `WriterInvariant`: `Spec => []WriterInv`, with `WriterTypeCorrect` (`WriterTypeOK`);
- `AcceptedIsStored` (`Stored`), `OnlyBlankProgrammed` (`NeverOverprogrammed`),
  `TrailerNotTouched` (`TrailerKept`), `MarkedIsStored` (`MarkedStored`).

Assumption: `WriterAssumption`. The invariant ties three places to each other at every flash
operation: the block in hand and the carry buffer (`Progress`, `Aligned`), how far pages were
erased ahead of the next address (`Erased`, `EndInPage`), and the bytes in flash (`Stored`).
That no double word is programmed twice follows from `Erased` and from pages being whole
numbers of double words. TLC checked it in 423 915 states.

`DownloadProofs` holds what the proofs about `Uds` and `Transfer` share: each handler of
0x34, 0x36 and 0x37 described by what it does in each case, and that it keeps `DownloadInv`.

`TransferProofs` proves for files, blocks, counters and tries of every size, whatever the
channels lose and delay:

- `Invariance`: `Spec => []TransferInv`, with `TypeCorrect` (`TypeOK`) as a part of it;
- `OneFileOnly` (`OneFile`), `Agreement` (`Agree`), `FailureMarks` (`FailedMark`).

Assumptions: `TransferAssumption` and `DownloadAssumption`. The block counter wraps, so a
block can not be told from one 256 blocks earlier. What saves the protocol is order: only the
request that is out and the one before it can be under way, and in each channel what is late
stands before what is new (`ChannelInv`). The server is level with the client, or one block
ahead, and then nothing older can reach it any more (`ServerInv`). A download is in progress
only on an unlocked server (`AccessInv`), and one that answered 0x24 has none and can not
get one from what is still under way (`RefusalInv`). TLC checked `TransferInv` on the
constants of `transfer`.

`IsoTpProofs` proves for any number of messages, flow controls and faulty frames, and every
range of the frame index (messages have one frame or three):

- `IsoInvariance`: `Spec => []IsoInv`, with `TypeCorrect` (`TypeOK`) as a part of it;
- `Delivered` (`DeliveredIntact`);
- `BufferStands`: the action property `BufferHeld`.

Assumption: `IsoTpAssumption`. The main loop changes the session in several writes, and the
interrupt sees each of them. The invariant therefore says, for every step of the main loop,
what the session may be. A message that is being received is the beginning of the tester's,
unless the loop has overwritten part of the session and will change the state before a frame
can arrive (`ReceivingInv`); a message that waits to be claimed is whole, or is wiped before
the claim (`DoneInv`). Both need that one frame at most arrives between two waits (`hit`),
that nobody responds during a transmission (`BudgetInv`) and that no transmission is under
way while a response is set up (`LoadingInv`). `BufferHeld` needs no invariant. TLC checked
`IsoInv` on the constants of `iso_tp`.

`HandshakeProofs` proves for all times and all numbers of faults that the assumptions allow:

- `Invariance`: `Spec => []HandshakeInv`, with `TypeCorrect` (`TypeOK`) and `ReportsAreTrue`
  (`ReportsTrue`) as parts of it;
- `OutcomeInvariance`: `Spec => [](HandshakeInv /\ OutcomeInv)`, with `WaitIsEnough`
  (`WaitCovers`) and `OldImageKept` (`LastResort`).

Assumptions: `HandshakeAssumption`; `MarginAssumption`: fewer seconds of frames are lost in
all than lie between the wait for the result and the watchdog (2 s and 20 s), and the wait
for the result is not longer than that for the handshake; `WaitAssumption`: two swaps, the
watchdog and the losses take less than the client's wait (45 s), and there are more
rejection frames than losses. The code has these times; how long a swap takes depends on the
image, and the assumption says how long it may take.

`ReportsTrue` alone says nothing until the client has reported. What makes it inductive: a
frame on its way is true until it is read (`ChannelInv`); while the client listens, the
watchdog of an image on trial is late by no more seconds than were lost (`ListenInv`), so
that when the client hears of a trial, that trial outlasts the client's wait for its result;
from then on the image is confirmed or still waits, and the watchdog stays ahead of the
client's clock (`ConfirmInv`); and what the ECU does agrees with what its trailer tells
(`FlashInv`, `RejectInv`). For the other two, `WaitInv` bounds the seconds that the ECU may
still take before it sends a frame by those that the client still waits, each loss counted
once; `KeptInv` follows the old image through the swap, the revert and its own confirmation,
which fails only when frames are lost for as long as the client asks. One lemma per action
for each of the two invariants.

Only model-checked: liveness (`Completes`, `Settles`, `TrialEnds`, `HearsAgain`, `Listens`,
`Ends`), which is beyond the prover, and the four sentences that the code refutes. Every
other property of the runs is a theorem.

## 5. Assumptions and what is left out

- Erasing a trailer page happens whole or not at all; a torn page never passes as a header
  or TLV area; a torn record reads as neither 0xFF nor a valid status.
- Two images of the same number of pages have their TLV areas in the same place, which only
  makes `Plausible` accept more.
- Hash and signature are ideal. Seeds may repeat, signatures can not be forged.
- `sr_millis` does not wrap (49.7 days).
- `IsoTp`: one frame at most arrives between two waits of the main loop, since a frame takes
  tens of microseconds on the bus. Two within the few instructions of `isotp_session_send`
  could give a message the length of the response. Frames are not lost one by one; a tester
  that abandons a message does the same to the ECU.
- `Transfer`: nothing from one attempt is still under way in the next.
- `Handshake`: swaps are whole (`PageSwap` and `Bootloader` say why they may be), losses
  come in whole seconds, the old image calls `sr_app_confirm_boot`, and a record whose write
  fails is erased or torn.
- The three rejection frames go out in one burst. They are lost one by one, and fewer of
  them than there are (`MaxLost < Rejections`): that the burst as a whole gets through is an
  assumption. Were it lost, the client would wait its 45 s and report no answer, while the
  old image runs; `WaitCovers` does not hold then.
- Three properties except what the code does not provide for, and hold everywhere else: the
  confirm meant for an update that a reverted image answers after a failure of power or
  flash (`cli.py:358`, `ReportsTrue`), the image nobody confirms after FAILED
  (`cli.py:366`, `LastResort`), and the reverted image that is deleted for want of a confirm
  (`bootloader_main.c:147`, `GoodImageKept`).
- `send_rejection` is in `Handshake`; the distress broadcast, the LED and the contents of
  answers are left out.

### Not modelled

- `fmt_tool`: offline and sequential, it keeps no state; what it signs is `Authentic`.
- Drivers under `mcu/`: registers. What the modules above ask of them, an erase, a program
  with readback, a frame sent or not, is in those modules with its failures.
- TweetNaCl and the cryptography around it: ideal.
- The other commands of the client's menu, single requests that `Uds` takes in any order,
  and its keepalive thread: a lock keeps its 0x3E apart from other requests, and it does no
  more than refresh S3.
- HAL, CMSIS and CubeMX files, and `test_code`, which holds five more copies of them with
  experiments for single drivers.

The last item is nearly the whole repository: of some 620 000 lines in the files counted as
implementation, the firmware, the SDK and the client written for it are a few thousand, the
rest is the vendor's headers and drivers and their copies (`stm32g431xx.h`, 13 138 lines, is
there six times). So the mapped lines are a small share of all lines, and a larger one could
come only from modelling register definitions. Of the program's own code the
modules cover `boot_core` (without the cryptography), `app_sdk` and the client's `download`
and `confirm_update`.

## 6. Plan

1. Core (done): `PageSwap`, `AtomicSwap`, `PageSwapProofs`, `Bootloader`, `Download`, `Uds`,
   `UdsProofs`.
2. Around it (done): `FlashWriter`, `Transfer`, `IsoTp`, `Handshake`, `HandshakeProofs`.
3. Proofs of every safety and action property (done): `BootloaderProofs`,
   `FlashWriterProofs`, `DownloadProofs`, `TransferProofs`, `IsoTpProofs`, and the outcome in
   `HandshakeProofs`.
4. That `FlashWriter` implements the stream of `Download`, once both are composed.
5. S3 liveness in `Uds`; the wrap of `sr_millis`; trailer pages torn while they are erased.
