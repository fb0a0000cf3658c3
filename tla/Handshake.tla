------------------------------ MODULE Handshake ------------------------------
(***************************************************************************)
(* The end of an update, in seconds: the bootloader installs, rejects or   *)
(* reverts (boot_core/Src/bootloader_main.c), the application asks to be   *)
(* confirmed (app_sdk/sr_app.c), and the client listens, confirms and      *)
(* reports to the operator (confirm_update in host_scripts/ota_client).    *)
(*                                                                         *)
(* Slots hold whole images here, AtomicSwap and Bootloader say why.  Both  *)
(* sides repeat their frames several times a second; here once a second,   *)
(* so that one loss stands for all frames of a second.                     *)
(***************************************************************************)
EXTENDS Integers, Sequences

CONSTANTS
    SwapTime,        \* at most this long to verify, swap or erase
    WatchdogTime,    \* CFG_TEST_BOOT_IWDG_TIMEOUT_MS
    WaitTime,        \* HANDSHAKE_WAIT_S
    ResultTime,      \* HANDSHAKE_RESULT_WAIT_S
    Rejections,      \* CFG_REJECTION_REPEATS
    MaxLost, MaxPower, MaxBroken    \* bounds on the faults

ASSUME HandshakeAssumption ==
    /\ {SwapTime, WatchdogTime, WaitTime, ResultTime, Rejections} \subseteq Nat \ {0}
    /\ {MaxLost, MaxPower, MaxBroken} \subseteq Nat

\* Less is lost than the watchdog and the client allow for.
ASSUME MarginAssumption ==
    /\ ResultTime <= WaitTime
    /\ MaxLost + ResultTime < WatchdogTime

\* The client waits for a swap, a watchdog that fires and the swap back, and
\* there are more rejections than losses.
ASSUME WaitAssumption ==
    /\ 2 * SwapTime + WatchdogTime + MaxLost < WaitTime
    /\ MaxLost < Rejections

VARIABLES
    hadOld, verdict, sameVersion,           \* what the update meets; never changes
    ecu, task, left,                        \* what the ECU does; until when it is busy
    slotA, slotB, pending, kind, imageOk,   \* its flash: images, and what the trailers say
    iwdg, rejects, sent,                    \* watchdog, rejection frames to send, WAITING sent
    toClient, toEcu,                        \* frames received; a confirm in RX FIFO 0
    phase, clock, asked, heard, report,     \* the client, its deadline and what it prints
    lost, power, broken                     \* faults so far

facts == <<hadOld, verdict, sameVersion>>
flash == <<slotA, slotB, pending, kind, imageOk>>
device == <<ecu, task, left, iwdg, rejects, sent>>
client == <<phase, clock, asked, heard, report>>
faults == <<lost, power, broken>>
vars == <<facts, flash, device, toClient, toEcu, client, faults>>

Original == IF hadOld THEN "old" ELSE "none"

\* A frame reaches the client or is lost.
ToClient(status) ==
    \/ /\ toClient' = Append(toClient, [status |-> status, image |-> slotA])
       /\ lost' = lost
    \/ lost < MaxLost /\ lost' = lost + 1 /\ UNCHANGED toClient

-----------------------------------------------------------------------------
(* main() of the bootloader                                                 *)

Unconfirmed == kind # "none" /\ imageOk # "set"

Decision ==
    CASE pending /\ verdict = "fine" -> "install"
      [] pending /\ verdict # "fine" -> "reject"
      [] ~pending /\ Unconfirmed -> IF kind = "TEST" /\ slotB = "old" THEN "revert" ELSE "delete"
      [] OTHER -> "none"

StartSlotA == ecu' = IF slotA = "none" THEN "server" ELSE "run"

Boot ==
    /\ ecu = "boot" /\ task' = Decision
    /\ IF Decision = "none" THEN StartSlotA ELSE ecu' = "busy"
    /\ left' = SwapTime
    /\ UNCHANGED <<facts, flash, iwdg, rejects, sent, toClient, toEcu, client, faults>>

IwdgStartTwice == 2 * WatchdogTime                 \* mutant: one prescaler too far
IwdgStart == WatchdogTime

\* An image may hang before it calls sr_app_confirm_boot; the old one once was
\* confirmed and calls it.
StartTrial(image) ==
    /\ slotA' = image /\ imageOk' = "erased"
    /\ ecu' \in IF image = "new" THEN {"trial", "hung"} ELSE {"trial"}
    /\ iwdg' = IwdgStart /\ sent' = FALSE
    /\ UNCHANGED rejects

Install ==
    /\ task = "install" /\ StartTrial("new")
    /\ slotB' = slotA /\ pending' = FALSE /\ kind' = "TEST"

Revert ==
    /\ task = "revert" /\ StartTrial("old")
    /\ slotB' = "new" /\ kind' = "REVERT" /\ UNCHANGED pending

\* Mutant: the rejection is sent before slot B is erased.
RejectEarly ==
    /\ task = "reject" /\ ecu' = "rejecting" /\ rejects' = Rejections
    /\ UNCHANGED <<slotA, slotB, pending, kind, imageOk, iwdg, sent>>

Reject ==
    /\ task = "reject" /\ ecu' = "rejecting" /\ rejects' = Rejections
    /\ pending' = FALSE /\ slotB' = "none"
    /\ UNCHANGED <<slotA, kind, imageOk, iwdg, sent>>

Delete ==
    /\ task = "delete" /\ ecu' = "server"
    /\ slotA' = "none" /\ kind' = "none" /\ imageOk' = "erased"
    /\ UNCHANGED <<slotB, pending, iwdg, rejects, sent>>

Finish ==
    /\ ecu = "busy" /\ (Install \/ Revert \/ Reject \/ Delete)
    /\ UNCHANGED <<facts, task, left, toClient, toEcu, client, faults>>

\* send_rejection; then slot A is started without a reset.
SendRejection ==
    /\ ecu = "rejecting"
    /\ IF rejects > 0
         THEN ToClient("REJECTED") /\ rejects' = rejects - 1 /\ ecu' = ecu
         ELSE StartSlotA /\ UNCHANGED <<toClient, lost, rejects>>
    /\ UNCHANGED <<facts, flash, task, left, iwdg, sent, toEcu, client, power, broken>>

\* CAN does not start or the transmission fails.
CannotReject ==
    /\ ecu = "rejecting" /\ rejects > 0 /\ broken < MaxBroken
    /\ broken' = broken + 1 /\ rejects' = 0
    /\ UNCHANGED <<facts, flash, ecu, task, left, iwdg, sent, toClient, toEcu, client, lost, power>>

-----------------------------------------------------------------------------
(* sr_app_confirm_boot                                                      *)

SendWaiting ==
    /\ ecu = "trial" /\ ~sent /\ sent' = TRUE
    /\ ToClient("WAITING")
    /\ UNCHANGED <<facts, flash, ecu, task, left, iwdg, rejects, toEcu, client, power, broken>>

WriteImageOk ==
    /\ ecu = "trial" /\ toEcu
    /\ toEcu' = FALSE /\ ecu' = "result"
    /\ \/ imageOk' = "set" /\ UNCHANGED broken
       \/ /\ broken < MaxBroken /\ broken' = broken + 1
          /\ imageOk' \in {"erased", "torn"}
    /\ UNCHANGED <<facts, slotA, slotB, pending, kind, task, left, iwdg, rejects, sent,
                   toClient, client, lost, power>>

\* The result is sent once, then the application resets.
SendResult ==
    /\ ecu = "result" /\ ecu' = "boot"
    /\ ToClient(IF imageOk = "set" THEN "CONFIRMED" ELSE "FAILED")
    /\ UNCHANGED <<facts, flash, task, left, iwdg, rejects, sent, toEcu, client, power, broken>>

WatchdogFires ==
    /\ ecu \in {"trial", "hung"} /\ iwdg = 0
    /\ ecu' = "boot" /\ toEcu' = FALSE
    /\ UNCHANGED <<facts, flash, task, left, iwdg, rejects, sent, toClient, client, faults>>

\* What flash operations are under way goes on, or starts again, after the
\* reset; only the record that is being written can be torn.
PowerLoss ==
    /\ ecu \notin {"run", "server"} /\ power < MaxPower
    /\ power' = power + 1
    /\ ecu' = "boot" /\ toEcu' = FALSE
    /\ \/ UNCHANGED imageOk
       \/ ecu = "trial" /\ toEcu /\ imageOk' = "torn"
    /\ UNCHANGED <<facts, slotA, slotB, pending, kind, task, left, iwdg, rejects, sent,
                   toClient, client, lost, broken>>

-----------------------------------------------------------------------------
(* confirm_update of the client                                             *)

Report(text) == phase' = "done" /\ report' = text /\ UNCHANGED <<clock, asked, heard>>

ResultDeadlineExtended == clock + ResultTime       \* mutant
ResultDeadline == ResultTime

\* Only the version tells a revert from a trial.
Reverted == heard # "new" /\ ~sameVersion

Listen ==
    /\ phase = "listen" /\ toClient # <<>>
    /\ toClient' = Tail(toClient)
    /\ LET frame == Head(toClient) IN
         CASE frame.status = "REJECTED" -> Report("rejected")
           [] frame.status = "WAITING"  -> /\ phase' = "confirm" /\ clock' = ResultDeadline
                                           /\ heard' = frame.image /\ asked' = FALSE
                                           /\ UNCHANGED report
           [] OTHER -> UNCHANGED client
    /\ UNCHANGED <<facts, flash, device, toEcu, faults>>

NoHandshake ==
    /\ phase = "listen" /\ clock = 0 /\ toClient = <<>>
    /\ Report("noHandshake")
    /\ UNCHANGED <<facts, flash, device, toClient, toEcu, faults>>

\* Nobody but an application on trial receives it.
SendConfirm ==
    /\ phase = "confirm" /\ ~asked /\ clock > 0 /\ asked' = TRUE
    /\ \/ toEcu' = (toEcu \/ ecu = "trial") /\ UNCHANGED lost
       \/ lost < MaxLost /\ lost' = lost + 1 /\ UNCHANGED toEcu
    /\ UNCHANGED <<facts, flash, device, toClient, phase, clock, heard, report, power, broken>>

\* Mutant: any frame ends the wait.
HearResultAny ==
    /\ phase = "confirm" /\ toClient # <<>>
    /\ toClient' = Tail(toClient)
    /\ Report(IF Reverted THEN "failed" ELSE "success")
    /\ UNCHANGED <<facts, flash, device, toEcu, faults>>

\* Any frame that is not WAITING is taken for the result.
HearResult ==
    /\ phase = "confirm" /\ toClient # <<>>
    /\ toClient' = Tail(toClient)
    /\ LET status == Head(toClient).status IN
         CASE status = "WAITING" -> UNCHANGED client
           [] status # "WAITING" /\ Reverted -> Report("failed")
           [] status = "CONFIRMED" /\ ~Reverted -> Report("success")
           [] OTHER -> Report("rolledBack")
    /\ UNCHANGED <<facts, flash, device, toEcu, faults>>

NeverAnswered ==
    /\ phase = "confirm" /\ clock = 0 /\ toClient = <<>>
    /\ Report("neverAnswered")
    /\ UNCHANGED <<facts, flash, device, toClient, toEcu, faults>>

-----------------------------------------------------------------------------

\* A second passes when all that takes less than one is done.
Tick ==
    /\ ecu \in {"busy", "trial", "hung", "run", "server"}
    /\ ecu = "busy" => left > 0
    /\ ecu = "trial" => sent /\ ~toEcu
    /\ ecu \in {"trial", "hung"} => iwdg > 0
    /\ phase # "done" => clock > 0 /\ toClient = <<>>
    /\ phase = "confirm" => asked
    /\ left' = IF ecu = "busy" THEN left - 1 ELSE left
    /\ iwdg' = IF ecu \in {"trial", "hung"} THEN iwdg - 1 ELSE iwdg
    /\ clock' = IF phase = "done" THEN clock ELSE clock - 1
    /\ sent' = FALSE /\ asked' = FALSE
    /\ UNCHANGED <<facts, flash, ecu, task, rejects, toClient, toEcu, phase, heard, report, faults>>

\* 0x37 has marked slot B, and the client resets the ECU with its socket open.
Init ==
    /\ hadOld \in BOOLEAN /\ sameVersion \in BOOLEAN
    /\ verdict \in {"fine", "invalid", "older"}
    /\ verdict = "older" \/ sameVersion => hadOld
    /\ verdict = "older" => ~sameVersion
    /\ ecu = "boot" /\ task = "none" /\ left = 0
    /\ slotA = Original /\ slotB = "new" /\ pending = TRUE
    /\ kind = "none" /\ imageOk = "erased"
    /\ iwdg = 0 /\ rejects = 0 /\ sent = FALSE
    /\ toClient = <<>> /\ toEcu = FALSE
    /\ phase = "listen" /\ clock = WaitTime /\ asked = FALSE
    /\ heard = "none" /\ report = "none"
    /\ lost = 0 /\ power = 0 /\ broken = 0

Next ==
    \/ Boot \/ Finish \/ SendRejection \/ CannotReject
    \/ SendWaiting \/ WriteImageOk \/ SendResult
    \/ WatchdogFires \/ PowerLoss
    \/ Listen \/ NoHandshake \/ SendConfirm \/ HearResult \/ NeverAnswered
    \/ Tick

Spec == Init /\ [][Next]_vars

-----------------------------------------------------------------------------
(* Properties                                                               *)

Flags ==
    /\ pending \in BOOLEAN /\ sent \in BOOLEAN /\ toEcu \in BOOLEAN /\ asked \in BOOLEAN

Counts ==
    /\ left \in 0 .. SwapTime /\ iwdg \in 0 .. WatchdogTime /\ clock \in 0 .. WaitTime
    /\ rejects \in 0 .. Rejections
    /\ lost \in 0 .. MaxLost /\ power \in 0 .. MaxPower /\ broken \in 0 .. MaxBroken

Channel ==
    toClient \in Seq([status : {"WAITING", "CONFIRMED", "FAILED", "REJECTED"},
                      image : {"old", "new", "none"}])

TypeOK ==
    /\ Flags /\ Counts /\ Channel
    /\ ecu \in {"boot", "busy", "rejecting", "trial", "hung", "result", "run", "server"}
    /\ task \in {"none", "install", "revert", "reject", "delete"}
    /\ slotA \in {"old", "new", "none"} /\ slotB \in {"old", "new", "none"}
    /\ kind \in {"none", "TEST", "REVERT"} /\ imageOk \in {"erased", "set", "torn"}
    /\ phase \in {"listen", "confirm", "done"} /\ heard \in {"old", "new", "none"}
    /\ report \in {"none", "rejected", "noHandshake", "failed", "success", "rolledBack", "neverAnswered"}

Stuck == slotA = "new" /\ imageOk = "set"

\* A rejected update is gone, whatever interrupts the bootloader.
RejectedGone == report = "rejected" => ~pending /\ slotA = Original

\* What the client reports of frames it did receive is so, and stays so: a
\* rejected update is gone; an update that is reported to run was confirmed,
\* unless the power or the flash failed meanwhile (the old image then may answer
\* the confirm meant for the new one) or the versions can not be told apart; and
\* one reported as failed has left the ECU with the old image, confirmed, unless
\* the power or the flash failed.
ReportsTrue ==
    /\ RejectedGone
    /\ report = "success" /\ power + broken = 0 /\ ~sameVersion => Stuck
    /\ report = "failed" /\ power + broken = 0 => slotA = "old" /\ imageOk = "set"

\* HANDSHAKE_WAIT_S "covers a new image that never handshakes: the 20 s IWDG,
\* the revert swap back, then the old app's revert handshake": with an image to
\* revert to and no power loss, a client hears of the outcome, although frames
\* are lost.
WaitCovers == report = "noHandshake" /\ hadOld => power + broken > 0

\* The bootloader deletes a reverted image that nobody confirms, the only one
\* left.  With a client that listens this takes more than a bad update: the power
\* or the flash fails, or everything is lost for as long as the client asks.
LastResort == slotA = "none" /\ hadOld => power + broken > 0 \/ lost >= ResultTime

\* "Blocks on the test boot (or revert) handshake and reports whether the update
\* stuck" (cli.py:325)
ReportsWhetherStuck == phase = "done" => (report = "success" <=> Stuck)
=============================================================================
