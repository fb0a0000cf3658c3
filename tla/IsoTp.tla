------------------------------- MODULE IsoTp --------------------------------
(***************************************************************************)
(* ISO-TP on the ECU: sr_isotp_rx and sr_isotp_tx, called by the UDS       *)
(* server's loop, against the CAN interrupt that runs                      *)
(* sr_isotp_can_isr_callback (boot_core/Src/isotp/isotp.c), both working   *)
(* on one session of isotplib (isotplib/isotp_session.c) and three flags.  *)
(*                                                                         *)
(* A step of the main loop is one access to what the interrupt can change. *)
(* The interrupt runs to its end between two such steps.  The tester sends *)
(* single-frame and three-frame messages, gives one up for the next at any *)
(* time, and may send any number of flow controls and faulty frames.       *)
(***************************************************************************)
EXTENDS Naturals, Sequences

CONSTANTS
    MaxMsgs,     \* bound on the messages the tester sends
    IdxMod,      \* 16: the values of the index of consecutive frames
    Unlimited    \* UINT16_MAX in fc_allowed_frames_remaining

ASSUME IsoTpAssumption ==
    /\ MaxMsgs \in Nat
    /\ IdxMod \in Nat /\ IdxMod >= 2
    /\ Unlimited \notin Nat

VARIABLES
    sess,        \* isotp_session: state, full length, offset, fc, idx, in frames
    buf,         \* its rx_buffer
    rxDone,      \* rx_done_flag
    txDone,      \* tx_done_flag
    lastErr,     \* last_err: "ok", "tooLarge" or "other"
    heard,       \* what was accepted since the loop looked: rx_fc_count and rx_cf_count
    pc,          \* the step of the main loop that comes next
    after,       \* where an isotp_session_idle called by the main loop returns to
    caller,      \* "rx" or "tx": who called isotp_session_can_tx
    out,         \* the frame it returned
    len,         \* length of the response being sent
    late,        \* CFG_ISOTP_TIMEOUT_MS passed since timeout_start_cyc
    budget,      \* sr_isotp_tx calls the handler may still make; none once one failed
    hit,         \* a frame arrived since the main loop last waited
    tester,      \* the message under way: number, frames sent, clear to send
    fcs,         \* flow controls on their way to the tester
    got          \* history: the messages that sr_isotp_rx returned

isoVars == <<sess, buf, rxDone, lastErr, heard>>
mainVars == <<txDone, pc, after, caller, out, len, late, budget, got>>
testVars == <<tester, fcs>>
vars == <<isoVars, mainVars, hit, testVars>>

MsgLen == 3                        \* frames of a segmented message, and of the buffer
IdleSession == [state |-> "idle", full |-> 0, off |-> 0, fc |-> 0, idx |-> 1]
Transmitting == sess.state \in {"transmitting", "awaitingFC"}

-----------------------------------------------------------------------------
(* The interrupt                                                            *)

Failed(error) ==
    /\ sess' = IdleSession /\ lastErr' = error
    /\ UNCHANGED <<buf, rxDone, heard>>

\* err_tx_interrupted_by_rx_callback, when a new message ends a transmission
Interrupted == IF Transmitting THEN "other" ELSE lastErr

HandleSingleFrame(m) ==
    /\ sess' = [IdleSession EXCEPT !.state = "received", !.full = 1, !.off = 1]
    /\ buf' = [buf EXCEPT ![1] = <<m, 0>>]
    /\ rxDone' = TRUE
    /\ lastErr' = Interrupted
    /\ UNCHANGED heard

HandleFirstFrame(m) ==
    /\ sess' = [IdleSession EXCEPT !.state = "receiving", !.full = MsgLen, !.off = 1]
    /\ buf' = [buf EXCEPT ![1] = <<m, 1>>]
    /\ lastErr' = Interrupted
    /\ UNCHANGED <<rxDone, heard>>

\* Mutant: the index does not wrap.
ConsecutiveNoWrap(m, n) ==
    IF (n - 1) % IdxMod # sess.idx \/ sess.off = MsgLen THEN Failed("other")
    ELSE /\ sess' = [sess EXCEPT !.off = @ + 1, !.idx = @ + 1,
                                 !.state = IF sess.off + 1 >= sess.full THEN "received" ELSE @]
         /\ buf' = [buf EXCEPT ![sess.off + 1] = <<m, n>>]
         /\ rxDone' = (sess.off + 1 >= sess.full)
         /\ heard' = heard \cup {"CF"}
         /\ UNCHANGED lastErr

\* The n-th frame of m.  What is left of the message is an unsigned number: an
\* offset beyond the full length leaves room for all of the frame.
HandleConsecutiveFrame(m, n) ==
    IF (n - 1) % IdxMod # sess.idx \/ sess.off = MsgLen THEN Failed("other")
    ELSE LET off == IF sess.off = sess.full THEN sess.off ELSE sess.off + 1 IN
         /\ sess' = [sess EXCEPT !.off = off, !.idx = (@ + 1) % IdxMod,
                                 !.fc = IF @ \in {0, Unlimited} THEN @ ELSE @ - 1,
                                 !.state = IF off >= sess.full THEN "received" ELSE @]
         /\ buf' = IF off = sess.off THEN buf ELSE [buf EXCEPT ![off] = <<m, n>>]
         /\ rxDone' = (off >= sess.full)
         /\ heard' = heard \cup {"CF"}
         /\ UNCHANGED lastErr

HandleFlowControlFrame(flag, blockSize) ==
    /\ heard' = heard \cup {"FC"}
    /\ IF flag = "abort"
         THEN sess' = IdleSession /\ lastErr' = "other"
         ELSE /\ sess' = [sess EXCEPT !.fc = blockSize,
                                      !.state = IF flag = "continue" THEN "transmitting"
                                                                     ELSE "awaitingFC"]
              /\ UNCHANGED lastErr
    /\ UNCHANGED <<buf, rxDone>>

IgnoredByState == sess.state = "received"              \* mutant
\* rx_done_flag stops the interrupt; so does a message not yet claimed.
Ignored == rxDone \/ sess.state = "received"

\* At most one frame arrives from one wait of the main loop to the next: frames
\* are tens of microseconds apart on the bus, the code in between takes less.
Waiting == {"serve", "rx", "tx", "air"}
Arrives ==
    /\ pc \in Waiting \/ ~hit
    /\ hit' = (pc \notin Waiting)
    /\ UNCHANGED mainVars

-----------------------------------------------------------------------------
(* The tester, whose frames reach the interrupt in the order they are sent  *)

Fresh == tester.msg + 1

SingleFrame ==
    /\ Fresh <= MaxMsgs
    /\ tester' = [msg |-> Fresh, sent |-> MsgLen, clear |-> FALSE]
    /\ IF Ignored THEN UNCHANGED isoVars ELSE HandleSingleFrame(Fresh)
    /\ Arrives /\ UNCHANGED fcs

FirstFrame ==
    /\ Fresh <= MaxMsgs
    /\ tester' = [msg |-> Fresh, sent |-> 1, clear |-> FALSE]
    /\ IF Ignored THEN UNCHANGED isoVars ELSE HandleFirstFrame(Fresh)
    /\ Arrives /\ UNCHANGED fcs

ConsecutiveFrame ==
    /\ tester.clear /\ tester.sent < MsgLen
    /\ tester' = [tester EXCEPT !.sent = @ + 1]
    /\ \/ Ignored /\ UNCHANGED isoVars
       \/ /\ ~Ignored /\ sess.state = "receiving"
          /\ HandleConsecutiveFrame(tester.msg, tester'.sent)
       \/ ~Ignored /\ sess.state # "receiving" /\ Failed("other")
    /\ Arrives /\ UNCHANGED fcs

\* A flow control from the ECU arrives, for this message or an abandoned one.
ClearToSend ==
    /\ fcs > 0 /\ fcs' = fcs - 1
    /\ tester' = [tester EXCEPT !.clear = tester.sent < MsgLen]
    /\ UNCHANGED <<isoVars, mainVars, hit>>

FlowControl(flag, blockSize) ==
    /\ \/ Ignored /\ UNCHANGED isoVars
       \/ ~Ignored /\ Transmitting /\ HandleFlowControlFrame(flag, blockSize)
       \/ ~Ignored /\ ~Transmitting /\ Failed("other")
    /\ Arrives /\ UNCHANGED testVars

\* A frame of no type, of a wrong length, or a first frame beyond the buffer.
FaultyFrame ==
    /\ \E error \in {"other", "tooLarge"} :
         IF Ignored THEN UNCHANGED isoVars ELSE Failed(error)
    /\ Arrives /\ UNCHANGED testVars

-----------------------------------------------------------------------------
(* The main loop                                                            *)

Goto(label) == pc' = label /\ hit' = (hit /\ label \notin Waiting)

\* isotp_session_idle, in the order of its writes, and then on to label.
GoIdle(label) == Goto("idle1") /\ after' = label

Idle ==
    /\ \/ /\ pc = "idle1" /\ Goto("idle2")
          /\ sess' = [sess EXCEPT !.state = "idle"]
       \/ /\ pc = "idle2" /\ Goto("idle3")
          /\ sess' = [sess EXCEPT !.fc = 0, !.off = 0]
       \/ /\ pc = "idle3" /\ Goto(after)
          /\ sess' = [sess EXCEPT !.full = 0, !.idx = 1]
    /\ UNCHANGED <<buf, rxDone, lastErr, heard, txDone, after, caller, out, len, late, budget,
                   got, testVars>>

\* Both loops start their timeout anew and look only for what is accepted from
\* now on.
StartTimeout == late' = FALSE /\ heard' = {}

\* The server loop calls sr_isotp_rx.
Receive ==
    /\ pc = "serve" /\ Goto("rx")
    /\ StartTimeout
    /\ UNCHANGED <<sess, buf, rxDone, lastErr, txDone, after, caller, out, len, budget, got,
                   testVars>>

\* A handler calls sr_isotp_tx, which starts with isotp_session_send.
Respond ==
    /\ pc = "serve" /\ budget > 0 /\ budget' = budget - 1
    /\ lastErr' = "ok"
    /\ len' \in {1, MsgLen}
    /\ GoIdle("length")
    /\ UNCHANGED <<sess, buf, rxDone, heard, txDone, caller, out, late, got, testVars>>

Load ==
    /\ \/ /\ pc = "length" /\ Goto("state")
          /\ sess' = [sess EXCEPT !.full = len]
          /\ UNCHANGED <<txDone, late, heard>>
       \/ /\ pc = "state" /\ Goto("tx")
          /\ sess' = [sess EXCEPT !.state = "transmitting"]
          /\ txDone' = FALSE
          /\ StartTimeout
    /\ UNCHANGED <<buf, rxDone, lastErr, after, caller, out, len, budget, got, testVars>>

\* isotp_session_can_tx looks at the state and finds a frame to send.
DataDue == sess.state = "transmitting"
GrantDue == sess.state = "receiving" /\ sess.fc = 0

FrameDue == DataDue \/ GrantDue

\* A second passes in a loop that has nothing to send.
Elapse ==
    /\ pc \in {"tx", "rx"} /\ ~FrameDue
    /\ ~late /\ late' = TRUE
    /\ UNCHANGED <<isoVars, txDone, pc, after, caller, out, len, budget, got, hit, testVars>>

\* A round of a loop in which something happens: what was accepted since the
\* last one restarts the timeout; then the timeout and what is due are looked at.
Round(kind, next) ==
    /\ lastErr = "ok" /\ (kind \in heard \/ late \/ FrameDue)
    /\ heard' = heard \ {kind}
    /\ late' = (late /\ kind \notin heard)
    /\ Goto(next)

\* The loop in sr_isotp_tx.
TxPoll ==
    /\ pc = "tx"
    /\ \/ /\ txDone /\ txDone' = FALSE
          /\ GoIdle("serve")
          /\ UNCHANGED <<lastErr, heard, late, budget>>
       \/ /\ ~txDone /\ lastErr # "ok" /\ lastErr' = "ok"
          /\ Goto("serve") /\ budget' = 0
          /\ UNCHANGED <<txDone, after, heard, late>>
       \/ /\ ~txDone /\ Round("FC", "txDue")
          /\ UNCHANGED <<txDone, lastErr, after, budget>>
    /\ UNCHANGED <<sess, buf, rxDone, caller, out, len, got, testVars>>

\* Mutant: the loop is not left.
TxTimeoutGoesOn ==
    /\ pc = "txDue" /\ late
    /\ GoIdle("tx") /\ budget' = 0
    /\ UNCHANGED <<isoVars, txDone, caller, out, len, late, got, testVars>>

TxTimeout ==
    /\ pc = "txDue" /\ late
    /\ GoIdle("serve") /\ budget' = 0
    /\ UNCHANGED <<isoVars, txDone, caller, out, len, late, got, testVars>>

\* The loop in sr_isotp_rx.
RxPoll ==
    /\ pc = "rx"
    /\ \/ /\ rxDone /\ Goto("claim")
          /\ UNCHANGED <<lastErr, heard, late>>
       \/ /\ ~rxDone /\ lastErr # "ok" /\ lastErr' = "ok"
          /\ Goto("serve")
          /\ UNCHANGED <<heard, late>>
       \/ /\ ~rxDone /\ Round("CF", "rxDue")
          /\ UNCHANGED lastErr
    /\ UNCHANGED <<sess, buf, rxDone, txDone, after, caller, out, len, budget, got, testVars>>

RxTimeout ==
    /\ pc = "rxDue" /\ late
    /\ GoIdle("serve")
    /\ UNCHANGED <<isoVars, txDone, caller, out, len, late, budget, got, testVars>>

\* The call of isotp_session_can_tx in either loop.
SendDue ==
    /\ pc \in {"txDue", "rxDue"} /\ ~late
    /\ LET loop == IF pc = "txDue" THEN "tx" ELSE "rx"
       IN  /\ Goto(IF DataDue THEN "build" ELSE IF GrantDue THEN "grant" ELSE loop)
           /\ caller' = loop
    /\ UNCHANGED <<isoVars, txDone, after, out, len, late, budget, got, testVars>>

\* tx_transmitting: a single, first or consecutive frame
Build ==
    /\ pc = "build"
    /\ out' = "data"
    /\ IF sess.off = 0 /\ sess.full <= 1
         THEN GoIdle("limit") /\ UNCHANGED sess
         ELSE /\ sess' = [sess EXCEPT !.off = IF @ = sess.full THEN @ ELSE @ + 1,
                                      !.idx = IF sess.off = 0 THEN @ ELSE (@ + 1) % IdxMod]
              /\ Goto("limit") /\ UNCHANGED after
    /\ UNCHANGED <<buf, rxDone, lastErr, heard, txDone, caller, len, late, budget, got,
                   testVars>>

Limit ==
    /\ pc = "limit" /\ Goto("complete")
    /\ LET fc == IF sess.fc \in {0, Unlimited} THEN sess.fc ELSE sess.fc - 1
       IN sess' = [sess EXCEPT !.fc = fc, !.state = IF fc = 0 THEN "awaitingFC" ELSE @]
    /\ UNCHANGED <<buf, rxDone, lastErr, heard, txDone, after, caller, out, len, late, budget,
                   got, testVars>>

Emitted == IF caller = "rx" THEN "check" ELSE "air"

Complete ==
    /\ pc = "complete"
    /\ IF sess.off >= sess.full
         THEN txDone' = TRUE /\ GoIdle(Emitted)
         ELSE Goto(Emitted) /\ UNCHANGED <<txDone, after>>
    /\ UNCHANGED <<isoVars, caller, out, len, late, budget, got, testVars>>

\* tx_recieving: a flow control that lets the tester send all the rest
Grant ==
    /\ pc = "grant" /\ Goto(Emitted)
    /\ out' = "FC"
    /\ sess' = [sess EXCEPT !.fc = Unlimited]
    /\ UNCHANGED <<buf, rxDone, lastErr, heard, txDone, after, caller, len, late, budget,
                   got, testVars>>

\* sr_isotp_rx sends only if nothing happened meanwhile.
Check ==
    /\ pc = "check"
    /\ Goto(IF lastErr = "ok" /\ ~rxDone THEN "air" ELSE "rx")
    /\ UNCHANGED <<isoVars, txDone, after, caller, out, len, late, budget, got, testVars>>

\* sr_fdcan_tx_blocking; what was sent restarts the timeout.
Air ==
    /\ pc = "air"
    /\ \/ /\ Goto(caller) /\ late' = FALSE
          /\ fcs' = IF out = "FC" THEN fcs + 1 ELSE fcs
          /\ UNCHANGED <<after, budget>>
       \/ /\ GoIdle("serve") /\ budget' = 0
          /\ UNCHANGED <<late, fcs>>
    /\ UNCHANGED <<isoVars, txDone, caller, out, len, got, tester>>

\* Mutants: the length is not checked; the flag is not cleared.
ClaimUnchecked ==
    /\ pc = "claim"
    /\ got' = Append(got, SubSeq(buf, 1, sess.full)) /\ budget' = 2
    /\ rxDone' = FALSE
    /\ GoIdle("serve")
    /\ UNCHANGED <<sess, buf, lastErr, heard, txDone, caller, out, len, late, testVars>>
ClaimKeepsFlag ==
    /\ pc = "claim"
    /\ IF sess.full = 0 THEN UNCHANGED <<got, budget>>
       ELSE got' = Append(got, SubSeq(buf, 1, sess.full)) /\ budget' = 2
    /\ GoIdle("serve")
    /\ UNCHANGED <<isoVars, txDone, caller, out, len, late, testVars>>

\* The end of sr_isotp_rx.  The interrupt does nothing until the flag is cleared.
Claim ==
    /\ pc = "claim"
    /\ IF sess.full = 0 THEN UNCHANGED <<got, budget>>
       ELSE got' = Append(got, SubSeq(buf, 1, sess.full)) /\ budget' = 2
    /\ rxDone' = FALSE
    /\ GoIdle("serve")
    /\ UNCHANGED <<sess, buf, lastErr, heard, txDone, caller, out, len, late, testVars>>

-----------------------------------------------------------------------------

Init ==
    /\ sess = IdleSession /\ buf = [i \in 1 .. MsgLen |-> <<0, 0>>]
    /\ rxDone = FALSE /\ txDone = FALSE /\ lastErr = "ok" /\ heard = {} /\ late = FALSE
    /\ pc = "serve" /\ after = "serve" /\ caller = "rx" /\ out = "none"
    /\ len = 1 /\ budget = 0 /\ hit = FALSE /\ got = <<>>
    /\ tester = [msg |-> 0, sent |-> MsgLen, clear |-> FALSE] /\ fcs = 0

BlockSize == {1, Unlimited}

Tester ==
    \/ SingleFrame \/ FirstFrame \/ ConsecutiveFrame \/ ClearToSend \/ FaultyFrame
    \/ \E flag \in {"continue", "wait", "abort"}, blockSize \in BlockSize :
         FlowControl(flag, blockSize)

Main ==
    \/ Receive \/ Respond \/ Load \/ Idle
    \/ Elapse \/ TxPoll \/ TxTimeout \/ RxPoll \/ RxTimeout \/ SendDue
    \/ Build \/ Limit \/ Complete \/ Grant \/ Check \/ Air \/ Claim

Next == Tester \/ Main

Spec == Init /\ [][Next]_vars

\* The main loop runs by itself, and so does the clock; the tester owes nothing.
FairSpec == Spec /\ WF_vars(Main)

-----------------------------------------------------------------------------
(* Properties                                                               *)

TypeOK ==
    /\ sess \in [state : {"idle", "receiving", "received", "transmitting", "awaitingFC"},
                 full : {0, 1, MsgLen}, off : 0 .. MsgLen, fc : {0, 1, Unlimited},
                 idx : 0 .. IdxMod - 1]
    /\ buf \in [1 .. MsgLen -> (0 .. MaxMsgs) \X (0 .. MsgLen)]
    /\ {rxDone, txDone, hit, late} \subseteq BOOLEAN
    /\ lastErr \in {"ok", "tooLarge", "other"}
    /\ heard \subseteq {"FC", "CF"} /\ fcs \in 0 .. MaxMsgs
    /\ Len(got) <= MaxMsgs

Whole(msg, m) == msg \in {<< <<m, 0>> >>, [i \in 1 .. MsgLen |-> <<m, i>>]}

\* Whatever the interrupt does between any two steps of the main loop, what
\* sr_isotp_rx returns are messages that the tester sent, each whole, alone, in
\* order and at most once.
DeliveredIntact ==
    \A i \in 1 .. Len(got) :
        /\ \E m \in 1 .. tester.msg : Whole(got[i], m)
        /\ i > 1 => got[i - 1][1][1] < got[i][1][1]

\* "rx_done_flag being set STOPS the CAN ISR from touching the receive buffer."
BufferHeld == [][rxDone => buf' = buf]_vars

\* The ECU never stays deaf: a set flag is cleared, also when the message behind
\* it was wiped.
HearsAgain == rxDone ~> ~rxDone

\* Whatever the tester sends or leaves out, transmissions end and the server
\* returns to listening; only a tester that keeps sending WAIT flow controls,
\* each of which restarts the timeout, holds it in a transmission.
Listens ==
    \/ []<>(pc = "rx")
    \/ []<><<\E blockSize \in BlockSize : FlowControl("wait", blockSize)>>_vars

\* "This means a single frame msg will be waiting to be claimed" (isotp.c:114)
SingleFrameWaits == pc = "claim" /\ buf[1][2] = 0 => sess.full = 1
=============================================================================
