--------------------------- MODULE HandshakeProofs ---------------------------
(***************************************************************************)
(* Proof of ReportsTrue, WaitCovers and LastResort for all times and       *)
(* numbers of faults with MarginAssumption and WaitAssumption.             *)
(***************************************************************************)
EXTENDS Handshake, SequenceTheorems, TLAPS

Status == {"WAITING", "CONFIRMED", "FAILED", "REJECTED"}
Frame == [status : Status, image : {"old", "new", "none"}]

\* The frames the client has not read.
Elems(s) == {s[i] : i \in 1 .. Len(s)}
Unread == Elems(toClient)

Facts ==
    /\ hadOld \in BOOLEAN /\ sameVersion \in BOOLEAN
    /\ verdict \in {"fine", "invalid", "older"}

Calm == power + broken = 0

\* A rejected update leaves the ECU as it was, and only such an update makes
\* the bootloader send a rejection.
RejectInv ==
    /\ verdict # "fine" =>
         /\ slotA = Original /\ kind = "none"
         /\ ecu \in {"boot", "busy", "rejecting", "run", "server"}
         /\ ecu = "busy" => task = "reject"
    /\ ecu = "busy" /\ task = "reject" => verdict # "fine"
    /\ ecu = "rejecting" => verdict # "fine" /\ ~pending
    /\ report = "rejected" => verdict # "fine" /\ ~pending

\* What the trailer tells of the images, and what each activity knows of it.
FlashInv ==
    /\ pending => kind = "none"
    /\ kind # "none" => slotA \in {"old", "new"}
    /\ kind = "none" => imageOk = "erased"
    /\ ecu = "busy" => task # "none" /\ imageOk # "set"
    /\ ecu = "busy" /\ task \notin {"install", "reject"} => ~pending
    /\ ecu \in {"trial", "hung"} => kind # "none" /\ imageOk = "erased"
    /\ ecu = "result" => kind # "none" /\ (imageOk = "set" \/ ~Calm)
    /\ imageOk = "set" => ecu \in {"result", "boot", "run"}

\* What a frame tells is so until the client reads it; while the client still
\* listens the trial it hears of is under way.
Told(f) ==
    /\ f.status = "REJECTED"  => verdict # "fine" /\ ~pending
    /\ f.status = "CONFIRMED" => imageOk = "set"
    /\ f.status = "FAILED"    => ~Calm
    /\ phase = "listen" => f.status \in {"WAITING", "REJECTED"}
    /\ phase = "listen" /\ Calm /\ f.status = "WAITING" => ecu = "trial" /\ f.image = slotA

ChannelInv == \A f \in Unread : Told(f)

\* Until the client has heard of a trial nobody confirms it, and the watchdog is
\* late by no more seconds than frames were lost.
ListenInv == phase = "listen" =>
    /\ ~toEcu /\ ecu # "result" /\ report = "none"
    /\ ecu = "trial" => iwdg + lost >= WatchdogTime
    /\ ecu = "trial" /\ sent /\ toClient = <<>> => iwdg + lost >= WatchdogTime + 1

\* While the client asks, the image it heard of is confirmed or still waits.
ConfirmInv == phase = "confirm" =>
    /\ report = "none"
    /\ Calm => /\ heard = slotA /\ slotA \in {"old", "new"}
               /\ imageOk = "set" \/ (ecu = "trial" /\ iwdg > clock)

HandshakeInv ==
    /\ TypeOK /\ Facts /\ RejectInv /\ FlashInv /\ ChannelInv
    /\ ListenInv /\ ConfirmInv /\ ReportsTrue

-----------------------------------------------------------------------------
(* The channel to the client                                                *)

\* Appending a frame adds it to the unread ones.
LEMMA AppendElems ==
  ASSUME NEW S, NEW s \in Seq(S), NEW x \in S
  PROVE  /\ Append(s, x) \in Seq(S) /\ Append(s, x) # <<>>
         /\ Elems(Append(s, x)) = Elems(s) \cup {x}
<1> DEFINE t == Append(s, x)
<1>1. /\ t \in Seq(S) /\ t # <<>> /\ Len(t) = Len(s) + 1
      /\ \A i \in 1 .. Len(s) : t[i] = s[i]
      /\ t[Len(s) + 1] = x /\ Len(s) \in Nat
  BY AppendProperties, LenProperties
<1> HIDE DEF t
<1>2. Elems(t) = Elems(s) \cup {x}
  BY <1>1 DEF Elems
<1>. QED
  BY <1>1, <1>2 DEF t

\* Reading one removes it.
LEMMA TailElems ==
  ASSUME NEW S, NEW s \in Seq(S), s # <<>>
  PROVE  /\ Tail(s) \in Seq(S) /\ Elems(Tail(s)) \subseteq Elems(s)
         /\ Head(s) \in Elems(s) /\ Head(s) \in S
<1> DEFINE t == Tail(s)
<1>1. /\ t \in Seq(S) /\ Len(t) = Len(s) - 1 /\ Len(s) \in Nat /\ Len(s) # 0
      /\ \A i \in 1 .. Len(t) : t[i] = s[i + 1]
      /\ Head(s) = s[1] /\ Head(s) \in S
  BY HeadTailProperties, LenProperties, EmptySeq
<1> HIDE DEF t
<1>2. Elems(t) \subseteq Elems(s) /\ s[1] \in Elems(s)
  BY <1>1 DEF Elems
<1>. QED
  BY <1>1, <1>2 DEF t

\* What a transmission does to the frames the client has not read.
LEMMA Sends ==
  ASSUME TypeOK, NEW status \in Status, ToClient(status)
  PROVE  /\ toClient' \in Seq(Frame)
         /\ lost' \in 0 .. MaxLost /\ lost' \in {lost, lost + 1}
         /\ toClient' = <<>> => lost' = lost + 1
         /\ \A f \in Unread' : f \in Unread \/ (f.status = status /\ f.image = slotA)
<1> DEFINE frame == [status |-> status, image |-> slotA]
<1>1. frame \in Frame /\ toClient \in Seq(Frame) /\ lost \in 0 .. MaxLost
  BY DEF TypeOK, Counts, Channel, Frame, Status
<1>2. CASE toClient' = Append(toClient, frame) /\ lost' = lost
  <2>1. /\ toClient' \in Seq(Frame) /\ toClient' # <<>>
        /\ Unread' = Unread \cup {frame}
    BY <1>1, <1>2, AppendElems DEF Unread
  <2>. QED
    BY <1>1, <1>2, <2>1
<1>3. CASE lost < MaxLost /\ lost' = lost + 1 /\ toClient' = toClient
  BY <1>1, <1>3, HandshakeAssumption DEF Unread, HandshakeAssumption
<1>. QED
  BY <1>2, <1>3 DEF ToClient

\* What reading a frame does.
LEMMA Reads ==
  ASSUME TypeOK, toClient # <<>>, toClient' = Tail(toClient)
  PROVE  /\ toClient' \in Seq(Frame) /\ Unread' \subseteq Unread
         /\ Head(toClient) \in Unread /\ Head(toClient) \in Frame
<1>1. toClient \in Seq(Frame)
  BY DEF TypeOK, Counts, Channel, Frame, Status
<1>. QED
  BY <1>1, TailElems DEF Unread

-----------------------------------------------------------------------------
(* Each step keeps the invariant                                            *)

\* What the bootloader decides to do fits what the trailer tells.
LEMMA BootKeeps ==
  ASSUME HandshakeInv, Boot
  PROVE  HandshakeInv'
<1>. USE DEF HandshakeInv, Boot, StartSlotA, Decision, Unconfirmed, facts, flash,
             client, faults
<1>0. Unread' = Unread
  BY DEF Unread
<1>1. TypeOK'
  <2>1. Flags'
    BY DEF TypeOK, Flags
  <2>2. Counts'
    BY HandshakeAssumption DEF TypeOK, Counts, HandshakeAssumption
  <2>3. Channel'
    BY DEF TypeOK, Channel
  <2>. QED
    BY <2>1, <2>2, <2>3 DEF TypeOK
<1>2. RejectInv'
  BY DEF TypeOK, Flags, Facts, RejectInv, FlashInv, Original
<1>3. FlashInv'
  BY DEF TypeOK, Flags, Counts, RejectInv, FlashInv, Calm
<1>4. Facts' /\ ChannelInv' /\ ListenInv' /\ ConfirmInv' /\ ReportsTrue'
  BY <1>0, HandshakeAssumption
  DEF TypeOK, Flags, Counts, Facts, RejectInv, FlashInv, ChannelInv, Told,
      ListenInv, ConfirmInv, ReportsTrue, RejectedGone, Calm, Stuck, Original,
      HandshakeAssumption
<1>. QED
  BY <1>1, <1>2, <1>3, <1>4

\* A new or a reverted image starts on trial, its watchdog just reloaded.
LEMMA FinishKeeps ==
  ASSUME HandshakeInv, Finish
  PROVE  HandshakeInv'
<1>. USE DEF HandshakeInv, Finish, Install, Revert, Reject, Delete, StartTrial,
             IwdgStart, facts, client, faults
<1>0. Unread' = Unread
  BY DEF Unread
<1>1. TypeOK'
  <2>1. Flags'
    BY DEF TypeOK, Flags
  <2>2. Counts'
    BY HandshakeAssumption DEF TypeOK, Counts, HandshakeAssumption
  <2>3. Channel'
    BY DEF TypeOK, Channel
  <2>. QED
    BY <2>1, <2>2, <2>3 DEF TypeOK
<1>2. RejectInv'
  BY DEF TypeOK, Flags, Facts, RejectInv, FlashInv, Original
<1>3. FlashInv'
  BY DEF TypeOK, Flags, Counts, RejectInv, FlashInv, Calm
<1>4. ListenInv'
  BY HandshakeAssumption
  DEF TypeOK, Flags, Counts, RejectInv, FlashInv, ListenInv, ChannelInv, Told, Calm,
      HandshakeAssumption
<1>5. Facts' /\ ChannelInv' /\ ConfirmInv' /\ ReportsTrue'
  BY <1>0
  DEF TypeOK, Flags, Counts, Facts, RejectInv, FlashInv, ChannelInv, Told,
      ListenInv, ConfirmInv, ReportsTrue, RejectedGone, Calm, Stuck, Original
<1>. QED
  BY <1>1, <1>2, <1>3, <1>4, <1>5

\* Only a rejected update is told of, after slot B was erased.
LEMMA SendRejectionKeeps ==
  ASSUME HandshakeInv, SendRejection
  PROVE  HandshakeInv'
<1>. USE DEF HandshakeInv, SendRejection, StartSlotA, facts, flash, client
<1>0. /\ toClient' \in Seq(Frame)
      /\ lost' \in 0 .. MaxLost /\ lost' \in {lost, lost + 1}
      /\ \A f \in Unread' : f \in Unread \/ f.status = "REJECTED"
  <2>1. CASE rejects > 0
    BY <2>1, Sends DEF Status
  <2>2. CASE ~(rejects > 0)
    BY <2>2 DEF TypeOK, Counts, Channel, Unread, Frame, Status
  <2>. QED
    BY <2>1, <2>2
<1>1. TypeOK'
  <2>1. Flags'
    BY DEF TypeOK, Flags
  <2>2. Counts'
    BY <1>0, HandshakeAssumption DEF TypeOK, Counts, HandshakeAssumption
  <2>3. Channel'
    BY <1>0 DEF TypeOK, Channel, Frame, Status
  <2>. QED
    BY <2>1, <2>2, <2>3 DEF TypeOK
<1>2. ChannelInv'
  BY <1>0
  DEF TypeOK, Flags, Counts, Facts, RejectInv, FlashInv, ListenInv, ChannelInv,
      Told, Calm
<1>3. Facts' /\ RejectInv' /\ FlashInv' /\ ListenInv' /\ ConfirmInv' /\ ReportsTrue'
  BY <1>0, HandshakeAssumption
  DEF TypeOK, Flags, Counts, Facts, RejectInv, FlashInv, ChannelInv, Told,
      ListenInv, ConfirmInv, ReportsTrue, RejectedGone, Calm, Stuck, Original,
      HandshakeAssumption
<1>. QED
  BY <1>1, <1>2, <1>3

\* No frame is sent, and slot A starts.
LEMMA CannotRejectKeeps ==
  ASSUME HandshakeInv, CannotReject
  PROVE  HandshakeInv'
<1>. USE DEF HandshakeInv, CannotReject, facts, flash, client
<1>0. Unread' = Unread
  BY DEF Unread
<1>1. TypeOK'
  <2>1. Flags'
    BY DEF TypeOK, Flags
  <2>2. Counts'
    BY HandshakeAssumption DEF TypeOK, Counts, HandshakeAssumption
  <2>3. Channel'
    BY DEF TypeOK, Channel
  <2>. QED
    BY <2>1, <2>2, <2>3 DEF TypeOK
<1>2. Facts' /\ RejectInv' /\ FlashInv' /\ ChannelInv' /\ ListenInv' /\ ConfirmInv' /\ ReportsTrue'
  BY <1>0, HandshakeAssumption
  DEF TypeOK, Flags, Counts, Facts, RejectInv, FlashInv, ChannelInv, Told,
      ListenInv, ConfirmInv, ReportsTrue, RejectedGone, Calm, Stuck, Original,
      HandshakeAssumption
<1>. QED
  BY <1>1, <1>2

\* The client hears of the image on trial.
LEMMA SendWaitingKeeps ==
  ASSUME HandshakeInv, SendWaiting
  PROVE  HandshakeInv'
<1>. USE DEF HandshakeInv, SendWaiting, facts, flash, client
<1>0. /\ toClient' \in Seq(Frame)
      /\ lost' \in 0 .. MaxLost /\ lost' \in {lost, lost + 1}
      /\ toClient' = <<>> => lost' = lost + 1
      /\ \A f \in Unread' : f \in Unread \/ (f.status = "WAITING" /\ f.image = slotA)
  BY Sends DEF Status
<1>1. TypeOK'
  <2>1. Flags'
    BY DEF TypeOK, Flags
  <2>2. Counts'
    BY <1>0, HandshakeAssumption DEF TypeOK, Counts, HandshakeAssumption
  <2>3. Channel'
    BY <1>0 DEF TypeOK, Channel, Frame, Status
  <2>. QED
    BY <2>1, <2>2, <2>3 DEF TypeOK
<1>2. ChannelInv'
  BY <1>0
  DEF TypeOK, Flags, Counts, Facts, RejectInv, FlashInv, ListenInv, ChannelInv,
      Told, Calm
<1>3. ListenInv'
  BY <1>0, HandshakeAssumption
  DEF TypeOK, Flags, Counts, RejectInv, FlashInv, ListenInv, ChannelInv, Told, Calm,
      HandshakeAssumption
<1>4. Facts' /\ RejectInv' /\ FlashInv' /\ ConfirmInv' /\ ReportsTrue'
  BY <1>0
  DEF TypeOK, Flags, Counts, Facts, RejectInv, FlashInv, ChannelInv, Told,
      ListenInv, ConfirmInv, ReportsTrue, RejectedGone, Calm, Stuck, Original
<1>. QED
  BY <1>1, <1>2, <1>3, <1>4

\* Only a failing flash leaves a confirmed trial unconfirmed.
LEMMA WriteImageOkKeeps ==
  ASSUME HandshakeInv, WriteImageOk
  PROVE  HandshakeInv'
<1>. USE DEF HandshakeInv, WriteImageOk, facts, client
<1>0. Unread' = Unread
  BY DEF Unread
<1>1. TypeOK'
  <2>1. Flags'
    BY DEF TypeOK, Flags
  <2>2. Counts'
    BY HandshakeAssumption DEF TypeOK, Counts, HandshakeAssumption
  <2>3. Channel'
    BY DEF TypeOK, Channel
  <2>. QED
    BY <2>1, <2>2, <2>3 DEF TypeOK
<1>2. FlashInv'
  BY DEF TypeOK, Flags, Counts, RejectInv, FlashInv, Calm
<1>3. ChannelInv'
  BY <1>0
  DEF TypeOK, Flags, Counts, Facts, RejectInv, FlashInv, ListenInv, ChannelInv,
      Told, Calm
<1>4. ConfirmInv'
  BY DEF TypeOK, Flags, Counts, RejectInv, FlashInv, ListenInv, ChannelInv, Told,
         ConfirmInv, Calm
<1>5. Facts' /\ RejectInv' /\ ListenInv' /\ ReportsTrue'
  BY <1>0, HandshakeAssumption
  DEF TypeOK, Flags, Counts, Facts, RejectInv, FlashInv, ChannelInv, Told,
      ListenInv, ConfirmInv, ReportsTrue, RejectedGone, Calm, Stuck, Original,
      HandshakeAssumption
<1>. QED
  BY <1>1, <1>2, <1>3, <1>4, <1>5

\* The result tells what was written.
LEMMA SendResultKeeps ==
  ASSUME HandshakeInv, SendResult
  PROVE  HandshakeInv'
<1>. USE DEF HandshakeInv, SendResult, facts, flash, client
<1>0. /\ toClient' \in Seq(Frame)
      /\ lost' \in 0 .. MaxLost /\ lost' \in {lost, lost + 1}
      /\ \A f \in Unread' :
           f \in Unread \/ f.status = IF imageOk = "set" THEN "CONFIRMED" ELSE "FAILED"
  BY Sends DEF Status
<1>1. TypeOK'
  <2>1. Flags'
    BY DEF TypeOK, Flags
  <2>2. Counts'
    BY <1>0, HandshakeAssumption DEF TypeOK, Counts, HandshakeAssumption
  <2>3. Channel'
    BY <1>0 DEF TypeOK, Channel, Frame, Status
  <2>. QED
    BY <2>1, <2>2, <2>3 DEF TypeOK
<1>2. ChannelInv'
  BY <1>0
  DEF TypeOK, Flags, Counts, Facts, RejectInv, FlashInv, ListenInv, ChannelInv,
      Told, Calm
<1>3. Facts' /\ RejectInv' /\ FlashInv' /\ ListenInv' /\ ConfirmInv' /\ ReportsTrue'
  BY <1>0, HandshakeAssumption
  DEF TypeOK, Flags, Counts, Facts, RejectInv, FlashInv, ChannelInv, Told,
      ListenInv, ConfirmInv, ReportsTrue, RejectedGone, Calm, Stuck, Original,
      HandshakeAssumption
<1>. QED
  BY <1>1, <1>2, <1>3

\* It can not while a client that heard of the trial asks.
LEMMA WatchdogFiresKeeps ==
  ASSUME HandshakeInv, WatchdogFires
  PROVE  HandshakeInv'
<1>. USE DEF HandshakeInv, WatchdogFires, facts, flash, client, faults
<1>0. Unread' = Unread
  BY DEF Unread
<1>1. TypeOK'
  <2>1. Flags'
    BY DEF TypeOK, Flags
  <2>2. Counts'
    BY HandshakeAssumption DEF TypeOK, Counts, HandshakeAssumption
  <2>3. Channel'
    BY DEF TypeOK, Channel
  <2>. QED
    BY <2>1, <2>2, <2>3 DEF TypeOK
<1>2. ChannelInv'
  BY <1>0, HandshakeAssumption, MarginAssumption
  DEF TypeOK, Flags, Counts, Facts, RejectInv, FlashInv, ListenInv, ChannelInv,
      Told, Calm, HandshakeAssumption, MarginAssumption
<1>3. ConfirmInv'
  BY HandshakeAssumption, MarginAssumption
  DEF TypeOK, Flags, Counts, RejectInv, FlashInv, ListenInv, ChannelInv, Told,
      ConfirmInv, Calm, HandshakeAssumption, MarginAssumption
<1>4. Facts' /\ RejectInv' /\ FlashInv' /\ ListenInv' /\ ReportsTrue'
  BY <1>0, HandshakeAssumption, MarginAssumption
  DEF TypeOK, Flags, Counts, Facts, RejectInv, FlashInv, ChannelInv, Told,
      ListenInv, ConfirmInv, ReportsTrue, RejectedGone, Calm, Stuck, Original,
      HandshakeAssumption, MarginAssumption
<1>. QED
  BY <1>1, <1>2, <1>3, <1>4

\* Nothing is promised of the update after it.
LEMMA PowerLossKeeps ==
  ASSUME HandshakeInv, PowerLoss
  PROVE  HandshakeInv'
<1>. USE DEF HandshakeInv, PowerLoss, facts, client
<1>0. Unread' = Unread
  BY DEF Unread
<1>1. TypeOK'
  <2>1. Flags'
    BY DEF TypeOK, Flags
  <2>2. Counts'
    BY HandshakeAssumption DEF TypeOK, Counts, HandshakeAssumption
  <2>3. Channel'
    BY DEF TypeOK, Channel
  <2>. QED
    BY <2>1, <2>2, <2>3 DEF TypeOK
<1>2. FlashInv'
  BY DEF TypeOK, Flags, Counts, RejectInv, FlashInv, Calm
<1>3. Facts' /\ RejectInv' /\ ChannelInv' /\ ListenInv' /\ ConfirmInv' /\ ReportsTrue'
  BY <1>0, HandshakeAssumption
  DEF TypeOK, Flags, Counts, Facts, RejectInv, FlashInv, ChannelInv, Told,
      ListenInv, ConfirmInv, ReportsTrue, RejectedGone, Calm, Stuck, Original,
      HandshakeAssumption
<1>. QED
  BY <1>1, <1>2, <1>3

\* The trial that the client hears of lasts longer than its wait for the result.
LEMMA ListenKeeps ==
  ASSUME HandshakeInv, Listen
  PROVE  HandshakeInv'
<1>. USE DEF HandshakeInv, Listen, Report, ResultDeadline, facts, flash, device,
             client, faults
<1>0. /\ toClient' \in Seq(Frame) /\ Unread' \subseteq Unread
      /\ Head(toClient) \in Unread /\ Head(toClient) \in Frame
  BY Reads
<1>1. TypeOK'
  <2>1. Flags'
    BY DEF TypeOK, Flags
  <2>2. Counts'
    BY <1>0, HandshakeAssumption, MarginAssumption
    DEF TypeOK, Counts, HandshakeAssumption, MarginAssumption
  <2>3. Channel'
    BY <1>0 DEF TypeOK, Channel, Frame, Status
  <2>. QED
    BY <1>0, <2>1, <2>2, <2>3 DEF TypeOK, Frame
<1>2. RejectInv'
  BY <1>0 DEF TypeOK, Flags, Facts, RejectInv, FlashInv, Original, ChannelInv, Told
<1>3. ConfirmInv'
  <2>. SUFFICES ASSUME phase' = "confirm" PROVE ConfirmInv'
    BY DEF ConfirmInv
  <2>1. /\ phase = "listen" /\ Head(toClient).status = "WAITING"
        /\ clock' = ResultTime /\ heard' = Head(toClient).image /\ report' = report
    OBVIOUS
  <2>2. Calm => ecu = "trial" /\ Head(toClient).image = slotA
    BY <1>0, <2>1 DEF ChannelInv, Told
  <2>3. report = "none" /\ (ecu = "trial" => iwdg + lost >= WatchdogTime)
    BY <2>1 DEF ListenInv
  <2>4. ecu = "trial" => iwdg > ResultTime
    BY <2>3, HandshakeAssumption, MarginAssumption
    DEF TypeOK, Counts, HandshakeAssumption, MarginAssumption
  <2>5. Calm => slotA \in {"old", "new"}
    BY <2>2 DEF FlashInv
  <2>. QED
    BY <2>1, <2>2, <2>3, <2>4, <2>5 DEF ConfirmInv, Calm
<1>4. Facts' /\ FlashInv' /\ ChannelInv' /\ ListenInv' /\ ReportsTrue'
  BY <1>0, HandshakeAssumption, MarginAssumption
  DEF TypeOK, Flags, Counts, Facts, RejectInv, FlashInv, ChannelInv, Told,
      ListenInv, ConfirmInv, ReportsTrue, RejectedGone, Calm, Stuck, Original,
      HandshakeAssumption, MarginAssumption
<1>. QED
  BY <1>1, <1>2, <1>3, <1>4

\* A client that gives up reports nothing of the image.
LEMMA NoHandshakeKeeps ==
  ASSUME HandshakeInv, NoHandshake
  PROVE  HandshakeInv'
<1>. USE DEF HandshakeInv, NoHandshake, Report, facts, flash, device, faults
<1>0. Unread' = Unread
  BY DEF Unread
<1>1. TypeOK'
  <2>1. Flags'
    BY DEF TypeOK, Flags
  <2>2. Counts'
    BY HandshakeAssumption DEF TypeOK, Counts, HandshakeAssumption
  <2>3. Channel'
    BY DEF TypeOK, Channel
  <2>. QED
    BY <2>1, <2>2, <2>3 DEF TypeOK
<1>2. Facts' /\ RejectInv' /\ FlashInv' /\ ChannelInv' /\ ListenInv' /\ ConfirmInv' /\ ReportsTrue'
  BY <1>0, HandshakeAssumption
  DEF TypeOK, Flags, Counts, Facts, RejectInv, FlashInv, ChannelInv, Told,
      ListenInv, ConfirmInv, ReportsTrue, RejectedGone, Calm, Stuck, Original,
      HandshakeAssumption
<1>. QED
  BY <1>1, <1>2

\* Nobody but an image on trial takes the confirm.
LEMMA SendConfirmKeeps ==
  ASSUME HandshakeInv, SendConfirm
  PROVE  HandshakeInv'
<1>. USE DEF HandshakeInv, SendConfirm, facts, flash, device
<1>0. Unread' = Unread
  BY DEF Unread
<1>1. TypeOK'
  <2>1. Flags'
    BY DEF TypeOK, Flags
  <2>2. Counts'
    BY HandshakeAssumption DEF TypeOK, Counts, HandshakeAssumption
  <2>3. Channel'
    BY DEF TypeOK, Channel
  <2>. QED
    BY <2>1, <2>2, <2>3 DEF TypeOK
<1>2. Facts' /\ RejectInv' /\ FlashInv' /\ ChannelInv' /\ ListenInv' /\ ConfirmInv' /\ ReportsTrue'
  BY <1>0, HandshakeAssumption
  DEF TypeOK, Flags, Counts, Facts, RejectInv, FlashInv, ChannelInv, Told,
      ListenInv, ConfirmInv, ReportsTrue, RejectedGone, Calm, Stuck, Original,
      HandshakeAssumption
<1>. QED
  BY <1>1, <1>2

\* A result is that of the image the client heard of.
LEMMA HearResultKeeps ==
  ASSUME HandshakeInv, HearResult
  PROVE  HandshakeInv'
<1>. USE DEF HandshakeInv, HearResult, Report, Reverted, facts, flash, device, client,
             faults
<1>0. /\ toClient' \in Seq(Frame) /\ Unread' \subseteq Unread
      /\ Head(toClient) \in Unread /\ Head(toClient) \in Frame
  BY Reads
<1>1. TypeOK'
  <2>1. Flags'
    BY DEF TypeOK, Flags
  <2>2. Counts'
    BY <1>0, HandshakeAssumption DEF TypeOK, Counts, HandshakeAssumption
  <2>3. Channel'
    BY <1>0 DEF TypeOK, Channel, Frame, Status
  <2>. QED
    BY <2>1, <2>2, <2>3 DEF TypeOK
<1>2. RejectInv'
  BY <1>0 DEF TypeOK, Flags, Facts, RejectInv, FlashInv, Original, ChannelInv, Told
<1>3. ReportsTrue'
  BY <1>0
  DEF TypeOK, Flags, Counts, RejectInv, FlashInv, ChannelInv, Told, ListenInv,
      ConfirmInv, ReportsTrue, RejectedGone, Calm, Stuck, Original, Frame, Status
<1>4. Facts' /\ FlashInv' /\ ChannelInv' /\ ListenInv' /\ ConfirmInv'
  BY <1>0, HandshakeAssumption
  DEF TypeOK, Flags, Counts, Facts, RejectInv, FlashInv, ChannelInv, Told,
      ListenInv, ConfirmInv, ReportsTrue, RejectedGone, Calm, Stuck, Original,
      HandshakeAssumption
<1>. QED
  BY <1>1, <1>2, <1>3, <1>4

\* Nor does one without an answer.
LEMMA NeverAnsweredKeeps ==
  ASSUME HandshakeInv, NeverAnswered
  PROVE  HandshakeInv'
<1>. USE DEF HandshakeInv, NeverAnswered, Report, facts, flash, device, faults
<1>0. Unread' = Unread
  BY DEF Unread
<1>1. TypeOK'
  <2>1. Flags'
    BY DEF TypeOK, Flags
  <2>2. Counts'
    BY HandshakeAssumption DEF TypeOK, Counts, HandshakeAssumption
  <2>3. Channel'
    BY DEF TypeOK, Channel
  <2>. QED
    BY <2>1, <2>2, <2>3 DEF TypeOK
<1>2. Facts' /\ RejectInv' /\ FlashInv' /\ ChannelInv' /\ ListenInv' /\ ConfirmInv' /\ ReportsTrue'
  BY <1>0, HandshakeAssumption
  DEF TypeOK, Flags, Counts, Facts, RejectInv, FlashInv, ChannelInv, Told,
      ListenInv, ConfirmInv, ReportsTrue, RejectedGone, Calm, Stuck, Original,
      HandshakeAssumption
<1>. QED
  BY <1>1, <1>2

\* The watchdog and the wait of the client run down together.
LEMMA TickKeeps ==
  ASSUME HandshakeInv, Tick
  PROVE  HandshakeInv'
<1>. USE DEF HandshakeInv, Tick, facts, flash, faults
<1>0. Unread' = Unread
  BY DEF Unread
<1>1. TypeOK'
  <2>1. Flags'
    BY DEF TypeOK, Flags
  <2>2. Counts'
    BY HandshakeAssumption DEF TypeOK, Counts, HandshakeAssumption
  <2>3. Channel'
    BY DEF TypeOK, Channel
  <2>. QED
    BY <2>1, <2>2, <2>3 DEF TypeOK
<1>2. ListenInv'
  BY HandshakeAssumption
  DEF TypeOK, Flags, Counts, RejectInv, FlashInv, ListenInv, ChannelInv, Told, Calm,
      HandshakeAssumption
<1>3. ConfirmInv'
  BY HandshakeAssumption
  DEF TypeOK, Flags, Counts, RejectInv, FlashInv, ListenInv, ChannelInv, Told,
      ConfirmInv, Calm, HandshakeAssumption
<1>4. Facts' /\ RejectInv' /\ FlashInv' /\ ChannelInv' /\ ReportsTrue'
  BY <1>0
  DEF TypeOK, Flags, Counts, Facts, RejectInv, FlashInv, ChannelInv, Told,
      ListenInv, ConfirmInv, ReportsTrue, RejectedGone, Calm, Stuck, Original
<1>. QED
  BY <1>1, <1>2, <1>3, <1>4

-----------------------------------------------------------------------------
(* The invariant, and what follows from it                                  *)

\* The update is marked, no frame is sent and nothing is reported.
LEMMA InitHolds ==
  ASSUME Init
  PROVE  HandshakeInv
<1>1. TypeOK
  <2>1. Flags
    BY DEF Init, Flags
  <2>2. Counts
    <3>1. /\ SwapTime \in Nat /\ WatchdogTime \in Nat /\ WaitTime \in Nat
          /\ Rejections \in Nat
          /\ MaxLost \in Nat /\ MaxPower \in Nat /\ MaxBroken \in Nat
      BY HandshakeAssumption DEF HandshakeAssumption
    <3>2. /\ left = 0 /\ iwdg = 0 /\ clock = WaitTime /\ rejects = 0
          /\ lost = 0 /\ power = 0 /\ broken = 0
      BY DEF Init
    <3>. QED
      BY <3>1, <3>2 DEF Counts
  <2>3. Channel
    BY EmptySeq DEF Init, Channel
  <2>. QED
    BY <2>1, <2>2, <2>3 DEF Init, TypeOK, Original
<1>2. Unread = {}
  BY DEF Init, Unread, Elems
<1>3. Facts /\ RejectInv /\ FlashInv /\ ListenInv /\ ConfirmInv /\ ReportsTrue
  BY DEF Init, Facts, RejectInv, FlashInv, ListenInv, ConfirmInv, ReportsTrue,
         RejectedGone, Original
<1>. QED
  BY <1>1, <1>2, <1>3 DEF HandshakeInv, ChannelInv

\* No step breaks it.
LEMMA NextKeeps ==
  ASSUME HandshakeInv, [Next]_vars
  PROVE  HandshakeInv'
<1>1. CASE UNCHANGED vars
  BY <1>1 DEF vars, facts, flash, device, client, faults, HandshakeInv, TypeOK, Flags,
       Counts, Channel, Facts, RejectInv, FlashInv, ChannelInv, Told, Unread, ListenInv,
       ConfirmInv, ReportsTrue, RejectedGone, Stuck, Calm, Original
<1>2. CASE Next
  BY <1>2, BootKeeps, FinishKeeps, SendRejectionKeeps, CannotRejectKeeps,
     SendWaitingKeeps, WriteImageOkKeeps, SendResultKeeps, WatchdogFiresKeeps,
     PowerLossKeeps, ListenKeeps, NoHandshakeKeeps, SendConfirmKeeps,
     HearResultKeeps, NeverAnsweredKeeps, TickKeeps
  DEF Next
<1>. QED
  BY <1>1, <1>2

\* HandshakeInv is inductive.
THEOREM Invariance == Spec => []HandshakeInv
<1>1. Init => HandshakeInv
  BY InitHolds
<1>2. HandshakeInv /\ [Next]_vars => HandshakeInv'
  BY NextKeeps
<1>. QED
  BY <1>1, <1>2, PTL DEF Spec

\* Every variable keeps its type: no count leaves its range.
THEOREM TypeCorrect == Spec => []TypeOK
<1>1. HandshakeInv => TypeOK
  BY DEF HandshakeInv
<1>. QED
  BY <1>1, Invariance, PTL

\* What the client reports of frames it received is so and stays so, whatever
\* is lost and whenever the image, the watchdog and the client run late.
THEOREM ReportsAreTrue == Spec => []ReportsTrue
<1>1. HandshakeInv => ReportsTrue
  BY DEF HandshakeInv
<1>. QED
  BY <1>1, Invariance, PTL

-----------------------------------------------------------------------------
(* The client hears of the outcome, and the old image is not lost           *)

\* The client has heard nothing yet, with nothing but losses gone wrong.
Unheard == phase = "listen" /\ toClient = <<>> /\ hadOld /\ Calm

\* The seconds the ECU may still take before it sends a frame, losses aside, are
\* fewer than the client still waits; and there is something it will send.
Leaves(time) == clock + lost > time + MaxLost

WaitInv == Unheard =>
    /\ ecu \notin {"run", "server", "result"} /\ Leaves(0)
    /\ ecu = "boot" => IF pending THEN Leaves(2 * SwapTime + WatchdogTime)
                                  ELSE Unconfirmed /\ kind = "TEST" /\ Leaves(SwapTime)
    /\ ecu = "busy" => CASE task = "install" -> Leaves(left + WatchdogTime + SwapTime)
                         [] task = "reject"  -> Leaves(left)
                         [] task = "revert"  -> Leaves(left)
                         [] OTHER            -> FALSE
    /\ ecu = "rejecting" => rejects + lost > MaxLost
    /\ ecu = "hung" => Leaves(iwdg + SwapTime)
    /\ ecu = "trial" /\ sent => Leaves(1)

\* The old image is kept until it runs again, and it is only put at risk by a
\* client that could not be heard for as long as it asks.
Unanswered == lost >= ResultTime

KeptInv == hadOld /\ Calm =>
    /\ pending => slotA = "old"
    /\ kind = "TEST" => slotB = "old"
    /\ ecu = "hung" => kind = "TEST"
    /\ ecu = "busy" /\ task = "install" => pending
    /\ phase = "confirm" /\ imageOk # "set" =>
         toEcu \/ lost + clock >= ResultTime + (IF asked THEN 1 ELSE 0)
    /\ phase = "done" /\ verdict = "fine" =>
         imageOk = "set" \/ Unanswered \/ (ecu = "trial" /\ toEcu /\ iwdg > 0)
    /\ ecu = "boot" /\ Unconfirmed /\ kind = "REVERT" => Unanswered
    /\ ecu = "busy" /\ task = "delete" => Unanswered
    /\ slotA = "none" => Unanswered

OutcomeInv == WaitInv /\ KeptInv /\ WaitCovers

\* The counts and times that the clauses compare.
LEMMA Times ==
  ASSUME HandshakeInv
  PROVE  /\ SwapTime \in Nat /\ WatchdogTime \in Nat /\ WaitTime \in Nat /\ ResultTime \in Nat
         /\ Rejections \in Nat /\ MaxLost \in Nat
         /\ left \in Nat /\ iwdg \in Nat /\ clock \in Nat /\ rejects \in Nat /\ lost \in Nat
         /\ power \in Nat /\ broken \in Nat /\ lost <= MaxLost
         /\ 2 * SwapTime + WatchdogTime + MaxLost < WaitTime /\ MaxLost < Rejections
         /\ MaxLost + ResultTime < WatchdogTime /\ ResultTime > 0
BY HandshakeAssumption, MarginAssumption, WaitAssumption
   DEF HandshakeAssumption, MarginAssumption, WaitAssumption, HandshakeInv, TypeOK, Counts

\* What the bootloader starts on takes no longer than the client waits.
LEMMA BootOutcome ==
  ASSUME HandshakeInv, OutcomeInv, Boot
  PROVE  OutcomeInv'
<1>. USE Times
    DEF Boot, StartSlotA, Decision, facts, flash, client, faults, Calm, Unconfirmed,
        Leaves, Unanswered
<1>1. WaitInv'
  <2>. SUFFICES ASSUME Unheard' PROVE WaitInv'
    BY DEF WaitInv
  <2>1. Unheard /\ left' = SwapTime /\ task' = Decision
    BY DEF Unheard
  <2>2. CASE pending
    <3>1. ecu' = "busy" /\ task' \in {"install", "reject"} /\ Leaves(2 * SwapTime + WatchdogTime)
      BY <2>1, <2>2 DEF OutcomeInv, WaitInv
    <3>. QED
      BY <2>1, <3>1 DEF WaitInv
  <2>3. CASE ~pending
    <3>1. Unconfirmed /\ kind = "TEST" /\ slotB = "old" /\ Leaves(SwapTime)
      BY <2>1, <2>3 DEF OutcomeInv, WaitInv, KeptInv, Unheard
    <3>2. ecu' = "busy" /\ task' = "revert"
      BY <2>1, <2>3, <3>1
    <3>. QED
      BY <2>1, <3>1, <3>2 DEF WaitInv
  <2>. QED
    BY <2>2, <2>3
<1>2. KeptInv'
  BY DEF HandshakeInv, TypeOK, Flags, Facts, OutcomeInv, KeptInv, WaitInv, WaitCovers,
         Unheard, FlashInv, ListenInv, ConfirmInv, RejectInv, Original
<1>3. WaitCovers'
  BY DEF HandshakeInv, TypeOK, OutcomeInv, WaitCovers, WaitInv, Unheard, ListenInv,
         ConfirmInv
<1>. QED
  BY <1>1, <1>2, <1>3 DEF OutcomeInv

\* An installed or reverted image is awaited; only a failed revert is deleted.
LEMMA FinishOutcome ==
  ASSUME HandshakeInv, OutcomeInv, Finish
  PROVE  OutcomeInv'
<1>. USE Times
    DEF Finish, Install, Revert, Reject, Delete, StartTrial, IwdgStart, facts, client,
        faults, Calm, Unconfirmed, Leaves, Unanswered
<1>1. WaitInv'
  <2>. SUFFICES ASSUME Unheard' PROVE WaitInv'
    BY DEF WaitInv
  <2>1. Unheard
    BY DEF Unheard
  <2>2. CASE Install
    <3>1. Leaves(WatchdogTime + SwapTime) /\ ecu' \in {"trial", "hung"} /\ iwdg' = WatchdogTime
      BY <2>1, <2>2 DEF OutcomeInv, WaitInv
    <3>2. sent' = FALSE /\ clock' = clock /\ lost' = lost
      BY <2>2
    <3>. QED
      BY <3>1, <3>2 DEF WaitInv
  <2>3. CASE Revert
    <3>1. Leaves(0) /\ ecu' = "trial" /\ sent' = FALSE
      BY <2>1, <2>3 DEF OutcomeInv, WaitInv
    <3>. QED
      BY <3>1 DEF WaitInv
  <2>4. CASE Reject
    <3>1. Leaves(0) /\ ecu' = "rejecting" /\ rejects' = Rejections
      BY <2>1, <2>4 DEF OutcomeInv, WaitInv
    <3>. QED
      BY <3>1 DEF WaitInv
  <2>5. ~Delete
    BY <2>1 DEF OutcomeInv, WaitInv
  <2>. QED
    BY <2>2, <2>3, <2>4, <2>5
<1>2. KeptInv'
  BY DEF HandshakeInv, TypeOK, Flags, Facts, OutcomeInv, KeptInv, WaitInv, WaitCovers,
         Unheard, FlashInv, ListenInv, ConfirmInv, RejectInv, Original
<1>3. WaitCovers'
  BY DEF HandshakeInv, TypeOK, OutcomeInv, WaitCovers, WaitInv, Unheard, ListenInv,
         ConfirmInv
<1>. QED
  BY <1>1, <1>2, <1>3 DEF OutcomeInv

\* More rejections are sent than can be lost.
LEMMA SendRejectionOutcome ==
  ASSUME HandshakeInv, OutcomeInv, SendRejection
  PROVE  OutcomeInv'
<1>. USE Times
    DEF SendRejection, StartSlotA, facts, flash, client, Calm, Unconfirmed, Leaves,
        Unanswered
<1>0. rejects > 0 => lost' \in {lost, lost + 1} /\ (toClient' = <<>> => lost' = lost + 1)
  BY Sends DEF HandshakeInv, Status
<1>1. WaitInv'
  <2>. SUFFICES ASSUME Unheard' PROVE WaitInv'
    BY DEF WaitInv
  <2>1. CASE rejects > 0
    <3>1. lost' = lost + 1 /\ rejects' = rejects - 1 /\ ecu' = "rejecting" /\ clock' = clock
      BY <1>0, <2>1 DEF Unheard
    <3>2. Unheard
      BY <2>1, <3>1 DEF Unheard, ToClient, HandshakeInv, TypeOK, Channel
    <3>. QED
      BY <3>1, <3>2 DEF OutcomeInv, WaitInv
  <2>2. CASE ~(rejects > 0)
    <3>1. Unheard
      BY <2>2 DEF Unheard
    <3>. QED
      BY <2>2, <3>1 DEF OutcomeInv, WaitInv
  <2>. QED
    BY <2>1, <2>2
<1>2. KeptInv'
  BY <1>0
  DEF HandshakeInv, TypeOK, Flags, Facts, OutcomeInv, KeptInv, WaitInv, WaitCovers,
      Unheard, FlashInv, ListenInv, ConfirmInv, RejectInv, Original
<1>3. WaitCovers'
  BY <1>0
  DEF HandshakeInv, TypeOK, OutcomeInv, WaitCovers, WaitInv, Unheard, ListenInv,
      ConfirmInv
<1>. QED
  BY <1>1, <1>2, <1>3 DEF OutcomeInv

\* A rejection that can not be sent is a fault.
LEMMA CannotRejectOutcome ==
  ASSUME HandshakeInv, OutcomeInv, CannotReject
  PROVE  OutcomeInv'
<1>1. power' + broken' > 0
  BY Times DEF CannotReject
<1>. QED
  BY <1>1 DEF OutcomeInv, WaitInv, KeptInv, WaitCovers, Unheard, Calm

\* A WAITING is received or lost.
LEMMA SendWaitingOutcome ==
  ASSUME HandshakeInv, OutcomeInv, SendWaiting
  PROVE  OutcomeInv'
<1>. USE Times
    DEF SendWaiting, facts, flash, client, Calm, Unconfirmed, Leaves, Unanswered
<1>0. lost' \in {lost, lost + 1} /\ (toClient' = <<>> => lost' = lost + 1)
  BY Sends DEF HandshakeInv, Status
<1>1. WaitInv'
  <2>. SUFFICES ASSUME Unheard' PROVE WaitInv'
    BY DEF WaitInv
  <2>1. lost' = lost + 1 /\ clock' = clock /\ ecu' = "trial"
    BY <1>0 DEF Unheard
  <2>2. Unheard
    BY <2>1 DEF Unheard, ToClient, HandshakeInv, TypeOK, Channel
  <2>. QED
    BY <2>1, <2>2 DEF OutcomeInv, WaitInv
<1>2. KeptInv'
  <2>1. lost' \in Nat /\ lost' >= lost
    BY <1>0
  <2>. QED
    BY <2>1 DEF OutcomeInv, KeptInv, HandshakeInv, TypeOK, Flags
<1>3. WaitCovers'
  BY <1>0
  DEF HandshakeInv, TypeOK, OutcomeInv, WaitCovers, WaitInv, Unheard, ListenInv,
      ConfirmInv
<1>. QED
  BY <1>1, <1>2, <1>3 DEF OutcomeInv

\* A confirm is stored, or a fault.
LEMMA WriteImageOkOutcome ==
  ASSUME HandshakeInv, OutcomeInv, WriteImageOk
  PROVE  OutcomeInv'
<1>. USE Times DEF WriteImageOk, facts, client, Calm, Unconfirmed, Leaves, Unanswered
<1>1. WaitInv'
  BY DEF HandshakeInv, TypeOK, Flags, OutcomeInv, WaitInv, KeptInv, Unheard, FlashInv,
         ListenInv, RejectInv, Original
<1>2. KeptInv'
  BY DEF HandshakeInv, TypeOK, Flags, Facts, OutcomeInv, KeptInv, WaitInv, WaitCovers,
         Unheard, FlashInv, ListenInv, ConfirmInv, RejectInv, Original
<1>3. WaitCovers'
  BY DEF HandshakeInv, TypeOK, OutcomeInv, WaitCovers, WaitInv, Unheard, ListenInv,
         ConfirmInv
<1>. QED
  BY <1>1, <1>2, <1>3 DEF OutcomeInv

\* The client is no longer listening when a result is sent.
LEMMA SendResultOutcome ==
  ASSUME HandshakeInv, OutcomeInv, SendResult
  PROVE  OutcomeInv'
<1>. USE Times
    DEF SendResult, facts, flash, client, Calm, Unconfirmed, Leaves, Unanswered
<1>0. lost' \in {lost, lost + 1} /\ (toClient' = <<>> => lost' = lost + 1)
  BY Sends DEF HandshakeInv, Status
<1>1. WaitInv'
  BY <1>0
  DEF HandshakeInv, TypeOK, Flags, OutcomeInv, WaitInv, KeptInv, Unheard, FlashInv,
      ListenInv, RejectInv, Original
<1>2. KeptInv'
  BY <1>0
  DEF HandshakeInv, TypeOK, Flags, Facts, OutcomeInv, KeptInv, WaitInv, WaitCovers,
      Unheard, FlashInv, ListenInv, ConfirmInv, RejectInv, Original
<1>3. WaitCovers'
  BY <1>0
  DEF HandshakeInv, TypeOK, OutcomeInv, WaitCovers, WaitInv, Unheard, ListenInv,
      ConfirmInv
<1>. QED
  BY <1>1, <1>2, <1>3 DEF OutcomeInv

\* An image that hangs is reverted in time.
LEMMA WatchdogFiresOutcome ==
  ASSUME HandshakeInv, OutcomeInv, WatchdogFires
  PROVE  OutcomeInv'
<1>. USE Times
    DEF WatchdogFires, facts, flash, client, faults, Calm, Unconfirmed, Leaves,
        Unanswered
<1>1. WaitInv'
  <2>. SUFFICES ASSUME Unheard' PROVE WaitInv'
    BY DEF WaitInv
  <2>1. Unheard
    BY DEF Unheard
  <2>2. ecu = "hung"
    BY <2>1 DEF Unheard, HandshakeInv, ListenInv
  <2>3. kind = "TEST" /\ imageOk = "erased" /\ ~pending
    BY <2>1, <2>2 DEF Unheard, OutcomeInv, KeptInv, HandshakeInv, FlashInv
  <2>. QED
    BY <2>1, <2>2, <2>3 DEF OutcomeInv, WaitInv
<1>2. KeptInv'
  BY DEF HandshakeInv, TypeOK, Flags, Facts, OutcomeInv, KeptInv, WaitInv, WaitCovers,
         Unheard, FlashInv, ListenInv, ConfirmInv, RejectInv, Original
<1>3. WaitCovers'
  BY DEF HandshakeInv, TypeOK, OutcomeInv, WaitCovers, WaitInv, Unheard, ListenInv,
         ConfirmInv
<1>. QED
  BY <1>1, <1>2, <1>3 DEF OutcomeInv

\* A power loss is a fault.
LEMMA PowerLossOutcome ==
  ASSUME HandshakeInv, OutcomeInv, PowerLoss
  PROVE  OutcomeInv'
<1>1. power' + broken' > 0
  BY Times DEF PowerLoss
<1>. QED
  BY <1>1 DEF OutcomeInv, WaitInv, KeptInv, WaitCovers, Unheard, Calm

\* The client reads a frame, and asks an image on trial for ResultTime.
LEMMA ListenOutcome ==
  ASSUME HandshakeInv, OutcomeInv, Listen
  PROVE  OutcomeInv'
<1>. USE Times
    DEF Listen, Report, ResultDeadline, facts, flash, device, client, faults, Calm,
        Unconfirmed, Leaves, Unanswered
<1>0. toClient # <<>> /\ Told(Head(toClient)) /\ Head(toClient) \in Frame
  BY Reads DEF HandshakeInv, ChannelInv
<1>1. WaitInv'
  BY <1>0
  DEF Told, Frame, Status, HandshakeInv, TypeOK, Flags, OutcomeInv, WaitInv, KeptInv,
      Unheard, FlashInv, ListenInv, RejectInv, Original
<1>2. KeptInv'
  BY <1>0
  DEF Told, Frame, Status, HandshakeInv, TypeOK, Flags, Facts, OutcomeInv, KeptInv,
      WaitInv, WaitCovers, Unheard, FlashInv, ListenInv, ConfirmInv, RejectInv, Original
<1>3. WaitCovers'
  BY <1>0
  DEF Told, Frame, Status, HandshakeInv, TypeOK, OutcomeInv, WaitCovers, WaitInv,
      Unheard, ListenInv, ConfirmInv
<1>. QED
  BY <1>1, <1>2, <1>3 DEF OutcomeInv

\* The client does not give up while the ECU will still send a frame.
LEMMA NoHandshakeOutcome ==
  ASSUME HandshakeInv, OutcomeInv, NoHandshake
  PROVE  OutcomeInv'
<1>. USE Times
    DEF NoHandshake, Report, facts, flash, device, faults, Calm, Unconfirmed, Leaves,
        Unanswered
<1>1. WaitInv'
  BY DEF HandshakeInv, TypeOK, Flags, OutcomeInv, WaitInv, KeptInv, Unheard, FlashInv,
         ListenInv, RejectInv, Original
<1>2. KeptInv'
  BY DEF HandshakeInv, TypeOK, Flags, Facts, OutcomeInv, KeptInv, WaitInv, WaitCovers,
         Unheard, FlashInv, ListenInv, ConfirmInv, RejectInv, Original
<1>3. WaitCovers'
  BY DEF HandshakeInv, TypeOK, OutcomeInv, WaitCovers, WaitInv, Unheard, ListenInv,
         ConfirmInv
<1>. QED
  BY <1>1, <1>2, <1>3 DEF OutcomeInv

\* A confirm reaches an image on trial or is lost, one loss a second.
LEMMA SendConfirmOutcome ==
  ASSUME HandshakeInv, OutcomeInv, SendConfirm
  PROVE  OutcomeInv'
<1>. USE Times
    DEF SendConfirm, facts, flash, device, Calm, Unconfirmed, Leaves, Unanswered
<1>1. WaitInv'
  BY DEF HandshakeInv, TypeOK, Flags, OutcomeInv, WaitInv, KeptInv, Unheard, FlashInv,
         ListenInv, RejectInv, Original
<1>2. KeptInv'
  <2>. SUFFICES ASSUME hadOld, Calm PROVE KeptInv'
    BY DEF KeptInv
  <2>1. /\ lost' \in Nat /\ lost' >= lost /\ asked' = TRUE /\ clock' = clock
        /\ toEcu' = (toEcu \/ ecu = "trial") \/ lost' = lost + 1
    OBVIOUS
  <2>2. imageOk = "set" \/ ecu = "trial"
    BY DEF HandshakeInv, ConfirmInv
  <2>3. (phase = "confirm" /\ imageOk # "set" =>
           toEcu \/ lost + clock >= ResultTime + (IF asked THEN 1 ELSE 0))'
    <3>. SUFFICES ASSUME phase = "confirm", imageOk # "set", ~toEcu'
                  PROVE  lost' + clock' >= ResultTime + 1
      BY <2>1
    <3>1. toEcu' = toEcu \/ toEcu' = (toEcu \/ ecu = "trial")
      BY Zenon DEF SendConfirm
    <3>. HIDE DEF SendConfirm
    <3>2. ~(toEcu' = (toEcu \/ ecu = "trial"))
      BY <2>2, Zenon
    <3>3. lost' = lost + 1 /\ clock' = clock /\ ~toEcu
      BY <2>1, <3>1, <3>2
    <3>4. lost + clock >= ResultTime
      BY <3>3 DEF OutcomeInv, KeptInv
    <3>. QED
      BY <3>3, <3>4
  <2>. QED
    BY <2>1, <2>3 DEF OutcomeInv, KeptInv
<1>3. WaitCovers'
  BY DEF HandshakeInv, TypeOK, OutcomeInv, WaitCovers, WaitInv, Unheard, ListenInv,
         ConfirmInv
<1>. QED
  BY <1>1, <1>2, <1>3 DEF OutcomeInv

\* A result read in calm times comes from a confirmed image.
LEMMA HearResultOutcome ==
  ASSUME HandshakeInv, OutcomeInv, HearResult
  PROVE  OutcomeInv'
<1>. USE Times
    DEF HearResult, Report, Reverted, facts, flash, device, client, faults, Calm,
        Unconfirmed, Leaves, Unanswered
<1>0. toClient # <<>> /\ Told(Head(toClient)) /\ Head(toClient) \in Frame
  BY Reads DEF HandshakeInv, ChannelInv
<1>1. WaitInv'
  BY <1>0
  DEF Told, Frame, Status, HandshakeInv, TypeOK, Flags, OutcomeInv, WaitInv, KeptInv,
      Unheard, FlashInv, ListenInv, RejectInv, Original
<1>2. KeptInv'
  BY <1>0
  DEF Told, Frame, Status, HandshakeInv, TypeOK, Flags, Facts, OutcomeInv, KeptInv,
      WaitInv, WaitCovers, Unheard, FlashInv, ListenInv, ConfirmInv, RejectInv, Original
<1>3. WaitCovers'
  BY <1>0
  DEF Told, Frame, Status, HandshakeInv, TypeOK, OutcomeInv, WaitCovers, WaitInv,
      Unheard, ListenInv, ConfirmInv
<1>. QED
  BY <1>1, <1>2, <1>3 DEF OutcomeInv

\* A client nobody answers has lost a confirm in each second.
LEMMA NeverAnsweredOutcome ==
  ASSUME HandshakeInv, OutcomeInv, NeverAnswered
  PROVE  OutcomeInv'
<1>. USE Times
    DEF NeverAnswered, Report, facts, flash, device, faults, Calm, Unconfirmed, Leaves,
        Unanswered
<1>1. WaitInv'
  BY DEF HandshakeInv, TypeOK, Flags, OutcomeInv, WaitInv, KeptInv, Unheard, FlashInv,
         ListenInv, RejectInv, Original
<1>2. KeptInv'
  BY DEF HandshakeInv, TypeOK, Flags, Facts, OutcomeInv, KeptInv, WaitInv, WaitCovers,
         Unheard, FlashInv, ListenInv, ConfirmInv, RejectInv, Original
<1>3. WaitCovers'
  BY DEF HandshakeInv, TypeOK, OutcomeInv, WaitCovers, WaitInv, Unheard, ListenInv,
         ConfirmInv
<1>. QED
  BY <1>1, <1>2, <1>3 DEF OutcomeInv

\* Every second that passes was counted.
LEMMA TickOutcome ==
  ASSUME HandshakeInv, OutcomeInv, Tick
  PROVE  OutcomeInv'
<1>. USE Times DEF Tick, facts, flash, faults, Calm, Unconfirmed, Leaves, Unanswered
<1>1. WaitInv'
  <2>. SUFFICES ASSUME Unheard' PROVE WaitInv'
    BY DEF WaitInv
  <2>1. Unheard /\ clock' = clock - 1 /\ lost' = lost
    BY DEF Unheard
  <2>2. ecu \in {"busy", "trial", "hung"}
    BY <2>1 DEF OutcomeInv, WaitInv
  <2>3. CASE ecu = "busy"
    <3>1. left' = left - 1 /\ left > 0 /\ task \in {"install", "reject", "revert"}
      BY <2>1, <2>3 DEF OutcomeInv, WaitInv
    <3>2. task = "install" => Leaves(left + WatchdogTime + SwapTime)
      BY <2>1, <2>3 DEF OutcomeInv, WaitInv
    <3>3. task \in {"reject", "revert"} => Leaves(left)
      BY <2>1, <2>3 DEF OutcomeInv, WaitInv
    <3>4. ecu' = "busy" /\ task' = task
      BY <2>3
    <3>. HIDE DEF Tick
    <3>5. task = "install" => Leaves(left + WatchdogTime + SwapTime)'
      BY <2>1, <3>1, <3>2
    <3>6. task \in {"reject", "revert"} => Leaves(left)'
      BY <2>1, <3>1, <3>3
    <3>7. Leaves(0)'
      BY <2>1, <3>1, <3>2, <3>3
    <3>. QED
      BY <3>1, <3>4, <3>5, <3>6, <3>7 DEF WaitInv
  <2>4. CASE ecu = "trial"
    <3>1. Leaves(1) /\ sent' = FALSE
      BY <2>1, <2>4 DEF OutcomeInv, WaitInv
    <3>2. ecu' = "trial"
      BY <2>4
    <3>. HIDE DEF Tick
    <3>3. Leaves(0)'
      BY <2>1, <3>1
    <3>. QED
      BY <3>1, <3>2, <3>3 DEF WaitInv
  <2>5. CASE ecu = "hung"
    <3>1. Leaves(iwdg + SwapTime) /\ iwdg' = iwdg - 1 /\ iwdg > 0
      BY <2>1, <2>5 DEF OutcomeInv, WaitInv
    <3>2. ecu' = "hung"
      BY <2>5
    <3>. HIDE DEF Tick
    <3>3. Leaves(0)' /\ Leaves(iwdg + SwapTime)'
      BY <2>1, <3>1
    <3>. QED
      BY <3>2, <3>3 DEF WaitInv
  <2>. QED
    BY <2>2, <2>3, <2>4, <2>5
<1>2. KeptInv'
  <2>. SUFFICES ASSUME hadOld, Calm PROVE KeptInv'
    BY DEF KeptInv
  <2>1. lost' = lost /\ (ecu = "trial" => ~toEcu)
    OBVIOUS
  <2>2. (phase = "confirm" /\ imageOk # "set" =>
           toEcu \/ lost + clock >= ResultTime + (IF asked THEN 1 ELSE 0))'
    <3>. SUFFICES ASSUME phase = "confirm", imageOk # "set" PROVE lost + clock' >= ResultTime
      OBVIOUS
    <3>1. ~toEcu /\ asked /\ clock' = clock - 1
      BY DEF HandshakeInv, ConfirmInv
    <3>2. lost + clock >= ResultTime + 1
      BY <3>1 DEF OutcomeInv, KeptInv
    <3>. HIDE DEF Tick
    <3>. QED
      BY <3>1, <3>2
  <2>. QED
    BY <2>1, <2>2 DEF OutcomeInv, KeptInv
<1>3. WaitCovers'
  BY DEF HandshakeInv, TypeOK, OutcomeInv, WaitCovers, WaitInv, Unheard, ListenInv,
         ConfirmInv
<1>. QED
  BY <1>1, <1>2, <1>3 DEF OutcomeInv

\* The client has just begun to listen to a bootloader with an update to install.
LEMMA InitOutcome ==
  ASSUME Init
  PROVE  OutcomeInv
<1>1. HandshakeInv
  BY InitHolds
<1>2. clock = WaitTime /\ lost = 0 /\ ecu = "boot" /\ pending /\ report = "none"
  BY DEF Init
<1>3. Leaves(0) /\ Leaves(2 * SwapTime + WatchdogTime)
  BY <1>1, <1>2, Times DEF Leaves
<1>4. WaitInv
  BY <1>2, <1>3 DEF WaitInv
<1>5. KeptInv
  BY DEF Init, KeptInv, Original, Unconfirmed
<1>. QED
  BY <1>2, <1>4, <1>5 DEF OutcomeInv, WaitCovers

\* No step breaks it.
LEMMA NextOutcome ==
  ASSUME HandshakeInv, OutcomeInv, [Next]_vars
  PROVE  OutcomeInv'
<1>1. CASE UNCHANGED vars
  BY <1>1 DEF vars, facts, flash, device, client, faults, OutcomeInv, WaitInv, KeptInv,
       WaitCovers, Unheard, Calm, Leaves, Unanswered, Unconfirmed
<1>2. CASE Next
  BY <1>2, BootOutcome, FinishOutcome, SendRejectionOutcome, CannotRejectOutcome,
     SendWaitingOutcome, WriteImageOkOutcome, SendResultOutcome, WatchdogFiresOutcome,
     PowerLossOutcome, ListenOutcome, NoHandshakeOutcome, SendConfirmOutcome,
     HearResultOutcome, NeverAnsweredOutcome, TickOutcome
  DEF Next
<1>. QED
  BY <1>1, <1>2

\* OutcomeInv is inductive relative to HandshakeInv.
THEOREM OutcomeInvariance == Spec => [](HandshakeInv /\ OutcomeInv)
<1>1. Init => OutcomeInv
  BY InitOutcome
<1>2. HandshakeInv /\ OutcomeInv /\ [Next]_vars => OutcomeInv'
  BY NextOutcome
<1>. QED
  BY <1>1, <1>2, Invariance, PTL DEF Spec

\* HANDSHAKE_WAIT_S is enough: with an image to revert to, a client that hears of
\* no outcome has met a power loss or a failing flash, not just a new image that
\* hangs and frames that are lost.
THEOREM WaitIsEnough == Spec => []WaitCovers
<1>1. OutcomeInv => WaitCovers
  BY DEF OutcomeInv
<1>. QED
  BY <1>1, OutcomeInvariance, PTL

\* The bootloader deletes the last image only after the power or the flash failed,
\* or a confirm was lost in every second that the client asks.
THEOREM OldImageKept == Spec => []LastResort
<1>1. HandshakeInv /\ OutcomeInv => LastResort
  BY DEF HandshakeInv, OutcomeInv, KeptInv, TypeOK, Counts, Facts, LastResort, Calm,
         Unanswered
<1>. QED
  BY <1>1, OutcomeInvariance, PTL

=============================================================================
