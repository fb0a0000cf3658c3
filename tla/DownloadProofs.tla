--------------------------- MODULE DownloadProofs ---------------------------
(***************************************************************************)
(* The handlers of 0x34, 0x36 and 0x37 keep DownloadInv, whoever calls     *)
(* them and in whatever order.                                             *)
(***************************************************************************)
EXTENDS Download, SequenceTheorems, TLAPS

history == <<magicB, stream, flushed, announced>>

\* The block counter stays in the range of uint8_t.
LEMMA SuccInRange ==
    ASSUME NEW n \in Nat
    PROVE  Succ(n) \in 0 .. SeqMod - 1
BY DownloadAssumption DEF Succ

\* The values the handlers start from are in range.
LEMMA InRange ==
    /\ 1 \in 0 .. SeqMod - 1 /\ 0 \in 0 .. Capacity
    /\ <<>> \in Seq(Data) /\ Len(<<>>) = 0 /\ Len(<<>>) <= Capacity
BY DownloadAssumption

\* reset_programming, whatever becomes of slot B, as long as it stays what it
\* was or is erased.
LEMMA ResetStep ==
    ASSUME DownloadInv, ResetProgramming,
           \/ UNCHANGED history
           \/ magicB' = FALSE /\ stream' = <<>> /\ flushed' = FALSE /\ announced' = 0
    PROVE  DownloadInv'
<1>1. dlState' \in {"idle", "inProgress"} /\ left' \in 0 .. Capacity /\ seqCounter' \in 0 .. SeqMod - 1
  BY InRange DEF ResetProgramming
<1>2. accepted' \in BOOLEAN /\ writing' \in BOOLEAN
  BY DEF DownloadInv, DownloadTypeOK, ResetProgramming
<1>3. DownloadTypeOK'
  <2>1. CASE UNCHANGED history
    BY <1>1, <1>2, <2>1 DEF DownloadInv, DownloadTypeOK, history
  <2>2. CASE magicB' = FALSE /\ stream' = <<>> /\ flushed' = FALSE /\ announced' = 0
    BY <1>1, <1>2, <2>2, InRange DEF DownloadTypeOK
  <2> QED
    BY <2>1, <2>2
<1>4. Accounting'
  BY DEF DownloadInv, DownloadTypeOK, ResetProgramming, Accounting
<1>5. MarkedComplete' /\ dlState' = "idle"
  BY DEF DownloadInv, MarkedComplete, ResetProgramming, history
<1> QED
  BY <1>3, <1>4, <1>5 DEF DownloadInv

\* 0x34 keeps the accounts, and with a positive answer opens new ones.
LEMMA RequestDownloadStep ==
    ASSUME NEW unlocked, NEW short, NEW size \in Int, NEW r,
           DownloadInv, RequestDownload(unlocked, short, size, r)
    PROVE  DownloadInv' /\ (dlState' = "inProgress" => dlState = "inProgress" \/ unlocked)
<1>0. dlState' = "inProgress" => dlState = "inProgress" \/ unlocked
  BY DEF RequestDownload, Refuse, Unmark, ResetProgramming, dlVars
<1> SUFFICES DownloadInv'
  BY <1>0
<1>1. CASE UNCHANGED dlVars
  BY <1>1 DEF DownloadInv, DownloadTypeOK, Accounting, MarkedComplete, dlVars
<1>2. CASE ResetProgramming /\ UNCHANGED history
  BY <1>2, ResetStep
<1>3. CASE /\ ResetProgramming
           /\ magicB' = FALSE /\ stream' = <<>> /\ flushed' = FALSE /\ announced' = 0
  BY <1>3, ResetStep
<1>4. CASE /\ size \in 1 .. Capacity
           /\ dlState' = "inProgress" /\ left' = size
           /\ seqCounter' = 1 /\ accepted' = FALSE
           /\ writing' = TRUE
           /\ magicB' = FALSE
           /\ stream' = <<>> /\ flushed' = FALSE /\ announced' = size
  <2>1. left' \in 0 .. Capacity /\ announced' \in 0 .. Capacity /\ announced' > 0
    BY <1>4, DownloadAssumption
  <2>2. DownloadTypeOK'
    BY <1>4, <2>1, InRange DEF DownloadTypeOK
  <2> QED
    BY <1>4, <2>1, <2>2, InRange DEF DownloadInv, Accounting, MarkedComplete
<1> QED
  BY <1>1, <1>2, <1>3, <1>4 DEF RequestDownload, Refuse, Unmark, history

\* 0x36 moves exactly the length of a block from left to stream.
LEMMA TransferDataStep ==
    ASSUME NEW n \in Nat, NEW block \in Seq(Data), NEW r,
           DownloadInv, TransferData(n, block, r)
    PROVE  DownloadInv' /\ (dlState' = "inProgress" => dlState = "inProgress")
<1>0. dlState' = "inProgress" => dlState = "inProgress"
  BY DEF TransferData, Refuse, ResetProgramming, dlVars
<1> SUFFICES DownloadInv'
  BY <1>0
<1>1. CASE UNCHANGED dlVars
  BY <1>1 DEF DownloadInv, DownloadTypeOK, Accounting, MarkedComplete, dlVars
<1>2. CASE ResetProgramming /\ UNCHANGED history
  BY <1>2, ResetStep
<1>3. CASE /\ Len(block) \in 1 .. MaxBlock /\ dlState # "idle"
           /\ Len(block) <= left /\ n = seqCounter
           /\ writing
           /\ left' = left - Len(block)
           /\ seqCounter' = Succ(seqCounter)
           /\ accepted' = TRUE
           /\ stream' = stream \o block
           /\ UNCHANGED <<dlState, writing, magicB, flushed, announced>>
  <2>1. stream' \in Seq(Data) /\ Len(stream') = Len(stream) + Len(block)
    BY <1>3, ConcatProperties DEF DownloadInv, DownloadTypeOK
  <2>2. Len(stream) \in Nat /\ Len(block) \in Nat /\ Len(block) > 0
    BY <1>3, DownloadAssumption DEF DownloadInv, DownloadTypeOK
  <2>3. Len(stream) + left = announced /\ dlState = "inProgress"
    BY <1>3 DEF DownloadInv, DownloadTypeOK, Accounting
  <2>4. seqCounter' \in 0 .. SeqMod - 1
    BY <1>3, SuccInRange
  <2>5. left' \in 0 .. Capacity /\ Len(stream') + left' = announced /\ Len(stream') <= Capacity
    <3>1. left \in 0 .. Capacity /\ announced \in 0 .. Capacity /\ Capacity \in Nat
      BY DownloadAssumption DEF DownloadInv, DownloadTypeOK
    <3>2. left' = left - Len(block) /\ Len(block) <= left
      BY <1>3
    <3>3. Len(stream') = Len(stream) + Len(block)
      BY <2>1
    <3> QED
      BY <2>2, <2>3, <3>1, <3>2, <3>3
  <2>6. DownloadTypeOK'
    BY <1>3, <2>1, <2>4, <2>5 DEF DownloadInv, DownloadTypeOK
  <2>7. stream' # <<>>
    BY <2>1, <2>2
  <2> QED
    BY <1>3, <2>3, <2>5, <2>6, <2>7 DEF DownloadInv, Accounting, MarkedComplete
<1> QED
  BY <1>1, <1>2, <1>3 DEF TransferData, Refuse, history

\* 0x37 marks slot B only when nothing is left to come.
LEMMA TransferExitStep ==
    ASSUME NEW r, DownloadInv, TransferExit(r)
    PROVE  DownloadInv' /\ (dlState' = "inProgress" => dlState = "inProgress")
<1>0. dlState' = "inProgress" => dlState = "inProgress"
  BY DEF TransferExit, Refuse, dlVars
<1> SUFFICES DownloadInv'
  BY <1>0
<1>1. CASE UNCHANGED dlVars
  BY <1>1 DEF DownloadInv, DownloadTypeOK, Accounting, MarkedComplete, dlVars
<1>2. CASE /\ AllReceived
           /\ writing' = FALSE
           /\ flushed' \in {flushed, flushed \/ writing}
           /\ UNCHANGED <<dlState, left, seqCounter, accepted, magicB, stream, announced>>
  <2>1. flushed' \in BOOLEAN
    BY <1>2 DEF DownloadInv, DownloadTypeOK
  <2>2. dlState = "inProgress" /\ ~magicB /\ left = 0
    BY <1>2 DEF DownloadInv, DownloadTypeOK, AllReceived
  <2>3. DownloadTypeOK'
    BY <1>2, <2>1 DEF DownloadInv, DownloadTypeOK
  <2> QED
    BY <1>2, <2>2, <2>3 DEF DownloadInv, Accounting, MarkedComplete
<1>3. CASE /\ AllReceived
           /\ writing' = FALSE /\ flushed' = TRUE /\ magicB' = TRUE
           /\ dlState' = "idle" /\ seqCounter' = 1 /\ accepted' = FALSE
           /\ UNCHANGED <<left, stream, announced>>
  <2>1. /\ left = 0 /\ dlState = "inProgress"
        /\ Len(stream) = announced /\ announced > 0
    BY <1>3 DEF DownloadInv, DownloadTypeOK, AllReceived, Accounting
  <2>2. DownloadTypeOK'
    BY <1>3, InRange DEF DownloadInv, DownloadTypeOK
  <2> QED
    BY <1>3, <2>1, <2>2 DEF DownloadInv, Accounting, MarkedComplete
<1> QED
  BY <1>1, <1>2, <1>3 DEF TransferExit, Refuse

\* An action that leaves the download alone keeps DownloadInv.
LEMMA DownloadKept ==
    ASSUME DownloadInv, UNCHANGED dlVars
    PROVE  DownloadInv' /\ dlState' = dlState
BY DEF DownloadInv, DownloadTypeOK, Accounting, MarkedComplete, dlVars

=============================================================================
