------------------------------ MODULE Download ------------------------------
(***************************************************************************)
(* The download services of the UDS server                                 *)
(* (boot_core/Src/uds/srv_download.c) on top of the flash writer, whose    *)
(* part here is only whether a write session is open and what it was given.*)
(*                                                                         *)
(* A handler is an operator that relates the state before and after with   *)
(* the answer r: "positive", the negative response code, or "silent" when  *)
(* the CAN driver could not send the 0x78 (response pending) and the       *)
(* handler gave up there.  Who calls the handlers, and what becomes of the *)
(* answers, is left to the modules that extend this one.                    *)
(***************************************************************************)
EXTENDS Integers, Sequences

CONSTANTS
    Data,         \* what a unit of data may be
    Capacity,     \* FW_ACTUAL_SIZE_BYTES, in units of data
    MaxBlock,     \* CFG_UDS_x36_MAX_BLOCK_LEN - 2, in the same units
    SeqMod        \* 256: the values of the uint8_t block counter

ASSUME DownloadAssumption ==
    /\ Capacity \in Nat \ {0} /\ MaxBlock \in Nat \ {0}
    /\ SeqMod \in Nat /\ SeqMod >= 2
    /\ Data # {}

VARIABLES
    dlState,       \* curr_state
    left,          \* num_bytes_to_download
    seqCounter,    \* expected_seq_counter
    accepted,      \* block_accepted
    writing,       \* session_active of the flash writer
    magicB,        \* the trailer magic of slot B: an update is pending
    stream,        \* history: what was written to slot B since the last begin
    flushed,       \* history: all of stream is in flash, carry buffer included
    announced      \* history: the size of the download that stream belongs to

dlVars == <<dlState, left, seqCounter, accepted, writing, magicB, stream, flushed, announced>>

SuccNoWrap(n) == n + 1                 \* mutant
Succ(n) == (n + 1) % SeqMod

\* reset_programming
ResetProgramming ==
    /\ dlState' = "idle"
    /\ left' = 0
    /\ seqCounter' = 1
    /\ accepted' = FALSE
    /\ writing' = (writing /\ dlState = "idle")

Refuse(nrc, r) == r = nrc /\ UNCHANGED dlVars

UnmarkForgotten == UNCHANGED magicB    \* mutant
\* erase_trailer(SLOT_B)
Unmark == magicB' = FALSE

\* 0x34.  A request too short to have a format is refused before anything is
\* cancelled; any other one cancels first.  size is the decoded memorySize,
\* 0 standing for every malformed one.
RequestDownload(unlocked, short, size, r) ==
    \/ short /\ Refuse("0x13", r)
    \/ ~short /\ ~unlocked /\ Refuse("0x33", r)
    \/ /\ ~short /\ unlocked /\ size \notin 1 .. Capacity
       /\ r \in {"0x13", "0x31"}
       /\ ResetProgramming /\ UNCHANGED <<magicB, stream, flushed, announced>>
    \/ /\ ~short /\ unlocked /\ size \in 1 .. Capacity
       /\ \/ \* 0x78 not sent, or the trailer of slot B could not be erased
             /\ r \in {"silent", "0x72"}
             /\ ResetProgramming /\ UNCHANGED <<magicB, stream, flushed, announced>>
          \/ \* sr_flash_writer_begin failed on the first page
             /\ r = "0x72"
             /\ ResetProgramming
             /\ Unmark
             /\ stream' = <<>> /\ flushed' = FALSE /\ announced' = 0
          \/ /\ r = "positive"
             /\ dlState' = "inProgress" /\ left' = size
             /\ seqCounter' = 1 /\ accepted' = FALSE
             /\ writing' = TRUE
             /\ Unmark
             /\ stream' = <<>> /\ flushed' = FALSE /\ announced' = size

RepeatedNever(n) == FALSE              \* mutant
\* A block that was accepted and comes again is acknowledged again.
Repeated(n) == accepted /\ Succ(n) = seqCounter

\* Mutant: blocks are not numbered.
TransferDataUnnumbered(n, block, r) ==
    \/ (left < Len(block) \/ dlState = "idle") /\ Refuse("0x24", r)
    \/ /\ Len(block) <= left /\ dlState # "idle" /\ writing /\ r = "positive"
       /\ left' = left - Len(block) /\ seqCounter' = Succ(n) /\ accepted' = TRUE
       /\ stream' = stream \o block
       /\ UNCHANGED <<dlState, writing, magicB, flushed, announced>>

\* 0x36 with block counter n.
TransferData(n, block, r) ==
    \/ Len(block) \notin 1 .. MaxBlock /\ Refuse("0x13", r)
    \/ /\ Len(block) \in 1 .. MaxBlock
       /\ \/ dlState = "idle" /\ Refuse("0x24", r)
          \/ dlState # "idle" /\ Repeated(n) /\ Refuse("positive", r)
          \/ /\ dlState # "idle" /\ ~Repeated(n)
             /\ \/ left = 0 /\ Refuse("0x24", r)
                \/ left > 0 /\ Len(block) > left /\ Refuse("0x71", r)
                \/ Len(block) <= left /\ n # seqCounter /\ Refuse("0x73", r)
                \/ /\ Len(block) <= left /\ n = seqCounter
                   /\ \/ Refuse("silent", r)
                      \/ \* half written: the download is given up
                         /\ r = "0x72"
                         /\ ResetProgramming
                         /\ UNCHANGED <<magicB, stream, flushed, announced>>
                      \/ /\ r = "positive"
                         /\ writing
                         /\ left' = left - Len(block)
                         /\ seqCounter' = Succ(seqCounter)
                         /\ accepted' = TRUE
                         /\ stream' = stream \o block
                         /\ UNCHANGED <<dlState, writing, magicB, flushed, announced>>

AllReceivedUnchecked == dlState # "idle"            \* mutant
AllReceived == left = 0 /\ dlState # "idle"

\* 0x37.  A failure leaves the state as it is, but the write session closed.
TransferExit(r) ==
    \/ ~AllReceived /\ Refuse("0x24", r)
    \/ /\ AllReceived
       /\ \/ /\ r = "0x72"
             /\ writing' = FALSE
             /\ flushed' \in {flushed, flushed \/ writing}
             /\ UNCHANGED <<dlState, left, seqCounter, accepted, magicB, stream, announced>>
          \/ /\ r = "positive"
             /\ writing
             /\ writing' = FALSE
             /\ flushed' = TRUE
             /\ magicB' = TRUE
             /\ dlState' = "idle" /\ seqCounter' = 1 /\ accepted' = FALSE
             /\ UNCHANGED <<left, stream, announced>>

DownloadInit ==
    /\ dlState = "idle" /\ left = 0 /\ seqCounter = 1 /\ accepted = FALSE
    /\ writing = FALSE /\ magicB = FALSE
    /\ stream = <<>> /\ flushed = FALSE /\ announced = 0

\* A reset clears the RAM and leaves slot B as it is.
DownloadRestart ==
    /\ dlState' = "idle" /\ left' = 0 /\ seqCounter' = 1 /\ accepted' = FALSE
    /\ writing' = FALSE
    /\ UNCHANGED <<magicB, stream, flushed, announced>>

DownloadTypeOK ==
    /\ dlState \in {"idle", "inProgress"}
    /\ left \in 0 .. Capacity
    /\ seqCounter \in 0 .. SeqMod - 1
    /\ accepted \in BOOLEAN /\ writing \in BOOLEAN
    /\ magicB \in BOOLEAN /\ flushed \in BOOLEAN
    /\ announced \in 0 .. Capacity
    /\ stream \in Seq(Data) /\ Len(stream) <= Capacity

\* Between the two services and the writer nothing is lost or counted twice:
\* what is still to come and what was written add up to what was announced,
\* and the write session of a download is open until 0x37 closes it.
Accounting ==
    /\ dlState = "inProgress" => Len(stream) + left = announced /\ (left > 0 => writing)
    /\ dlState = "idle" => left = 0 /\ ~writing
    /\ accepted => dlState = "inProgress" /\ stream # <<>>

\* Slot B is only marked as a pending update while it holds, flushed, exactly
\* as much data as was announced.
MarkedComplete == magicB => flushed /\ Len(stream) = announced /\ announced > 0

\* What makes these two inductive: a download in progress has its slot unmarked.
DownloadInv ==
    /\ DownloadTypeOK /\ Accounting /\ MarkedComplete
    /\ dlState = "inProgress" => ~magicB /\ announced > 0
=============================================================================
