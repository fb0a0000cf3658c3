---------------------------- MODULE FlashWriter -----------------------------
(***************************************************************************)
(* The flash writer (boot_core/Src/flash_writer.c), one action per flash   *)
(* operation, driven as the download services drive it: 0x34 begins, 0x36  *)
(* writes blocks of any length, 0x37 finishes and marks slot B.  Each flash*)
(* operation may fail, half done, and power may go at any point.           *)
(*                                                                         *)
(* Addresses count from FW_SLOT_B_UPDATE_START_ADDRESS; the page after the *)
(* last one a download may use is the trailer of slot B.  A byte is told   *)
(* apart by the download it belongs to and its place in it.                *)
(***************************************************************************)
EXTENDS Integers, Sequences

CONSTANTS
    Gran,          \* FLASH_WRITE_GRANULARITY_BYTES
    PageSize,      \* FLASH_PAGE_SIZE_BYTES
    Pages,         \* FW_ACTUAL_SIZE_PAGES
    MaxBlock       \* CFG_UDS_x36_MAX_BLOCK_LEN - 2

ASSUME WriterAssumption ==
    /\ {Gran, PageSize, Pages, MaxBlock} \subseteq Nat \ {0}
    /\ PageSize % Gran = 0

VARIABLES
    pc,            \* the flash operation that comes next
    active,        \* session_active
    next,          \* next_write_addr
    page,          \* current_page
    carry,         \* the carry buffer up to carry_len
    block,         \* the block being written
    dataIndex,     \* how much of it is programmed
    left,          \* num_bytes_to_download
    flash,
    magicB,        \* trailer magic of slot B
    gen,           \* history: which of two successive downloads this is
    size           \* history: the size it announced

vars == <<pc, active, next, page, carry, block, dataIndex, left, flash, magicB, gen, size>>
blockVars == <<block, dataIndex>>

Capacity == Pages * PageSize
Address == 0 .. Capacity + PageSize - 1
Old == <<"old">>             \* whatever was there before
Blank == <<"blank">>
Torn == <<"torn">>
Byte(i) == <<"byte", gen, i>>

PageOf(a) == a \div PageSize
Received == size - left

-----------------------------------------------------------------------------
(* The flash driver.  A page that fails to be erased and a double word that *)
(* fails to be programmed hold anything; one that was not blank is refused. *)

Fill(range, content) == [a \in Address |-> IF a \in range THEN content ELSE flash[a]]
CellsOf(p) == {a \in Address : PageOf(a) = p}
Chunk == {a \in Address : a \in next .. next + Gran - 1}
ChunkBlank == \A a \in Chunk : flash[a] = Blank

ErasesPage(p) == flash' = Fill(CellsOf(p), Blank)
FailsToErase(p) == flash' \in {flash, Fill(CellsOf(p), Torn)}

ProgramsChunk(bytes) ==
    /\ ChunkBlank
    /\ flash' = [a \in Address |-> IF a \in Chunk THEN bytes[a - next + 1] ELSE flash[a]]
FailsToProgram == flash' \in {flash, Fill(Chunk, Torn)}

-----------------------------------------------------------------------------

\* sr_flash_writer_abort, and the end of the download that follows every
\* failure of a write.
GiveUp ==
    /\ active' = FALSE /\ carry' = <<>>
    /\ block' = <<>> /\ dataIndex' = 0
    /\ left' = 0
    /\ pc' = "ready"

\* reset_programming, for a session that ends or a 0x34 that gets no further.
Abort ==
    /\ pc = "ready" /\ GiveUp
    /\ UNCHANGED <<next, page, flash, magicB, gen, size>>

\* 0x34 gives up the download in progress and erases the trailer of slot B.
Start ==
    /\ pc = "ready" /\ pc' = "begin"
    /\ active' = FALSE /\ carry' = <<>>
    /\ magicB' = FALSE
    /\ gen' = 1 - gen
    /\ size' \in 1 .. Capacity /\ left' = size'
    /\ UNCHANGED <<next, page, blockVars, flash>>

\* sr_flash_writer_begin
Begin ==
    /\ pc = "begin"
    /\ \/ /\ ErasesPage(0)
          /\ next' = 0 /\ page' = 0
          /\ active' = TRUE /\ carry' = <<>>
          /\ pc' = "ready"
          /\ UNCHANGED <<blockVars, left>>
       \/ FailsToErase(0) /\ GiveUp /\ UNCHANGED <<next, page>>
    /\ UNCHANGED <<magicB, gen, size>>

\* 0x36 hands a block to sr_flash_writer_write.
Write ==
    /\ pc = "ready" /\ active /\ pc' = "erase"
    /\ \E n \in 1 .. MaxBlock :
         /\ n <= left
         /\ block' = [i \in 1 .. n |-> Byte(Received + i)]
    /\ UNCHANGED <<active, next, page, carry, dataIndex, left, flash, magicB, gen, size>>

\* Mutants: the carried bytes are not counted, the last byte is one too far.
EndPageNoCarry == PageOf(next + Len(block) - 1)
EndPageInclusive == PageOf(next + Len(carry) + Len(block))
\* The page of the last byte: what erase_up_to erases up to.
EndPage == PageOf(next + Len(carry) + Len(block) - 1)

\* One round of erase_up_to; the position moves on before the erasure.
EraseNext ==
    /\ pc = "erase" /\ page # EndPage
    /\ page' = page + 1
    /\ \/ ErasesPage(page') /\ UNCHANGED <<active, carry, blockVars, left, pc>>
       \/ FailsToErase(page') /\ GiveUp
    /\ UNCHANGED <<next, magicB, gen, size>>

EraseDone ==
    /\ pc = "erase" /\ page = EndPage /\ pc' = "write"
    /\ UNCHANGED <<active, next, page, carry, blockVars, left, flash, magicB, gen, size>>

\* What is in RAM, in the order in which it goes to flash.
Held == carry \o SubSeq(block, dataIndex + 1, Len(block))

FullChunkLate == Len(Held) > Gran                      \* mutant
FullChunk == Len(Held) >= Gran

CarryKept == UNCHANGED carry                           \* mutant
\* carry_len = 0 once the carried bytes are part of a chunk
CarryUsed == carry' = <<>>

ProgramChunk ==
    /\ pc = "write" /\ FullChunk
    /\ \/ /\ ProgramsChunk(SubSeq(Held, 1, Gran))
          /\ next' = next + Gran
          /\ dataIndex' = dataIndex + Gran - Len(carry)
          /\ CarryUsed
          /\ UNCHANGED <<active, block, left, pc>>
       \/ FailsToProgram /\ GiveUp /\ UNCHANGED next
    /\ UNCHANGED <<page, magicB, gen, size>>

\* The rest goes to the carry buffer, and 0x36 counts the block.
Accept ==
    /\ pc = "write" /\ ~FullChunk
    /\ carry' = Held
    /\ left' = left - Len(block)
    /\ block' = <<>> /\ dataIndex' = 0
    /\ pc' = "ready"
    /\ UNCHANGED <<active, next, page, flash, magicB, gen, size>>

\* Mutant: what is carried is forgotten.
FinishWithoutFlush ==
    /\ pc = "ready" /\ active /\ left = 0
    /\ active' = FALSE /\ carry' = <<>>
    /\ pc' = "mark"
    /\ UNCHANGED <<next, page, blockVars, left, flash, magicB, gen, size>>

\* 0x37 calls sr_flash_writer_finish, which has a last chunk to write or not.
\* With the session closed it is refused and changes nothing.
Finish ==
    /\ pc = "ready" /\ active /\ left = 0
    /\ IF carry = <<>>
         THEN active' = FALSE /\ pc' = "mark"
         ELSE pc' = "finish" /\ UNCHANGED active
    /\ UNCHANGED <<next, page, carry, blockVars, left, flash, magicB, gen, size>>

\* The padding, 0xFF, is what a blank byte reads as.
Padded == [i \in 1 .. Gran |-> IF i <= Len(carry) THEN carry[i] ELSE Blank]

FlushCarry ==
    /\ pc = "finish"
    /\ \/ ProgramsChunk(Padded) /\ next' = next + Gran /\ pc' = "mark"
       \/ FailsToProgram /\ pc' = "ready" /\ UNCHANGED next
    /\ active' = FALSE /\ carry' = <<>>
    /\ UNCHANGED <<page, blockVars, left, magicB, gen, size>>

\* set_trailer_magic, which may fail like any other write
Mark ==
    /\ pc = "mark" /\ pc' = "ready"
    /\ magicB' \in {TRUE, magicB}
    /\ UNCHANGED <<active, next, page, carry, blockVars, left, flash, gen, size>>

ProgramsNext == \/ pc = "finish"
                \/ pc = "write" /\ FullChunk

\* Loss of power: RAM is gone, and so is what was being erased or programmed.
PowerLoss ==
    /\ GiveUp
    /\ \/ UNCHANGED flash
       \/ pc = "begin" /\ FailsToErase(0)
       \/ pc = "erase" /\ page # EndPage /\ FailsToErase(page + 1)
       \/ ProgramsNext /\ FailsToProgram
    /\ UNCHANGED <<next, page, magicB, gen, size>>

Init ==
    /\ pc = "ready" /\ active = FALSE /\ next = 0 /\ page = 0
    /\ carry = <<>> /\ block = <<>> /\ dataIndex = 0 /\ left = 0
    /\ flash = [a \in Address |-> Old]
    /\ magicB = FALSE /\ gen = 0 /\ size = 0

Next ==
    \/ Abort \/ Start \/ Begin
    \/ Write \/ EraseNext \/ EraseDone \/ ProgramChunk \/ Accept
    \/ Finish \/ FlushCarry \/ Mark
    \/ PowerLoss

Spec == Init /\ [][Next]_vars

-----------------------------------------------------------------------------
(* Properties                                                               *)

Bytes == {<<"byte", g, i>> : g \in 0 .. 1, i \in 1 .. Capacity}

WriterTypeOK ==
    /\ pc \in {"ready", "begin", "erase", "write", "finish", "mark"}
    /\ active \in BOOLEAN /\ magicB \in BOOLEAN
    /\ next \in 0 .. Capacity /\ page \in 0 .. Pages - 1
    /\ carry \in Seq(Bytes) /\ Len(carry) < Gran
    /\ block \in Seq(Bytes) /\ Len(block) <= MaxBlock /\ dataIndex \in 0 .. Len(block)
    /\ left \in 0 .. Capacity /\ size \in 0 .. Capacity /\ gen \in 0 .. 1
    /\ flash \in [Address -> Bytes \cup {Old, Blank, Torn}]

\* However the blocks fall on double words and pages, what was accepted is in
\* flash up to next_write_addr and in RAM from there, in order, once each.
Stored == active =>
    /\ \A i \in 1 .. next : flash[i - 1] = Byte(i)
    /\ \A i \in 1 .. Len(Held) : Held[i] = Byte(next + i)
    /\ next + Len(Held) = Received + Len(block)

\* A double word is programmed only after the page it is in was erased, and only
\* once, carried bytes and page boundaries notwithstanding: the flash refuses
\* anything else, and the download would fail for ever.
NeverOverprogrammed == ProgramsNext => ChunkBlank

\* A download that fills the slot to the last byte does not erase or write the
\* page that follows, which is the trailer.
TrailerKept == \A a \in Address : a >= Capacity => flash[a] = Old

\* Slot B is only marked while it holds the whole download, the carried bytes
\* of the last block included, whatever failed or was given up before.
MarkedStored == magicB => size > 0 /\ \A i \in 1 .. size : flash[i - 1] = Byte(i)
=============================================================================
