------------------------- MODULE FlashWriterProofs -------------------------
(***************************************************************************)
(* Proofs about the flash writer for every size of a double word, a page,  *)
(* a slot and a block with WriterAssumption.                               *)
(***************************************************************************)
EXTENDS FlashWriter, SequenceTheorems, TLAPS

\* The bounds of page p, and where the bytes in RAM end.
Base(p) == p * PageSize
Top(p) == (p + 1) * PageSize
End == next + Len(Held)

\* What each flash operation finds in RAM.
Phases ==
    /\ pc \in {"erase", "write", "finish"} => active
    /\ pc \in {"begin", "mark"} => ~active
    /\ pc \notin {"erase", "write"} => block = <<>> /\ dataIndex = 0
    /\ pc = "erase" => block # <<>> /\ dataIndex = 0
    /\ pc = "finish" => carry # <<>> /\ left = 0

\* What the download has still to bring, and that slot B is not marked before
\* it has come.
Progress ==
    /\ pc = "begin" => size > 0 /\ left = size
    /\ active => size > 0 /\ left <= size
    /\ Len(block) <= left
    /\ active \/ pc # "ready" => ~magicB

Aligned == next % Gran = 0

\* The pages up to current_page are blank from next_write_addr on.
Erased == active =>
    \A a \in Address : a >= next /\ a < Top(page) => flash[a] = Blank

\* current_page is the page of the last byte in RAM, or before it while the
\* pages of a new block are being erased.
EndInPage ==
    /\ active => next <= Top(page) /\ (page = 0 \/ Base(page) < End)
    /\ active /\ pc # "erase" => End <= Top(page)

Complete == pc = "mark" =>
    size > 0 /\ \A i \in 1 .. size : flash[i - 1] = Byte(i)

WriterInv ==
    /\ WriterTypeOK /\ Phases /\ Progress /\ Aligned /\ Erased /\ EndInPage
    /\ Stored /\ TrailerKept /\ Complete /\ MarkedStored

-----------------------------------------------------------------------------
(* Pages and double words                                                   *)

\* The assumption, constant by constant.
LEMMA Positive ==
  /\ Gran \in Nat /\ Gran > 0 /\ PageSize \in Nat /\ PageSize > 0
  /\ Pages \in Nat /\ Pages > 0 /\ MaxBlock \in Nat /\ MaxBlock > 0
  /\ PageSize % Gran = 0
BY WriterAssumption DEF WriterAssumption

\* A product grows with its first factor by at least the second.
LEMMA ProductGrows ==
  ASSUME NEW a \in Nat, NEW b \in Nat, NEW c \in Nat, a < c
  PROVE  a * b + b <= c * b
<1>1. (c - a - 1) * b \in Nat
  OBVIOUS
<1>2. c * b = a * b + b + (c - a - 1) * b
  OBVIOUS
<1>. QED
  BY <1>1, <1>2

\* A multiple of g below another one is at least g below it.
LEMMA MultiplesApart ==
  ASSUME NEW g \in Nat, g > 0, NEW a \in Nat, NEW b \in Nat,
         a % g = 0, b % g = 0, a < b
  PROVE  a + g <= b
<1>1. PICK m \in Nat : a = m * g
  <2>. WITNESS a \div g \in Nat
  <2>. QED  OBVIOUS
<1>2. PICK n \in Nat : b = n * g
  <2>. WITNESS b \div g \in Nat
  <2>. QED  OBVIOUS
<1>3. m < n
  <2>. SUFFICES ASSUME n <= m PROVE FALSE
    BY <1>1, <1>2
  <2>1. n = m \/ n < m
    OBVIOUS
  <2>. QED
    BY <2>1, <1>1, <1>2, ProductGrows
<1>. QED
  BY <1>1, <1>2, <1>3, ProductGrows

\* A multiple of g is one after g is added.
LEMMA NextMultiple ==
  ASSUME NEW g \in Nat, g > 0, NEW a \in Nat, a % g = 0
  PROVE  (a + g) % g = 0
<1>1. PICK m \in Nat : a = m * g
  <2>. WITNESS a \div g \in Nat
  <2>. QED  OBVIOUS
<1>2. a + g = (m + 1) * g
  BY <1>1
<1>3. ((m + 1) * g) % g = 0
  OBVIOUS
<1>. QED
  BY <1>2, <1>3

\* A multiple of a multiple of g is a multiple of g.
LEMMA MultipleOfMultiple ==
  ASSUME NEW g \in Nat, g > 0, NEW a \in Nat, NEW b \in Nat, b % g = 0
  PROVE  (a * b) % g = 0
<1>1. PICK m \in Nat : b = m * g
  <2>. WITNESS b \div g \in Nat
  <2>. QED  OBVIOUS
<1>2. a * b = (a * m) * g /\ a * m \in Nat
  BY <1>1
<1>3. \A k \in Nat : \A c \in Nat : c = k * g => c % g = 0
  OBVIOUS
<1> DEFINE c == a * b
           k == a * m
<1>4. c \in Nat /\ k \in Nat /\ c = k * g
  BY <1>2
<1>5. c % g = 0
  <2>. HIDE DEF c, k
  <2>. QED  BY <1>3, <1>4
<1>. QED
  BY <1>5

\* The bounds of the pages, in order and in double words.
LEMMA PageBounds ==
  ASSUME NEW p \in Nat
  PROVE  /\ Base(p) \in Nat /\ Top(p) \in Nat
         /\ Top(p) = Base(p) + PageSize /\ Top(p) = Base(p + 1)
         /\ Top(p) % Gran = 0
         /\ \A q \in Nat : p < q => Top(p) <= Base(q)
<1>1. Base(p) \in Nat /\ Top(p) \in Nat /\ Top(p) = Base(p) + PageSize
  BY Positive DEF Base, Top
<1>2. Top(p) % Gran = 0
  BY Positive, MultipleOfMultiple, p + 1 \in Nat DEF Top
<1>3. ASSUME NEW q \in Nat, p < q PROVE Top(p) <= Base(q)
  BY <1>1, <1>3, ProductGrows, Positive DEF Base
<1>. QED
  BY <1>1, <1>2, <1>3 DEF Base, Top

\* The page of an address is the one between whose bounds it lies.
LEMMA PageOfAddress ==
  ASSUME NEW a \in Nat
  PROVE  /\ PageOf(a) \in Nat
         /\ \A p \in Nat : PageOf(a) = p <=> Base(p) <= a /\ a < Top(p)
<1>1. PageOf(a) \in Nat /\ Base(PageOf(a)) <= a /\ a < Top(PageOf(a))
  <2>1. a = PageSize * (a \div PageSize) + (a % PageSize) /\ a \div PageSize \in Nat
    BY Positive
  <2>2. a % PageSize \in Nat /\ a % PageSize < PageSize
    BY Positive
  <2>3. PageSize * (a \div PageSize) = Base(PageOf(a))
    BY <2>1, Positive DEF Base, PageOf
  <2>4. PageOf(a) \in Nat
    BY <2>1 DEF PageOf
  <2>5. /\ Top(PageOf(a)) = Base(PageOf(a)) + PageSize
        /\ Base(PageOf(a)) \in Nat /\ Top(PageOf(a)) \in Nat
    BY <2>4, PageBounds
  <2>. QED
    BY <2>1, <2>2, <2>3, <2>4, <2>5, Positive
<1>2. ASSUME NEW p \in Nat, Base(p) <= a, a < Top(p), p # PageOf(a) PROVE FALSE
  <2>1. p < PageOf(a) \/ PageOf(a) < p
    BY <1>1, <1>2
  <2>2. Top(p) <= Base(PageOf(a)) \/ Top(PageOf(a)) <= Base(p)
    BY <1>1, <2>1, PageBounds
  <2>3. /\ Base(PageOf(a)) \in Nat /\ Top(PageOf(a)) \in Nat
        /\ Base(p) \in Nat /\ Top(p) \in Nat
    BY <1>1, PageBounds
  <2>. QED
    BY <1>1, <1>2, <2>2, <2>3
<1>. QED
  BY <1>1, <1>2

\* The trailer is the page after the last one a download may use.
LEMMA CapacityBounds ==
  /\ Capacity \in Nat /\ Capacity > 0 /\ Capacity % Gran = 0
  /\ \A a \in Address : a \in Nat
  /\ \A a \in Nat : a < Capacity => a \in Address
  /\ \A p \in Nat : p < Pages => Top(p) <= Capacity
  /\ \A p \in Nat : Base(p) < Capacity => p < Pages
<1>1. Capacity = Base(Pages) /\ Pages \in Nat
  BY Positive DEF Capacity, Base
<1>2. Capacity \in Nat /\ Capacity > 0
  <2>1. Top(0) <= Base(Pages) /\ Top(0) = Base(0) + PageSize /\ Base(0) \in Nat
    BY PageBounds, Positive
  <2>. QED
    BY <1>1, <2>1, PageBounds, Positive
<1>3. Capacity % Gran = 0
  BY Positive, MultipleOfMultiple DEF Capacity
<1>4. \A p \in Nat : p < Pages => Top(p) <= Capacity
  BY <1>1, PageBounds
<1>5. ASSUME NEW p \in Nat, Base(p) < Capacity PROVE p < Pages
  <2>. SUFFICES ASSUME Pages <= p PROVE FALSE
    BY <1>1
  <2>1. Pages = p \/ Top(Pages) <= Base(p)
    BY <1>1, PageBounds
  <2>. QED
    BY <1>1, <1>2, <1>5, <2>1, PageBounds, Positive
<1>6. (\A a \in Address : a \in Nat) /\ (\A a \in Nat : a < Capacity => a \in Address)
  BY <1>2, Positive DEF Address
<1>. QED
  BY <1>2, <1>3, <1>4, <1>5, <1>6

-----------------------------------------------------------------------------
(* What is in RAM                                                           *)

Cells == Bytes \cup {Old, Blank, Torn}

\* Carried bytes first, then those of the block that are not programmed.
LEMMA HeldElems ==
  ASSUME NEW S, NEW c \in Seq(S), NEW b \in Seq(S), NEW d \in 0 .. Len(b),
         NEW h, h = c \o SubSeq(b, d + 1, Len(b))
  PROVE  /\ h \in Seq(S) /\ Len(h) = Len(c) + Len(b) - d
         /\ \A i \in 1 .. Len(h) :
              h[i] = IF i <= Len(c) THEN c[i] ELSE b[d + i - Len(c)]
<1> DEFINE s == SubSeq(b, d + 1, Len(b))
<1>1. Len(b) \in Nat /\ Len(c) \in Nat /\ d \in Nat /\ d <= Len(b)
  BY LenProperties
<1>2. \A i \in d + 1 .. Len(b) : b[i] \in S
  BY <1>1, ElementOfSeq
<1>3. /\ s \in Seq(S) /\ Len(s) = Len(b) - d
      /\ \A i \in 1 .. Len(b) - d : s[i] = b[d + i]
  BY <1>1, <1>2, SubSeqProperties, d + 1 \in Int
<1>. HIDE DEF s
<1>4. h = c \o s
  BY DEF s
<1>5. /\ c \o s \in Seq(S) /\ Len(c \o s) = Len(c) + Len(s)
      /\ \A i \in 1 .. Len(c) + Len(s) :
           (c \o s)[i] = IF i <= Len(c) THEN c[i] ELSE s[i - Len(c)]
  BY <1>3, ConcatProperties
<1>6. h \in Seq(S) /\ Len(h) = Len(c) + Len(b) - d
  BY <1>1, <1>3, <1>4, <1>5
<1>7. ASSUME NEW i \in 1 .. Len(h)
      PROVE  h[i] = IF i <= Len(c) THEN c[i] ELSE b[d + i - Len(c)]
  <2>1. h[i] = IF i <= Len(c) THEN c[i] ELSE s[i - Len(c)]
    BY <1>1, <1>3, <1>4, <1>5, <1>6
  <2>2. i > Len(c) => i - Len(c) \in 1 .. Len(b) - d /\ d + (i - Len(c)) = d + i - Len(c)
    BY <1>1, <1>6
  <2>. QED
    BY <1>1, <1>3, <2>1, <2>2
<1>. QED
  BY <1>6, <1>7

\* The same of the state, before and after a step.
LEMMA HeldNow ==
  ASSUME WriterTypeOK
  PROVE  /\ Held \in Seq(Bytes) /\ Len(Held) = Len(carry) + Len(block) - dataIndex
         /\ Len(carry) \in Nat /\ Len(block) \in Nat
         /\ \A i \in 1 .. Len(Held) :
              Held[i] = IF i <= Len(carry) THEN carry[i] ELSE block[dataIndex + i - Len(carry)]
BY HeldElems, LenProperties DEF WriterTypeOK, Held

LEMMA HeldThen ==
  ASSUME WriterTypeOK'
  PROVE  /\ Held' \in Seq(Bytes) /\ Len(Held)' = Len(carry') + Len(block') - dataIndex'
         /\ Len(carry') \in Nat /\ Len(block') \in Nat
         /\ \A i \in 1 .. Len(Held') :
              Held'[i] = IF i <= Len(carry') THEN carry'[i]
                         ELSE block'[dataIndex' + i - Len(carry')]
<1>1. carry' \in Seq(Bytes) /\ block' \in Seq(Bytes) /\ dataIndex' \in 0 .. Len(block')
  BY DEF WriterTypeOK
<1>2. Len(carry') \in Nat /\ Len(block') \in Nat
  BY <1>1, LenProperties
<1> DEFINE c == carry'
           b == block'
           d == dataIndex'
           h == Held'
<1>3. h = c \o SubSeq(b, d + 1, Len(b))
  BY DEF Held
<1>4. c \in Seq(Bytes) /\ b \in Seq(Bytes) /\ d \in 0 .. Len(b)
  BY <1>1
<1>5. /\ h \in Seq(Bytes) /\ Len(h) = Len(c) + Len(b) - d
      /\ \A i \in 1 .. Len(h) :
           h[i] = IF i <= Len(c) THEN c[i] ELSE b[d + i - Len(c)]
  <2>. HIDE DEF c, b, d, h
  <2>. QED  BY <1>3, <1>4, HeldElems
<1>. QED
  BY <1>2, <1>5

-----------------------------------------------------------------------------
(* The flash driver                                                         *)

\* An erased page is blank, and nothing else changed.
LEMMA ErasedPage ==
  ASSUME flash \in [Address -> Cells], NEW p \in Nat, ErasesPage(p)
  PROVE  /\ flash' \in [Address -> Cells]
         /\ \A a \in Address :
              flash'[a] = IF Base(p) <= a /\ a < Top(p) THEN Blank ELSE flash[a]
<1>1. \A a \in Address : a \in CellsOf(p) <=> Base(p) <= a /\ a < Top(p)
  BY PageOfAddress, CapacityBounds DEF CellsOf
<1>. QED
  BY <1>1 DEF ErasesPage, Fill, Cells

\* An erasure that fails stays within its page.
LEMMA ErasureFails ==
  ASSUME flash \in [Address -> Cells], NEW p \in Nat, p < Pages, FailsToErase(p)
  PROVE  /\ flash' \in [Address -> Cells]
         /\ \A a \in Address : a >= Capacity => flash'[a] = flash[a]
<1>1. \A a \in Address : a \in CellsOf(p) => a < Top(p)
  BY PageOfAddress, CapacityBounds DEF CellsOf
<1>2. \A a \in Address : a \in CellsOf(p) => a < Capacity
  <2>1. Top(p) \in Nat /\ Top(p) <= Capacity /\ Capacity \in Nat
    BY CapacityBounds, PageBounds
  <2>. QED
    BY <1>1, <2>1, CapacityBounds
<1>3. CASE flash' = flash
  BY <1>3
<1>4. CASE flash' = Fill(CellsOf(p), Torn)
  <2>1. \A a \in Address : flash'[a] = IF a \in CellsOf(p) THEN Torn ELSE flash[a]
    BY <1>4 DEF Fill
  <2>2. flash' \in [Address -> Cells]
    BY <1>4 DEF Fill, Cells
  <2>3. Capacity \in Nat /\ \A a \in Address : a \in Nat
    BY CapacityBounds
  <2>. QED
    BY <1>2, <2>1, <2>2, <2>3
<1>. QED
  BY <1>3, <1>4 DEF FailsToErase

\* A double word that fails to be programmed is the only thing that changes.
LEMMA ProgrammingFails ==
  ASSUME flash \in [Address -> Cells], next \in Nat, next + Gran <= Capacity, FailsToProgram
  PROVE  /\ flash' \in [Address -> Cells]
         /\ \A a \in Address : a >= Capacity => flash'[a] = flash[a]
<1>1. \A a \in Address : a \in Chunk => a < Capacity
  BY CapacityBounds, Positive DEF Chunk
<1>2. CASE flash' = flash
  BY <1>2
<1>3. CASE flash' = Fill(Chunk, Torn)
  <2>1. \A a \in Address : flash'[a] = IF a \in Chunk THEN Torn ELSE flash[a]
    BY <1>3 DEF Fill
  <2>2. flash' \in [Address -> Cells]
    BY <1>3 DEF Fill, Cells
  <2>3. Capacity \in Nat /\ \A a \in Address : a \in Nat
    BY CapacityBounds
  <2>. QED
    BY <1>1, <2>1, <2>2, <2>3
<1>. QED
  BY <1>2, <1>3 DEF FailsToProgram

\* What is programmed is where next_write_addr points, and nothing else changed.
LEMMA ProgrammedChunk ==
  ASSUME flash \in [Address -> Cells], next \in Nat, NEW bytes, ProgramsChunk(bytes),
         \A i \in 1 .. Gran : bytes[i] \in Cells
  PROVE  /\ flash' \in [Address -> Cells]
         /\ \A a \in Address : flash'[a] =
              IF a >= next /\ a < next + Gran THEN bytes[a - next + 1] ELSE flash[a]
<1>1. \A a \in Address : a \in Chunk <=> a >= next /\ a < next + Gran
  BY CapacityBounds, Positive DEF Chunk
<1>2. \A a \in Address : a \in Chunk => a - next + 1 \in 1 .. Gran
  BY <1>1, CapacityBounds, Positive
<1>3. flash' = [a \in Address |-> IF a \in Chunk THEN bytes[a - next + 1] ELSE flash[a]]
  BY DEF ProgramsChunk
<1>. QED
  BY <1>1, <1>2, <1>3

-----------------------------------------------------------------------------
(* Where the writer stands                                                  *)

\* What is in RAM fits the slot.
LEMMA EndFits ==
  ASSUME WriterInv, active
  PROVE  End \in Nat /\ End <= Capacity /\ next \in Nat /\ Capacity \in Nat
<1>1. /\ End = next + Len(Held) /\ next \in Nat /\ Len(Held) \in Nat
      /\ size \in Nat /\ size <= Capacity /\ left \in Nat /\ Len(block) \in Nat
      /\ Capacity \in Nat
  BY HeldNow, LenProperties, CapacityBounds DEF WriterInv, WriterTypeOK, End
<1>2. next + Len(Held) = size - left + Len(block) /\ Len(block) <= left
  BY DEF WriterInv, Stored, Received, Progress
<1>. QED
  BY <1>1, <1>2

\* The next double word is in an erased page, and blank.
LEMMA ChunkRoom ==
  ASSUME WriterInv, ProgramsNext
  PROVE  /\ active /\ next + Gran <= Top(page) /\ next + Gran <= Capacity
         /\ Top(page) \in Nat /\ ChunkBlank
<1>1. active /\ (pc = "write" \/ pc = "finish")
  BY DEF WriterInv, Phases, ProgramsNext
<1>2. Len(Held) \in Nat /\ Len(Held) > 0
  <2>1. CASE pc = "finish"
    BY <2>1, HeldNow, EmptySeq DEF WriterInv, WriterTypeOK, Phases
  <2>2. CASE pc = "write" /\ FullChunk
    BY <2>2, HeldNow, LenProperties, Positive DEF FullChunk
  <2>. QED
    BY <2>1, <2>2 DEF ProgramsNext
<1>3. next \in Nat /\ page \in Nat /\ page < Pages /\ next % Gran = 0
  BY CapacityBounds, Positive DEF WriterInv, WriterTypeOK, Aligned
<1>4. Top(page) \in Nat /\ Top(page) % Gran = 0 /\ Top(page) <= Capacity /\ Capacity \in Nat
  BY <1>3, PageBounds, CapacityBounds
<1>5. next < Top(page)
  BY <1>1, <1>2, <1>3, <1>4 DEF WriterInv, EndInPage, End
<1>6. next + Gran <= Top(page)
  BY <1>3, <1>4, <1>5, MultiplesApart, Positive
<1>7. ChunkBlank
  BY <1>1, <1>3, <1>4, <1>6, CapacityBounds, Positive DEF WriterInv, Erased, ChunkBlank, Chunk
<1>. QED
  BY <1>1, <1>4, <1>6, <1>7, <1>3, Positive

\* A page still to be erased is in the slot, and the block reaches it.
LEMMA PageToErase ==
  ASSUME WriterInv, pc = "erase"
  PROVE  /\ page \in Nat /\ EndPage \in Nat /\ page <= EndPage /\ EndPage < Pages
         /\ Base(EndPage) < End /\ End <= Top(EndPage) /\ End \in Nat
<1>1. active /\ block # <<>> /\ dataIndex = 0
  BY DEF WriterInv, Phases
<1>2. /\ End = next + Len(carry) + Len(block) /\ End > 0
      /\ next \in Nat /\ Len(carry) \in Nat /\ Len(block) \in Nat
  <2>1. /\ Len(Held) = Len(carry) + Len(block) /\ Len(carry) \in Nat /\ Len(block) \in Nat
        /\ next \in Nat
    BY <1>1, HeldNow, EndFits DEF WriterInv
  <2>2. Len(block) > 0
    BY <1>1, EmptySeq DEF WriterInv, WriterTypeOK
  <2>. QED
    BY <2>1, <2>2 DEF End
<1>3. End \in Nat /\ End <= Capacity /\ Capacity \in Nat
  BY <1>1, EndFits
<1>4. EndPage = PageOf(End - 1)
  <2>1. next + Len(carry) + Len(block) - 1 = End - 1
    BY <1>2
  <2>. QED
    BY <2>1 DEF EndPage
<1>5. EndPage \in Nat /\ Base(EndPage) <= End - 1 /\ End - 1 < Top(EndPage)
  BY <1>2, <1>3, <1>4, PageOfAddress
<1>6. Base(EndPage) \in Nat /\ Top(EndPage) \in Nat
  BY <1>5, PageBounds
<1>7. EndPage < Pages
  BY <1>3, <1>5, <1>6, CapacityBounds
<1>8. page \in Nat
  BY Positive DEF WriterInv, WriterTypeOK
<1>9. page <= EndPage
  <2>. SUFFICES ASSUME EndPage < page PROVE FALSE
    BY <1>5, <1>8
  <2>1. page # 0
    BY <1>5, <1>8
  <2>2. Base(page) < End
    BY <1>1, <2>1 DEF WriterInv, EndInPage
  <2>3. Base(page) \in Nat /\ Top(EndPage) <= Base(page)
    BY <1>5, <1>8, PageBounds
  <2>. QED
    BY <1>3, <1>5, <1>6, <2>2, <2>3
<1>. QED
  BY <1>3, <1>5, <1>6, <1>7, <1>8, <1>9

-----------------------------------------------------------------------------
(* Each step keeps the invariant                                            *)

\* A download that fails, or that power loss cuts off, leaves RAM empty.
LEMMA GivesUp ==
  ASSUME WriterInv, GiveUp, UNCHANGED <<next, magicB, gen, size>>, page' \in 0 .. Pages - 1,
         flash' \in [Address -> Cells],
         \A a \in Address : a >= Capacity => flash'[a] = flash[a],
         magicB => flash' = flash
  PROVE  WriterInv'
<1>. USE DEF GiveUp
<1>1. WriterTypeOK'
  <2>1. /\ carry' \in Seq(Bytes) /\ Len(carry') = 0
        /\ block' \in Seq(Bytes) /\ Len(block') = 0
    BY EmptySeq
  <2>2. Len(carry') < Gran /\ Len(block') <= MaxBlock /\ dataIndex' \in 0 .. Len(block')
    BY <2>1, Positive
  <2>3. left' \in 0 .. Capacity
    BY CapacityBounds
  <2>. QED
    BY <2>1, <2>2, <2>3 DEF WriterInv, WriterTypeOK, Cells
<1>2. Phases' /\ Aligned' /\ Erased' /\ EndInPage' /\ Stored' /\ Complete'
  BY DEF WriterInv, Phases, Aligned, Erased, EndInPage, Stored, Complete
<1>3. Progress'
  BY EmptySeq DEF Progress
<1>4. TrailerKept'
  BY DEF WriterInv, TrailerKept
<1>5. MarkedStored'
  BY DEF WriterInv, MarkedStored, Byte
<1>. QED
  BY <1>1, <1>2, <1>3, <1>4, <1>5 DEF WriterInv

LEMMA AbortKeeps ==
  ASSUME WriterInv, Abort
  PROVE  WriterInv'
BY GivesUp DEF Abort, WriterInv, WriterTypeOK, Cells

LEMMA StartKeeps ==
  ASSUME WriterInv, Start
  PROVE  WriterInv'
<1>. USE DEF Start
<1>1. WriterTypeOK'
  <2>1. carry' \in Seq(Bytes) /\ Len(carry') < Gran
    BY EmptySeq, Positive
  <2>2. size' \in 0 .. Capacity /\ left' \in 0 .. Capacity
    BY CapacityBounds
  <2>3. gen' \in 0 .. 1
    BY DEF WriterInv, WriterTypeOK
  <2>. QED
    BY <2>1, <2>2, <2>3 DEF WriterInv, WriterTypeOK, blockVars
<1>2. Phases' /\ Aligned' /\ Erased' /\ EndInPage' /\ Stored' /\ Complete' /\ MarkedStored'
  BY DEF WriterInv, Phases, Aligned, Erased, EndInPage, Stored, Complete, MarkedStored, blockVars
<1>3. Progress'
  <2>1. size' > 0 /\ left' = size' /\ left' \in Nat
    BY CapacityBounds
  <2>2. block' = <<>> /\ Len(block') = 0
    BY EmptySeq DEF WriterInv, Phases, blockVars
  <2>. QED
    BY <2>1, <2>2 DEF Progress
<1>4. TrailerKept'
  BY DEF WriterInv, TrailerKept
<1>. QED
  BY <1>1, <1>2, <1>3, <1>4 DEF WriterInv

\* The first page is erased, or the download fails.
LEMMA BeginKeeps ==
  ASSUME WriterInv, Begin
  PROVE  WriterInv'
<1>1. /\ pc = "begin" /\ ~active /\ ~magicB /\ block = <<>> /\ dataIndex = 0
      /\ size > 0 /\ left = size /\ flash \in [Address -> Cells]
  BY DEF Begin, WriterInv, Phases, Progress, WriterTypeOK, Cells
<1>2. UNCHANGED <<magicB, gen, size>>
  BY DEF Begin
<1>3. 0 \in Nat /\ 0 < Pages
  BY Positive
<1>4. CASE FailsToErase(0) /\ GiveUp /\ UNCHANGED <<next, page>>
  BY <1>1, <1>2, <1>3, <1>4, ErasureFails, GivesUp DEF WriterInv, WriterTypeOK
<1>5. CASE /\ ErasesPage(0)
           /\ next' = 0 /\ page' = 0
           /\ active' = TRUE /\ carry' = <<>>
           /\ pc' = "ready"
           /\ UNCHANGED <<blockVars, left>>
  <2>. USE DEF blockVars
  <2>1. /\ flash' \in [Address -> Cells]
        /\ \A a \in Address :
             flash'[a] = IF Base(0) <= a /\ a < Top(0) THEN Blank ELSE flash[a]
    BY <1>1, <1>3, <1>5, ErasedPage
  <2>2. /\ Base(0) = 0 /\ Top(0) \in Nat /\ Top(0) <= Capacity /\ Capacity \in Nat
        /\ \A a \in Address : a \in Nat
    BY <1>3, Positive, PageBounds, CapacityBounds DEF Base
  <2>3. WriterTypeOK'
    <3>1. carry' \in Seq(Bytes) /\ Len(carry') < Gran
      BY <1>5, EmptySeq, Positive
    <3>2. next' \in 0 .. Capacity /\ page' \in 0 .. Pages - 1
      BY <1>5, <2>2, Positive
    <3>. QED
      BY <1>2, <1>5, <2>1, <3>1, <3>2 DEF WriterInv, WriterTypeOK, Cells
  <2>4. Len(Held)' = 0 /\ Len(block') = 0 /\ End' = 0
    <3>1. Len(carry') = 0 /\ Len(block') = 0 /\ dataIndex' = 0
      BY <1>1, <1>5, EmptySeq
    <3>2. Len(Held)' = 0
      BY <2>3, <3>1, HeldThen
    <3>. QED
      BY <1>5, <3>1, <3>2 DEF End
  <2>5. Phases'
    BY <1>1, <1>5 DEF Phases
  <2>6. Progress'
    BY <1>1, <1>2, <1>5, <2>4 DEF WriterInv, WriterTypeOK, Progress
  <2>7. Aligned'
    BY <1>5, Positive DEF Aligned
  <2>8. Erased'
    BY <1>5, <2>1, <2>2 DEF Erased
  <2>9. EndInPage'
    BY <1>5, <2>2, <2>4 DEF EndInPage
  <2>10. Stored'
    <3>1. 0 = Received + 0
      BY <1>1, CapacityBounds DEF Received, WriterInv, WriterTypeOK
    <3>2. next' + Len(Held)' = Received' + Len(block')
      BY <1>1, <1>2, <1>5, <2>4, <3>1 DEF Received
    <3>. QED
      BY <1>5, <2>4, <3>2 DEF Stored
  <2>11. TrailerKept'
    BY <2>1, <2>2 DEF WriterInv, TrailerKept
  <2>12. Complete' /\ MarkedStored'
    BY <1>1, <1>2, <1>5 DEF Complete, MarkedStored
  <2>. QED
    BY <2>3, <2>5, <2>6, <2>7, <2>8, <2>9, <2>10, <2>11, <2>12 DEF WriterInv
<1>. QED
  BY <1>4, <1>5 DEF Begin

\* A block follows what was received, byte after byte.
LEMMA WriteKeeps ==
  ASSUME WriterInv, Write
  PROVE  WriterInv'
<1>. USE DEF Write
<1>1. PICK n \in 1 .. MaxBlock : n <= left /\ block' = [i \in 1 .. n |-> Byte(Received + i)]
  OBVIOUS
<1>2. /\ active /\ pc = "ready" /\ pc' = "erase" /\ block = <<>> /\ dataIndex = 0
      /\ UNCHANGED <<active, next, page, carry, dataIndex, left, flash, magicB, gen, size>>
  BY DEF WriterInv, Phases
<1>3. /\ left \in Nat /\ size \in Nat /\ left <= size /\ size <= Capacity /\ Capacity \in Nat
      /\ Received \in Nat /\ Received = size - left /\ MaxBlock \in Nat
      /\ size > 0 /\ ~magicB
  BY <1>2, Positive, CapacityBounds DEF WriterInv, WriterTypeOK, Progress, Received
<1>4. block' \in Seq(Bytes) /\ Len(block') = n /\ n \in Nat /\ n > 0
  <2>1. \A i \in 1 .. n : Received + i \in 1 .. Capacity
    BY <1>1, <1>3
  <2>2. \A i \in 1 .. n : Byte(Received + i) \in Bytes
    BY <2>1 DEF Byte, Bytes, WriterInv, WriterTypeOK
  <2>. QED
    BY <1>1, <1>3, <2>2
<1>5. WriterTypeOK'
  <2>1. Len(block') <= MaxBlock /\ dataIndex' \in 0 .. Len(block')
    BY <1>1, <1>2, <1>3, <1>4
  <2>. QED
    BY <1>2, <1>4, <2>1 DEF WriterInv, WriterTypeOK
<1>6. /\ Len(Held) = Len(carry) /\ Len(Held') = Len(carry) + n /\ Len(carry) \in Nat
      /\ \A i \in 1 .. Len(carry) : Held[i] = carry[i]
      /\ \A i \in 1 .. Len(Held') :
           Held'[i] = IF i <= Len(carry) THEN carry[i] ELSE block'[i - Len(carry)]
  <2>1. Len(block) = 0 /\ Len(carry) \in Nat
    BY <1>2, EmptySeq, HeldNow DEF WriterInv
  <2>2. Len(Held) = Len(carry) /\ \A i \in 1 .. Len(carry) : Held[i] = carry[i]
    BY <1>2, <2>1, HeldNow DEF WriterInv
  <2>3. Len(Held') = Len(carry) + n
    BY <1>2, <1>4, <1>5, <2>1, HeldThen
  <2>4. ASSUME NEW i \in 1 .. Len(Held')
        PROVE  Held'[i] = IF i <= Len(carry) THEN carry[i] ELSE block'[i - Len(carry)]
    <3>1. dataIndex' + i - Len(carry') = i - Len(carry)
      BY <1>2, <2>1, <2>3, <1>4
    <3>. QED
      BY <1>2, <1>5, <3>1, HeldThen
  <2>. QED
    BY <2>1, <2>2, <2>3, <2>4
<1>7. next + Len(carry) = Received /\ next \in Nat
  <2>1. next + Len(Held) = Received + Len(block) /\ Len(block) = 0
    BY <1>2, EmptySeq DEF WriterInv, Stored
  <2>2. next \in Nat
    BY CapacityBounds DEF WriterInv, WriterTypeOK
  <2>. QED
    BY <1>3, <1>6, <2>1, <2>2
<1>8. Stored'
  <2>1. ASSUME NEW i \in 1 .. Len(Held') PROVE Held'[i] = Byte(next + i)
    <3>1. CASE i <= Len(carry)
      <4>1. i \in 1 .. Len(carry) /\ i \in 1 .. Len(Held)
        BY <1>6, <3>1
      <4>2. Held[i] = Byte(next + i)
        BY <1>2, <4>1 DEF WriterInv, Stored
      <4>. QED
        BY <1>6, <3>1, <4>1, <4>2
    <3>2. CASE i > Len(carry)
      <4>1. /\ i - Len(carry) \in 1 .. n /\ i \in Nat /\ Len(carry) \in Nat
            /\ ~(i <= Len(carry))
        BY <1>4, <1>6, <3>2
      <4>2. Held'[i] = block'[i - Len(carry)]
        BY <1>6, <3>2, <4>1
      <4>3. block'[i - Len(carry)] = Byte(Received + (i - Len(carry)))
        BY <1>1, <4>1
      <4>4. Received + (i - Len(carry)) = next + i
        BY <1>7, <4>1
      <4>. QED
        BY <4>2, <4>3, <4>4
    <3>. QED
      BY <1>4, <1>6, <3>1, <3>2
  <2>2. next + Len(Held') = Received + Len(block')
    <3>1. Len(Held') = Len(carry) + n /\ Len(block') = n /\ n \in Nat /\ Len(carry) \in Nat
      BY <1>4, <1>6
    <3>. QED
      BY <1>3, <1>7, <3>1
  <2>3. \A i \in 1 .. next : flash[i - 1] = Byte(i)
    BY <1>2 DEF WriterInv, Stored
  <2>. QED
    BY <1>2, <2>1, <2>2, <2>3 DEF Stored, Byte, Received
<1>9. Phases'
  <2>1. block' # <<>>
    BY <1>4, EmptySeq
  <2>. QED
    BY <1>2, <2>1 DEF Phases
<1>10. Progress'
  BY <1>1, <1>2, <1>3, <1>4 DEF Progress
<1>11. EndInPage'
  <2>1. End \in Nat /\ End' = End + n
    BY <1>2, <1>4, <1>6, <1>7 DEF End
  <2>2. page \in Nat
    BY Positive DEF WriterInv, WriterTypeOK
  <2>3. page = 0 \/ Base(page) < End
    BY <1>2 DEF WriterInv, EndInPage
  <2>4. Base(page) \in Nat
    BY <2>2, PageBounds
  <2>5. next <= Top(page)
    BY <1>2 DEF WriterInv, EndInPage
  <2>. QED
    BY <1>2, <1>4, <2>1, <2>3, <2>4, <2>5 DEF EndInPage
<1>12. Aligned' /\ Erased' /\ TrailerKept' /\ Complete' /\ MarkedStored'
  BY <1>2, <1>3 DEF WriterInv, Aligned, Erased, TrailerKept, Complete, MarkedStored
<1>. QED
  BY <1>5, <1>8, <1>9, <1>10, <1>11, <1>12 DEF WriterInv

\* One more page is erased ahead of the block, or the download fails.
LEMMA EraseNextKeeps ==
  ASSUME WriterInv, EraseNext
  PROVE  WriterInv'
<1>1. /\ pc = "erase" /\ active /\ ~magicB /\ page # EndPage /\ page' = page + 1
      /\ block # <<>> /\ dataIndex = 0 /\ flash \in [Address -> Cells]
      /\ UNCHANGED <<next, magicB, gen, size>>
  BY DEF EraseNext, WriterInv, Phases, Progress, WriterTypeOK, Cells
<1>2. /\ page \in Nat /\ EndPage \in Nat /\ page + 1 <= EndPage /\ EndPage < Pages
      /\ Base(EndPage) < End /\ End <= Top(EndPage) /\ End \in Nat
  BY <1>1, PageToErase
<1>3. page' \in Nat /\ page' < Pages /\ page' \in 0 .. Pages - 1
  BY <1>1, <1>2, Positive
<1>4. /\ Base(page') \in Nat /\ Top(page') \in Nat /\ Top(page) = Base(page')
      /\ Top(page') <= Capacity /\ Capacity \in Nat /\ \A a \in Address : a \in Nat
      /\ Base(page') <= Base(EndPage) /\ Base(EndPage) \in Nat /\ Base(page') < Top(page')
  <2>1. page + 1 = EndPage \/ Top(page') <= Base(EndPage)
    BY <1>1, <1>2, <1>3, PageBounds
  <2>2. /\ Base(page') \in Nat /\ Top(page') \in Nat /\ Top(page) = Base(page')
        /\ Base(EndPage) \in Nat /\ Top(page') = Base(page') + PageSize
    BY <1>1, <1>2, <1>3, PageBounds
  <2>3. Top(page') <= Capacity /\ Capacity \in Nat /\ \A a \in Address : a \in Nat
    BY <1>3, CapacityBounds
  <2>. QED
    BY <1>1, <2>1, <2>2, <2>3, Positive
<1>5. CASE FailsToErase(page') /\ GiveUp
  <2>1. /\ flash' \in [Address -> Cells]
        /\ \A a \in Address : a >= Capacity => flash'[a] = flash[a]
    BY <1>1, <1>3, <1>5, ErasureFails
  <2>. QED
    BY <1>1, <1>5, <2>1, <1>3, GivesUp
<1>6. CASE ErasesPage(page') /\ UNCHANGED <<active, carry, blockVars, left, pc>>
  <2>. USE DEF blockVars
  <2>1. /\ flash' \in [Address -> Cells]
        /\ \A a \in Address :
             flash'[a] = IF Base(page') <= a /\ a < Top(page') THEN Blank ELSE flash[a]
    BY <1>1, <1>3, <1>6, ErasedPage
  <2>2. WriterTypeOK'
    BY <1>1, <1>3, <1>6, <2>1 DEF WriterInv, WriterTypeOK, Cells
  <2>3. Held' = Held /\ End' = End /\ next \in Nat
    BY <1>1, <1>6, EndFits DEF Held, End
  <2>4. Phases' /\ Progress' /\ Aligned' /\ Complete' /\ MarkedStored'
    BY <1>1, <1>6 DEF WriterInv, Phases, Progress, Aligned, Complete, MarkedStored
  <2>5. Erased'
    <3>1. ASSUME NEW a \in Address, a >= next, a < Top(page') PROVE flash'[a] = Blank
      <4>1. a < Base(page') => flash[a] = Blank
        BY <1>1, <1>4, <3>1 DEF WriterInv, Erased
      <4>. QED
        BY <1>4, <2>1, <3>1, <4>1
    <3>. QED
      BY <1>1, <3>1 DEF Erased
  <2>6. EndInPage'
    <3>1. next <= Top(page)
      BY <1>1 DEF WriterInv, EndInPage
    <3>2. next <= Top(page') /\ Base(page') < End
      BY <1>2, <1>4, <2>3, <3>1
    <3>. QED
      BY <1>1, <1>6, <2>3, <3>2 DEF EndInPage
  <2>7. Stored'
    <3>1. ASSUME NEW i \in 1 .. next PROVE flash'[i - 1] = flash[i - 1]
      <4>1. next <= Base(page')
        BY <1>1, <1>4 DEF WriterInv, EndInPage
      <4>2. i - 1 \in Address /\ i - 1 < Base(page')
        BY <1>4, <2>3, <4>1, CapacityBounds
      <4>. QED
        BY <1>4, <2>1, <4>2
    <3>. QED
      BY <1>1, <1>6, <2>3, <3>1 DEF WriterInv, Stored, Received, Byte
  <2>8. TrailerKept'
    BY <1>4, <2>1 DEF WriterInv, TrailerKept
  <2>. QED
    BY <2>2, <2>4, <2>5, <2>6, <2>7, <2>8 DEF WriterInv
<1>. QED
  BY <1>5, <1>6 DEF EraseNext

LEMMA EraseDoneKeeps ==
  ASSUME WriterInv, EraseDone
  PROVE  WriterInv'
<1>. USE DEF EraseDone, blockVars
<1>1. /\ active /\ pc = "erase" /\ pc' = "write" /\ page = EndPage
      /\ UNCHANGED <<active, next, page, carry, block, dataIndex, left, flash, magicB, gen, size>>
  BY DEF WriterInv, Phases
<1>2. WriterTypeOK' /\ Phases' /\ Progress' /\ Aligned' /\ Erased'
  BY <1>1 DEF WriterInv, WriterTypeOK, Phases, Progress, Aligned, Erased
<1>3. TrailerKept' /\ Complete' /\ MarkedStored'
  BY <1>1 DEF WriterInv, TrailerKept, Complete, MarkedStored, Byte
<1>4. Held' = Held
  BY <1>1 DEF Held
<1>5. Stored'
  BY <1>1, <1>4 DEF WriterInv, Stored, Received, Byte
<1>6. EndInPage'
  <2>1. End' = End /\ page' = page /\ active'
    BY <1>1, <1>4 DEF End
  <2>2. End <= Top(page)
    BY <1>1, PageToErase
  <2>. QED
    BY <1>1, <2>1, <2>2 DEF WriterInv, EndInPage
<1>. QED
  BY <1>2, <1>3, <1>5, <1>6 DEF WriterInv

\* A double word of carried bytes and bytes of the block goes to flash, and
\* what follows it stays in RAM; or it is torn, and the download fails.
LEMMA ProgramChunkKeeps ==
  ASSUME WriterInv, ProgramChunk
  PROVE  WriterInv'
<1>1. /\ pc = "write" /\ FullChunk /\ active /\ ~magicB
      /\ flash \in [Address -> Cells] /\ next \in Nat /\ page \in 0 .. Pages - 1
      /\ UNCHANGED <<page, magicB, gen, size>>
  BY CapacityBounds DEF ProgramChunk, WriterInv, Phases, Progress, WriterTypeOK, Cells
<1>2. /\ next + Gran <= Top(page) /\ next + Gran <= Capacity /\ Top(page) \in Nat
      /\ Gran \in Nat /\ Gran > 0 /\ Capacity \in Nat
  BY <1>1, ChunkRoom, Positive, CapacityBounds DEF ProgramsNext
<1>3. CASE FailsToProgram /\ GiveUp /\ UNCHANGED next
  <2>1. /\ flash' \in [Address -> Cells]
        /\ \A a \in Address : a >= Capacity => flash'[a] = flash[a]
    BY <1>1, <1>2, <1>3, ProgrammingFails
  <2>. QED
    BY <1>1, <1>3, <2>1, GivesUp
<1>4. CASE /\ ProgramsChunk(SubSeq(Held, 1, Gran))
           /\ next' = next + Gran
           /\ dataIndex' = dataIndex + Gran - Len(carry)
           /\ CarryUsed
           /\ UNCHANGED <<active, block, left, pc>>
  <2> DEFINE bytes == SubSeq(Held, 1, Gran)
  <2>1. /\ Held \in Seq(Bytes) /\ Len(Held) \in Nat /\ Len(Held) >= Gran
        /\ Len(Held) = Len(carry) + Len(block) - dataIndex
        /\ Len(carry) \in Nat /\ Len(block) \in Nat /\ dataIndex \in Nat /\ dataIndex <= Len(block)
        /\ Len(carry) < Gran
    <3>1. Held \in Seq(Bytes) /\ Len(Held) = Len(carry) + Len(block) - dataIndex
          /\ Len(carry) \in Nat /\ Len(block) \in Nat
      BY HeldNow DEF WriterInv
    <3>2. dataIndex \in Nat /\ dataIndex <= Len(block) /\ Len(carry) < Gran
      BY <3>1 DEF WriterInv, WriterTypeOK
    <3>3. Len(Held) \in Nat /\ Len(Held) >= Gran
      BY <1>1, <3>1, LenProperties DEF FullChunk
    <3>. QED
      BY <3>1, <3>2, <3>3
  <2>2. \A i \in 1 .. Gran : bytes[i] = Held[i] /\ Held[i] \in Bytes /\ Held[i] = Byte(next + i)
    <3>1. \A i \in 1 .. Gran : i \in 1 .. Len(Held)
      BY <1>2, <2>1
    <3>2. \A i \in 1 .. Gran : Held[i] \in Bytes
      BY <2>1, <3>1, ElementOfSeq
    <3>3. \A i \in 1 .. Gran - 1 + 1 : bytes[i] = Held[1 + i - 1]
      BY <1>2, <3>2, SubSeqProperties
    <3>4. \A i \in 1 .. Gran : bytes[i] = Held[i]
      BY <1>2, <3>3
    <3>. QED
      BY <1>1, <3>1, <3>2, <3>4 DEF WriterInv, Stored
  <2>. HIDE DEF bytes
  <2>3. ProgramsChunk(bytes) /\ \A i \in 1 .. Gran : bytes[i] \in Cells
    BY <1>4, <2>2 DEF bytes, Cells
  <2>4. /\ flash' \in [Address -> Cells]
        /\ \A a \in Address : flash'[a] =
             IF a >= next /\ a < next + Gran THEN bytes[a - next + 1] ELSE flash[a]
    BY <1>1, <2>3, ProgrammedChunk
  <2>5. WriterTypeOK'
    <3>1. carry' \in Seq(Bytes) /\ Len(carry') = 0 /\ Len(carry') < Gran
      BY <1>2, <1>4, EmptySeq DEF CarryUsed
    <3>2. dataIndex' \in 0 .. Len(block')
      BY <1>2, <1>4, <2>1
    <3>3. next' \in 0 .. Capacity
      BY <1>1, <1>2, <1>4
    <3>. QED
      BY <1>1, <1>4, <2>4, <3>1, <3>2, <3>3 DEF WriterInv, WriterTypeOK, Cells
  <2>6. /\ Len(Held') = Len(Held) - Gran
        /\ \A i \in 1 .. Len(Held') : Held'[i] = Held[Gran + i]
    <3>1. Len(carry') = 0 /\ block' = block
      BY <1>4, EmptySeq DEF CarryUsed
    <3>2. Len(Held') = Len(Held) - Gran
      BY <1>2, <1>4, <2>1, <2>5, <3>1, HeldThen
    <3>3. ASSUME NEW i \in 1 .. Len(Held') PROVE Held'[i] = Held[Gran + i]
      <4>1. i \in Nat /\ i >= 1 /\ Gran + i \in 1 .. Len(Held) /\ ~(Gran + i <= Len(carry))
        BY <1>2, <2>1, <3>2
      <4>2. Held[Gran + i] = block[dataIndex + (Gran + i) - Len(carry)]
        BY <4>1, <2>1, HeldNow DEF WriterInv
      <4>3. Held'[i] = block'[dataIndex' + i - Len(carry')]
        BY <2>5, <3>1, <4>1, HeldThen
      <4>4. dataIndex' + i - Len(carry') = dataIndex + (Gran + i) - Len(carry)
        BY <1>2, <1>4, <2>1, <3>1, <4>1
      <4>. QED
        BY <3>1, <4>2, <4>3, <4>4
    <3>. QED
      BY <3>2, <3>3
  <2>7. End' = End /\ End \in Nat
    BY <1>1, <1>2, <1>4, <2>1, <2>6 DEF End
  <2>8. Stored'
    <3>1. ASSUME NEW i \in 1 .. next + Gran PROVE flash'[i - 1] = Byte(i)
      <4>1. i - 1 \in Address /\ i \in Nat /\ i >= 1
        BY <1>1, <1>2, CapacityBounds
      <4>2. CASE i <= next
        <5>1. i \in 1 .. next /\ ~(i - 1 >= next)
          BY <1>1, <4>1, <4>2
        <5>. QED
          BY <1>1, <2>4, <4>1, <5>1 DEF WriterInv, Stored
      <4>3. CASE i > next
        <5>1. i - next \in 1 .. Gran /\ i - 1 >= next /\ i - 1 < next + Gran
          BY <1>1, <1>2, <4>1, <4>3
        <5>2. i - 1 - next + 1 = i - next /\ next + (i - next) = i
          BY <1>1, <4>1
        <5>. QED
          BY <2>2, <2>4, <4>1, <5>1, <5>2
      <4>. QED
        BY <1>1, <4>1, <4>2, <4>3
    <3>2. ASSUME NEW i \in 1 .. Len(Held') PROVE Held'[i] = Byte(next + Gran + i)
      <4>1. Gran + i \in 1 .. Len(Held) /\ next + (Gran + i) = next + Gran + i
        BY <1>1, <1>2, <2>1, <2>6
      <4>2. Held[Gran + i] = Byte(next + (Gran + i))
        BY <1>1, <4>1 DEF WriterInv, Stored
      <4>. QED
        BY <2>6, <4>1, <4>2
    <3>3. next' + Len(Held') = Received' + Len(block')
      <4>1. next + Len(Held) = Received + Len(block)
        BY <1>1 DEF WriterInv, Stored
      <4>2. next' + Len(Held') = next + Len(Held)
        BY <1>1, <1>2, <1>4, <2>1, <2>6
      <4>. QED
        BY <1>1, <1>4, <4>1, <4>2 DEF Received
    <3>. QED
      BY <1>1, <1>4, <3>1, <3>2, <3>3 DEF Stored, Byte
  <2>9. Erased'
    <3>1. ASSUME NEW a \in Address, a >= next + Gran, a < Top(page) PROVE flash'[a] = Blank
      <4>1. a >= next /\ ~(a < next + Gran)
        BY <1>1, <1>2, <3>1, CapacityBounds
      <4>. QED
        BY <1>1, <2>4, <3>1, <4>1 DEF WriterInv, Erased
    <3>. QED
      BY <1>1, <1>4, <3>1 DEF Erased
  <2>10. TrailerKept'
    <3>1. \A a \in Address : a >= Capacity => ~(a < next + Gran)
      BY <1>1, <1>2, CapacityBounds
    <3>. QED
      BY <2>4, <3>1 DEF WriterInv, TrailerKept
  <2>11. Aligned'
    BY <1>1, <1>2, <1>4, NextMultiple DEF WriterInv, Aligned
  <2>12. EndInPage'
    BY <1>1, <1>2, <1>4, <2>7 DEF WriterInv, EndInPage
  <2>13. Phases' /\ Progress' /\ Complete' /\ MarkedStored'
    BY <1>1, <1>4 DEF WriterInv, Phases, Progress, Complete, MarkedStored
  <2>. QED
    BY <2>5, <2>8, <2>9, <2>10, <2>11, <2>12, <2>13 DEF WriterInv
<1>. QED
  BY <1>3, <1>4 DEF ProgramChunk

\* The rest of a block, less than a double word, is carried over.
LEMMA AcceptKeeps ==
  ASSUME WriterInv, Accept
  PROVE  WriterInv'
<1>1. /\ pc = "write" /\ ~FullChunk /\ active /\ active' = active /\ ~magicB /\ pc' = "ready"
      /\ carry' = Held /\ left' = left - Len(block) /\ block' = <<>> /\ dataIndex' = 0
      /\ UNCHANGED <<next, page, flash, magicB, gen, size>>
  BY DEF Accept, WriterInv, Phases, Progress
<1>2. /\ Held \in Seq(Bytes) /\ Len(Held) \in Nat /\ Len(Held) < Gran
      /\ Len(block) \in Nat /\ Len(block) <= left /\ left \in Nat /\ left <= size
      /\ size \in Nat /\ size <= Capacity /\ Capacity \in Nat /\ next \in Nat /\ size > 0
  <2>1. Held \in Seq(Bytes) /\ Len(block) \in Nat
    BY HeldNow DEF WriterInv
  <2>2. Len(Held) \in Nat /\ Len(Held) < Gran
    BY <1>1, <2>1, LenProperties, Positive DEF FullChunk
  <2>3. /\ left \in Nat /\ size \in Nat /\ size <= Capacity /\ Capacity \in Nat /\ next \in Nat
    BY CapacityBounds DEF WriterInv, WriterTypeOK
  <2>. QED
    BY <1>1, <2>1, <2>2, <2>3 DEF WriterInv, Progress
<1>3. WriterTypeOK'
  <2>1. block' \in Seq(Bytes) /\ Len(block') = 0
    BY <1>1, EmptySeq
  <2>2. left' \in 0 .. Capacity /\ Len(block') <= MaxBlock /\ dataIndex' \in 0 .. Len(block')
    BY <1>1, <1>2, <2>1, Positive
  <2>. QED
    BY <1>1, <1>2, <2>1, <2>2 DEF WriterInv, WriterTypeOK
<1>4. /\ Len(block') = 0 /\ Len(carry') = Len(Held) /\ Len(Held') = Len(Held)
      /\ \A i \in 1 .. Len(Held') : Held'[i] = Held[i]
  <2>1. Len(block') = 0 /\ carry' = Held
    BY <1>1, EmptySeq
  <2>2. Len(Held') = Len(Held)
    BY <1>1, <1>2, <1>3, <2>1, HeldThen
  <2>. QED
    BY <1>2, <1>3, <2>1, <2>2, HeldThen
<1>5. End' = End
  BY <1>1, <1>4 DEF End
<1>6. Stored'
  <2>1. next + Len(Held) = Received + Len(block)
    BY <1>1 DEF WriterInv, Stored
  <2>2. next' + Len(Held') = Received' + Len(block')
    BY <1>1, <1>2, <1>4, <2>1 DEF Received
  <2>3. \A i \in 1 .. Len(Held) : Held[i] = Byte(next + i)
    BY <1>1 DEF WriterInv, Stored
  <2>4. \A i \in 1 .. next : flash[i - 1] = Byte(i)
    BY <1>1 DEF WriterInv, Stored
  <2>. QED
    BY <1>1, <1>4, <2>2, <2>3, <2>4 DEF Stored, Byte
<1>7. Progress'
  BY <1>1, <1>2, <1>4 DEF Progress
<1>8. Phases' /\ Aligned' /\ Erased' /\ TrailerKept' /\ Complete' /\ MarkedStored'
  BY <1>1 DEF WriterInv, Phases, Aligned, Erased, TrailerKept, Complete, MarkedStored
<1>9. EndInPage'
  BY <1>1, <1>5 DEF WriterInv, EndInPage
<1>. QED
  BY <1>3, <1>6, <1>7, <1>8, <1>9 DEF WriterInv

\* With nothing carried and nothing left every byte is in flash.
LEMMA FinishKeeps ==
  ASSUME WriterInv, Finish
  PROVE  WriterInv'
<1>1. /\ pc = "ready" /\ active /\ left = 0 /\ ~magicB /\ block = <<>> /\ dataIndex = 0
      /\ size > 0
      /\ UNCHANGED <<next, page, carry, block, dataIndex, left, flash, magicB, gen, size>>
  BY DEF Finish, WriterInv, Phases, Progress, blockVars
<1>2. Held' = Held /\ End' = End
  BY <1>1 DEF Held, End
<1>3. Aligned' /\ TrailerKept' /\ MarkedStored'
  BY <1>1 DEF WriterInv, Aligned, TrailerKept, MarkedStored
<1>4. CASE carry = <<>> /\ active' = FALSE /\ pc' = "mark"
  <2>1. WriterTypeOK' /\ Phases' /\ Progress' /\ Erased' /\ EndInPage' /\ Stored'
    BY <1>1, <1>4 DEF WriterInv, WriterTypeOK, Phases, Progress, Erased, EndInPage, Stored
  <2>2. next = size
    <3>1. Len(carry) = 0 /\ Len(block) = 0 /\ Len(Held) = 0
      BY <1>1, <1>4, EmptySeq, HeldNow DEF WriterInv
    <3>2. next + Len(Held) = size - left + Len(block)
      BY <1>1 DEF WriterInv, Stored, Received
    <3>. QED
      BY <1>1, <3>1, <3>2, CapacityBounds DEF WriterInv, WriterTypeOK
  <2>3. Complete'
    BY <1>1, <2>2 DEF WriterInv, Stored, Complete, Byte
  <2>. QED
    BY <1>3, <2>1, <2>3 DEF WriterInv
<1>5. CASE carry # <<>> /\ pc' = "finish" /\ UNCHANGED active
  <2>1. WriterTypeOK' /\ Phases' /\ Progress' /\ Erased' /\ Complete'
    BY <1>1, <1>5 DEF WriterInv, WriterTypeOK, Phases, Progress, Erased, Complete
  <2>2. EndInPage'
    BY <1>1, <1>2, <1>5 DEF WriterInv, EndInPage
  <2>3. Stored'
    BY <1>1, <1>2, <1>5 DEF WriterInv, Stored, Received, Byte
  <2>. QED
    BY <1>3, <2>1, <2>2, <2>3 DEF WriterInv
<1>. QED
  BY <1>4, <1>5 DEF Finish

\* The carried bytes go to flash with blank ones after them.
LEMMA FlushCarryKeeps ==
  ASSUME WriterInv, FlushCarry
  PROVE  WriterInv'
<1>1. /\ pc = "finish" /\ active /\ left = 0 /\ ~magicB /\ block = <<>> /\ dataIndex = 0
      /\ size > 0 /\ flash \in [Address -> Cells] /\ next \in Nat /\ page \in 0 .. Pages - 1
      /\ UNCHANGED <<page, block, dataIndex, left, magicB, gen, size>>
      /\ active' = FALSE /\ carry' = <<>>
  BY CapacityBounds DEF FlushCarry, WriterInv, Phases, Progress, blockVars, WriterTypeOK, Cells
<1>2. /\ next + Gran <= Capacity /\ Gran \in Nat /\ Gran > 0 /\ Capacity \in Nat
  BY <1>1, ChunkRoom, Positive, CapacityBounds DEF ProgramsNext
<1>3. CASE FailsToProgram /\ pc' = "ready" /\ UNCHANGED next
  <2>1. /\ flash' \in [Address -> Cells]
        /\ \A a \in Address : a >= Capacity => flash'[a] = flash[a]
    BY <1>1, <1>2, <1>3, ProgrammingFails
  <2>. QED
    BY <1>1, <1>3, <2>1, GivesUp DEF GiveUp
<1>4. CASE ProgramsChunk(Padded) /\ next' = next + Gran /\ pc' = "mark"
  <2>1. /\ carry \in Seq(Bytes) /\ Len(carry) \in Nat /\ Len(carry) < Gran
        /\ Len(Held) = Len(carry) /\ \A i \in 1 .. Len(carry) : Held[i] = carry[i]
    <3>1. carry \in Seq(Bytes) /\ Len(carry) < Gran /\ Len(carry) \in Nat /\ Len(block) = 0
      BY <1>1, EmptySeq, LenProperties DEF WriterInv, WriterTypeOK
    <3>2. Len(Held) = Len(carry)
      BY <1>1, <3>1, HeldNow DEF WriterInv
    <3>. QED
      BY <1>1, <3>1, <3>2, HeldNow DEF WriterInv
  <2>2. \A i \in 1 .. Gran : /\ Padded[i] \in Cells
                             /\ i \in 1 .. Len(carry) => Padded[i] = Byte(next + i)
    <3>1. ASSUME NEW i \in 1 .. Gran PROVE Padded[i] = IF i <= Len(carry) THEN carry[i] ELSE Blank
      BY DEF Padded
    <3>2. ASSUME NEW i \in 1 .. Gran, i <= Len(carry)
          PROVE  carry[i] \in Bytes /\ carry[i] = Byte(next + i)
      <4>1. i \in 1 .. Len(carry)
        BY <1>2, <2>1, <3>2
      <4>. QED
        BY <1>1, <2>1, <4>1, ElementOfSeq DEF WriterInv, Stored
    <3>. QED
      BY <1>2, <2>1, <3>1, <3>2 DEF Cells
  <2>3. /\ flash' \in [Address -> Cells]
        /\ \A a \in Address : flash'[a] =
             IF a >= next /\ a < next + Gran THEN Padded[a - next + 1] ELSE flash[a]
    BY <1>1, <1>4, <2>2, ProgrammedChunk
  <2>4. WriterTypeOK'
    <3>1. carry' \in Seq(Bytes) /\ Len(carry') = 0 /\ Len(carry') < Gran
      BY <1>1, <1>2, EmptySeq
    <3>2. next' \in 0 .. Capacity
      BY <1>1, <1>2, <1>4
    <3>. QED
      BY <1>1, <1>4, <2>3, <3>1, <3>2 DEF WriterInv, WriterTypeOK, Cells
  <2>5. size = next + Len(carry) /\ size \in Nat /\ size <= Capacity
    <3>1. next + Len(Held) = size - left + Len(block) /\ Len(block) = 0
      BY <1>1, EmptySeq DEF WriterInv, Stored, Received
    <3>2. size \in Nat /\ size <= Capacity
      BY <1>2 DEF WriterInv, WriterTypeOK
    <3>. QED
      BY <1>1, <2>1, <3>1, <3>2
  <2>6. Complete'
    <3>1. ASSUME NEW i \in 1 .. size PROVE flash'[i - 1] = Byte(i)
      <4>1. i \in Nat /\ i >= 1 /\ i - 1 \in Address
        BY <1>2, <2>5, CapacityBounds
      <4>2. CASE i <= next
        <5>1. i \in 1 .. next /\ ~(i - 1 >= next)
          BY <1>1, <4>1, <4>2
        <5>. QED
          BY <1>1, <2>3, <4>1, <5>1 DEF WriterInv, Stored
      <4>3. CASE i > next
        <5>1. /\ i - next \in 1 .. Len(carry) /\ i - next \in 1 .. Gran
              /\ i - 1 >= next /\ i - 1 < next + Gran
          BY <1>1, <1>2, <2>1, <2>5, <4>1, <4>3
        <5>2. i - 1 - next + 1 = i - next /\ next + (i - next) = i
          BY <1>1, <4>1
        <5>. QED
          BY <2>2, <2>3, <4>1, <5>1, <5>2
      <4>. QED
        BY <1>1, <4>1, <4>2, <4>3
    <3>. QED
      BY <1>1, <3>1 DEF Complete, Byte
  <2>7. TrailerKept'
    <3>1. \A a \in Address : a >= Capacity => ~(a < next + Gran)
      BY <1>1, <1>2, CapacityBounds
    <3>. QED
      BY <2>3, <3>1 DEF WriterInv, TrailerKept
  <2>8. Aligned'
    BY <1>1, <1>2, <1>4, NextMultiple DEF WriterInv, Aligned
  <2>9. Phases' /\ Erased' /\ EndInPage' /\ Stored' /\ MarkedStored'
    BY <1>1, <1>4 DEF Phases, Erased, EndInPage, Stored, MarkedStored
  <2>10. Progress'
    BY <1>1, <1>4, EmptySeq DEF Progress
  <2>. QED
    BY <2>4, <2>6, <2>7, <2>8, <2>9, <2>10 DEF WriterInv
<1>. QED
  BY <1>3, <1>4 DEF FlushCarry

\* Slot B is marked once the download is complete.
LEMMA MarkKeeps ==
  ASSUME WriterInv, Mark
  PROVE  WriterInv'
<1>1. /\ pc = "mark" /\ ~active /\ pc' = "ready" /\ (magicB' = TRUE \/ magicB' = magicB)
      /\ UNCHANGED <<active, next, page, carry, block, dataIndex, left, flash, gen, size>>
  BY DEF Mark, WriterInv, Phases, blockVars
<1>2. WriterTypeOK' /\ Phases' /\ Progress' /\ Aligned' /\ Erased' /\ EndInPage'
  BY <1>1 DEF WriterInv, WriterTypeOK, Phases, Progress, Aligned, Erased, EndInPage
<1>3. Stored' /\ TrailerKept' /\ Complete'
  BY <1>1 DEF WriterInv, Stored, TrailerKept, Complete
<1>4. MarkedStored'
  BY <1>1 DEF WriterInv, Complete, MarkedStored, Byte
<1>. QED
  BY <1>2, <1>3, <1>4 DEF WriterInv

\* Power loss tears at most the page or the double word in hand.
LEMMA PowerLossKeeps ==
  ASSUME WriterInv, PowerLoss
  PROVE  WriterInv'
<1>1. /\ GiveUp /\ UNCHANGED <<next, page, magicB, gen, size>>
      /\ flash \in [Address -> Cells] /\ next \in Nat /\ page \in 0 .. Pages - 1
  BY CapacityBounds DEF PowerLoss, WriterInv, WriterTypeOK, Cells
<1>2. pc \in {"begin", "erase", "write", "finish"} => ~magicB
  BY DEF WriterInv, Progress
<1>3. CASE UNCHANGED flash
  BY <1>1, <1>3, GivesUp
<1>4. CASE pc = "begin" /\ FailsToErase(0)
  <2>1. 0 \in Nat /\ 0 < Pages
    BY Positive
  <2>. QED
    BY <1>1, <1>2, <1>4, <2>1, ErasureFails, GivesUp
<1>5. CASE pc = "erase" /\ page # EndPage /\ FailsToErase(page + 1)
  <2>1. page + 1 \in Nat /\ page + 1 < Pages
    BY <1>5, PageToErase, Positive
  <2>. QED
    BY <1>1, <1>2, <1>5, <2>1, ErasureFails, GivesUp
<1>6. CASE ProgramsNext /\ FailsToProgram
  <2>1. next + Gran <= Capacity
    BY <1>6, ChunkRoom
  <2>2. pc \in {"write", "finish"}
    BY <1>6 DEF ProgramsNext
  <2>. QED
    BY <1>1, <1>2, <1>6, <2>1, <2>2, ProgrammingFails, GivesUp
<1>. QED
  BY <1>3, <1>4, <1>5, <1>6 DEF PowerLoss

\* The writer starts with nothing received.
LEMMA InitHolds == Init => WriterInv
<1>. SUFFICES ASSUME Init PROVE WriterInv
  OBVIOUS
<1>. USE DEF Init
<1>1. WriterTypeOK
  <2>1. carry \in Seq(Bytes) /\ block \in Seq(Bytes) /\ Len(carry) = 0 /\ Len(block) = 0
    BY EmptySeq
  <2>2. /\ Len(carry) < Gran /\ Len(block) <= MaxBlock /\ dataIndex \in 0 .. Len(block)
    BY <2>1, Positive
  <2>3. /\ next \in 0 .. Capacity /\ page \in 0 .. Pages - 1 /\ left \in 0 .. Capacity
        /\ size \in 0 .. Capacity /\ gen \in 0 .. 1
    BY CapacityBounds, Positive
  <2>4. flash \in [Address -> Bytes \cup {Old, Blank, Torn}]
    OBVIOUS
  <2>. QED
    BY <2>1, <2>2, <2>3, <2>4 DEF WriterTypeOK
<1>2. Progress
  BY EmptySeq DEF Progress
<1>3. Aligned
  BY Positive DEF Aligned
<1>4. TrailerKept
  BY DEF TrailerKept
<1>5. Phases /\ Erased /\ EndInPage /\ Stored /\ Complete /\ MarkedStored
  BY DEF Phases, Erased, EndInPage, Stored, Complete, MarkedStored
<1>. QED
  BY <1>1, <1>2, <1>3, <1>4, <1>5 DEF WriterInv

LEMMA NextKeeps ==
  ASSUME WriterInv, [Next]_vars
  PROVE  WriterInv'
<1>1. CASE UNCHANGED vars
  <2>1. Held' = Held /\ End' = End
    BY <1>1 DEF vars, Held, End
  <2>2. WriterTypeOK' /\ Phases' /\ Progress' /\ Aligned' /\ Erased' /\ EndInPage'
    BY <1>1, <2>1
       DEF vars, WriterInv, WriterTypeOK, Phases, Progress, Aligned, Erased, EndInPage
  <2>3. Stored' /\ TrailerKept' /\ Complete' /\ MarkedStored'
    BY <1>1, <2>1
       DEF vars, WriterInv, Stored, Received, Byte, TrailerKept, Complete, MarkedStored
  <2>. QED
    BY <2>2, <2>3 DEF WriterInv
<1>2. CASE Next
  BY <1>2, AbortKeeps, StartKeeps, BeginKeeps, WriteKeeps, EraseNextKeeps, EraseDoneKeeps,
     ProgramChunkKeeps, AcceptKeeps, FinishKeeps, FlushCarryKeeps, MarkKeeps, PowerLossKeeps
     DEF Next
<1>. QED
  BY <1>1, <1>2

-----------------------------------------------------------------------------
(* Theorems                                                                 *)

\* The inductive invariant of the flash writer holds for ever.
THEOREM WriterInvariant == Spec => []WriterInv
<1>1. WriterInv /\ [Next]_vars => WriterInv'
  BY NextKeeps
<1>. QED
  BY InitHolds, <1>1, PTL DEF Spec

\* The writer's state keeps its type: a download of at most the slot's capacity
\* moves neither next_write_addr nor current_page beyond it.
THEOREM WriterTypeCorrect == Spec => []WriterTypeOK
<1>1. WriterInv => WriterTypeOK
  BY DEF WriterInv
<1>. QED
  BY WriterInvariant, <1>1, PTL

\* sr_flash_writer_write: whatever the lengths of the blocks, each accepted byte
\* is in flash or in RAM at its place, once.
THEOREM AcceptedIsStored == Spec => []Stored
<1>1. WriterInv => Stored
  BY DEF WriterInv
<1>. QED
  BY WriterInvariant, <1>1, PTL

\* erase_up_to: no double word is programmed that was not erased before.
THEOREM OnlyBlankProgrammed == Spec => []NeverOverprogrammed
<1>1. WriterInv => NeverOverprogrammed
  BY ChunkRoom DEF NeverOverprogrammed
<1>. QED
  BY WriterInvariant, <1>1, PTL

\* erase_up_to: the page after the last one of the slot, the trailer, is not
\* touched by a download of any size that fits.
THEOREM TrailerNotTouched == Spec => []TrailerKept
<1>1. WriterInv => TrailerKept
  BY DEF WriterInv
<1>. QED
  BY WriterInvariant, <1>1, PTL

\* 0x37: a marked slot B holds the download from its first to its last byte,
\* whatever failed and whenever power went.
THEOREM MarkedIsStored == Spec => []MarkedStored
<1>1. WriterInv => MarkedStored
  BY DEF WriterInv
<1>. QED
  BY WriterInvariant, <1>1, PTL

=============================================================================
