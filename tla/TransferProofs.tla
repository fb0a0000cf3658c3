--------------------------- MODULE TransferProofs ---------------------------
(***************************************************************************)
(* The client and the server of a download agree, for every length of file *)
(* and block, range of the block counter, number of tries and downloads,   *)
(* and whatever the channels lose or delay.                                *)
(***************************************************************************)
EXTENDS Transfer, DownloadProofs

Sid == {"0x34", "0x36", "0x37"}
Code == {"positive", "0x13", "0x24", "0x31", "0x33", "0x71", "0x72", "0x73", "silent"}
Message == [sid : Sid, n : 0 .. SeqMod - 1, block : Seq(Data)]
Answer == [sid : Sid, n : 0 .. SeqMod - 1, r : Code]
Elems(s) == {s[i] : i \in 1 .. Len(s)}

\* What was sent last comes last: behind one of latest there are only such.
Ordered(s, latest) ==
    \A i, j \in 1 .. Len(s) : i < j /\ s[i] \in latest => s[j] \in latest

\* The first units of a file, and how many the next block has.
Prefix(a, n) == [i \in 1 .. n |-> <<a, i>>]
Step == IF pos + BlockLen <= FileLen THEN BlockLen ELSE FileLen - pos

-----------------------------------------------------------------------------
(* The invariant.  ph is the part of the download that the client is in, or *)
(* was in when it ended.                                                    *)

Part == {"start", "blocks", "exit"}

\* What the client sends in this part.
Sent(ph) ==
    CASE ph = "start"  -> [sid |-> "0x34", n |-> 0, block |-> <<>>]
      [] ph = "blocks" -> [sid |-> "0x36", n |-> counter, block |-> NextBlock]
      [] ph = "exit"   -> [sid |-> "0x37", n |-> 0, block |-> <<>>]

\* What it sent before, which may still be under way.
Before(ph, m) ==
    /\ ph # "start"
    /\ IF pos = 0 THEN m.sid = "0x34" ELSE m.sid = "0x36" /\ Succ(m.n) = counter

Sized(m) == m.sid = "0x36" => Len(m.block) \in 1 .. MaxBlock
Late(ph) == {m \in Message : Before(ph, m) /\ Sized(m)}
LateAnswers(ph) == {m \in Answer : Before(ph, m)}
Answers(ph) == {m \in Answer : m.sid = Sent(ph).sid /\ m.n = Sent(ph).n}
Positive(ph) == [sid |-> Sent(ph).sid, n |-> Sent(ph).n, r |-> "positive"]

Position(ph) ==
    /\ ph = "start" => pos = 0 /\ counter = 1
    /\ ph = "blocks" => pos < FileLen /\ (pos = 0 => counter = 1)
    /\ ph = "exit" => pos = FileLen

\* The server has written what the client knows of, or one block more.
Mine == stream = Prefix(attempt, Len(stream))
Level == Len(stream) = pos /\ seqCounter = counter /\ (accepted <=> pos > 0)
Ahead == Len(stream) = pos + Step /\ seqCounter = Succ(counter) /\ accepted
Marked == magicB /\ flushed /\ stream = File(attempt)

\* What the positive answer in this part tells.
Acknowledged(ph) ==
    /\ ph = "start" =>
         stream = <<>> /\ ~magicB /\ (dlState = "inProgress" => seqCounter = 1 /\ ~accepted)
    /\ ph = "blocks" => Len(stream) = pos + Step /\ (dlState = "inProgress" => Ahead)
    /\ ph = "exit" => Marked

\* The server writes a block ahead only when nothing older can follow.  Before its
\* 0x34 is answered slot B may be marked for an earlier file, after it only when the
\* whole of this one is there.
ServerInv(ph) ==
    /\ ph = "start" /\ magicB => \E a \in 1 .. attempt - 1 : stream = File(a)
    /\ ph # "start" => Mine
    /\ ph = "blocks" => ~magicB /\ Len(stream) \in {pos, pos + Step}
    /\ ph = "blocks" /\ dlState = "inProgress" =>
         Level \/ (Ahead /\ Elems(toServer) \subseteq {Sent(ph)})
    /\ ph = "exit" => Len(stream) = pos
    /\ ph = "exit" /\ dlState = "inProgress" => Level
    /\ phase = "done" => Marked

ChannelInv(ph) ==
    /\ Elems(toServer) \subseteq Late(ph) \cup {Sent(ph)}
    /\ Ordered(toServer, {Sent(ph)})
    /\ Elems(toClient) \subseteq LateAnswers(ph) \cup Answers(ph)
    /\ Ordered(toClient, Answers(ph))
    /\ Elems(toClient) \cap Answers(ph) # {} => Elems(toServer) \subseteq {Sent(ph)}
    /\ Positive(ph) \in Elems(toClient) => Acknowledged(ph)

At(ph) ==
    /\ phase = ph \/ phase = "failed" \/ (ph = "exit" /\ phase = "done")
    /\ Position(ph) /\ ServerInv(ph) /\ ChannelInv(ph)

\* All that slot B ever holds is of one file.
FileInv ==
    /\ \E a \in 1 .. attempt : stream = Prefix(a, Len(stream))
    /\ Len(stream) <= FileLen /\ announced \in {0, FileLen}

Channels == toServer \in Seq(Message) /\ toClient \in Seq(Answer)

TriesInv ==
    /\ Active /\ ~waiting => tries < MaxTries
    /\ ~Active => ~waiting

\* Only an unlocked server has a download in progress.
AccessInv == dlState = "inProgress" => unlocked

\* How the server answers; it answers 0x24 to 0x36 and 0x37 when it has no download,
\* and nothing under way can start one then.
Told == {"positive", "0x24", "0x33", "0x72"}
RefusalInv == \A m \in Elems(toClient) :
    m.r \in Told /\ (m.r = "0x24" => m.sid # "0x34" /\ dlState = "idle")

TransferInv ==
    /\ TypeOK /\ DownloadInv /\ FileInv /\ Channels /\ TriesInv /\ AccessInv /\ RefusalInv
    /\ \E ph \in Part : At(ph)

-----------------------------------------------------------------------------
(* Channels                                                                 *)

\* A message that is appended keeps the order if it is one of the latest or none
\* of them was sent yet.
LEMMA AppendChannel ==
  ASSUME NEW S, NEW s \in Seq(S), NEW x \in S
  PROVE  /\ Append(s, x) \in Seq(S) /\ Append(s, x) # <<>>
         /\ Elems(Append(s, x)) = Elems(s) \cup {x}
         /\ \A T : Ordered(s, T) /\ (x \in T \/ Elems(s) \cap T = {})
                     => Ordered(Append(s, x), T)
<1> DEFINE t == Append(s, x)
<1>1. /\ t \in Seq(S) /\ t # <<>> /\ Len(t) = Len(s) + 1
      /\ \A i \in 1 .. Len(s) : t[i] = s[i]
      /\ t[Len(s) + 1] = x /\ Len(s) \in Nat
  BY AppendProperties, LenProperties
<1> HIDE DEF t
<1>2. Elems(t) = Elems(s) \cup {x}
  BY <1>1 DEF Elems
<1>3. ASSUME NEW T, Ordered(s, T), x \in T \/ Elems(s) \cap T = {}
      PROVE  Ordered(t, T)
  <2>1. CASE x \in T
    BY <1>1, <1>3, <2>1 DEF Ordered
  <2>2. CASE Elems(s) \cap T = {}
    BY <1>1, <1>3, <2>2 DEF Ordered, Elems
  <2>. QED
    BY <1>3, <2>1, <2>2
<1>. QED
  BY <1>1, <1>2, <1>3 DEF t

\* Taking the first message keeps the order.
LEMMA TailChannel ==
  ASSUME NEW S, NEW s \in Seq(S), s # <<>>
  PROVE  /\ Tail(s) \in Seq(S) /\ Elems(Tail(s)) \subseteq Elems(s)
         /\ Head(s) \in Elems(s) /\ Head(s) \in S
         /\ \A T : Ordered(s, T) => Ordered(Tail(s), T)
         /\ \A T : Ordered(s, T) /\ Head(s) \in T => Elems(s) \subseteq T
<1> DEFINE t == Tail(s)
<1>1. /\ t \in Seq(S) /\ Len(t) = Len(s) - 1 /\ Len(s) \in Nat /\ Len(s) # 0
      /\ \A i \in 1 .. Len(t) : t[i] = s[i + 1]
      /\ Head(s) = s[1] /\ Head(s) \in S
  BY HeadTailProperties, LenProperties, EmptySeq
<1> HIDE DEF t
<1>2. Elems(t) \subseteq Elems(s) /\ s[1] \in Elems(s)
  BY <1>1 DEF Elems
<1>3. ASSUME NEW T, Ordered(s, T)
      PROVE  Ordered(t, T)
  <2>1. ASSUME NEW i \in 1 .. Len(t), NEW j \in 1 .. Len(t), i < j, t[i] \in T
        PROVE  t[j] \in T
    <3>1. i + 1 \in 1 .. Len(s) /\ j + 1 \in 1 .. Len(s) /\ i + 1 < j + 1
      BY <1>1, <2>1
    <3>2. t[i] = s[i + 1] /\ t[j] = s[j + 1]
      BY <1>1
    <3>. QED
      BY <1>3, <2>1, <3>1, <3>2 DEF Ordered
  <2>. QED
    BY <2>1 DEF Ordered
<1>4. ASSUME NEW T, Ordered(s, T), s[1] \in T
      PROVE  Elems(s) \subseteq T
  BY <1>1, <1>4 DEF Ordered, Elems
<1>. QED
  BY <1>1, <1>2, <1>3, <1>4 DEF t

\* An empty channel is in order.
LEMMA EmptyChannel ==
  /\ Elems(<<>>) = {}
  /\ \A T : Ordered(<<>>, T)
  /\ \A S : <<>> \in Seq(S)
BY EmptySeq DEF Elems, Ordered

\* So is one with a single message.
LEMMA OneMessage ==
  ASSUME NEW x
  PROVE  /\ Elems(<<x>>) = {x} /\ <<x>> # <<>>
         /\ Tail(<<x>>) = <<>> /\ Head(<<x>>) = x /\ Append(<<>>, x) = <<x>>
BY DEF Elems

-----------------------------------------------------------------------------
(* Blocks of a file                                                         *)

\* The numbers these proofs compare.
LEMMA Sizes ==
  /\ FileLen \in Nat /\ FileLen > 0 /\ FileLen <= Capacity /\ Capacity \in Nat
  /\ BlockLen \in Nat /\ BlockLen > 0 /\ BlockLen <= MaxBlock /\ MaxBlock \in Nat
  /\ MaxTries \in Nat /\ MaxTries > 0 /\ MaxAttempts \in Nat /\ MaxAttempts > 0
  /\ SeqMod \in Nat /\ SeqMod >= 2
BY TransferAssumption, DownloadAssumption DEF TransferAssumption, DownloadAssumption

\* No counter follows itself.
LEMMA SuccDiffers ==
  ASSUME NEW n \in 0 .. SeqMod - 1
  PROVE  Succ(n) # n /\ Succ(n) \in 0 .. SeqMod - 1
BY Sizes DEF Succ

\* A prefix is as long as it says, its length determines it, and it is a prefix.
LEMMA PrefixIs ==
  ASSUME NEW a, NEW n \in 0 .. FileLen
  PROVE  /\ Len(Prefix(a, n)) = n /\ Prefix(a, 0) = <<>>
         /\ Prefix(a, FileLen) = File(a)
         /\ IsPrefix(Prefix(a, n), File(a))
         /\ a \in 1 .. MaxAttempts => Prefix(a, n) \in Seq(Data)
<1>1. Len(Prefix(a, n)) = n /\ Prefix(a, 0) = <<>> /\ Prefix(a, FileLen) = File(a)
  BY Sizes DEF Prefix, File
<1>2. IsPrefix(Prefix(a, n), File(a))
  <2>1. Len(File(a)) = FileLen
    BY Sizes DEF File
  <2>2. SubSeq(File(a), 1, n) = Prefix(a, n)
    BY Sizes DEF File, Prefix
  <2>. QED
    BY <1>1, <2>1, <2>2 DEF IsPrefix
<1>3. ASSUME a \in 1 .. MaxAttempts PROVE Prefix(a, n) \in Seq(Data)
  <2>1. \A i \in 1 .. n : <<a, i>> \in Data
    BY <1>3, Sizes, TransferAssumption DEF TransferAssumption
  <2>. QED
    BY <2>1, Sizes DEF Prefix
<1>. QED
  BY <1>1, <1>2, <1>3

\* The next block continues the prefix up to pos.
LEMMA NextBlockIs ==
  ASSUME pos \in 0 .. FileLen, pos < FileLen, attempt \in 1 .. MaxAttempts
  PROVE  /\ NextBlock \in Seq(Data) /\ Len(NextBlock) = Step
         /\ Step \in 1 .. BlockLen /\ pos + Step \in 0 .. FileLen
         /\ Prefix(attempt, pos) \o NextBlock = Prefix(attempt, pos + Step)
<1>1. Step \in 1 .. BlockLen /\ pos + Step \in 0 .. FileLen /\ Step \in Nat /\ pos \in Nat
  BY Sizes DEF Step
<1>2. NextBlock = [i \in 1 .. Step |-> <<attempt, pos + i>>]
  <2>1. NextBlock = SubSeq(File(attempt), pos + 1, pos + Step)
    BY Sizes DEF NextBlock, Step
  <2>2. SubSeq(File(attempt), pos + 1, pos + Step) = [i \in 1 .. Step |-> <<attempt, pos + i>>]
    <3> DEFINE e == pos + Step
    <3>1. /\ e \in 0 .. FileLen /\ e - pos = Step /\ pos + 1 <= e
          /\ e - (pos + 1) + 1 = Step
      BY <1>1, Sizes
    <3>. QED
      BY <1>1, <3>1, Sizes DEF File
  <2>. QED
    BY <2>1, <2>2
<1>3. \A i \in 1 .. Step : <<attempt, pos + i>> \in Data
  BY <1>1, Sizes, TransferAssumption DEF TransferAssumption
<1>4. NextBlock \in Seq(Data) /\ Len(NextBlock) = Step
  <2> DEFINE step == Step
  <2>1. step \in Nat /\ \A i \in 1 .. step : <<attempt, pos + i>> \in Data
    BY <1>1, <1>3
  <2> HIDE DEF step
  <2>2. /\ [i \in 1 .. step |-> <<attempt, pos + i>>] \in Seq(Data)
        /\ Len([i \in 1 .. step |-> <<attempt, pos + i>>]) = step
    BY <2>1
  <2>. QED
    BY <1>2, <2>2 DEF step
<1>5. Prefix(attempt, pos) \o NextBlock = Prefix(attempt, pos + Step)
  BY <1>1, <1>2 DEF Prefix
<1>. QED
  BY <1>1, <1>4, <1>5

-----------------------------------------------------------------------------
(* The parts of a download                                                  *)

\* The types, one by one.
LEMMA Types ==
  ASSUME TypeOK
  PROVE  /\ waiting \in BOOLEAN /\ unlocked \in BOOLEAN
         /\ attempt \in 1 .. MaxAttempts /\ attempt \in Nat
         /\ pos \in 0 .. FileLen /\ pos \in Nat
         /\ counter \in 0 .. SeqMod - 1 /\ tries \in 0 .. MaxTries /\ tries \in Nat
         /\ DownloadTypeOK
<1>1. waiting \in BOOLEAN /\ unlocked \in BOOLEAN
  BY Zenon DEF TypeOK
<1>2. /\ attempt \in 1 .. MaxAttempts /\ pos \in 0 .. FileLen
      /\ counter \in 0 .. SeqMod - 1 /\ tries \in 0 .. MaxTries /\ DownloadTypeOK
  BY DEF TypeOK
<1>. QED
  BY <1>1, <1>2, Sizes

\* A part sends one message, which nothing sent before can be taken for.
LEMMA PartIs ==
  ASSUME TypeOK, NEW ph \in Part, Position(ph)
  PROVE  /\ Sent(ph) \in Message /\ Positive(ph) \in Answers(ph)
         /\ phase = ph => Request = Sent(ph)
         /\ Sent(ph) \notin Late(ph) /\ LateAnswers(ph) \cap Answers(ph) = {}
<1>. USE Types, Sizes
<1>1. CASE ph = "start"
  <2>1. Sent(ph) = [sid |-> "0x34", n |-> 0, block |-> <<>>]
    BY <1>1 DEF Sent
  <2>2. Sent(ph) \in Message /\ Positive(ph) \in Answers(ph)
    BY <2>1, EmptyChannel DEF Message, Positive, Answers, Answer, Sid, Code
  <2>. QED
    BY <1>1, <2>1, <2>2 DEF Request, Late, LateAnswers, Before
<1>2. CASE ph = "blocks"
  <2>1. Sent(ph) = [sid |-> "0x36", n |-> counter, block |-> NextBlock]
    BY <1>2 DEF Sent
  <2>2. NextBlock \in Seq(Data)
    BY <1>2, NextBlockIs DEF Position
  <2>3. Sent(ph) \in Message /\ Positive(ph) \in Answers(ph)
    BY <2>1, <2>2 DEF Message, Positive, Answers, Answer, Sid, Code
  <2>4. Succ(counter) # counter
    BY SuccDiffers
  <2>. QED
    BY <1>2, <2>1, <2>3, <2>4 DEF Request, Late, LateAnswers, Answers, Before
<1>3. CASE ph = "exit"
  <2>1. Sent(ph) = [sid |-> "0x37", n |-> 0, block |-> <<>>]
    BY <1>3 DEF Sent
  <2>2. Sent(ph) \in Message /\ Positive(ph) \in Answers(ph)
    BY <2>1, EmptyChannel DEF Message, Positive, Answers, Answer, Sid, Code
  <2>. QED
    BY <1>3, <2>1, <2>2 DEF Request, Late, LateAnswers, Answers, Before
<1>. QED
  BY <1>1, <1>2, <1>3 DEF Part

\* It is so in the next state, too.
LEMMA PartIsNext ==
  \A ph \in Part : (TypeOK /\ Position(ph))' =>
      /\ Positive(ph)' \in Answers(ph)'
      /\ Sent(ph)' \notin Late(ph)' /\ LateAnswers(ph)' \cap Answers(ph)' = {}
<1>1. \A ph \in Part : TypeOK /\ Position(ph) =>
         /\ Positive(ph) \in Answers(ph)
         /\ Sent(ph) \notin Late(ph) /\ LateAnswers(ph) \cap Answers(ph) = {}
  BY PartIs
<1>2. (\A ph \in Part : TypeOK /\ Position(ph) =>
         /\ Positive(ph) \in Answers(ph)
         /\ Sent(ph) \notin Late(ph) /\ LateAnswers(ph) \cap Answers(ph) = {})'
  BY <1>1, PTL
<1>. QED
  BY <1>2

\* What a part sends depends on where the client is.
LEMMA SamePart ==
  ASSUME NEW ph, UNCHANGED <<attempt, pos, counter>>
  PROVE  /\ Sent(ph)' = Sent(ph) /\ Late(ph)' = Late(ph) /\ Positive(ph)' = Positive(ph)
         /\ LateAnswers(ph)' = LateAnswers(ph) /\ Answers(ph)' = Answers(ph)
         /\ Position(ph)' = Position(ph) /\ Step' = Step
BY DEF Sent, Late, Sized, Positive, LateAnswers, Answers, Position, Step, Before, NextBlock,
   File

\* What it tells of the server depends on the download, too.
LEMMA SameServer ==
  ASSUME NEW ph, UNCHANGED <<attempt, pos, counter>>, UNCHANGED dlVars
  PROVE  /\ Mine' = Mine /\ Level' = Level /\ Ahead' = Ahead /\ Marked' = Marked
         /\ Acknowledged(ph)' = Acknowledged(ph)
BY SamePart DEF Mine, Level, Ahead, Marked, Acknowledged, dlVars, File, Prefix

\* A client that is active is in the part that it shows.
LEMMA ActivePart ==
  ASSUME NEW ph \in Part, At(ph), Active
  PROVE  phase = ph
BY DEF At, Active, Part

\* Types, files and access do not change while the server and the attempt stay.
LEMMA StillTyped ==
  ASSUME TransferInv, UNCHANGED dlVars, UNCHANGED <<attempt, unlocked>>,
         phase' \in {"start", "blocks", "exit", "done", "failed"},
         pos' \in 0 .. FileLen, counter' \in 0 .. SeqMod - 1,
         waiting' \in BOOLEAN, tries' \in 0 .. MaxTries
  PROVE  TypeOK' /\ DownloadInv' /\ FileInv' /\ AccessInv'
<1>1. DownloadInv' /\ DownloadTypeOK'
  BY DownloadKept DEF TransferInv, DownloadInv
<1>2. attempt' \in 1 .. MaxAttempts
  BY Types DEF TransferInv
<1>3. {waiting', unlocked'} \subseteq BOOLEAN
  BY Types, Zenon DEF TransferInv
<1>4. TypeOK'
  BY <1>1, <1>2, <1>3, Zenon DEF TypeOK
<1>5. FileInv' /\ AccessInv'
  BY DEF TransferInv, FileInv, AccessInv, dlVars, Prefix
<1>. QED
  BY <1>1, <1>4, <1>5

\* What the server has written fits as before, while the channel to it brings
\* nothing but what the client sends now.
LEMMA ServerKept ==
  ASSUME NEW ph, ServerInv(ph), UNCHANGED <<attempt, pos, counter>>, UNCHANGED dlVars,
         phase' # "done" \/ phase' = phase,
         Elems(toServer') \subseteq Elems(toServer) \cup {Sent(ph)}
  PROVE  ServerInv(ph)'
BY SamePart, SameServer DEF ServerInv, dlVars, File

\* A server without a download stays so, while no answer is added.
LEMMA RefusalKept ==
  ASSUME RefusalInv, Elems(toClient') \subseteq Elems(toClient),
         dlState = "idle" => dlState' = "idle"
  PROVE  RefusalInv'
BY DEF RefusalInv, Told

\* An answer that is sent joins the others.
LEMMA AnswerKept ==
  ASSUME RefusalInv, NEW answer,
         Elems(toClient') \subseteq Elems(toClient) \cup {answer},
         answer.r \in Told \/ toClient' = toClient,
         answer.r = "0x24" => answer.sid # "0x34" /\ dlState' = "idle",
         \/ dlState = "idle" => dlState' = "idle"
         \/ \A x \in Elems(toClient) : x.sid = "0x34"
  PROVE  RefusalInv'
BY DEF RefusalInv, Told

-----------------------------------------------------------------------------
(* Each step keeps the invariant                                            *)

\* The request joins those of its part; nothing is left in the other channel.
LEMMA SendKeeps ==
  ASSUME TransferInv, Send
  PROVE  TransferInv'
<1>1. PICK ph \in Part : At(ph)
  BY DEF TransferInv
<1>2. phase = ph /\ Position(ph) /\ TypeOK
  BY <1>1, ActivePart DEF Send, At, TransferInv
<1>3. Request = Sent(ph) /\ Sent(ph) \in Message /\ toServer \in Seq(Message)
  BY <1>2, PartIs DEF TransferInv, Channels
<1>4. /\ toServer' = Append(toServer, Sent(ph)) /\ toClient' = <<>>
      /\ waiting' = TRUE /\ tries' = tries + 1 /\ ~waiting /\ Active
      /\ UNCHANGED <<attempt, pos, counter>> /\ UNCHANGED dlVars
      /\ phase' = phase /\ unlocked' = unlocked
  BY <1>3 DEF Send
<1>5. /\ toServer' \in Seq(Message) /\ Elems(toServer') = Elems(toServer) \cup {Sent(ph)}
      /\ Ordered(toServer, {Sent(ph)}) => Ordered(toServer', {Sent(ph)})
  BY <1>3, <1>4, AppendChannel
<1>6. tries' \in 0 .. MaxTries
  BY <1>4, Types, Sizes DEF TransferInv, TriesInv
<1>7. TypeOK' /\ DownloadInv' /\ FileInv' /\ AccessInv'
  BY <1>2, <1>4, <1>6, Types, StillTyped DEF TypeOK
<1>8. Channels' /\ TriesInv'
  BY <1>4, <1>5, EmptyChannel DEF Channels, TriesInv, Active
<1>9. At(ph)'
  <2>1. Position(ph)' /\ Sent(ph)' = Sent(ph) /\ Late(ph)' = Late(ph)
    BY <1>2, <1>4, SamePart
  <2>2. ServerInv(ph)'
    BY <1>1, <1>4, <1>5, ServerKept DEF At
  <2>3. ChannelInv(ph)'
    BY <1>1, <1>4, <1>5, <2>1, EmptyChannel DEF At, ChannelInv
  <2>. QED
    BY <1>2, <1>4, <2>1, <2>2, <2>3 DEF At
<1>10. RefusalInv'
  BY <1>4, EmptyChannel DEF RefusalInv
<1>. QED
  BY <1>7, <1>8, <1>9, <1>10 DEF TransferInv

\* The client sends again or gives up; whatever is under way stays so.
LEMMA TimeoutKeeps ==
  ASSUME TransferInv, Timeout
  PROVE  TransferInv'
<1>1. PICK ph \in Part : At(ph)
  BY DEF TransferInv
<1>2. TypeOK /\ Active /\ phase = ph /\ Position(ph)
  BY <1>1, ActivePart DEF Timeout, At, TransferInv, TriesInv
<1>3. /\ waiting' = FALSE /\ phase' \in {phase, "failed"} /\ (phase' = phase => tries < MaxTries)
      /\ tries' = tries /\ toServer' = toServer /\ toClient' = toClient
      /\ UNCHANGED <<attempt, pos, counter>> /\ UNCHANGED dlVars /\ unlocked' = unlocked
  BY <1>2 DEF Timeout, Active
<1>4. RefusalInv'
  BY <1>3, RefusalKept DEF TransferInv, dlVars
<1>5. TypeOK' /\ DownloadInv' /\ FileInv' /\ AccessInv'
  BY <1>2, <1>3, Types, StillTyped DEF TypeOK
<1>6. Channels' /\ TriesInv'
  BY <1>3 DEF TransferInv, Channels, TriesInv, Active
<1>7. At(ph)'
  <2>1. /\ Position(ph)' /\ Sent(ph)' = Sent(ph) /\ Late(ph)' = Late(ph)
        /\ LateAnswers(ph)' = LateAnswers(ph) /\ Answers(ph)' = Answers(ph)
        /\ Positive(ph)' = Positive(ph)
    BY <1>2, <1>3, SamePart
  <2>2. Acknowledged(ph)' = Acknowledged(ph) /\ Marked' = Marked
    BY <1>3, SameServer
  <2>3. ServerInv(ph)'
    BY <1>1, <1>2, <1>3, ServerKept DEF At, Active
  <2>4. ChannelInv(ph)'
    BY <1>1, <1>3, <2>1, <2>2 DEF At, ChannelInv
  <2>. QED
    BY <1>2, <1>3, <2>1, <2>3, <2>4 DEF At
<1>. QED
  BY <1>4, <1>5, <1>6, <1>7 DEF TransferInv

\* The channels lose the oldest message.
LEMMA LoseRequestKeeps ==
  ASSUME TransferInv, LoseRequest
  PROVE  TransferInv'
<1>1. PICK ph \in Part : At(ph)
  BY DEF TransferInv
<1>2. TypeOK /\ Position(ph) /\ toServer \in Seq(Message) /\ toServer # <<>>
  BY <1>1 DEF LoseRequest, At, TransferInv, Channels
<1>3. /\ toServer' = Tail(toServer) /\ toClient' = toClient
      /\ UNCHANGED <<attempt, pos, counter>> /\ UNCHANGED dlVars
      /\ phase' = phase /\ waiting' = waiting /\ tries' = tries /\ unlocked' = unlocked
  BY DEF LoseRequest, clientVars
<1>4. /\ toServer' \in Seq(Message) /\ Elems(toServer') \subseteq Elems(toServer)
      /\ Ordered(toServer, {Sent(ph)}) => Ordered(toServer', {Sent(ph)})
  BY <1>2, <1>3, TailChannel
<1>5. TypeOK' /\ DownloadInv' /\ FileInv' /\ AccessInv'
  BY <1>2, <1>3, Types, StillTyped DEF TypeOK
<1>6. Channels' /\ TriesInv'
  BY <1>3, <1>4 DEF TransferInv, Channels, TriesInv, Active
<1>7. At(ph)'
  <2>1. /\ Position(ph)' /\ Sent(ph)' = Sent(ph) /\ Late(ph)' = Late(ph)
        /\ LateAnswers(ph)' = LateAnswers(ph) /\ Answers(ph)' = Answers(ph)
        /\ Positive(ph)' = Positive(ph)
    BY <1>2, <1>3, SamePart
  <2>2. Acknowledged(ph)' = Acknowledged(ph) /\ Marked' = Marked
    BY <1>3, SameServer
  <2>3. ServerInv(ph)'
    BY <1>1, <1>3, <1>4, ServerKept DEF At
  <2>4. ChannelInv(ph)'
    BY <1>1, <1>3, <1>4, <2>1, <2>2 DEF At, ChannelInv
  <2>. QED
    BY <1>1, <1>3, <2>1, <2>3, <2>4 DEF At
<1>8. RefusalInv'
  BY <1>3, RefusalKept DEF TransferInv, dlVars
<1>. QED
  BY <1>5, <1>6, <1>7, <1>8 DEF TransferInv

\* As they do with the answers.
LEMMA LoseAnswerKeeps ==
  ASSUME TransferInv, LoseAnswer
  PROVE  TransferInv'
<1>1. PICK ph \in Part : At(ph)
  BY DEF TransferInv
<1>2. TypeOK /\ Position(ph) /\ toClient \in Seq(Answer) /\ toClient # <<>>
  BY <1>1 DEF LoseAnswer, At, TransferInv, Channels
<1>3. /\ toServer' = toServer /\ toClient' = Tail(toClient)
      /\ UNCHANGED <<attempt, pos, counter>> /\ UNCHANGED dlVars
      /\ phase' = phase /\ waiting' = waiting /\ tries' = tries /\ unlocked' = unlocked
  BY DEF LoseAnswer, clientVars
<1>4. /\ toClient' \in Seq(Answer) /\ Elems(toClient') \subseteq Elems(toClient)
      /\ Ordered(toClient, Answers(ph)) => Ordered(toClient', Answers(ph))
  BY <1>2, <1>3, TailChannel
<1>5. TypeOK' /\ DownloadInv' /\ FileInv' /\ AccessInv'
  BY <1>2, <1>3, Types, StillTyped DEF TypeOK
<1>6. Channels' /\ TriesInv'
  BY <1>3, <1>4 DEF TransferInv, Channels, TriesInv, Active
<1>7. At(ph)'
  <2>1. /\ Position(ph)' /\ Sent(ph)' = Sent(ph) /\ Late(ph)' = Late(ph)
        /\ LateAnswers(ph)' = LateAnswers(ph) /\ Answers(ph)' = Answers(ph)
        /\ Positive(ph)' = Positive(ph)
    BY <1>2, <1>3, SamePart
  <2>2. Acknowledged(ph)' = Acknowledged(ph) /\ Marked' = Marked
    BY <1>3, SameServer
  <2>3. ServerInv(ph)'
    BY <1>1, <1>3, ServerKept DEF At
  <2>4. ChannelInv(ph)'
    BY <1>1, <1>3, <1>4, <2>1, <2>2 DEF At, ChannelInv
  <2>. QED
    BY <1>1, <1>3, <2>1, <2>3, <2>4 DEF At
<1>8. RefusalInv'
  BY <1>3, <1>4, RefusalKept DEF TransferInv, dlVars
<1>. QED
  BY <1>5, <1>6, <1>7, <1>8 DEF TransferInv

\* A cancelled download keeps what was written, and nothing is in progress.
LEMMA SessionEndsKeeps ==
  ASSUME TransferInv, SessionEnds
  PROVE  TransferInv'
<1>1. PICK ph \in Part : At(ph)
  BY DEF TransferInv
<1>2. TypeOK /\ Position(ph)
  BY <1>1 DEF At, TransferInv
<1>3. /\ dlState' = "idle" /\ ResetProgramming /\ UNCHANGED history
      /\ toServer' = toServer /\ toClient' = toClient
      /\ UNCHANGED <<attempt, pos, counter>>
      /\ phase' = phase /\ waiting' = waiting /\ tries' = tries /\ unlocked' = FALSE
  BY DEF SessionEnds, clientVars, ResetProgramming, history
<1>4. DownloadInv'
  BY <1>3, ResetStep DEF TransferInv
<1>5. FileInv'
  BY <1>3 DEF TransferInv, FileInv, history, Prefix
<1>6. TypeOK'
  <2>1. {waiting', unlocked'} \subseteq BOOLEAN
    BY <1>2, <1>3, Types, Zenon
  <2>2. attempt' = attempt /\ pos' = pos /\ counter' = counter
    BY <1>3
  <2>. QED
    BY <1>2, <1>3, <1>4, <2>1, <2>2, Zenon DEF TypeOK, DownloadInv
<1>7. Channels' /\ TriesInv'
  BY <1>3 DEF TransferInv, Channels, TriesInv, Active
<1>8. At(ph)'
  <2>1. /\ Position(ph)' /\ Sent(ph)' = Sent(ph) /\ Late(ph)' = Late(ph)
        /\ LateAnswers(ph)' = LateAnswers(ph) /\ Answers(ph)' = Answers(ph)
        /\ Positive(ph)' = Positive(ph)
    BY <1>2, <1>3, SamePart
  <2>2. Mine' = Mine /\ Marked' = Marked /\ Step' = Step
    BY <1>3, SamePart DEF Mine, Marked, history, Prefix, File
  <2>3. Acknowledged(ph) => Acknowledged(ph)'
    BY <1>3, <2>2 DEF Acknowledged, history
  <2>4. ServerInv(ph)'
    BY <1>1, <1>3, <2>1, <2>2 DEF At, ServerInv, history, File
  <2>5. ChannelInv(ph)'
    BY <1>1, <1>3, <2>1, <2>3 DEF At, ChannelInv
  <2>. QED
    BY <1>1, <1>3, <2>1, <2>4, <2>5 DEF At
<1>9. AccessInv' /\ RefusalInv'
  BY <1>3, RefusalKept DEF TransferInv, AccessInv
<1>. QED
  BY <1>4, <1>5, <1>6, <1>7, <1>8, <1>9 DEF TransferInv

\* A new attempt begins with both channels empty, whatever slot B holds.
LEMMA TryAgainKeeps ==
  ASSUME TransferInv, TryAgain
  PROVE  TransferInv'
<1>1. /\ ~Active /\ phase' = "start" /\ attempt' = attempt + 1 /\ attempt < MaxAttempts
      /\ pos' = 0 /\ counter' = 1 /\ tries' = 0
      /\ waiting' = waiting
      /\ toServer' = <<>> /\ toClient' = <<>>
  BY DEF TryAgain, Active
<1>2. waiting = FALSE
  BY <1>1, Types DEF TransferInv, TriesInv
<1>3. /\ UNCHANGED history
      /\ \/ UNCHANGED dlVars /\ unlocked' = unlocked
         \/ ResetProgramming /\ unlocked' = TRUE
  BY DEF TryAgain, dlVars, history
<1>4. DownloadInv'
  BY <1>3, DownloadKept, ResetStep DEF TransferInv
<1>5. attempt' \in 1 .. MaxAttempts /\ 1 .. attempt \subseteq 1 .. attempt'
  BY <1>1, Types, Sizes DEF TransferInv
<1>6. FileInv'
  <2>1. stream' = stream /\ announced' = announced
    BY <1>3 DEF history
  <2>. QED
    BY <1>5, <2>1 DEF TransferInv, FileInv, Prefix
<1>7. TypeOK'
  <2>0. unlocked' \in BOOLEAN
    BY <1>3, Types, Zenon DEF TransferInv
  <2>1. {waiting', unlocked'} \subseteq BOOLEAN
    BY <1>1, <1>2, <2>0, Zenon
  <2>2. pos' \in 0 .. FileLen /\ counter' \in 0 .. SeqMod - 1 /\ tries' \in 0 .. MaxTries
    BY <1>1, Sizes
  <2>. QED
    BY <1>1, <1>4, <1>5, <2>1, <2>2, Zenon DEF TypeOK, DownloadInv
<1>8. Channels' /\ TriesInv'
  BY <1>1, Sizes, EmptyChannel DEF Channels, TriesInv, Active
<1>9. At("start")'
  <2>0. magicB' => \E a \in 1 .. attempt' - 1 : stream' = File(a)'
    <3>. SUFFICES ASSUME magicB PROVE \E a \in 1 .. attempt : stream = File(a)
      BY <1>1, <1>3, Types DEF TransferInv, history, File
    <3>1. PICK a \in 1 .. attempt : stream = Prefix(a, Len(stream))
      BY DEF TransferInv, FileInv
    <3>2. Len(stream) = FileLen
      BY Sizes DEF TransferInv, DownloadInv, MarkedComplete, FileInv
    <3>. QED
      BY <3>1, <3>2, Sizes, PrefixIs
  <2>1. ServerInv("start")' /\ Position("start")'
    BY <1>1, <2>0 DEF ServerInv, Position
  <2>2. ChannelInv("start")'
    BY <1>1, EmptyChannel DEF ChannelInv
  <2>. QED
    BY <1>1, <2>1, <2>2 DEF At
<1>10. AccessInv' /\ RefusalInv'
  BY <1>1, <1>3, EmptyChannel DEF TransferInv, AccessInv, RefusalInv, ResetProgramming, dlVars
<1>. QED
  BY <1>4, <1>6, <1>7, <1>8, <1>9, <1>10 DEF TransferInv, Part

\* An answer that is not the one the client waits for ends the download.
LEMMA RefusedKeeps ==
  ASSUME TransferInv, Receive, NEW ph \in Part, At(ph), Head(toClient) # Positive(ph)
  PROVE  TransferInv'
<1>1. /\ TypeOK /\ Active /\ phase = ph /\ Position(ph) /\ toClient # <<>>
      /\ toClient \in Seq(Answer)
  BY ActivePart DEF Receive, At, TransferInv, TriesInv, Channels
<1>2. /\ phase' = "failed" /\ UNCHANGED <<attempt, pos, counter>> /\ UNCHANGED dlVars
      /\ tries' = tries /\ waiting' = FALSE /\ unlocked' = unlocked
      /\ toServer' = toServer /\ toClient' = Tail(toClient)
  BY <1>1, PartIs DEF Receive, Positive
<1>3. /\ toClient' \in Seq(Answer) /\ Elems(toClient') \subseteq Elems(toClient)
      /\ Ordered(toClient, Answers(ph)) => Ordered(toClient', Answers(ph))
  BY <1>1, <1>2, TailChannel
<1>4. TypeOK' /\ DownloadInv' /\ FileInv' /\ AccessInv'
  BY <1>1, <1>2, Types, StillTyped DEF TypeOK
<1>5. Channels' /\ TriesInv'
  BY <1>2, <1>3 DEF TransferInv, Channels, TriesInv, Active
<1>6. At(ph)'
  <2>1. /\ Position(ph)' /\ Sent(ph)' = Sent(ph) /\ Late(ph)' = Late(ph)
        /\ LateAnswers(ph)' = LateAnswers(ph) /\ Answers(ph)' = Answers(ph)
        /\ Positive(ph)' = Positive(ph)
    BY <1>1, <1>2, SamePart
  <2>2. Acknowledged(ph)' = Acknowledged(ph) /\ Marked' = Marked
    BY <1>2, SameServer
  <2>3. ServerInv(ph)'
    BY <1>2, ServerKept DEF At
  <2>4. ChannelInv(ph)'
    BY <1>2, <1>3, <2>1, <2>2 DEF At, ChannelInv
  <2>. QED
    BY <1>2, <2>1, <2>3, <2>4 DEF At
<1>7. RefusalInv'
  BY <1>2, <1>3, RefusalKept DEF TransferInv, dlVars
<1>. QED
  BY <1>4, <1>5, <1>6, <1>7 DEF TransferInv

\* The positive answer: nothing older is under way in either direction, and the
\* server is where the client now goes.
LEMMA PositiveKeeps ==
  ASSUME TransferInv, Receive, NEW ph \in Part, At(ph), Head(toClient) = Positive(ph)
  PROVE  TransferInv'
<1>1. /\ TypeOK /\ Active /\ phase = ph /\ Position(ph) /\ toClient # <<>>
      /\ toClient \in Seq(Answer) /\ Positive(ph) \in Answers(ph)
  BY ActivePart, PartIs DEF Receive, At, TransferInv, TriesInv, Channels
<1>2. /\ Advance /\ UNCHANGED dlVars /\ attempt' = attempt
      /\ waiting' = FALSE /\ unlocked' = unlocked /\ tries' = 0
      /\ toServer' = toServer /\ toClient' = Tail(toClient)
  BY <1>1, PartIs DEF Receive, Positive, Advance
<1>3. /\ toClient' \in Seq(Answer) /\ Elems(toClient') \subseteq Answers(ph)
      /\ Elems(toServer) \subseteq {Sent(ph)} /\ Acknowledged(ph)
      /\ Ordered(toClient, Answers(ph)) => Ordered(toClient', Answers(ph))
  BY <1>1, <1>2, TailChannel DEF At, ChannelInv
<1>4. RefusalInv'
  BY <1>1, <1>2, TailChannel, RefusalKept DEF TransferInv, dlVars
<1>5. waiting' \in BOOLEAN
  BY <1>1, <1>2, Types, Zenon
<1>6. CASE ph = "exit"
  <2>1. phase' = "done" /\ UNCHANGED <<attempt, pos, counter>>
    BY <1>1, <1>2, <1>6 DEF Advance
  <2>2. TypeOK' /\ DownloadInv' /\ FileInv' /\ AccessInv'
    <3>1. /\ pos' \in 0 .. FileLen /\ counter' \in 0 .. SeqMod - 1 /\ tries' \in 0 .. MaxTries
      BY <1>1, <1>2, <2>1, Types, Sizes
    <3>. QED
      BY <1>2, <1>5, <2>1, <3>1, StillTyped
  <2>3. Channels' /\ TriesInv'
    BY <1>2, <1>3, <2>1 DEF TransferInv, Channels, TriesInv, Active
  <2>4. /\ Position(ph)' /\ Sent(ph)' = Sent(ph) /\ Late(ph)' = Late(ph)
        /\ LateAnswers(ph)' = LateAnswers(ph) /\ Answers(ph)' = Answers(ph)
        /\ Positive(ph)' = Positive(ph)
    BY <1>1, <2>1, SamePart
  <2>5. Marked /\ Marked' = Marked /\ Acknowledged(ph)' = Acknowledged(ph)
    BY <1>2, <1>3, <1>6, <2>1, SameServer DEF Acknowledged
  <2>6. ServerInv(ph)'
    BY <1>2, <1>6, <2>1, <2>5, SamePart, SameServer DEF At, ServerInv, dlVars
  <2>7. ChannelInv(ph)'
    BY <1>2, <1>3, <2>4, <2>5 DEF At, ChannelInv
  <2>9. At(ph)'
    BY <1>6, <2>1, <2>4, <2>6, <2>7 DEF At
  <2>. QED
    BY <1>4, <2>2, <2>3, <2>9 DEF TransferInv
<1>7. CASE ph # "exit"
  <2>1. PICK new \in Part :
          /\ new # "start" /\ phase' = new
          /\ new = IF ph = "start" \/ pos' # FileLen THEN "blocks" ELSE "exit"
    BY <1>1, <1>2, <1>7, Sizes DEF Advance, Part, Position
  <2>2. /\ ph = "start" => pos' = 0 /\ pos = 0 /\ counter' = 1
        /\ ph = "blocks" => pos' = pos + Step /\ pos' \in 0 .. FileLen /\ pos' > 0
                            /\ counter' = Succ(counter)
        /\ new = "exit" => pos' = FileLen
        /\ new = "blocks" => pos' < FileLen
    <3>1. CASE ph = "start"
      BY <1>1, <1>2, <2>1, <3>1, Sizes DEF Advance, Position
    <3>2. CASE ph = "blocks"
      <4>1. /\ pos' = pos + Len(NextBlock) /\ counter' = Succ(counter)
            /\ phase' = IF pos' = FileLen THEN "exit" ELSE "blocks"
        BY <1>1, <1>2, <3>2 DEF Advance
      <4>2. /\ Len(NextBlock) = Step /\ Step \in 1 .. BlockLen /\ pos + Step \in 0 .. FileLen
            /\ pos \in Nat
        BY <1>1, <3>2, Types, NextBlockIs DEF Position
      <4>. QED
        BY <2>1, <3>2, <4>1, <4>2, Sizes
    <3>. QED
      BY <1>7, <3>1, <3>2 DEF Part
  <2>3. pos' \in 0 .. FileLen /\ counter' \in 0 .. SeqMod - 1
    BY <1>1, <1>7, <2>2, Types, Sizes, SuccDiffers DEF Part
  <2>4. TypeOK' /\ DownloadInv' /\ FileInv' /\ AccessInv'
    <3>1. /\ tries' \in 0 .. MaxTries
          /\ phase' \in {"start", "blocks", "exit", "done", "failed"}
      BY <1>2, <2>1, Sizes DEF Part
    <3>. QED
      BY <1>2, <1>5, <2>3, <3>1, StillTyped
  <2>5. Channels' /\ TriesInv'
    BY <1>2, <1>3, Sizes DEF TransferInv, Channels, TriesInv, Active
  <2>6. Position(new)'
    <3>1. pos' = 0 => counter' = 1
      BY <1>7, <2>2, <2>3 DEF Part
    <3>. QED
      BY <2>1, <2>2, <3>1 DEF Position
  <2>7. /\ Sent(ph) \in Late(new)' /\ Answers(ph) \subseteq LateAnswers(new)'
        /\ Sent(new)' \notin Late(new)' /\ LateAnswers(new)' \cap Answers(new)' = {}
        /\ Positive(new)' \in Answers(new)'
    <3>1. /\ Sent(new)' \notin Late(new)' /\ LateAnswers(new)' \cap Answers(new)' = {}
          /\ Positive(new)' \in Answers(new)'
      BY <2>1, <2>4, <2>6, PartIsNext
    <3>2. Sent(ph) \in Message
      BY <1>1, PartIs
    <3>3. CASE ph = "start"
      <4>1. /\ Late(new)' = {m \in Message : m.sid = "0x34"}
            /\ LateAnswers(new)' = {m \in Answer : m.sid = "0x34"}
        BY <2>1, <2>2, <3>3 DEF Late, LateAnswers, Before, Sized
      <4>2. Sent(ph).sid = "0x34"
        BY <3>3 DEF Sent
      <4>. QED
        BY <3>1, <3>2, <4>1, <4>2 DEF Answers
    <3>4. CASE ph = "blocks"
      <4>1. pos' # 0 /\ counter' = Succ(counter)
        BY <2>2, <2>3, <3>4
      <4>2. Sent(ph).sid = "0x36" /\ Sent(ph).n = counter /\ Sized(Sent(ph))
        <5>1. Len(NextBlock) \in 1 .. MaxBlock
          BY <1>1, <3>4, Types, Sizes, NextBlockIs DEF Position
        <5>. QED
          BY <3>4, <5>1 DEF Sent, Sized
      <4>3. /\ Late(new)' = {m \in Message :
                             m.sid = "0x36" /\ Succ(m.n) = Succ(counter) /\ Sized(m)}
            /\ LateAnswers(new)' = {m \in Answer : m.sid = "0x36" /\ Succ(m.n) = Succ(counter)}
        BY <2>1, <4>1 DEF Late, LateAnswers, Before, Succ, Sized
      <4>. QED
        BY <3>1, <3>2, <4>2, <4>3 DEF Answers
    <3>. QED
      BY <1>7, <3>1, <3>3, <3>4 DEF Part
  <2>8. /\ Mine' /\ (dlState' = "inProgress" => Level')
      /\ ~magicB' /\ Len(stream') = pos'
    <3>0. attempt' = attempt /\ stream' = stream /\ seqCounter' = seqCounter
          /\ accepted' = accepted /\ dlState' = dlState /\ magicB' = magicB
      BY <1>2 DEF dlVars
    <3>1. CASE ph = "start"
      <4>1. stream = <<>> /\ ~magicB /\ (dlState = "inProgress" => seqCounter = 1 /\ accepted = FALSE)
        BY <1>1, <1>3, <3>1, Types DEF Acknowledged, DownloadTypeOK
      <4>2. stream = Prefix(attempt, 0) /\ Len(stream) = 0
        BY <4>1, Sizes, PrefixIs
      <4>. QED
        BY <2>2, <3>0, <3>1, <4>1, <4>2 DEF Mine, Level, Prefix
    <3>2. CASE ph = "blocks"
      <4>1. /\ Mine /\ ~magicB /\ Len(stream) = pos + Step
            /\ dlState = "inProgress" => Ahead
        BY <1>3, <3>2 DEF Acknowledged, At, ServerInv
      <4>. QED
        BY <2>2, <3>0, <3>2, <4>1 DEF Mine, Level, Ahead, Prefix
    <3>. QED
      BY <1>7, <3>1, <3>2 DEF Part
  <2>9. ServerInv(new)'
    BY <2>1, <2>8 DEF ServerInv, Part
  <2>10. ChannelInv(new)'
    <3>1. /\ Elems(toServer') \subseteq Late(new)' /\ Elems(toClient') \subseteq LateAnswers(new)'
      BY <1>2, <1>3, <2>7
    <3>2. Ordered(toServer', {Sent(new)'}) /\ Ordered(toClient', Answers(new)')
      BY <2>7, <3>1 DEF Ordered, Elems
    <3>. QED
      BY <2>7, <3>1, <3>2 DEF ChannelInv
  <2>12. At(new)'
    BY <2>1, <2>6, <2>9, <2>10 DEF At
  <2>. QED
    BY <1>4, <2>1, <2>4, <2>5, <2>12 DEF TransferInv
<1>. QED
  BY <1>6, <1>7

\* The client takes an answer.
LEMMA ReceiveKeeps ==
  ASSUME TransferInv, Receive
  PROVE  TransferInv'
BY RefusedKeeps, PositiveKeeps DEF TransferInv

-----------------------------------------------------------------------------
(* What the handlers do to the server                                       *)

\* What the server may answer: 0x24 only to 0x36 and 0x37, and when it has no
\* download; and only 0x34 starts one.
Outcome(sid, r) ==
    /\ r \in Told \cup {"silent"}
    /\ r = "0x24" => sid # "0x34" /\ dlState' = "idle"
    /\ sid # "0x34" /\ dlState = "idle" => dlState' = "idle"

\* 0x34 begins anew, or leaves nothing in progress.
LEMMA RequestOutcome ==
  ASSUME NEW r, TypeOK, DownloadInv, FileInv, AccessInv, UNCHANGED attempt,
         RequestDownload(unlocked, FALSE, FileLen, r)
  PROVE  /\ DownloadInv' /\ FileInv'
         /\ stream' = stream \/ stream' = <<>>
         /\ dlState' = "inProgress" =>
              stream' = <<>> /\ seqCounter' = 1 /\ accepted' = FALSE /\ writing' = TRUE
         /\ r = "positive" => dlState' = "inProgress"
         /\ dlState' = "inProgress" => dlState = "inProgress" \/ unlocked
         /\ magicB' => magicB /\ stream' = stream
         /\ r \in {"positive", "0x33", "0x72", "silent"}
<1>1. FileLen \in 1 .. Capacity /\ FileLen \in Int
  BY Sizes
<1>2. DownloadInv' /\ (dlState' = "inProgress" => dlState = "inProgress" \/ unlocked)
  <2> DEFINE lock == unlocked
             short == FALSE
  <2>1. RequestDownload(lock, short, FileLen, r) /\ lock = unlocked
    OBVIOUS
  <2> HIDE DEF lock, short
  <2>2. DownloadInv' /\ (dlState' = "inProgress" => dlState = "inProgress" \/ lock)
    BY <1>1, <2>1, RequestDownloadStep
  <2>. QED
    BY <2>1, <2>2, Zenon
<1>3. /\ stream' = stream \/ stream' = <<>>
      /\ announced' \in {announced, 0, FileLen}
      /\ dlState' = "inProgress" =>
           stream' = <<>> /\ seqCounter' = 1 /\ accepted' = FALSE /\ writing' = TRUE
      /\ r = "positive" => dlState' = "inProgress"
      /\ magicB' => magicB /\ stream' = stream
      /\ r \in {"positive", "0x33", "0x72", "silent"}
  BY <1>1 DEF RequestDownload, Refuse, ResetProgramming, Unmark, AccessInv, dlVars
<1>4. FileInv'
  <2>1. attempt \in 1 .. attempt /\ attempt' = attempt
    BY Types
  <2>2. <<>> = Prefix(attempt, 0) /\ Len(<<>>) = 0
    BY Sizes, PrefixIs
  <2>3. \E a \in 1 .. attempt : stream' = Prefix(a, Len(stream'))
    BY <1>3, <2>1, <2>2 DEF FileInv
  <2>. QED
    BY <1>3, <2>1, <2>2, <2>3, Sizes DEF FileInv, Prefix
<1>. QED
  BY <1>2, <1>3, <1>4

\* A message that is late is a repetition of what the server knows, or the 0x34 that
\* the client has just left behind.
LEMMA LateServed ==
  ASSUME TransferInv, NEW ph \in Part, At(ph), NEW m \in Late(ph), NEW r, Handle(m, r),
         ~(Elems(toServer) \subseteq {Sent(ph)}),
         UNCHANGED <<attempt, pos, counter>>
  PROVE  /\ DownloadInv' /\ FileInv' /\ Mine'
         /\ dlState' = "inProgress" => Level'
         /\ phase = "done" => Marked'
         /\ ph = "blocks" => ~magicB' /\ Len(stream') \in {pos, pos + Step}
         /\ ph = "exit" => Len(stream') = pos
         /\ dlState' = "inProgress" => dlState = "inProgress" \/ unlocked
         /\ Outcome(m.sid, r)
<1>1. /\ TypeOK /\ DownloadInv /\ FileInv /\ Position(ph) /\ Before(ph, m)
      /\ ph # "start" /\ Mine
      /\ dlState = "inProgress" => Level
      /\ phase = "done" => ph = "exit" /\ Marked
      /\ ph = "blocks" => ~magicB /\ Len(stream) \in {pos, pos + Step}
      /\ ph = "exit" => Len(stream) = pos
      /\ AccessInv /\ Sized(m)
  BY DEF TransferInv, At, Late, Before, ServerInv, Part
<1>2. CASE pos = 0
  <2>1. ph = "blocks" /\ counter = 1 /\ m.sid = "0x34"
    BY <1>1, <1>2, Sizes DEF Position, Before, Part
  <2>2. RequestDownload(unlocked, FALSE, FileLen, r)
    BY <2>1 DEF Handle
  <2>3. /\ DownloadInv' /\ FileInv'
        /\ stream' = stream \/ stream' = <<>>
        /\ dlState' = "inProgress" => stream' = <<>> /\ seqCounter' = 1 /\ accepted' = FALSE
        /\ dlState' = "inProgress" => dlState = "inProgress" \/ unlocked
        /\ magicB' => magicB
        /\ r \in {"positive", "0x33", "0x72", "silent"}
    BY <1>1, <2>2, RequestOutcome
  <2>4. <<>> = Prefix(attempt, 0) /\ Len(<<>>) = 0
    BY Sizes, PrefixIs
  <2>5. Mine'
    BY <1>1, <2>3, <2>4 DEF Mine, Prefix
  <2>6. dlState' = "inProgress" => Level'
    BY <1>2, <2>1, <2>3, <2>4 DEF Level
  <2>7. ~magicB' /\ Len(stream') \in {pos, pos + Step} /\ Outcome(m.sid, r)
    BY <1>1, <1>2, <2>1, <2>3, <2>4 DEF Outcome, Told
  <2>. QED
    BY <1>1, <2>1, <2>3, <2>5, <2>6, <2>7
<1>3. CASE pos # 0
  <2>1. m.sid = "0x36" /\ Succ(m.n) = counter /\ pos > 0
    BY <1>1, <1>3, Types DEF Before
  <2>2. TransferData(m.n, m.block, r) /\ Len(m.block) \in 1 .. MaxBlock
    BY <1>1, <2>1 DEF Handle, Sized
  <2>3. UNCHANGED dlVars /\ r \in {"positive", "0x24"} /\ (r = "0x24" => dlState = "idle")
    <3>1. CASE dlState = "idle"
      BY <2>2, <3>1 DEF TransferData, Refuse
    <3>2. CASE dlState # "idle"
      <4>1. Repeated(m.n)
        BY <1>1, <2>1, <3>2, Types DEF Level, Repeated, DownloadTypeOK
      <4>. QED
        BY <2>2, <4>1 DEF TransferData, Refuse
    <3>. QED
      BY <3>1, <3>2
  <2>4. DownloadInv' /\ FileInv'
    BY <1>1, <2>3, DownloadKept DEF FileInv, dlVars, Prefix
  <2>5. Outcome(m.sid, r) /\ dlState' = dlState
    BY <2>1, <2>3 DEF Outcome, Told, dlVars
  <2>. QED
    BY <1>1, <2>3, <2>4, <2>5, SameServer DEF dlVars
<1>. QED
  BY <1>2, <1>3

\* The request of the part: what its positive answer tells is so.
Served(ph, r) ==
    /\ DownloadInv' /\ FileInv' /\ Outcome(Sent(ph).sid, r)
    /\ dlState' = "inProgress" => dlState = "inProgress" \/ unlocked
    /\ ph = "start" /\ magicB' => magicB /\ stream' = stream
    /\ ph # "start" => Mine'
    /\ ph = "blocks" => ~magicB' /\ Len(stream') \in {pos, pos + Step}
    /\ ph = "blocks" /\ dlState' = "inProgress" => Level' \/ Ahead'
    /\ ph = "exit" => Len(stream') = pos
    /\ ph = "exit" /\ dlState' = "inProgress" => Level'
    /\ r = "positive" \/ Acknowledged(ph) => Acknowledged(ph)'

\* 0x34, the only request on its way, begins the download of this file.
LEMMA StartServed ==
  ASSUME TransferInv, At("start"), NEW r, Handle(Sent("start"), r),
         UNCHANGED <<attempt, pos, counter>>
  PROVE  Served("start", r)
<1>1. RequestDownload(unlocked, FALSE, FileLen, r) /\ Sent("start").sid = "0x34"
  BY DEF Handle, Sent
<1>2. /\ DownloadInv' /\ FileInv'
      /\ stream' = stream \/ stream' = <<>>
      /\ magicB' => magicB /\ stream' = stream
      /\ dlState' = "inProgress" =>
           stream' = <<>> /\ seqCounter' = 1 /\ accepted' = FALSE /\ writing' = TRUE
      /\ dlState' = "inProgress" => dlState = "inProgress" \/ unlocked
      /\ r = "positive" => dlState' = "inProgress"
      /\ r \in {"positive", "0x33", "0x72", "silent"}
  BY <1>1, RequestOutcome DEF TransferInv
<1>3. Outcome(Sent("start").sid, r)
  BY <1>1, <1>2 DEF Outcome, Told
<1>4. r = "positive" \/ Acknowledged("start") => Acknowledged("start")'
  BY <1>2 DEF Acknowledged, DownloadInv
<1>. QED
  BY <1>2, <1>3, <1>4 DEF Served

\* A block is written once, in its place; when it comes again it is acknowledged.
LEMMA BlockServed ==
  ASSUME TransferInv, At("blocks"), NEW r, Handle(Sent("blocks"), r),
         UNCHANGED <<attempt, pos, counter>>
  PROVE  Served("blocks", r)
<1>1. /\ TypeOK /\ DownloadInv /\ FileInv /\ Mine /\ pos < FileLen
      /\ pos \in 0 .. FileLen /\ pos \in Nat /\ counter \in 0 .. SeqMod - 1
      /\ attempt \in 1 .. MaxAttempts /\ attempt \in Nat
      /\ ~magicB /\ Len(stream) \in {pos, pos + Step}
      /\ dlState = "inProgress" => Level \/ Ahead
  BY Types DEF TransferInv, At, Position, ServerInv
<1>2. TransferData(counter, NextBlock, r) /\ Sent("blocks").sid = "0x36"
  BY DEF Handle, Sent
<1>3. /\ NextBlock \in Seq(Data) /\ Len(NextBlock) = Step
      /\ Step \in 1 .. BlockLen /\ pos + Step \in 0 .. FileLen
      /\ Prefix(attempt, pos) \o NextBlock = Prefix(attempt, pos + Step)
  BY <1>1, NextBlockIs
<1>4. DownloadInv' /\ (dlState' = "inProgress" => dlState = "inProgress")
  BY <1>1, <1>2, <1>3, TransferDataStep
<1>5. Len(NextBlock) \in 1 .. MaxBlock /\ Step > 0 /\ Step \in Nat
  BY <1>3, Sizes
<1>6. CASE /\ UNCHANGED dlVars
           /\ \/ dlState = "inProgress" /\ Ahead /\ r = "positive"
              \/ dlState = "idle" /\ r = "0x24"
  <2>1. FileInv'
    BY <1>1, <1>6 DEF FileInv, dlVars, Prefix
  <2>2. Outcome(Sent("blocks").sid, r)
    BY <1>2, <1>6 DEF Outcome, Told, dlVars
  <2>3. r = "positive" \/ Acknowledged("blocks") => Acknowledged("blocks")'
    BY <1>6, SameServer DEF Acknowledged, Ahead
  <2>. QED
    BY <1>1, <1>4, <1>6, <2>1, <2>2, <2>3, SameServer DEF Served, dlVars
<1>7. CASE UNCHANGED dlVars /\ Level /\ r = "silent" /\ dlState = "inProgress"
  <2>1. FileInv'
    BY <1>1, <1>7 DEF FileInv, dlVars, Prefix
  <2>2. Acknowledged("blocks") = Acknowledged("blocks")'
    BY <1>7, SameServer
  <2>3. Outcome(Sent("blocks").sid, r)
    BY <1>2, <1>7 DEF Outcome, Told
  <2>. QED
    BY <1>1, <1>4, <1>7, <2>1, <2>2, <2>3, SameServer DEF Served, dlVars
<1>8. CASE ResetProgramming /\ UNCHANGED history /\ r = "0x72"
  <2>1. dlState' = "idle" /\ stream' = stream /\ announced' = announced /\ magicB' = magicB
    BY <1>8 DEF ResetProgramming, history
  <2>2. FileInv' /\ Mine'
    BY <1>1, <2>1 DEF FileInv, Mine, Prefix
  <2>3. Outcome(Sent("blocks").sid, r)
    BY <1>2, <1>8, <2>1 DEF Outcome, Told
  <2>4. Acknowledged("blocks") => Acknowledged("blocks")'
    BY <2>1, SamePart DEF Acknowledged
  <2>. QED
    BY <1>1, <1>4, <1>8, <2>1, <2>2, <2>3, <2>4 DEF Served
<1>9. CASE /\ dlState = "inProgress" /\ Level /\ r = "positive" /\ writing
           /\ stream' = stream \o NextBlock /\ seqCounter' = Succ(counter) /\ accepted' = TRUE
           /\ UNCHANGED <<dlState, writing, magicB, announced>>
  <2>1. stream = Prefix(attempt, pos)
    BY <1>1, <1>9 DEF Mine, Level
  <2>2. stream' = Prefix(attempt, pos + Step) /\ Len(stream') = pos + Step
    BY <1>3, <1>9, <2>1, PrefixIs
  <2>3. Mine' /\ Ahead'
    <3>1. Step' = Step /\ attempt' = attempt /\ pos' = pos /\ counter' = counter
      BY SamePart
    <3>. QED
      BY <1>9, <2>2, <3>1 DEF Mine, Ahead, Prefix, Succ
  <2>4. FileInv'
    <3>1. attempt \in 1 .. attempt /\ attempt' = attempt
      BY <1>1
    <3>2. Len(stream') <= FileLen
      BY <1>3, <2>2, Sizes
    <3>3. \E a \in 1 .. attempt' : stream' = Prefix(a, Len(stream'))
      BY <2>2, <3>1
    <3>. QED
      BY <1>1, <1>9, <3>2, <3>3 DEF FileInv, Prefix
  <2>5. Outcome(Sent("blocks").sid, r)
    BY <1>2, <1>9 DEF Outcome, Told
  <2>6. Acknowledged("blocks")'
    BY <2>2, <2>3, SamePart DEF Acknowledged
  <2>. QED
    BY <1>1, <1>4, <1>9, <2>2, <2>3, <2>4, <2>5, <2>6 DEF Served
<1>10. CASE dlState # "inProgress"
  <2>1. dlState = "idle"
    BY <1>1, <1>10, Types DEF DownloadTypeOK
  <2>2. UNCHANGED dlVars /\ r = "0x24"
    BY <1>2, <1>5, <2>1 DEF TransferData, Refuse
  <2>. QED
    BY <1>6, <2>1, <2>2
<1>11. CASE dlState = "inProgress" /\ Ahead
  <2>1. Repeated(counter)
    BY <1>11 DEF Ahead, Repeated
  <2>2. UNCHANGED dlVars /\ r = "positive"
    BY <1>2, <1>5, <1>11, <2>1 DEF TransferData, Refuse
  <2>. QED
    BY <1>6, <1>11, <2>2
<1>12. CASE dlState = "inProgress" /\ Level
  <2>1. ~Repeated(counter) /\ counter = seqCounter
    BY <1>1, <1>12, SuccDiffers DEF Level, Repeated
  <2>2. Len(NextBlock) <= left /\ ~(left = 0) /\ ~(left > 0 /\ Len(NextBlock) > left)
    <3>1. Len(stream) + left = announced /\ announced > 0 /\ Len(stream) = pos
      BY <1>1, <1>12 DEF DownloadInv, Accounting, Level
    <3>2. announced = FileLen /\ left \in Nat
      BY <1>1, <3>1, Sizes DEF FileInv, DownloadInv, DownloadTypeOK
    <3>. QED
      BY <1>1, <1>3, <1>5, <3>1, <3>2, Sizes
  <2>3. \/ Refuse("silent", r)
        \/ r = "0x72" /\ ResetProgramming /\ UNCHANGED history
        \/ /\ r = "positive" /\ writing
           /\ seqCounter' = Succ(seqCounter) /\ accepted' = TRUE
           /\ stream' = stream \o NextBlock
           /\ UNCHANGED <<dlState, writing, magicB, flushed, announced>>
    BY <1>2, <1>5, <1>12, <2>1, <2>2, Zenon DEF TransferData, Refuse, history
  <2>. QED
    BY <1>7, <1>8, <1>9, <1>12, <2>1, <2>3 DEF Refuse
<1>. QED
  BY <1>1, <1>10, <1>11, <1>12

\* 0x37 finds the whole file, or the slot that it has marked.
LEMMA ExitServed ==
  ASSUME TransferInv, At("exit"), NEW r, Handle(Sent("exit"), r),
         UNCHANGED <<attempt, pos, counter>>
  PROVE  Served("exit", r)
<1>1. /\ TypeOK /\ DownloadInv /\ FileInv /\ Mine /\ pos = FileLen
      /\ Len(stream) = pos
      /\ dlState = "inProgress" => Level
      /\ dlState \in {"idle", "inProgress"}
  BY Types DEF TransferInv, At, Position, ServerInv, DownloadTypeOK
<1>2. TransferExit(r) /\ Sent("exit").sid = "0x37"
  BY DEF Handle, Sent
<1>3. DownloadInv' /\ (dlState' = "inProgress" => dlState = "inProgress")
  BY <1>1, <1>2, TransferExitStep
<1>4. /\ stream' = stream /\ announced' = announced
  BY <1>2 DEF TransferExit, Refuse, dlVars
<1>5. FileInv' /\ Mine'
  BY <1>1, <1>4 DEF FileInv, Mine, Prefix
<1>6. CASE dlState = "idle"
  <2>1. UNCHANGED dlVars /\ r = "0x24"
    BY <1>2, <1>6 DEF TransferExit, Refuse, AllReceived
  <2>2. Marked' = Marked /\ Acknowledged("exit")' = Acknowledged("exit")
    BY <2>1, SameServer
  <2>3. Outcome(Sent("exit").sid, r)
    BY <1>2, <1>6, <2>1 DEF Outcome, Told, dlVars
  <2>. QED
    BY <1>1, <1>3, <1>4, <1>5, <1>6, <2>1, <2>2, <2>3 DEF Served, dlVars
<1>7. CASE dlState = "inProgress"
  <2>1. AllReceived
    <3>1. Len(stream) + left = announced /\ announced > 0 /\ Len(stream) = FileLen
      BY <1>1, <1>7 DEF DownloadInv, Accounting, Level
    <3>2. announced = FileLen /\ left \in Nat
      BY <1>1, <3>1, Sizes DEF FileInv, DownloadInv, DownloadTypeOK
    <3>. QED
      BY <1>7, <3>1, <3>2, Sizes DEF AllReceived
  <2>2. stream = File(attempt)
    BY <1>1, <1>7, Sizes, PrefixIs DEF Mine, Level
  <2>3. ~Acknowledged("exit")
    BY <1>1, <1>7 DEF Acknowledged, Marked, DownloadInv
  <2>4. CASE r = "0x72"
    <3>1. UNCHANGED <<dlState, seqCounter, accepted, stream>>
      BY <1>2, <2>1, <2>4 DEF TransferExit, Refuse
    <3>2. Level'
      BY <1>1, <1>7, <3>1 DEF Level
    <3>3. Outcome(Sent("exit").sid, r)
      BY <1>2, <1>7, <2>4 DEF Outcome, Told
    <3>. QED
      BY <1>1, <1>3, <1>4, <1>5, <2>3, <2>4, <3>2, <3>3 DEF Served
  <2>5. CASE r # "0x72"
    <3>1. r = "positive" /\ flushed' = TRUE /\ magicB' = TRUE /\ dlState' = "idle"
      BY <1>2, <2>1, <2>5 DEF TransferExit, Refuse
    <3>2. Marked'
      BY <1>4, <2>2, <3>1 DEF Marked, File
    <3>3. Outcome(Sent("exit").sid, r)
      BY <1>2, <1>7, <3>1 DEF Outcome, Told
    <3>. QED
      BY <1>1, <1>3, <1>4, <1>5, <3>1, <3>2, <3>3 DEF Served, Acknowledged
  <2>. QED
    BY <2>4, <2>5
<1>. QED
  BY <1>1, <1>6, <1>7

\* The server takes the oldest request.
LEMMA ServeKeeps ==
  ASSUME TransferInv, Serve
  PROVE  TransferInv'
<1> DEFINE m == Head(toServer)
<1>1. PICK ph \in Part : At(ph)
  BY DEF TransferInv
<1>2. PICK r \in Code :
        /\ Handle(m, r)
        /\ toClient' = IF r = "silent" THEN toClient
             ELSE Append(toClient, [sid |-> m.sid, n |-> m.n, r |-> r])
  BY DEF Serve, Code
<1>3. /\ TypeOK /\ Position(ph) /\ toServer \in Seq(Message) /\ toServer # <<>>
      /\ toClient \in Seq(Answer) /\ toServer' = Tail(toServer)
      /\ UNCHANGED <<attempt, pos, counter>>
      /\ phase' = phase /\ waiting' = waiting /\ tries' = tries /\ unlocked' = unlocked
  BY <1>1 DEF Serve, At, TransferInv, Channels, clientVars
<1>4. /\ toServer' \in Seq(Message) /\ Elems(toServer') \subseteq Elems(toServer)
      /\ m \in Elems(toServer) /\ m \in Message
      /\ Ordered(toServer, {Sent(ph)}) => Ordered(toServer', {Sent(ph)})
      /\ Ordered(toServer, {Sent(ph)}) /\ m \in {Sent(ph)} => Elems(toServer) \subseteq {Sent(ph)}
  BY <1>3, TailChannel
<1> DEFINE answer == [sid |-> m.sid, n |-> m.n, r |-> r]
<1>5. answer \in Answer
  BY <1>2, <1>4 DEF Answer, Message
<1>6. /\ toClient' \in Seq(Answer)
      /\ Elems(toClient') \subseteq Elems(toClient) \cup {answer}
      /\ r = "silent" => toClient' = toClient
      /\ \A T : Ordered(toClient, T) /\ (answer \in T \/ Elems(toClient) \cap T = {})
                  => Ordered(toClient', T)
  BY <1>2, <1>3, <1>5, AppendChannel
<1>7. answer.r = r /\ answer.sid = m.sid
  OBVIOUS
<1> HIDE DEF m, answer
<1>8. ASSUME DownloadInv', FileInv', At(ph)', RefusalInv',
             dlState' = "inProgress" => dlState = "inProgress" \/ unlocked
      PROVE  TransferInv'
  <2>1. {waiting', unlocked'} \subseteq BOOLEAN
    BY <1>3, Types, Zenon
  <2>2. DownloadTypeOK' /\ attempt' = attempt /\ pos' = pos /\ counter' = counter
    BY <1>3, <1>8 DEF DownloadInv
  <2>3. TypeOK'
    BY <1>3, <2>1, <2>2, Zenon DEF TypeOK
  <2>4. Channels' /\ TriesInv'
    BY <1>3, <1>4, <1>6 DEF TransferInv, Channels, TriesInv, Active
  <2>5. AccessInv'
    BY <1>3, <1>8 DEF TransferInv, AccessInv
  <2>. QED
    BY <1>8, <2>3, <2>4, <2>5 DEF TransferInv
<1>9. /\ Position(ph)' /\ Sent(ph)' = Sent(ph) /\ Late(ph)' = Late(ph)
      /\ LateAnswers(ph)' = LateAnswers(ph) /\ Answers(ph)' = Answers(ph)
      /\ Positive(ph)' = Positive(ph)
  BY <1>3, SamePart
<1>10. CASE m = Sent(ph)
  <2>1. Elems(toServer) \subseteq {Sent(ph)} /\ Elems(toServer') \subseteq {Sent(ph)}
    BY <1>1, <1>4, <1>10 DEF At, ChannelInv
  <2>2. Served(ph, r)
    BY <1>1, <1>2, <1>3, <1>10, StartServed, BlockServed, ExitServed DEF Part
  <2>3. answer \in Answers(ph) /\ (answer = Positive(ph) => r = "positive")
    BY <1>5, <1>10 DEF Answers, answer, Positive
  <2>4. ServerInv(ph)'
    <3>1. phase' = "done" => Marked'
      BY <1>1, <1>3, <2>2 DEF At, ServerInv, Served, Acknowledged, Part
    <3>2. Step' = Step /\ pos' = pos /\ attempt' = attempt
      BY <1>3, SamePart
    <3>3. ph = "start" /\ magicB' => \E a \in 1 .. attempt' - 1 : stream' = File(a)'
      BY <1>1, <2>2, <3>2 DEF At, ServerInv, Served, File
    <3>. QED
      BY <2>1, <2>2, <1>9, <3>1, <3>2, <3>3 DEF ServerInv, Served
  <2>5. ChannelInv(ph)'
    <3>1. Positive(ph) \in Elems(toClient') => Acknowledged(ph)'
      BY <1>1, <1>6, <2>2, <2>3 DEF At, ChannelInv, Served
    <3>2. /\ Elems(toClient') \subseteq LateAnswers(ph) \cup Answers(ph)
          /\ Ordered(toClient', Answers(ph))
      BY <1>1, <1>6, <2>3 DEF At, ChannelInv
    <3>. QED
      BY <1>1, <1>4, <1>9, <2>1, <3>1, <3>2 DEF At, ChannelInv
  <2>6. RefusalInv'
    <3>1. ph = "start" => \A x \in Elems(toClient) : x.sid = "0x34"
      BY <1>1 DEF At, ChannelInv, LateAnswers, Answers, Before, Sent
    <3>2. ph = "start" <=> Sent(ph).sid = "0x34"
      BY DEF Sent, Part
    <3>. QED
      BY <1>6, <1>7, <1>10, <2>2, <3>1, <3>2, AnswerKept DEF TransferInv, Served, Outcome
  <2>7. At(ph)'
    BY <1>1, <1>3, <1>9, <2>4, <2>5 DEF At
  <2>. QED
    BY <1>8, <2>2, <2>6, <2>7 DEF Served
<1>11. CASE m # Sent(ph)
  <2>1. m \in Late(ph) /\ ~(Elems(toServer) \subseteq {Sent(ph)})
    BY <1>1, <1>4, <1>11 DEF At, ChannelInv
  <2>2. Elems(toClient) \cap Answers(ph) = {}
    BY <1>1, <2>1 DEF At, ChannelInv
  <2>3. /\ DownloadInv' /\ FileInv' /\ Mine'
        /\ dlState' = "inProgress" => Level'
        /\ phase = "done" => Marked'
        /\ ph = "blocks" => ~magicB' /\ Len(stream') \in {pos, pos + Step}
        /\ ph = "exit" => Len(stream') = pos
        /\ dlState' = "inProgress" => dlState = "inProgress" \/ unlocked
        /\ Outcome(m.sid, r)
    BY <1>1, <1>2, <1>3, <2>1, LateServed
  <2>4. answer \in LateAnswers(ph) /\ answer \notin Answers(ph) /\ Positive(ph) \in Answers(ph)
    <3>1. answer.sid = m.sid /\ answer.n = m.n /\ Before(ph, m)
      BY <2>1 DEF answer, Late
    <3>2. answer \in LateAnswers(ph)
      BY <1>5, <3>1 DEF LateAnswers, Before
    <3>. QED
      BY <1>3, <3>2, PartIs
  <2>5. Elems(toClient') \cap Answers(ph) = {}
    BY <1>6, <2>2, <2>4
  <2>6. ServerInv(ph)'
    <3>1. ph # "start" /\ Step' = Step /\ pos' = pos
      BY <1>3, <2>1, SamePart DEF Late, Before
    <3>. QED
      BY <1>3, <2>3, <3>1 DEF ServerInv
  <2>7. ChannelInv(ph)'
    <3>1. Ordered(toClient', Answers(ph))
      BY <2>5 DEF Ordered, Elems
    <3>. QED
      BY <1>1, <1>4, <1>6, <1>9, <2>4, <2>5, <3>1 DEF At, ChannelInv
  <2>8. RefusalInv'
    <3>1. m.sid = "0x34" => \A x \in Elems(toClient) : x.sid = "0x34"
      <4>1. Elems(toClient) \subseteq LateAnswers(ph)
        BY <1>1, <2>2 DEF At, ChannelInv
      <4>. QED
        BY <2>1, <4>1 DEF Late, LateAnswers, Before
    <3>. QED
      BY <1>6, <1>7, <2>3, <3>1, AnswerKept DEF TransferInv, Outcome
  <2>9. At(ph)'
    BY <1>1, <1>3, <1>9, <2>6, <2>7 DEF At
  <2>. QED
    BY <1>8, <2>3, <2>8, <2>9
<1>. QED
  BY <1>10, <1>11

-----------------------------------------------------------------------------
(* The invariant, and what follows from it                                  *)

\* Nothing was sent, nothing is in slot B.
LEMMA InitHolds ==
  ASSUME Init
  PROVE  TransferInv
<1>1. <<>> = Prefix(1, 0) /\ Len(<<>>) = 0
  BY Sizes, PrefixIs
<1>2. DownloadInv
  BY InRange DEF Init, DownloadInit, DownloadInv, DownloadTypeOK, Accounting, MarkedComplete
<1>3. FileInv
  BY <1>1, Sizes DEF Init, DownloadInit, FileInv
<1>4. TypeOK
  <2>1. {waiting, unlocked} \subseteq BOOLEAN
    BY Zenon DEF Init
  <2>2. attempt \in 1 .. MaxAttempts /\ pos \in 0 .. FileLen /\ counter \in 0 .. SeqMod - 1
        /\ tries \in 0 .. MaxTries
    BY Sizes DEF Init
  <2>3. phase \in {"start", "blocks", "exit", "done", "failed"}
    BY DEF Init
  <2>. QED
    BY <1>2, <2>1, <2>2, <2>3, Zenon DEF TypeOK, DownloadInv
<1>5. Channels /\ TriesInv
  BY Sizes, EmptyChannel DEF Init, Channels, TriesInv, Active
<1>6. At("start")
  <2>1. toServer = <<>> /\ toClient = <<>> /\ phase = "start" /\ pos = 0 /\ counter = 1
        /\ magicB = FALSE
    BY DEF Init, DownloadInit
  <2>2. ServerInv("start") /\ Position("start")
    BY <2>1 DEF ServerInv, Position
  <2>3. ChannelInv("start")
    BY <2>1, EmptyChannel DEF ChannelInv
  <2>. QED
    BY <2>1, <2>2, <2>3 DEF At
<1>7. AccessInv /\ RefusalInv
  BY EmptyChannel DEF Init, DownloadInit, AccessInv, RefusalInv
<1>. QED
  BY <1>2, <1>3, <1>4, <1>5, <1>6, <1>7 DEF TransferInv, Part

\* No step breaks it.
LEMMA NextKeeps ==
  ASSUME TransferInv, [Next]_vars
  PROVE  TransferInv'
<1>1. CASE UNCHANGED vars
  <2>1. /\ UNCHANGED dlVars /\ UNCHANGED <<attempt, pos, counter>>
        /\ phase' = phase /\ waiting' = waiting /\ tries' = tries /\ unlocked' = unlocked
        /\ toServer' = toServer /\ toClient' = toClient
    BY <1>1 DEF vars, clientVars
  <2>2. TypeOK' /\ DownloadInv' /\ FileInv' /\ AccessInv'
    BY <2>1, Types, StillTyped DEF TransferInv, TypeOK
  <2>3. Channels' /\ TriesInv'
    BY <2>1 DEF TransferInv, Channels, TriesInv, Active
  <2>4. PICK ph \in Part : At(ph)
    BY DEF TransferInv
  <2>5. At(ph)'
    BY <2>1, <2>4, SamePart, SameServer DEF At, ServerInv, ChannelInv, dlVars, File
  <2>6. RefusalInv'
    BY <2>1, RefusalKept DEF TransferInv, dlVars
  <2>. QED
    BY <2>2, <2>3, <2>5, <2>6 DEF TransferInv
<1>2. CASE Next
  BY <1>2, SendKeeps, TimeoutKeeps, ReceiveKeeps, TryAgainKeeps, ServeKeeps,
     SessionEndsKeeps, LoseRequestKeeps, LoseAnswerKeeps
  DEF Next
<1>. QED
  BY <1>1, <1>2

\* TransferInv is inductive.
THEOREM Invariance == Spec => []TransferInv
<1>1. Init => TransferInv
  BY InitHolds
<1>2. TransferInv /\ [Next]_vars => TransferInv'
  BY NextKeeps
<1>. QED
  BY <1>1, <1>2, PTL DEF Spec

\* Every variable keeps its type: the tries are counted, the counter wraps.
THEOREM TypeCorrect == Spec => []TypeOK
<1>1. TransferInv => TypeOK
  BY DEF TransferInv
<1>. QED
  BY <1>1, Invariance, PTL

\* Slot B never holds anything but the beginning of one file, and is marked only
\* when it holds a whole one, whatever is lost, late or repeated.
THEOREM OneFileOnly == Spec => []OneFile
<1>1. TransferInv => OneFile
  <2>. SUFFICES ASSUME TransferInv PROVE OneFile
    OBVIOUS
  <2>1. PICK a \in 1 .. attempt : stream = Prefix(a, Len(stream))
    BY DEF TransferInv, FileInv
  <2>2. Len(stream) \in 0 .. FileLen
    <3>1. Len(stream) \in Nat /\ Len(stream) <= FileLen
      BY DEF TransferInv, FileInv, DownloadInv, DownloadTypeOK
    <3>. QED
      BY <3>1, Sizes
  <2>3. IsPrefix(stream, File(a))
    BY <2>1, <2>2, PrefixIs
  <2>4. magicB => stream = File(a)
    <3>1. magicB => Len(stream) = FileLen
      BY Sizes DEF TransferInv, DownloadInv, MarkedComplete, FileInv
    <3>. QED
      BY <2>1, <2>2, <3>1, PrefixIs
  <2>. QED
    BY <2>3, <2>4 DEF OneFile
<1>. QED
  BY <1>1, Invariance, PTL

\* What was acknowledged is written, and at most one block more; a request is refused
\* with 0x24 only by a server without a download, and with no other code but those of
\* a locked server and of the flash; and a client that reports success has its file in
\* slot B.
THEOREM Agreement == Spec => []Agree
<1>1. TransferInv => Agree
  <2>. SUFFICES ASSUME TransferInv PROVE Agree
    OBVIOUS
  <2>1. PICK ph \in Part : At(ph)
    BY DEF TransferInv
  <2>2. ASSUME phase \in {"blocks", "exit"}
        PROVE  pos <= Len(stream) /\ Len(stream) <= pos + BlockLen
    <3>1. phase = ph /\ TypeOK /\ pos \in Nat
      BY <2>1, <2>2, Types, ActivePart DEF Active, TransferInv
    <3>2. CASE ph = "blocks"
      <4>1. Len(stream) \in {pos, pos + Step} /\ pos < FileLen
        BY <2>1, <3>2 DEF At, ServerInv, Position
      <4>2. Step \in 1 .. BlockLen
        BY <3>1, <4>1, Types, NextBlockIs
      <4>. QED
        BY <3>1, <4>1, <4>2, Sizes
    <3>3. CASE ph = "exit"
      BY <2>1, <3>1, <3>3, Sizes DEF At, ServerInv
    <3>. QED
      BY <2>2, <3>1, <3>2, <3>3
  <2>3. ASSUME NEW i \in 1 .. Len(toClient)
        PROVE  toClient[i].r \in Told /\ (toClient[i].r = "0x24" => dlState = "idle")
    BY DEF TransferInv, RefusalInv, Elems
  <2>4. phase = "done" => Marked
    BY <2>1 DEF At, ServerInv
  <2>. QED
    BY <2>2, <2>3, <2>4 DEF Agree, Marked, Told
<1>. QED
  BY <1>1, Invariance, PTL

\* A download that failed, whatever the reason, leaves slot B unmarked, or marked for
\* its own whole file that was acknowledged to the last byte, or for an earlier one of
\* which nothing was overwritten.
THEOREM FailureMarks == Spec => []FailedMark
<1>1. TransferInv => FailedMark
  <2>. SUFFICES ASSUME TransferInv, phase = "failed", magicB
                PROVE  \/ pos = FileLen /\ stream = File(attempt)
                       \/ pos = 0 /\ \E a \in 1 .. attempt - 1 : stream = File(a)
    BY DEF FailedMark
  <2>1. PICK ph \in Part : At(ph)
    BY DEF TransferInv
  <2>2. CASE ph = "start"
    BY <2>1, <2>2 DEF At, Position, ServerInv
  <2>3. CASE ph = "blocks"
    BY <2>1, <2>3 DEF At, ServerInv
  <2>4. CASE ph = "exit"
    <3>1. stream = Prefix(attempt, Len(stream)) /\ Len(stream) = pos /\ pos = FileLen
      BY <2>1, <2>4 DEF At, Position, ServerInv, Mine
    <3>. QED
      BY <3>1, Sizes, PrefixIs
  <2>. QED
    BY <2>2, <2>3, <2>4 DEF Part
<1>. QED
  BY <1>1, Invariance, PTL

=============================================================================
