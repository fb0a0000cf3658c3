------------------------------ MODULE Transfer ------------------------------
(***************************************************************************)
(* A client that downloads a file (download in                             *)
(* host_scripts/ota_client/src/ota_client/cli.py) and the download         *)
(* services, over two channels that keep the order of messages, delay and  *)
(* lose them.  The client of the repository gives up when an answer does   *)
(* not come in time; srv_download.c:113 expects clients that send the      *)
(* request again.  Here either may happen, up to MaxTries times.  The      *)
(* operator may skip the unlocking of the server, the session may lapse at *)
(* any time, and after a failure another file may be tried.                *)
(***************************************************************************)
EXTENDS Download

CONSTANTS
    FileLen,       \* units of data in a file
    BlockLen,      \* units per block
    MaxTries,      \* how often one request is sent
    MaxAttempts    \* bound on the downloads tried

ASSUME TransferAssumption ==
    /\ FileLen \in 1 .. Capacity /\ BlockLen \in 1 .. MaxBlock
    /\ {MaxTries, MaxAttempts} \subseteq Nat \ {0}
    /\ (1 .. MaxAttempts) \X (1 .. FileLen) \subseteq Data

VARIABLES
    phase,         \* what the client is at: "start", "blocks", "exit", "done", "failed"
    attempt,       \* which download this is
    pos,           \* units of the file acknowledged
    counter,       \* seq_counter
    waiting,       \* a request is out
    tries,         \* how often it was sent
    toServer, toClient,
    unlocked       \* the server's: programming session, and security access unlocked

clientVars == <<phase, attempt, pos, counter, waiting, tries>>
vars == <<dlVars, clientVars, toServer, toClient, unlocked>>

File(a) == [i \in 1 .. FileLen |-> <<a, i>>]

\* The next block of the file, the last one may be short.
NextBlock ==
    SubSeq(File(attempt), pos + 1, IF pos + BlockLen <= FileLen THEN pos + BlockLen ELSE FileLen)

Request ==
    CASE phase = "start"  -> [sid |-> "0x34", n |-> 0, block |-> <<>>]
      [] phase = "blocks" -> [sid |-> "0x36", n |-> counter, block |-> NextBlock]
      [] phase = "exit"   -> [sid |-> "0x37", n |-> 0, block |-> <<>>]

Active == phase \in {"start", "blocks", "exit"}

\* Sending a request throws away what came in before.
Send ==
    /\ Active /\ ~waiting /\ waiting' = TRUE
    /\ tries' = tries + 1
    /\ toServer' = Append(toServer, Request) /\ toClient' = <<>>
    /\ UNCHANGED <<dlVars, phase, attempt, pos, counter, unlocked>>

\* Mutant: the tries are not counted.
TimeoutUncounted ==
    /\ waiting /\ waiting' = FALSE
    /\ \/ phase' = "failed"
       \/ UNCHANGED phase
    /\ tries' = 0
    /\ UNCHANGED <<dlVars, attempt, pos, counter, toServer, toClient, unlocked>>

\* No answer in time, though one may still come: the client gives up or tries again.
Timeout ==
    /\ waiting /\ waiting' = FALSE
    /\ \/ phase' = "failed"
       \/ tries < MaxTries /\ UNCHANGED phase
    /\ UNCHANGED <<dlVars, attempt, pos, counter, tries, toServer, toClient, unlocked>>

\* The positive answer to the request that is out.
Advance ==
    /\ tries' = 0
    /\ CASE phase = "start"  -> /\ phase' = "blocks" /\ UNCHANGED <<pos, counter>>
         [] phase = "blocks" -> /\ pos' = pos + Len(NextBlock)
                                /\ counter' = Succ(counter)
                                /\ phase' = IF pos' = FileLen THEN "exit" ELSE "blocks"
         [] phase = "exit"   -> /\ phase' = "done" /\ UNCHANGED <<pos, counter>>

\* Any other answer raises an exception, which ends the download.
Receive ==
    /\ waiting /\ toClient # <<>>
    /\ waiting' = FALSE /\ toClient' = Tail(toClient)
    /\ LET answer == Head(toClient) IN
       IF answer = [sid |-> Request.sid, n |-> Request.n, r |-> "positive"]
         THEN Advance
         ELSE phase' = "failed" /\ UNCHANGED <<pos, counter, tries>>
    /\ UNCHANGED <<dlVars, attempt, toServer, unlocked>>

\* A new attempt is started by hand, when nothing is under way any more.  If the
\* operator wishes it enters the programming session first, which cancels a
\* download, and unlocks the server.
TryAgain ==
    /\ phase \in {"done", "failed"} /\ attempt < MaxAttempts
    /\ toServer = <<>> /\ toClient = <<>>
    /\ phase' = "start" /\ attempt' = attempt + 1
    /\ pos' = 0 /\ counter' = 1 /\ tries' = 0
    /\ \/ UNCHANGED <<dlVars, unlocked>>
       \/ /\ unlocked' = TRUE
          /\ ResetProgramming /\ UNCHANGED <<magicB, stream, flushed, announced>>
    /\ UNCHANGED <<waiting, toServer, toClient>>

-----------------------------------------------------------------------------

Handle(request, r) ==
    \/ request.sid = "0x34" /\ RequestDownload(unlocked, FALSE, FileLen, r)
    \/ request.sid = "0x36" /\ TransferData(request.n, request.block, r)
    \/ request.sid = "0x37" /\ TransferExit(r)

\* The server takes a request and answers it, unless it could not send.
Serve ==
    /\ toServer # <<>> /\ toServer' = Tail(toServer)
    /\ \E r \in {"positive", "silent",
                "0x13", "0x24", "0x31", "0x33", "0x71", "0x72", "0x73"} :
         /\ Handle(Head(toServer), r)
         /\ toClient' = IF r = "silent" THEN toClient
              ELSE Append(toClient, [sid |-> Head(toServer).sid, n |-> Head(toServer).n, r |-> r])
    /\ UNCHANGED <<clientVars, unlocked>>

\* S3 runs out, or another tester changes the session: the server is locked and a
\* download is cancelled.
SessionEnds ==
    /\ unlocked /\ unlocked' = FALSE
    /\ ResetProgramming /\ UNCHANGED <<magicB, stream, flushed, announced>>
    /\ UNCHANGED <<clientVars, toServer, toClient>>

LoseRequest ==
    /\ toServer # <<>> /\ toServer' = Tail(toServer)
    /\ UNCHANGED <<dlVars, clientVars, toClient, unlocked>>

LoseAnswer ==
    /\ toClient # <<>> /\ toClient' = Tail(toClient)
    /\ UNCHANGED <<dlVars, clientVars, toServer, unlocked>>

Init ==
    /\ DownloadInit
    /\ phase = "start" /\ attempt = 1 /\ pos = 0 /\ counter = 1
    /\ waiting = FALSE /\ tries = 0
    /\ toServer = <<>> /\ toClient = <<>> /\ unlocked \in BOOLEAN

Client == Send \/ Timeout \/ Receive

Next ==
    \/ Send \/ Timeout \/ Receive \/ TryAgain
    \/ Serve \/ SessionEnds \/ LoseRequest \/ LoseAnswer

Spec == Init /\ [][Next]_vars

\* The client's own steps go on; nobody has to try again.
FairSpec == Spec /\ WF_vars(Client)

-----------------------------------------------------------------------------
(* Properties                                                               *)

TypeOK ==
    /\ DownloadTypeOK
    /\ phase \in {"start", "blocks", "exit", "done", "failed"}
    /\ attempt \in 1 .. MaxAttempts /\ pos \in 0 .. FileLen
    /\ counter \in 0 .. SeqMod - 1
    /\ {waiting, unlocked} \subseteq BOOLEAN /\ tries \in 0 .. MaxTries

IsPrefix(s, t) == Len(s) <= Len(t) /\ s = SubSeq(t, 1, Len(s))

\* Whatever is lost, late or repeated, slot B holds the beginning of one file,
\* each unit once and in order, and is marked only when it holds a whole file.
OneFile ==
    /\ \E a \in 1 .. attempt : IsPrefix(stream, File(a))
    /\ magicB => stream \in {File(a) : a \in 1 .. attempt}

\* Client and server agree: what was acknowledged is written, and at most one
\* block more; the server never takes a repeated or a late request for one out of
\* sequence, and refuses one with 0x24 only when it has no download any more; and
\* a client that reports success has its own file marked.
Agree ==
    /\ phase \in {"blocks", "exit"} => pos <= Len(stream) /\ Len(stream) <= pos + BlockLen
    /\ \A i \in 1 .. Len(toClient) :
         /\ toClient[i].r \in {"positive", "0x24", "0x33", "0x72"}
         /\ toClient[i].r = "0x24" => dlState = "idle"
    /\ phase = "done" => magicB /\ flushed /\ stream = File(attempt)

\* However a download fails (the client gives up after a loss, the server was never
\* unlocked, the session lapsed, the flash failed), slot B is left marked in two
\* cases only: all of the file was acknowledged, 0x37 was served though its answer
\* did not arrive, and it is this file that will be installed; or nothing of the
\* new file was taken, and an earlier one, whole, still waits.
FailedMark ==
    phase = "failed" /\ magicB =>
        \/ pos = FileLen /\ stream = File(attempt)
        \/ pos = 0 /\ \E a \in 1 .. attempt - 1 : stream = File(a)

\* Every download comes to an end.
Ends == []<>(phase \in {"done", "failed"})
=============================================================================
