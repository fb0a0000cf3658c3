-------------------------------- MODULE Uds ---------------------------------
(***************************************************************************)
(* The UDS server: its loop (boot_core/Src/uds/uds.c), the diagnostic      *)
(* session with its S3 timeout (srv_session_control.c), the seed-and-key   *)
(* access (srv_security_access.c), the reset (srv_reset.c) and, through    *)
(* Download, the download services.  The tester may send any request at any*)
(* time.  Time is kept in Ticks that count down what remains of the S3     *)
(* period and of the lockout.                                               *)
(***************************************************************************)
EXTENDS Download

CONSTANTS
    Seed,          \* the values of curr_seed
    Unsigned,      \* a signature over none of them
    MaxAttempts,   \* CFG_MAX_x27_ATTEMPTS
    LockTime,      \* CFG_RETRY_TIMEOUT in ticks
    S3Time         \* CFG_S3_SERVER in ticks

ASSUME UdsAssumption ==
    /\ Unsigned \notin Seed
    /\ {MaxAttempts, LockTime, S3Time} \subseteq Nat \ {0}

VARIABLES
    loop,          \* where the server loop is: "check" or "receive"
    session,       \* session_state
    s3,            \* ticks to s3_deadline
    security,      \* security_access
    unlockState,   \* unlock_state
    seed,          \* curr_seed
    attempts,      \* num_attempts
    lock,          \* ticks until CFG_RETRY_TIMEOUT has passed since timeout_start
    last,          \* history: the last request served and its answer
    wrong,         \* history: wrong keys since power-up with no unlock, and no pause
                   \* of LockTime, among them
    quiet          \* history: ticks since the last wrong key, up to LockTime

udsVars == <<loop, session, s3, security, unlockState, seed, attempts, lock>>
obsVars == <<last, wrong, quiet>>
vars == <<dlVars, udsVars, obsVars>>
secVars == <<security, unlockState, seed, attempts, lock>>

-----------------------------------------------------------------------------

\* Mutant: the attempts are forgotten.
RelockForgives ==
    /\ security' = "locked" /\ unlockState' = "expectRequest" /\ attempts' = 0
    /\ UNCHANGED <<seed, lock>>

\* x27_on_session_change.  It also clears curr_seed, which nothing reads until
\* the next request for a seed has overwritten it.
Relock ==
    /\ security' = "locked"
    /\ unlockState' = "expectRequest"
    /\ UNCHANGED <<seed, attempts, lock>>

\* Mutant: the download goes on.
LeaveSessionLockOnly == Relock /\ UNCHANGED dlVars

\* What 0x10 and an S3 timeout have in common.
LeaveSession ==
    /\ Relock /\ ResetProgramming
    /\ UNCHANGED <<magicB, stream, flushed, announced>>

\* One round of the loop: a request is received, dispatched and answered.  S3
\* is refreshed before the handler runs and after it left the session sesn.
Dispatch(sid, r, sesn) ==
    /\ loop = "receive" /\ loop' = "check"
    /\ last' = [sid |-> sid, answer |-> r]
    /\ session' = sesn
    /\ s3' = IF session = "default" /\ sesn = "default" THEN s3 ELSE S3Time

Serve(sid, r) == Dispatch(sid, r, session)

CheckTimeout ==
    /\ loop = "check" /\ loop' = "receive"
    /\ IF session # "default" /\ s3 = 0
         THEN LeaveSession /\ session' = "default"
         ELSE UNCHANGED <<dlVars, secVars, session>>
    /\ UNCHANGED <<s3, obsVars>>

\* sr_isotp_rx gave up, or delivered a message nobody acts on.
ReceiveNothing ==
    /\ loop = "receive" /\ loop' = "check"
    /\ UNCHANGED <<dlVars, session, s3, secVars, obsVars>>

\* 0x10.  Entering a session, the same one included, locks and cancels.
SessionControl ==
    /\ \E new \in {"default", "programming"} : Dispatch("0x10", "positive", new)
    /\ LeaveSession
    /\ UNCHANGED <<wrong, quiet>>

-----------------------------------------------------------------------------
(* 0x27                                                                     *)

LockedTooLate == attempts > MaxAttempts /\ lock > 0     \* mutant
Locked == attempts >= MaxAttempts /\ lock > 0

SecurityRefused ==
    /\ \/ session # "programming" /\ Serve("0x27", "0x7F")
       \/ session = "programming" /\ Locked /\ Serve("0x27", "0x37")
    /\ UNCHANGED <<dlVars, secVars, wrong, quiet>>

\* A lockout that has run its time is forgotten at the next request.
Forgiven == IF attempts >= MaxAttempts THEN 0 ELSE attempts

RequestSeed ==
    /\ session = "programming" /\ ~Locked
    /\ attempts' = Forgiven
    /\ IF security = "unlocked"
         THEN UNCHANGED <<seed, unlockState>>
         ELSE seed' \in Seed /\ unlockState' = "expectSignature"
    /\ Serve("0x27", "positive")
    /\ UNCHANGED <<dlVars, security, lock, wrong, quiet>>

\* Key out of sequence or malformed, the 0x78 that could not be sent, or a
\* sub-function that is none.
KeyRefused ==
    /\ session = "programming" /\ ~Locked
    /\ attempts' = Forgiven
    /\ \/ Serve("0x27", "0x12")
       \/ unlockState = "expectRequest" /\ Serve("0x27", "0x24")
       \/ unlockState = "expectSignature" /\ \E r \in {"0x13", "silent"} : Serve("0x27", r)
    /\ UNCHANGED <<dlVars, security, unlockState, seed, lock, wrong, quiet>>

SendKey ==
    /\ session = "programming" /\ ~Locked
    /\ unlockState = "expectSignature"
    /\ unlockState' = "expectRequest"
    /\ \E signed \in Seed \cup {Unsigned} :
         IF signed = seed
           THEN /\ security' = "unlocked"
                /\ attempts' = 0 /\ wrong' = 0
                /\ Serve("0x27", "positive")
                /\ UNCHANGED <<lock, quiet>>
           ELSE /\ attempts' = Forgiven + 1
                /\ wrong' = IF quiet = LockTime THEN 1 ELSE wrong + 1
                /\ lock' = IF attempts' >= MaxAttempts THEN LockTime ELSE lock
                /\ Serve("0x27", IF attempts' >= MaxAttempts THEN "0x36" ELSE "0x35")
                /\ quiet' = 0
                /\ UNCHANGED security
    /\ UNCHANGED <<dlVars, seed>>

-----------------------------------------------------------------------------
(* 0x34, 0x36, 0x37, and the services that change nothing                   *)

Block(d, n) == [i \in 1 .. n |-> d]

ServeRequestDownload ==
    /\ \E short \in BOOLEAN, size \in 0 .. Capacity + 1,
          r \in {"0x13", "0x31", "0x33", "0x72", "silent", "positive"} :
         /\ RequestDownload(security = "unlocked" /\ session = "programming", short, size, r)
         /\ Serve("0x34", r)
    /\ UNCHANGED <<secVars, wrong, quiet>>

\* 0x36 and 0x37 look at the state of the download only.
ServeTransferData ==
    /\ \E n \in 0 .. SeqMod - 1, d \in Data, size \in 0 .. MaxBlock + 1,
          r \in {"0x13", "0x24", "0x71", "0x72", "0x73", "silent", "positive"} :
         /\ TransferData(n, Block(d, size), r)
         /\ Serve("0x36", r)
    /\ UNCHANGED <<secVars, wrong, quiet>>

ServeTransferExit ==
    /\ \E r \in {"0x24", "0x72", "positive"} : TransferExit(r) /\ Serve("0x37", r)
    /\ UNCHANGED <<secVars, wrong, quiet>>

\* 0x22, 0x3E, requests that no service accepts, and rejected lengths.
ServeOther ==
    /\ Serve("other", "any")
    /\ UNCHANGED <<dlVars, secVars, wrong, quiet>>

ServerInit ==
    /\ loop = "check" /\ session = "default" /\ s3 = 0
    /\ security = "locked" /\ unlockState = "expectRequest"
    /\ seed \in Seed /\ attempts = 0 /\ lock = 0
    /\ last = [sid |-> "none", answer |-> "none"] /\ wrong = 0 /\ quiet = LockTime

\* 0x11, or any other reset: all of this is RAM and starts over.
EcuReset ==
    /\ DownloadRestart
    /\ loop' = "check" /\ session' = "default" /\ s3' = 0
    /\ security' = "locked" /\ unlockState' = "expectRequest"
    /\ seed' \in Seed /\ attempts' = 0 /\ lock' = 0
    /\ last' = [sid |-> "none", answer |-> "none"] /\ wrong' = 0 /\ quiet' = LockTime

Tick ==
    /\ s3' = IF s3 > 0 THEN s3 - 1 ELSE 0
    /\ lock' = IF lock > 0 THEN lock - 1 ELSE 0
    /\ quiet' = IF quiet < LockTime THEN quiet + 1 ELSE quiet
    /\ UNCHANGED <<dlVars, loop, session, security, unlockState, seed, attempts, last, wrong>>

Init == DownloadInit /\ ServerInit

Next ==
    \/ CheckTimeout \/ ReceiveNothing
    \/ SessionControl
    \/ SecurityRefused \/ RequestSeed \/ KeyRefused \/ SendKey
    \/ ServeRequestDownload \/ ServeTransferData \/ ServeTransferExit
    \/ ServeOther \/ EcuReset
    \/ Tick

Spec == Init /\ [][Next]_vars

-----------------------------------------------------------------------------
(* Properties                                                               *)

UdsTypeOK ==
    /\ DownloadTypeOK
    /\ loop \in {"check", "receive"}
    /\ session \in {"default", "programming"} /\ s3 \in 0 .. S3Time
    /\ security \in {"locked", "unlocked"}
    /\ unlockState \in {"expectRequest", "expectSignature"}
    /\ seed \in Seed /\ attempts \in 0 .. MaxAttempts
    /\ lock \in 0 .. LockTime /\ quiet \in 0 .. LockTime /\ wrong \in Nat

\* 0x36 and 0x37 check neither session nor security.  They need not: a
\* download is only ever in progress in an unlocked programming session,
\* whichever way that session ends.
DownloadAuthorised ==
    dlState = "inProgress" => session = "programming" /\ security = "unlocked"

\* Access is only held in the programming session, and a seed that was
\* answered or abandoned can not be answered again.
AccessInSession ==
    /\ security = "unlocked" => session = "programming" /\ unlockState = "expectRequest"
    /\ unlockState = "expectSignature" => session = "programming"

\* The lockout can not be worn down: however requests for seeds, malformed
\* keys, session changes and S3 timeouts are mixed, no more than MaxAttempts
\* wrong keys are evaluated unless the server unlocked, or was left without
\* a wrong key for the whole of CFG_RETRY_TIMEOUT, in between.
LockoutHolds == wrong <= MaxAttempts

\* What makes LockoutHolds inductive: the attempts are forgotten only when the
\* lockout is over, and it is over when there was no wrong key for LockTime.
LockoutInv ==
    /\ wrong <= attempts \/ quiet = LockTime
    /\ attempts = MaxAttempts => lock + quiet = LockTime

\* All of the above at once is inductive: each action of the server, started in
\* any state that satisfies it, ends in one (UdsProofs).
UdsInv ==
    /\ UdsTypeOK /\ DownloadInv
    /\ DownloadAuthorised /\ AccessInSession
    /\ LockoutHolds /\ LockoutInv

\* "A new download request always cancels any download in progress even if
\* it gets rejected" (srv_download.c:27)
NewRequestCancels ==
    last.sid = "0x34" /\ last.answer # "positive" => dlState = "idle"
=============================================================================
