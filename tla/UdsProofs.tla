----------------------------- MODULE UdsProofs ------------------------------
(***************************************************************************)
(* UdsInv is an invariant of the UDS server for every capacity, block      *)
(* length, counter range, number of attempts and length of the timers.     *)
(***************************************************************************)
EXTENDS Uds, DownloadProofs

-----------------------------------------------------------------------------
(* The server keeps UdsInv                                                  *)

\* The attempts and the timers.
LEMMA Times == MaxAttempts \in Nat \ {0} /\ LockTime \in Nat \ {0} /\ S3Time \in Nat \ {0}
BY UdsAssumption

\* The loop's part of an action that answers a request.
LEMMA DispatchStep ==
    ASSUME NEW sid, NEW r, NEW sesn, UdsTypeOK, Dispatch(sid, r, sesn)
    PROVE  loop' \in {"check", "receive"} /\ session' = sesn /\ s3' \in 0 .. S3Time
BY Times DEF Dispatch, UdsTypeOK

\* An action that leaves session and access alone keeps what concerns them, as
\* long as it does not start a download without leave.
LEMMA AccessKept ==
    ASSUME UdsInv, DownloadInv', UNCHANGED <<session, secVars, wrong, quiet>>,
           loop' \in {"check", "receive"}, s3' \in 0 .. S3Time,
           dlState' = "inProgress" =>
               dlState = "inProgress" \/ (security = "unlocked" /\ session = "programming")
    PROVE  UdsInv'
<1>1. DownloadTypeOK'
  BY DEF DownloadInv
<1>2. UdsTypeOK'
  BY <1>1 DEF UdsInv, UdsTypeOK, secVars
<1>3. DownloadAuthorised' /\ AccessInSession'
  BY DEF UdsInv, DownloadAuthorised, AccessInSession, secVars
<1>4. LockoutHolds' /\ LockoutInv'
  BY DEF UdsInv, LockoutHolds, LockoutInv, secVars
<1> QED
  BY <1>2, <1>3, <1>4 DEF UdsInv

\* Leaving a session, by 0x10 or by S3, whatever session comes next.
LEMMA LeaveStep ==
    ASSUME UdsInv, LeaveSession, UNCHANGED <<wrong, quiet>>,
           loop' \in {"check", "receive"}, s3' \in 0 .. S3Time,
           session' \in {"default", "programming"}
    PROVE  UdsInv'
<1>1. DownloadInv' /\ dlState' = "idle"
  <2>1. DownloadInv /\ ResetProgramming /\ UNCHANGED history
    BY DEF UdsInv, LeaveSession, history
  <2> QED
    BY <2>1, ResetStep DEF ResetProgramming
<1>2. UdsTypeOK'
  BY <1>1 DEF UdsInv, UdsTypeOK, DownloadInv, LeaveSession, Relock
<1>3. DownloadAuthorised' /\ AccessInSession'
  BY <1>1 DEF DownloadAuthorised, AccessInSession, LeaveSession, Relock
<1>4. LockoutHolds' /\ LockoutInv'
  BY DEF UdsInv, LockoutHolds, LockoutInv, LeaveSession, Relock
<1> QED
  BY <1>1, <1>2, <1>3, <1>4 DEF UdsInv

\* Every wrong key is counted, and the one that fills the count starts the lockout.
LEMMA SendKeyStep ==
    ASSUME UdsInv, SendKey
    PROVE  UdsInv'
<1>1. DownloadInv' /\ dlState' = dlState
  BY DownloadKept DEF UdsInv, SendKey
<1>2. session = "programming" /\ UNCHANGED <<seed>> /\ unlockState' = "expectRequest"
  BY DEF SendKey
<1>3. loop' \in {"check", "receive"} /\ session' = session /\ s3' \in 0 .. S3Time
  BY DispatchStep DEF UdsInv, SendKey, Serve
<1>4. CASE security' = "unlocked" /\ attempts' = 0 /\ wrong' = 0 /\ UNCHANGED <<lock, quiet>>
  <2>1. UdsTypeOK'
    BY <1>1, <1>2, <1>3, <1>4, Times DEF UdsInv, UdsTypeOK, DownloadInv
  <2>2. DownloadAuthorised' /\ AccessInSession'
    BY <1>2, <1>3, <1>4 DEF DownloadAuthorised, AccessInSession
  <2>3. LockoutHolds' /\ LockoutInv'
    BY <1>4, Times DEF UdsInv, UdsTypeOK, LockoutHolds, LockoutInv
  <2> QED
    BY <1>1, <2>1, <2>2, <2>3 DEF UdsInv
<1>5. CASE /\ attempts' = Forgiven + 1
           /\ wrong' = IF quiet = LockTime THEN 1 ELSE wrong + 1
           /\ lock' = IF attempts' >= MaxAttempts THEN LockTime ELSE lock
           /\ quiet' = 0
           /\ UNCHANGED security
  <2>1. /\ attempts \in 0 .. MaxAttempts /\ lock \in 0 .. LockTime /\ wrong \in Nat
        /\ quiet \in 0 .. LockTime
    BY DEF UdsInv, UdsTypeOK
  <2>2. Forgiven \in 0 .. MaxAttempts - 1 /\ attempts' \in 1 .. MaxAttempts
    BY <1>5, <2>1, Times DEF Forgiven
  <2>3. wrong' \in Nat /\ wrong' <= attempts'
    <3>1. CASE quiet = LockTime
      BY <1>5, <2>2, <3>1
    <3>2. CASE quiet # LockTime
      <4>1. wrong <= attempts /\ (attempts = MaxAttempts => lock + quiet = LockTime)
        BY <3>2 DEF UdsInv, LockoutInv
      <4>2. attempts < MaxAttempts
        BY <2>1, <3>2, <4>1, Times DEF SendKey, Locked
      <4>3. Forgiven = attempts
        BY <2>1, <4>2, Times DEF Forgiven
      <4> QED
        BY <1>5, <2>1, <3>2, <4>1, <4>3
    <3> QED
      BY <3>1, <3>2
  <2>4. lock' \in 0 .. LockTime /\ (attempts' = MaxAttempts => lock' = LockTime)
    BY <1>5, <2>1, <2>2, Times
  <2>5. UdsTypeOK'
    <3>1. quiet' \in 0 .. LockTime /\ attempts' \in 0 .. MaxAttempts
      BY <1>5, <2>2, Times
    <3> QED
      BY <1>1, <1>2, <1>3, <1>5, <2>3, <2>4, <3>1 DEF UdsInv, UdsTypeOK, DownloadInv
  <2>6. DownloadAuthorised' /\ AccessInSession'
    BY <1>1, <1>2, <1>3, <1>5 DEF UdsInv, DownloadAuthorised, AccessInSession
  <2>7. LockoutHolds' /\ LockoutInv'
    BY <1>5, <2>2, <2>3, <2>4, Times DEF LockoutHolds, LockoutInv
  <2> QED
    BY <1>1, <2>5, <2>6, <2>7 DEF UdsInv
<1> QED
  BY <1>4, <1>5 DEF SendKey

\* A lockout is only forgotten when it has run its time.
LEMMA ForgivenStep ==
    ASSUME UdsInv, ~Locked, attempts' = Forgiven, UNCHANGED <<lock, wrong, quiet>>
    PROVE  attempts' \in 0 .. MaxAttempts /\ LockoutHolds' /\ LockoutInv'
<1>1. /\ attempts \in 0 .. MaxAttempts /\ lock \in 0 .. LockTime /\ wrong \in Nat
      /\ quiet \in 0 .. LockTime
  BY DEF UdsInv, UdsTypeOK
<1>2. LockoutHolds'
  BY DEF UdsInv, LockoutHolds
<1>3. CASE attempts = MaxAttempts
  <2>1. attempts' = 0 /\ lock = 0 /\ quiet = LockTime
    BY <1>1, <1>3, Times DEF UdsInv, LockoutInv, Locked, Forgiven
  <2> QED
    BY <1>2, <2>1, Times DEF LockoutInv
<1>4. CASE attempts # MaxAttempts
  <2>1. attempts' = attempts
    BY <1>1, <1>4, Times DEF Forgiven
  <2> QED
    BY <1>1, <1>2, <2>1 DEF UdsInv, LockoutInv
<1> QED
  BY <1>3, <1>4

\* A seed for a tester that is not locked out.
LEMMA RequestSeedStep ==
    ASSUME UdsInv, RequestSeed
    PROVE  UdsInv'
<1>1. DownloadInv' /\ dlState' = dlState
  BY DownloadKept DEF UdsInv, RequestSeed
<1>2. attempts' \in 0 .. MaxAttempts /\ LockoutHolds' /\ LockoutInv'
  BY ForgivenStep DEF RequestSeed
<1>3. loop' \in {"check", "receive"} /\ session' = session /\ s3' \in 0 .. S3Time
  BY DispatchStep DEF UdsInv, RequestSeed, Serve
<1>4. seed' \in Seed /\ unlockState' \in {"expectRequest", "expectSignature"}
  BY DEF UdsInv, UdsTypeOK, RequestSeed
<1>5. UdsTypeOK'
  BY <1>1, <1>2, <1>3, <1>4 DEF UdsInv, UdsTypeOK, DownloadInv, RequestSeed
<1>6. DownloadAuthorised' /\ AccessInSession'
  BY <1>1, <1>3 DEF UdsInv, DownloadAuthorised, AccessInSession, RequestSeed
<1> QED
  BY <1>1, <1>2, <1>5, <1>6 DEF UdsInv

\* A key that is refused unread costs no attempt.
LEMMA KeyRefusedStep ==
    ASSUME UdsInv, KeyRefused
    PROVE  UdsInv'
<1>1. DownloadInv' /\ dlState' = dlState
  BY DownloadKept DEF UdsInv, KeyRefused
<1>2. attempts' \in 0 .. MaxAttempts /\ LockoutHolds' /\ LockoutInv'
  BY ForgivenStep DEF KeyRefused
<1>3. loop' \in {"check", "receive"} /\ session' = session /\ s3' \in 0 .. S3Time
  BY DispatchStep DEF UdsInv, KeyRefused, Serve
<1>4. UdsTypeOK'
  BY <1>1, <1>2, <1>3 DEF UdsInv, UdsTypeOK, DownloadInv, KeyRefused
<1>5. DownloadAuthorised' /\ AccessInSession'
  BY <1>1, <1>3 DEF UdsInv, DownloadAuthorised, AccessInSession, KeyRefused
<1> QED
  BY <1>1, <1>2, <1>4, <1>5 DEF UdsInv

\* The blocks that testers send.
LEMMA BlockType ==
    ASSUME NEW d \in Data, NEW n \in Nat
    PROVE  Block(d, n) \in Seq(Data)
BY DEF Block

\* 0x36, in whatever session.
LEMMA ServeTransferDataStep ==
    ASSUME UdsInv, ServeTransferData
    PROVE  UdsInv'
<1>1. PICK n \in 0 .. SeqMod - 1, d \in Data, size \in 0 .. MaxBlock + 1,
           r \in {"0x13", "0x24", "0x71", "0x72", "0x73", "silent", "positive"} :
         TransferData(n, Block(d, size), r) /\ Serve("0x36", r)
  BY DEF ServeTransferData
<1>2. Block(d, size) \in Seq(Data) /\ n \in Nat
  BY BlockType, DownloadAssumption
<1>3. DownloadInv' /\ (dlState' = "inProgress" => dlState = "inProgress")
  BY <1>1, <1>2, TransferDataStep DEF UdsInv
<1>4. loop' \in {"check", "receive"} /\ session' = session /\ s3' \in 0 .. S3Time
  BY <1>1, DispatchStep DEF UdsInv, Serve
<1> QED
  BY <1>3, <1>4, AccessKept DEF ServeTransferData

\* 0x37, in whatever session.
LEMMA ServeTransferExitStep ==
    ASSUME UdsInv, ServeTransferExit
    PROVE  UdsInv'
<1>1. PICK r \in {"0x24", "0x72", "positive"} : TransferExit(r) /\ Serve("0x37", r)
  BY DEF ServeTransferExit
<1>2. DownloadInv' /\ (dlState' = "inProgress" => dlState = "inProgress")
  BY <1>1, TransferExitStep DEF UdsInv
<1>3. loop' \in {"check", "receive"} /\ session' = session /\ s3' \in 0 .. S3Time
  BY <1>1, DispatchStep DEF UdsInv, Serve
<1> QED
  BY <1>2, <1>3, AccessKept DEF ServeTransferExit

\* 0x34, which starts a download only when unlocked.
LEMMA ServeRequestDownloadStep ==
    ASSUME UdsInv, ServeRequestDownload
    PROVE  UdsInv'
<1> DEFINE leave == security = "unlocked" /\ session = "programming"
<1>1. PICK short \in BOOLEAN, size \in 0 .. Capacity + 1,
           r \in {"0x13", "0x31", "0x33", "0x72", "silent", "positive"} :
         RequestDownload(leave, short, size, r) /\ Serve("0x34", r)
  BY DEF ServeRequestDownload
<1>2. DownloadInv' /\ (dlState' = "inProgress" => dlState = "inProgress" \/ leave)
  <2> HIDE DEF leave
  <2>1. size \in Int /\ DownloadInv
    BY DownloadAssumption DEF UdsInv
  <2> QED
    BY <1>1, <2>1, RequestDownloadStep
<1>3. loop' \in {"check", "receive"} /\ session' = session /\ s3' \in 0 .. S3Time
  BY <1>1, DispatchStep DEF UdsInv, Serve
<1> QED
  BY <1>2, <1>3, AccessKept DEF ServeRequestDownload

\* What the requests that change nothing but the loop's own state keep.
LEMMA QuietStep ==
    ASSUME UdsInv, SecurityRefused \/ ServeOther \/ ReceiveNothing
    PROVE  UdsInv'
<1>1. UNCHANGED <<dlVars, secVars, wrong, quiet>>
  BY DEF SecurityRefused, ServeOther, ReceiveNothing, obsVars
<1>2. DownloadInv' /\ dlState' = dlState
  BY <1>1, DownloadKept DEF UdsInv
<1>3. loop' \in {"check", "receive"} /\ session' = session /\ s3' \in 0 .. S3Time
  <2>1. CASE ReceiveNothing
    BY <2>1 DEF UdsInv, UdsTypeOK, ReceiveNothing
  <2>2. CASE SecurityRefused \/ ServeOther
    BY <2>2, DispatchStep DEF UdsInv, SecurityRefused, ServeOther, Serve
  <2> QED
    BY <2>1, <2>2
<1> QED
  BY <1>1, <1>2, <1>3, AccessKept

\* S3 expires, or the loop goes on to receive.
LEMMA CheckTimeoutStep ==
    ASSUME UdsInv, CheckTimeout
    PROVE  UdsInv'
<1>1. loop' \in {"check", "receive"} /\ s3' \in 0 .. S3Time /\ UNCHANGED <<wrong, quiet>>
  BY DEF UdsInv, UdsTypeOK, CheckTimeout, obsVars
<1>2. CASE LeaveSession /\ session' = "default"
  BY <1>1, <1>2, LeaveStep
<1>3. CASE UNCHANGED <<dlVars, secVars, session>>
  <2>1. DownloadInv' /\ dlState' = dlState
    BY <1>3, DownloadKept DEF UdsInv
  <2> QED
    BY <1>1, <1>3, <2>1, AccessKept
<1> QED
  BY <1>2, <1>3 DEF CheckTimeout

\* 0x10, which leaves the session even for the same one.
LEMMA SessionControlStep ==
    ASSUME UdsInv, SessionControl
    PROVE  UdsInv'
<1>1. PICK new \in {"default", "programming"} : Dispatch("0x10", "positive", new)
  BY DEF SessionControl
<1>2. loop' \in {"check", "receive"} /\ session' = new /\ s3' \in 0 .. S3Time
  BY <1>1, DispatchStep DEF UdsInv
<1> QED
  BY <1>2, LeaveStep DEF SessionControl

\* A reset forgets everything but what slot B holds.
LEMMA EcuResetStep ==
    ASSUME UdsInv, EcuReset
    PROVE  UdsInv'
<1>1. DownloadInv' /\ dlState' = "idle"
  BY InRange DEF UdsInv, EcuReset, DownloadRestart, DownloadInv, DownloadTypeOK, Accounting,
                 MarkedComplete
<1>2. UdsTypeOK'
  BY <1>1, Times DEF EcuReset, UdsTypeOK, DownloadInv
<1>3. DownloadAuthorised' /\ AccessInSession' /\ LockoutHolds' /\ LockoutInv'
  BY <1>1, Times DEF EcuReset, DownloadAuthorised, AccessInSession, LockoutHolds, LockoutInv
<1> QED
  BY <1>1, <1>2, <1>3 DEF UdsInv

\* While time passes the lockout runs down as fast as the pause grows.
LEMMA TickStep ==
    ASSUME UdsInv, Tick
    PROVE  UdsInv'
<1>1. DownloadInv' /\ dlState' = dlState
  BY DownloadKept DEF UdsInv, Tick
<1>2. /\ attempts \in 0 .. MaxAttempts /\ lock \in 0 .. LockTime /\ wrong \in Nat
      /\ quiet \in 0 .. LockTime /\ s3 \in 0 .. S3Time
  BY DEF UdsInv, UdsTypeOK
<1>3. s3' \in 0 .. S3Time /\ lock' \in 0 .. LockTime /\ quiet' \in 0 .. LockTime
  BY <1>2, Times DEF Tick
<1>4. UdsTypeOK'
  BY <1>1, <1>3 DEF UdsInv, UdsTypeOK, DownloadInv, Tick
<1>5. DownloadAuthorised' /\ AccessInSession' /\ LockoutHolds'
  BY <1>1 DEF UdsInv, DownloadAuthorised, AccessInSession, LockoutHolds, Tick
<1>6. LockoutInv'
  <2>1. wrong' <= attempts' \/ quiet' = LockTime
    BY <1>2, Times DEF UdsInv, LockoutInv, Tick
  <2>2. attempts' = MaxAttempts => lock' + quiet' = LockTime
    BY <1>2, Times DEF UdsInv, LockoutInv, Tick
  <2> QED
    BY <2>1, <2>2 DEF LockoutInv
<1> QED
  BY <1>1, <1>4, <1>5, <1>6 DEF UdsInv

-----------------------------------------------------------------------------
(* The theorems                                                             *)

\* The server starts with nothing in progress, locked, and not locked out.
LEMMA UdsInitial == Init => UdsInv
<1> SUFFICES ASSUME Init PROVE UdsInv
  OBVIOUS
<1>1. DownloadInv
  BY InRange DEF Init, DownloadInit, DownloadInv, DownloadTypeOK, Accounting, MarkedComplete
<1>2. UdsTypeOK
  BY <1>1, Times DEF Init, ServerInit, UdsTypeOK, DownloadInv
<1>3. DownloadAuthorised /\ AccessInSession /\ LockoutHolds /\ LockoutInv
  BY Times DEF Init, DownloadInit, ServerInit, DownloadAuthorised, AccessInSession,
               LockoutHolds, LockoutInv
<1> QED
  BY <1>1, <1>2, <1>3 DEF UdsInv

\* No action of the server breaks UdsInv.
LEMMA UdsStep == UdsInv /\ [Next]_vars => UdsInv'
<1> SUFFICES ASSUME UdsInv, [Next]_vars PROVE UdsInv'
  OBVIOUS
<1>1. CASE UNCHANGED vars
  <2>1. DownloadInv' /\ dlState' = dlState
    BY <1>1, DownloadKept DEF UdsInv, vars
  <2>2. UNCHANGED <<loop, s3, session, secVars, wrong, quiet>>
    BY <1>1 DEF vars, udsVars, obsVars, secVars
  <2>3. loop' \in {"check", "receive"} /\ s3' \in 0 .. S3Time
    BY <2>2 DEF UdsInv, UdsTypeOK
  <2> QED
    BY <2>1, <2>2, <2>3, AccessKept
<1>2. CASE Next
  BY <1>2, CheckTimeoutStep, SessionControlStep, QuietStep, RequestSeedStep, KeyRefusedStep,
     SendKeyStep, ServeRequestDownloadStep, ServeTransferDataStep, ServeTransferExitStep,
     EcuResetStep, TickStep DEF Next
<1> QED
  BY <1>1, <1>2

\* The inductive invariant of the server and its download services holds in
\* every reachable state (uds.c, srv_*.c).
THEOREM UdsInvariant == Spec => []UdsInv
BY UdsInitial, UdsStep, PTL DEF Spec

\* The values every variable of the server keeps to.
THEOREM UdsTypes == Spec => []UdsTypeOK
<1>1. UdsInv => UdsTypeOK
  BY DEF UdsInv
<1> QED
  BY <1>1, UdsInvariant, PTL

\* What srv_download.c promises of slot B, whatever the tester sends: no data
\* is lost or counted twice, and a slot marked as an update is complete.
THEOREM SlotBComplete == Spec => [](Accounting /\ MarkedComplete)
<1>1. UdsInv => Accounting /\ MarkedComplete
  BY DEF UdsInv, DownloadInv
<1> QED
  BY <1>1, UdsInvariant, PTL

\* A download is in progress only in an unlocked programming session, and
\* access never outlives the session it was given in.
THEOREM Authorised == Spec => [](DownloadAuthorised /\ AccessInSession)
<1>1. UdsInv => DownloadAuthorised /\ AccessInSession
  BY DEF UdsInv
<1> QED
  BY <1>1, UdsInvariant, PTL

\* CFG_MAX_x27_ATTEMPTS bounds the wrong keys that are evaluated within any
\* stretch without an unlock or a pause of CFG_RETRY_TIMEOUT.
THEOREM Lockout == Spec => []LockoutHolds
<1>1. UdsInv => LockoutHolds
  BY DEF UdsInv
<1> QED
  BY <1>1, UdsInvariant, PTL
=============================================================================
