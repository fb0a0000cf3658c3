----------------------------- MODULE IsoTpProofs -----------------------------
(***************************************************************************)
(* What sr_isotp_rx returns are messages of the tester, for every number   *)
(* of messages and other frames and every range of the frame index.        *)
(***************************************************************************)
EXTENDS IsoTp, Integers, SequenceTheorems, TLAPS

-----------------------------------------------------------------------------
(* The invariant                                                            *)

\* Where the main loop is.
Labels == {"serve", "rx", "tx", "claim", "length", "state", "build", "limit", "complete",
           "grant", "check", "air", "idle1", "idle2", "idle3", "txDue", "rxDue"}
Idling == pc \in {"idle1", "idle2", "idle3"}
Sending == pc \in {"build", "limit", "complete", "grant", "check", "air"}

\* Setting up a response, and in the loop of sr_isotp_tx.
Loading == pc \in {"length", "state"} \/ (Idling /\ after = "length")
InTx == pc \in {"tx", "txDue"} \/ (Sending /\ caller = "tx")

Types ==
    /\ txDone \in BOOLEAN /\ pc \in Labels
    /\ after \in {"serve", "length", "limit", "check", "air"} /\ caller \in {"rx", "tx"}
    /\ out \in {"none", "data", "FC"} /\ len \in {1, MsgLen} /\ budget \in 0 .. 2
    /\ tester \in [msg : 0 .. MaxMsgs, sent : 1 .. MsgLen, clear : BOOLEAN]
    /\ got \in Seq(Seq(Nat \X Nat))

\* The last message returned.
Last == IF got = <<>> THEN 0 ELSE got[Len(got)][1][1]

\* In the buffer: a whole message, newer than all that were returned, or nothing.
Holds(m) ==
    \/ sess.full = 1 /\ buf[1] = <<m, 0>>
    \/ sess.full = MsgLen /\ \A i \in 1 .. MsgLen : buf[i] = <<m, i>>
Good == sess.full = 0 \/ \E m \in Last + 1 .. tester.msg : Holds(m)

\* The beginning of the message that the tester is sending.
Partial ==
    /\ sess.full = MsgLen /\ sess.off \in 1 .. MsgLen - 1 /\ sess.off <= tester.sent
    /\ sess.idx = sess.off % IdxMod
    /\ \A i \in 1 .. sess.off : buf[i] = <<tester.msg, i>>
    /\ tester.msg > Last

\* A message that waits to be claimed is whole, or the session that holds it is set
\* to idle before the claim: by the transmission that overwrote it, which nothing
\* interrupts any more.
DoneInv ==
    /\ pc = "claim" => rxDone
    /\ rxDone => /\ sess.state # "receiving"
                 /\ Loading => lastErr = "ok"
                 /\ ~Idling /\ ~Loading => Good \/ (InTx /\ lastErr = "ok")

\* A message that is being received is the tester's, unless the main loop has just
\* changed the session and goes on to change it again.
ReceivingInv == sess.state = "receiving" =>
    /\ sess.full = 0 \/ Partial \/ pc \in {"idle3", "state"} \/ (pc = "limit" /\ hit)
    /\ sess.fc \in {0, Unlimited}
    /\ pc \in {"idle2", "idle3", "length", "state"} => hit
    /\ pc \in {"idle2", "idle3", "build", "limit"} => sess.fc = 0
    /\ Idling /\ after = "limit" => sess.fc = 0
    /\ pc = "build" => hit /\ sess.off > 0

\* While a response is set up one frame may arrive, and no transmission is under way
\* that it would interrupt.
LoadingInv ==
    /\ Loading /\ ~hit => lastErr = "ok"
    /\ Loading \/ pc \in {"idle2", "idle3"} => ~Transmitting

\* A handler may respond only when nothing is being transmitted.
BudgetInv == budget > 0 =>
    /\ \/ pc \in {"serve", "rx", "rxDue"}
       \/ pc \in {"grant", "check", "air"} /\ caller = "rx"
       => ~Transmitting
    /\ pc \in {"build", "limit", "complete"} \/ (Idling /\ after = "limit") => caller = "tx"
    /\ Idling => after # "check"

\* Where the main loop goes on after a frame.
CallerInv ==
    /\ pc = "check" \/ (Idling /\ after = "check") => caller = "rx"
    /\ Idling /\ after = "air" => caller = "tx"

\* No frame is built beyond the end of a message.
OffsetInv ==
    /\ Transmitting => sess.off <= sess.full \/ pc \in {"limit", "complete", "idle1"}
    /\ pc \in {"build", "state"} => sess.off <= sess.full
    /\ pc \in {"idle3", "length"} => sess.off <= 1

\* There are no more grants than messages.  Due is one about to be sent, Owed one that
\* the session still asks for.
Due ==
    IF pc = "grant" \/ (pc \in {"check", "air"} /\ out = "FC") THEN 1 ELSE 0
Owed == IF sess.state = "receiving" /\ sess.fc = 0 /\ pc # "grant" THEN 1 ELSE 0
GrantInv ==
    /\ fcs + Due + Owed <= tester.msg
    /\ pc \in {"limit", "complete"} => out # "FC"
    /\ Idling /\ out = "FC" => after \in {"serve", "length"}

\* Messages are returned in order, and so there are no more of them than were sent.
OrderInv == Last \in 0 .. tester.msg /\ Len(got) <= Last

IsoInv ==
    /\ TypeOK /\ Types /\ DeliveredIntact /\ OrderInv
    /\ DoneInv /\ ReceivingInv /\ LoadingInv /\ BudgetInv /\ CallerInv /\ OffsetInv
    /\ GrantInv

-----------------------------------------------------------------------------
(* What most steps have in common                                           *)

SessType ==
    [state : {"idle", "receiving", "received", "transmitting", "awaitingFC"},
     full : {0, 1, MsgLen}, off : 0 .. MsgLen, fc : {0, 1, Unlimited},
     idx : 0 .. IdxMod - 1]

\* The booleans of TypeOK.
LEMMA Flags ==
    ASSUME NEW a \in BOOLEAN, NEW b \in BOOLEAN, NEW c \in BOOLEAN, NEW d \in BOOLEAN
    PROVE  {a, b, c, d} \subseteq BOOLEAN
OBVIOUS

\* A step in which sr_isotp_rx returns nothing keeps what was returned.
LEMMA Returned ==
    ASSUME IsoInv, got' = got, tester'.msg \in Nat, tester'.msg >= tester.msg
    PROVE  DeliveredIntact' /\ OrderInv'
<1> USE DEF IsoInv, Types
<1>1. 1 .. tester.msg \subseteq 1 .. tester'.msg
  BY DEF TypeOK
<1>2. DeliveredIntact'
  BY <1>1 DEF DeliveredIntact
<1>3. Last' = Last
  BY DEF Last
<1>4. OrderInv'
  BY <1>3 DEF OrderInv, TypeOK
<1> QED BY <1>2, <1>4

\* The main loop leaves the buffer, the tester and what it returned alone.
LEMMA MainTypes ==
    ASSUME IsoInv, NEW label, Goto(label), sess' \in SessType,
           lastErr' \in {lastErr, "ok"}, fcs' \in 0 .. MaxMsgs, txDone' \in BOOLEAN,
           rxDone' \in BOOLEAN, late' \in BOOLEAN, heard' \subseteq {"FC", "CF"},
           buf' = buf, got' = got
    PROVE  TypeOK'
<1>1. hit' \in BOOLEAN
  BY Zenon DEF IsoInv, TypeOK, Goto
<1>2. {rxDone', txDone', hit', late'} \subseteq BOOLEAN
  BY <1>1, Flags
<1> QED BY <1>2 DEF IsoInv, TypeOK, SessType, Types

-----------------------------------------------------------------------------
(* The main loop                                                            *)

\* sr_isotp_rx is called.
LEMMA ReceiveKeeps == ASSUME IsoInv, Receive PROVE IsoInv'
<1> USE IsoTpAssumption DEF IsoInv, Types, Labels, Receive, Goto, Waiting, StartTimeout,
      MsgLen, isoVars, testVars
<1>1. TypeOK'
  <2>1. txDone' \in BOOLEAN /\ rxDone' \in BOOLEAN /\ late' \in BOOLEAN
    BY Zenon DEF TypeOK
  <2>2. sess' \in SessType
    BY DEF SessType, TypeOK
  <2>3. fcs' \in 0 .. MaxMsgs
    BY DEF TypeOK, GrantInv, Due, Owed
  <2>4. heard' \subseteq {"FC", "CF"}
    BY DEF TypeOK
  <2> QED BY <2>1, <2>2, <2>3, <2>4, MainTypes
<1>2. Types'
  BY DEF TypeOK
<1>3. DeliveredIntact' /\ OrderInv'
  BY Returned
<1>4. DoneInv'
  BY DEF DoneInv, TypeOK, Idling, Loading, InTx, Sending, Good, Holds, Last
<1>5. ReceivingInv'
  BY DEF ReceivingInv, TypeOK, Idling, Partial, Last
<1>6. LoadingInv'
  BY DEF LoadingInv, TypeOK, Loading, Idling, Transmitting
<1>7. BudgetInv'
  BY DEF BudgetInv, TypeOK, Transmitting, Idling
<1>8. CallerInv'
  BY DEF CallerInv, TypeOK, Idling
<1>9. OffsetInv'
  BY DEF OffsetInv, TypeOK, Transmitting
<1>10. GrantInv'
  BY DEF GrantInv, TypeOK, Due, Owed, Idling
<1> QED BY <1>1, <1>2, <1>3, <1>4, <1>5, <1>6, <1>7, <1>8, <1>9, <1>10

\* A handler starts a response, with the session about to be set to idle.
LEMMA RespondKeeps == ASSUME IsoInv, Respond PROVE IsoInv'
<1> USE IsoTpAssumption DEF IsoInv, Types, Labels, Respond, Goto, GoIdle, Waiting,
      MsgLen, isoVars, testVars
<1>1. TypeOK'
  <2>1. txDone' \in BOOLEAN /\ rxDone' \in BOOLEAN /\ late' \in BOOLEAN
    BY Zenon DEF TypeOK
  <2>2. sess' \in SessType
    BY DEF SessType, TypeOK
  <2>3. fcs' \in 0 .. MaxMsgs
    BY DEF TypeOK, GrantInv, Due, Owed
  <2>4. heard' \subseteq {"FC", "CF"}
    BY DEF TypeOK
  <2> QED BY <2>1, <2>2, <2>3, <2>4, MainTypes
<1>2. Types'
  BY DEF TypeOK
<1>3. DeliveredIntact' /\ OrderInv'
  BY Returned
<1>4. DoneInv'
  BY DEF DoneInv, TypeOK, Idling, Loading, InTx, Sending, Good, Holds, Last
<1>5. ReceivingInv'
  BY DEF ReceivingInv, TypeOK, Idling, Partial, Last
<1>6. LoadingInv'
  BY DEF LoadingInv, TypeOK, Loading, Idling, Transmitting, BudgetInv
<1>7. BudgetInv'
  BY DEF BudgetInv, TypeOK, Transmitting, Idling
<1>8. CallerInv'
  BY DEF CallerInv, TypeOK, Idling
<1>9. OffsetInv'
  BY DEF OffsetInv, TypeOK, Transmitting
<1>10. GrantInv'
  BY DEF GrantInv, TypeOK, Due, Owed, Idling
<1> QED BY <1>1, <1>2, <1>3, <1>4, <1>5, <1>6, <1>7, <1>8, <1>9, <1>10

\* isotp_session_send sets the length, then the state.
LEMMA LoadKeeps == ASSUME IsoInv, Load PROVE IsoInv'
<1> USE IsoTpAssumption DEF IsoInv, Types, Labels, Load, Goto, Waiting, StartTimeout,
      MsgLen, isoVars, testVars
<1>1. TypeOK'
  <2>1. txDone' \in BOOLEAN /\ rxDone' \in BOOLEAN /\ late' \in BOOLEAN
    BY Zenon DEF TypeOK
  <2>2. sess' \in SessType
    BY DEF SessType, TypeOK
  <2>3. fcs' \in 0 .. MaxMsgs
    BY DEF TypeOK, GrantInv, Due, Owed
  <2>4. heard' \subseteq {"FC", "CF"}
    BY DEF TypeOK
  <2> QED BY <2>1, <2>2, <2>3, <2>4, MainTypes
<1>2. Types'
  BY DEF TypeOK
<1>3. DeliveredIntact' /\ OrderInv'
  BY Returned
<1>4. DoneInv'
  BY DEF DoneInv, TypeOK, Idling, Loading, InTx, Sending, Good, Holds, Last
<1>5. ReceivingInv'
  BY DEF ReceivingInv, TypeOK, Idling, Partial, Last
<1>6. LoadingInv'
  BY DEF LoadingInv, TypeOK, Loading, Idling, Transmitting
<1>7. BudgetInv'
  BY DEF BudgetInv, TypeOK, Transmitting, Idling
<1>8. CallerInv'
  BY DEF CallerInv, TypeOK, Idling
<1>9. OffsetInv'
  <2>1. CASE pc = "length"
    <3>1. pc' = "state" /\ sess'.off <= 1 /\ sess'.off \in 0 .. MsgLen /\ sess'.full = len
      BY <2>1 DEF OffsetInv, TypeOK
    <3> QED BY <3>1 DEF OffsetInv
  <2>2. CASE pc = "state"
    BY <2>2 DEF OffsetInv, TypeOK
  <2> QED BY <2>1, <2>2
<1>10. GrantInv'
  BY DEF GrantInv, TypeOK, Due, Owed, Idling
<1> QED BY <1>1, <1>2, <1>3, <1>4, <1>5, <1>6, <1>7, <1>8, <1>9, <1>10

\* isotp_session_idle, write by write: a message that arrived in between is lost, but
\* what is left of it is known not to be whole.
LEMMA IdleKeeps == ASSUME IsoInv, Idle PROVE IsoInv'
<1> USE IsoTpAssumption DEF IsoInv, Types, Labels, Idle, Goto, Waiting, MsgLen, isoVars,
      testVars
<1>1. TypeOK'
  <2>1. txDone' \in BOOLEAN /\ rxDone' \in BOOLEAN /\ late' \in BOOLEAN
    BY Zenon DEF TypeOK
  <2>2. sess' \in SessType
    <3> sess \in SessType
      BY DEF SessType, TypeOK
    <3>1. CASE sess' = [sess EXCEPT !.state = "idle"]
      BY <3>1 DEF SessType
    <3>2. CASE sess' = [sess EXCEPT !.fc = 0, !.off = 0]
      <4>1. sess' = [state |-> sess.state, full |-> sess.full, off |-> 0, fc |-> 0,
                     idx |-> sess.idx]
        BY <3>2 DEF SessType
      <4> QED BY ONLY sess \in SessType, <4>1 DEF SessType, MsgLen
    <3>3. CASE sess' = [sess EXCEPT !.full = 0, !.idx = 1]
      <4>1. sess' = [state |-> sess.state, full |-> 0, off |-> sess.off, fc |-> sess.fc,
                     idx |-> 1]
        BY <3>3 DEF SessType
      <4> QED BY ONLY sess \in SessType, <4>1, IsoTpAssumption DEF SessType, MsgLen
    <3> QED BY <3>1, <3>2, <3>3
  <2>3. fcs' \in 0 .. MaxMsgs
    BY DEF TypeOK, GrantInv, Due, Owed
  <2>4. heard' \subseteq {"FC", "CF"}
    BY DEF TypeOK
  <2> QED BY <2>1, <2>2, <2>3, <2>4, MainTypes
<1>2. Types'
  BY DEF TypeOK
<1>3. DeliveredIntact' /\ OrderInv'
  BY Returned
<1>4. DoneInv'
  BY DEF DoneInv, TypeOK, Idling, Loading, InTx, Sending, Good, Holds, Last
<1>5. ReceivingInv'
  BY DEF ReceivingInv, TypeOK, Idling, Partial, Last
<1>6. LoadingInv'
  BY DEF LoadingInv, TypeOK, Loading, Idling, Transmitting
<1>7. BudgetInv'
  BY DEF BudgetInv, TypeOK, Transmitting, Idling, LoadingInv, CallerInv, Loading
<1>8. CallerInv'
  BY DEF CallerInv, TypeOK, Idling
<1>9. OffsetInv'
  <2>1. CASE pc = "idle1"
    BY <2>1 DEF OffsetInv, TypeOK, Transmitting
  <2>2. CASE pc = "idle2"
    <3>1. pc' = "idle3" /\ sess'.off = 0 /\ sess'.full = sess.full
      BY <2>2 DEF TypeOK
    <3> QED BY <3>1 DEF OffsetInv, TypeOK
  <2>3. CASE pc = "idle3"
    <3>1. ~Transmitting /\ sess'.state = sess.state /\ sess'.off = sess.off
      BY <2>3 DEF TypeOK, LoadingInv
    <3>2. pc' = after /\ sess.off <= 1
      BY <2>3 DEF OffsetInv
    <3> QED BY <3>1, <3>2 DEF OffsetInv, Transmitting
  <2> QED BY <2>1, <2>2, <2>3
<1>10. GrantInv'
  <2>1. CASE pc = "idle1"
    BY <2>1 DEF GrantInv, TypeOK, Due, Owed, Idling, ReceivingInv
  <2>2. CASE pc = "idle2"
    BY <2>2 DEF GrantInv, TypeOK, Due, Owed, Idling, ReceivingInv
  <2>3. CASE pc = "idle3"
    BY <2>3 DEF GrantInv, TypeOK, Due, Owed, Idling, ReceivingInv
  <2> QED BY <2>1, <2>2, <2>3
<1> QED BY <1>1, <1>2, <1>3, <1>4, <1>5, <1>6, <1>7, <1>8, <1>9, <1>10

\* A second passes, and nothing else changes.
LEMMA ElapseKeeps == ASSUME IsoInv, Elapse PROVE IsoInv'
<1> USE IsoTpAssumption DEF IsoInv, Types, Labels, Elapse, Goto, Waiting, MsgLen,
      isoVars, testVars
<1>1. TypeOK'
  <2>1. {rxDone', txDone', hit', late'} \subseteq BOOLEAN
    <3>1. late' \in BOOLEAN
      OBVIOUS
    <3>2. rxDone' \in BOOLEAN /\ txDone' \in BOOLEAN /\ hit' \in BOOLEAN
      BY Zenon DEF TypeOK
    <3> QED BY <3>1, <3>2, Flags
  <2> QED BY <2>1 DEF TypeOK
<1>2. Types'
  BY DEF TypeOK
<1>3. DeliveredIntact' /\ OrderInv'
  BY Returned
<1>4. DoneInv'
  BY DEF DoneInv, TypeOK, Idling, Loading, InTx, Sending, Good, Holds, Last, CallerInv,
      LoadingInv
<1>5. ReceivingInv'
  BY DEF ReceivingInv, TypeOK, Idling, Partial, Last
<1>6. LoadingInv'
  BY DEF LoadingInv, TypeOK, Loading, Idling, Transmitting
<1>7. BudgetInv'
  BY DEF BudgetInv, TypeOK, Transmitting, Idling, CallerInv, LoadingInv
<1>8. CallerInv'
  BY DEF CallerInv, TypeOK, Idling
<1>9. OffsetInv'
  BY DEF OffsetInv, TypeOK, Transmitting
<1>10. GrantInv'
  BY DEF GrantInv, TypeOK, Due, Owed, Idling
<1> QED BY <1>1, <1>2, <1>3, <1>4, <1>5, <1>6, <1>7, <1>8, <1>9, <1>10

\* sr_isotp_tx is done, is told of an error, or looks at what is due.
LEMMA TxPollKeeps == ASSUME IsoInv, TxPoll PROVE IsoInv'
<1> USE IsoTpAssumption DEF IsoInv, Types, Labels, TxPoll, Round, Goto, GoIdle, Waiting,
       MsgLen, isoVars, testVars
<1>1. TypeOK'
  <2>1. txDone' \in BOOLEAN /\ rxDone' \in BOOLEAN /\ late' \in BOOLEAN
    BY Zenon DEF TypeOK
  <2>2. sess' \in SessType
    BY DEF SessType, TypeOK
  <2>3. fcs' \in 0 .. MaxMsgs
    BY DEF TypeOK, GrantInv, Due, Owed
  <2>4. heard' \subseteq {"FC", "CF"}
    BY DEF TypeOK
  <2> QED BY <2>1, <2>2, <2>3, <2>4, MainTypes
<1>2. Types'
  <2>1. txDone' \in BOOLEAN
    BY Zenon
  <2>2. pc' \in {"idle1", "serve", "txDue"}
    OBVIOUS
  <2>3. after' \in {after, "serve"} /\ caller' = caller /\ budget' \in {budget, 0}
    OBVIOUS
  <2> QED BY <2>1, <2>2, <2>3
<1>3. DeliveredIntact' /\ OrderInv'
  BY Returned
<1>4. DoneInv'
  BY DEF DoneInv, TypeOK, Idling, Loading, InTx, Sending, Good, Holds, Last
<1>5. ReceivingInv'
  BY DEF ReceivingInv, TypeOK, Idling, Partial, Last
<1>6. LoadingInv'
  BY DEF LoadingInv, TypeOK, Loading, Idling, Transmitting
<1>7. BudgetInv'
  BY DEF BudgetInv, TypeOK, Transmitting, Idling
<1>8. CallerInv'
  BY DEF CallerInv, TypeOK, Idling
<1>9. OffsetInv'
  BY DEF OffsetInv, TypeOK, Transmitting
<1>10. GrantInv'
  BY DEF GrantInv, TypeOK, Due, Owed, Idling
<1> QED BY <1>1, <1>2, <1>3, <1>4, <1>5, <1>6, <1>7, <1>8, <1>9, <1>10

\* sr_isotp_tx gives up.
LEMMA TxTimeoutKeeps == ASSUME IsoInv, TxTimeout PROVE IsoInv'
<1> USE IsoTpAssumption DEF IsoInv, Types, Labels, TxTimeout, Goto, GoIdle, Waiting, MsgLen,
      isoVars, testVars
<1>1. TypeOK'
  <2>1. txDone' \in BOOLEAN /\ rxDone' \in BOOLEAN /\ late' \in BOOLEAN
    BY Zenon DEF TypeOK
  <2>2. sess' \in SessType
    BY DEF SessType, TypeOK
  <2>3. fcs' \in 0 .. MaxMsgs
    BY DEF TypeOK, GrantInv, Due, Owed
  <2>4. heard' \subseteq {"FC", "CF"}
    BY DEF TypeOK
  <2> QED BY <2>1, <2>2, <2>3, <2>4, MainTypes
<1>2. Types'
  BY DEF TypeOK
<1>3. DeliveredIntact' /\ OrderInv'
  BY Returned
<1>4. DoneInv'
  BY DEF DoneInv, TypeOK, Idling, Loading, InTx, Sending, Good, Holds, Last
<1>5. ReceivingInv'
  BY DEF ReceivingInv, TypeOK, Idling, Partial, Last
<1>6. LoadingInv'
  BY DEF LoadingInv, TypeOK, Loading, Idling, Transmitting
<1>7. BudgetInv'
  BY DEF BudgetInv, TypeOK, Transmitting, Idling
<1>8. CallerInv'
  BY DEF CallerInv, TypeOK, Idling
<1>9. OffsetInv'
  BY DEF OffsetInv, TypeOK, Transmitting
<1>10. GrantInv'
  BY DEF GrantInv, TypeOK, Due, Owed, Idling
<1> QED BY <1>1, <1>2, <1>3, <1>4, <1>5, <1>6, <1>7, <1>8, <1>9, <1>10

\* sr_isotp_rx has a message, is told of an error, or looks at what is due.
LEMMA RxPollKeeps == ASSUME IsoInv, RxPoll PROVE IsoInv'
<1> USE IsoTpAssumption DEF IsoInv, Types, Labels, RxPoll, Round, Goto, GoIdle, Waiting,
       MsgLen, isoVars, testVars
<1>1. TypeOK'
  <2>1. txDone' \in BOOLEAN /\ rxDone' \in BOOLEAN /\ late' \in BOOLEAN
    BY Zenon DEF TypeOK
  <2>2. sess' \in SessType
    BY DEF SessType, TypeOK
  <2>3. fcs' \in 0 .. MaxMsgs
    BY DEF TypeOK, GrantInv, Due, Owed
  <2>4. heard' \subseteq {"FC", "CF"}
    BY DEF TypeOK
  <2> QED BY <2>1, <2>2, <2>3, <2>4, MainTypes
<1>2. Types'
  BY DEF TypeOK
<1>3. DeliveredIntact' /\ OrderInv'
  BY Returned
<1>4. DoneInv'
  BY DEF DoneInv, TypeOK, Idling, Loading, InTx, Sending, Good, Holds, Last
<1>5. ReceivingInv'
  BY DEF ReceivingInv, TypeOK, Idling, Partial, Last
<1>6. LoadingInv'
  BY DEF LoadingInv, TypeOK, Loading, Idling, Transmitting
<1>7. BudgetInv'
  BY DEF BudgetInv, TypeOK, Transmitting, Idling
<1>8. CallerInv'
  BY DEF CallerInv, TypeOK, Idling
<1>9. OffsetInv'
  BY DEF OffsetInv, TypeOK, Transmitting
<1>10. GrantInv'
  BY DEF GrantInv, TypeOK, Due, Owed, Idling
<1> QED BY <1>1, <1>2, <1>3, <1>4, <1>5, <1>6, <1>7, <1>8, <1>9, <1>10

\* sr_isotp_rx gives up.
LEMMA RxTimeoutKeeps == ASSUME IsoInv, RxTimeout PROVE IsoInv'
<1> USE IsoTpAssumption DEF IsoInv, Types, Labels, RxTimeout, Goto, GoIdle, Waiting, MsgLen,
      isoVars, testVars
<1>1. TypeOK'
  <2>1. txDone' \in BOOLEAN /\ rxDone' \in BOOLEAN /\ late' \in BOOLEAN
    BY Zenon DEF TypeOK
  <2>2. sess' \in SessType
    BY DEF SessType, TypeOK
  <2>3. fcs' \in 0 .. MaxMsgs
    BY DEF TypeOK, GrantInv, Due, Owed
  <2>4. heard' \subseteq {"FC", "CF"}
    BY DEF TypeOK
  <2> QED BY <2>1, <2>2, <2>3, <2>4, MainTypes
<1>2. Types'
  BY DEF TypeOK
<1>3. DeliveredIntact' /\ OrderInv'
  BY Returned
<1>4. DoneInv'
  BY DEF DoneInv, TypeOK, Idling, Loading, InTx, Sending, Good, Holds, Last
<1>5. ReceivingInv'
  BY DEF ReceivingInv, TypeOK, Idling, Partial, Last
<1>6. LoadingInv'
  BY DEF LoadingInv, TypeOK, Loading, Idling, Transmitting
<1>7. BudgetInv'
  BY DEF BudgetInv, TypeOK, Transmitting, Idling
<1>8. CallerInv'
  BY DEF CallerInv, TypeOK, Idling
<1>9. OffsetInv'
  BY DEF OffsetInv, TypeOK, Transmitting
<1>10. GrantInv'
  BY DEF GrantInv, TypeOK, Due, Owed, Idling
<1> QED BY <1>1, <1>2, <1>3, <1>4, <1>5, <1>6, <1>7, <1>8, <1>9, <1>10

\* A loop calls isotp_session_can_tx, and a frame may be due.
LEMMA SendDueKeeps == ASSUME IsoInv, SendDue PROVE IsoInv'
<1> USE IsoTpAssumption DEF IsoInv, Types, Labels, SendDue, Goto, Waiting, DataDue,
      GrantDue, MsgLen,
      isoVars, testVars
<1>1. TypeOK'
  <2>1. txDone' \in BOOLEAN /\ rxDone' \in BOOLEAN /\ late' \in BOOLEAN
    BY Zenon DEF TypeOK
  <2>2. sess' \in SessType
    BY DEF SessType, TypeOK
  <2>3. fcs' \in 0 .. MaxMsgs
    BY DEF TypeOK, GrantInv, Due, Owed
  <2>4. heard' \subseteq {"FC", "CF"}
    BY DEF TypeOK
  <2> QED BY <2>1, <2>2, <2>3, <2>4, MainTypes
<1>2. Types'
  BY DEF TypeOK
<1>3. DeliveredIntact' /\ OrderInv'
  BY Returned
<1>4. DoneInv'
  BY DEF DoneInv, TypeOK, Idling, Loading, InTx, Sending, Good, Holds, Last, CallerInv,
      LoadingInv
<1>5. ReceivingInv'
  BY DEF ReceivingInv, TypeOK, Idling, Partial, Last
<1>6. LoadingInv'
  BY DEF LoadingInv, TypeOK, Loading, Idling, Transmitting
<1>7. BudgetInv'
  BY DEF BudgetInv, TypeOK, Transmitting, Idling, CallerInv, LoadingInv
<1>8. CallerInv'
  BY DEF CallerInv, TypeOK, Idling
<1>9. OffsetInv'
  BY DEF OffsetInv, TypeOK, Transmitting
<1>10. GrantInv'
  BY DEF GrantInv, TypeOK, Due, Owed, Idling
<1> QED BY <1>1, <1>2, <1>3, <1>4, <1>5, <1>6, <1>7, <1>8, <1>9, <1>10

\* The next frame of the response.
LEMMA BuildKeeps == ASSUME IsoInv, Build PROVE IsoInv'
<1> USE IsoTpAssumption DEF IsoInv, Types, Labels, Build, Goto, GoIdle, Waiting, MsgLen,
      isoVars, testVars
<1>1. TypeOK'
  <2>1. txDone' \in BOOLEAN /\ rxDone' \in BOOLEAN /\ late' \in BOOLEAN
    BY Zenon DEF TypeOK
  <2>2. sess' \in SessType
    <3>1. (sess.idx + 1) % IdxMod \in 0 .. IdxMod - 1
      BY DEF TypeOK
    <3>2. IF sess.off = sess.full THEN TRUE ELSE sess.off + 1 \in 0 .. MsgLen
      BY DEF TypeOK, OffsetInv, Transmitting
    <3> QED BY <3>1, <3>2 DEF SessType, TypeOK
  <2>3. fcs' \in 0 .. MaxMsgs
    BY DEF TypeOK, GrantInv, Due, Owed
  <2>4. heard' \subseteq {"FC", "CF"}
    BY DEF TypeOK
  <2> QED BY <2>1, <2>2, <2>3, <2>4, MainTypes
<1>2. Types'
  BY DEF TypeOK
<1>3. DeliveredIntact' /\ OrderInv'
  BY Returned
<1>4. DoneInv'
  <2>1. sess'.state = sess.state /\ sess'.full = sess.full
    BY DEF TypeOK
  <2>2. Good => Good'
    BY <2>1 DEF Good, Holds, Last
  <2>3. pc' \in {"limit", "idle1"} /\ (pc' = "idle1" => after' = "limit")
    OBVIOUS
  <2> QED BY <2>1, <2>2, <2>3 DEF DoneInv, Idling, Loading, InTx, Sending
<1>5. ReceivingInv'
  BY DEF ReceivingInv, TypeOK, Idling, Partial, Last
<1>6. LoadingInv'
  BY DEF LoadingInv, TypeOK, Loading, Idling, Transmitting
<1>7. BudgetInv'
  BY DEF BudgetInv, TypeOK, Transmitting, Idling
<1>8. CallerInv'
  BY DEF CallerInv, TypeOK, Idling
<1>9. OffsetInv'
  BY DEF OffsetInv, TypeOK, Transmitting
<1>10. GrantInv'
  BY DEF GrantInv, TypeOK, Due, Owed, Idling
<1> QED BY <1>1, <1>2, <1>3, <1>4, <1>5, <1>6, <1>7, <1>8, <1>9, <1>10

\* The frames that the tester still allows; a message that arrived meanwhile is no
\* longer received.
LEMMA LimitKeeps == ASSUME IsoInv, Limit PROVE IsoInv'
<1> USE IsoTpAssumption DEF IsoInv, Types, Labels, Limit, Goto, Waiting, MsgLen,
      isoVars, testVars
<1>1. TypeOK'
  <2>1. txDone' \in BOOLEAN /\ rxDone' \in BOOLEAN /\ late' \in BOOLEAN
    BY Zenon DEF TypeOK
  <2>2. sess' \in SessType
    <3>1. IF sess.fc \in {0, Unlimited} THEN TRUE ELSE sess.fc = 1
      BY DEF TypeOK
    <3>2. sess'.fc \in {0, Unlimited} /\ sess'.state \in {sess.state, "awaitingFC"}
      BY <3>1 DEF TypeOK
    <3>3. sess' = [sess EXCEPT !.fc = sess'.fc, !.state = sess'.state]
      BY DEF TypeOK
    <3> HIDE DEF Limit
    <3> QED BY <3>2, <3>3 DEF SessType, TypeOK
  <2>3. fcs' \in 0 .. MaxMsgs
    BY DEF TypeOK, GrantInv, Due, Owed
  <2>4. heard' \subseteq {"FC", "CF"}
    BY DEF TypeOK
  <2> QED BY <2>1, <2>2, <2>3, <2>4, MainTypes
<1>2. Types'
  BY DEF TypeOK
<1>3. DeliveredIntact' /\ OrderInv'
  BY Returned
<1>4. DoneInv'
  BY DEF DoneInv, TypeOK, Idling, Loading, InTx, Sending, Good, Holds, Last
<1>5. ReceivingInv'
  BY DEF ReceivingInv, TypeOK, Idling, Partial, Last
<1>6. LoadingInv'
  BY DEF LoadingInv, TypeOK, Loading, Idling, Transmitting
<1>7. BudgetInv'
  BY DEF BudgetInv, TypeOK, Transmitting, Idling
<1>8. CallerInv'
  BY DEF CallerInv, TypeOK, Idling
<1>9. OffsetInv'
  BY DEF OffsetInv, TypeOK, Transmitting
<1>10. GrantInv'
  BY DEF GrantInv, TypeOK, Due, Owed, Idling
<1> QED BY <1>1, <1>2, <1>3, <1>4, <1>5, <1>6, <1>7, <1>8, <1>9, <1>10

\* After the last frame the session is set to idle.
LEMMA CompleteKeeps == ASSUME IsoInv, Complete PROVE IsoInv'
<1> USE IsoTpAssumption DEF IsoInv, Types, Labels, Complete, Goto, GoIdle, Waiting,
      Emitted, MsgLen, isoVars, testVars
<1>1. TypeOK'
  <2>1. txDone' \in BOOLEAN /\ rxDone' \in BOOLEAN /\ late' \in BOOLEAN
    BY Zenon DEF TypeOK
  <2>2. sess' \in SessType
    BY DEF SessType, TypeOK
  <2>3. fcs' \in 0 .. MaxMsgs
    BY DEF TypeOK, GrantInv, Due, Owed
  <2>4. heard' \subseteq {"FC", "CF"}
    BY DEF TypeOK
  <2> QED BY <2>1, <2>2, <2>3, <2>4, MainTypes
<1>2. Types'
  BY DEF TypeOK
<1>3. DeliveredIntact' /\ OrderInv'
  BY Returned
<1>4. DoneInv'
  BY DEF DoneInv, TypeOK, Idling, Loading, InTx, Sending, Good, Holds, Last
<1>5. ReceivingInv'
  BY DEF ReceivingInv, TypeOK, Idling, Partial, Last
<1>6. LoadingInv'
  BY DEF LoadingInv, TypeOK, Loading, Idling, Transmitting
<1>7. BudgetInv'
  BY DEF BudgetInv, TypeOK, Transmitting, Idling
<1>8. CallerInv'
  BY DEF CallerInv, TypeOK, Idling
<1>9. OffsetInv'
  BY DEF OffsetInv, TypeOK, Transmitting
<1>10. GrantInv'
  BY DEF GrantInv, TypeOK, Due, Owed, Idling
<1> QED BY <1>1, <1>2, <1>3, <1>4, <1>5, <1>6, <1>7, <1>8, <1>9, <1>10

\* The tester is granted the rest of its message.
LEMMA GrantKeeps == ASSUME IsoInv, Grant PROVE IsoInv'
<1> USE IsoTpAssumption DEF IsoInv, Types, Labels, Grant, Goto, Waiting, Emitted,
      MsgLen, isoVars, testVars
<1>1. TypeOK'
  <2>1. txDone' \in BOOLEAN /\ rxDone' \in BOOLEAN /\ late' \in BOOLEAN
    BY Zenon DEF TypeOK
  <2>2. sess' \in SessType
    BY DEF SessType, TypeOK
  <2>3. fcs' \in 0 .. MaxMsgs
    BY DEF TypeOK, GrantInv, Due, Owed
  <2>4. heard' \subseteq {"FC", "CF"}
    BY DEF TypeOK
  <2> QED BY <2>1, <2>2, <2>3, <2>4, MainTypes
<1>2. Types'
  BY DEF TypeOK
<1>3. DeliveredIntact' /\ OrderInv'
  BY Returned
<1>4. DoneInv'
  BY DEF DoneInv, TypeOK, Idling, Loading, InTx, Sending, Good, Holds, Last
<1>5. ReceivingInv'
  BY DEF ReceivingInv, TypeOK, Idling, Partial, Last
<1>6. LoadingInv'
  BY DEF LoadingInv, TypeOK, Loading, Idling, Transmitting
<1>7. BudgetInv'
  BY DEF BudgetInv, TypeOK, Transmitting, Idling
<1>8. CallerInv'
  BY DEF CallerInv, TypeOK, Idling
<1>9. OffsetInv'
  BY DEF OffsetInv, TypeOK, Transmitting
<1>10. GrantInv'
  BY DEF GrantInv, TypeOK, Due, Owed, Idling
<1> QED BY <1>1, <1>2, <1>3, <1>4, <1>5, <1>6, <1>7, <1>8, <1>9, <1>10

\* sr_isotp_rx looks again before it sends.
LEMMA CheckKeeps == ASSUME IsoInv, Check PROVE IsoInv'
<1> USE IsoTpAssumption DEF IsoInv, Types, Labels, Check, Goto, Waiting, MsgLen,
      isoVars, testVars
<1>1. TypeOK'
  <2>1. txDone' \in BOOLEAN /\ rxDone' \in BOOLEAN /\ late' \in BOOLEAN
    BY Zenon DEF TypeOK
  <2>2. sess' \in SessType
    BY DEF SessType, TypeOK
  <2>3. fcs' \in 0 .. MaxMsgs
    BY DEF TypeOK, GrantInv, Due, Owed
  <2>4. heard' \subseteq {"FC", "CF"}
    BY DEF TypeOK
  <2> QED BY <2>1, <2>2, <2>3, <2>4, MainTypes
<1>2. Types'
  BY DEF TypeOK
<1>3. DeliveredIntact' /\ OrderInv'
  BY Returned
<1>4. DoneInv'
  BY DEF DoneInv, TypeOK, Idling, Loading, InTx, Sending, Good, Holds, Last, CallerInv,
      LoadingInv
<1>5. ReceivingInv'
  BY DEF ReceivingInv, TypeOK, Idling, Partial, Last
<1>6. LoadingInv'
  BY DEF LoadingInv, TypeOK, Loading, Idling, Transmitting
<1>7. BudgetInv'
  BY DEF BudgetInv, TypeOK, Transmitting, Idling, CallerInv, LoadingInv
<1>8. CallerInv'
  BY DEF CallerInv, TypeOK, Idling
<1>9. OffsetInv'
  BY DEF OffsetInv, TypeOK, Transmitting
<1>10. GrantInv'
  BY DEF GrantInv, TypeOK, Due, Owed, Idling
<1> QED BY <1>1, <1>2, <1>3, <1>4, <1>5, <1>6, <1>7, <1>8, <1>9, <1>10

\* The frame is sent, or the bus fails.
LEMMA AirKeeps == ASSUME IsoInv, Air PROVE IsoInv'
<1> USE IsoTpAssumption DEF IsoInv, Types, Labels, Air, Goto, GoIdle, Waiting, MsgLen,
      isoVars, testVars
<1>1. TypeOK'
  <2>1. txDone' \in BOOLEAN /\ rxDone' \in BOOLEAN /\ late' \in BOOLEAN
    BY Zenon DEF TypeOK
  <2>2. sess' \in SessType
    BY DEF SessType, TypeOK
  <2>3. fcs' \in 0 .. MaxMsgs
    BY DEF TypeOK, GrantInv, Due, Owed
  <2>4. heard' \subseteq {"FC", "CF"}
    BY DEF TypeOK
  <2> QED BY <2>1, <2>2, <2>3, <2>4, MainTypes
<1>2. Types'
  BY DEF TypeOK
<1>3. DeliveredIntact' /\ OrderInv'
  BY Returned
<1>4. DoneInv'
  BY DEF DoneInv, TypeOK, Idling, Loading, InTx, Sending, Good, Holds, Last
<1>5. ReceivingInv'
  BY DEF ReceivingInv, TypeOK, Idling, Partial, Last
<1>6. LoadingInv'
  BY DEF LoadingInv, TypeOK, Loading, Idling, Transmitting
<1>7. BudgetInv'
  BY DEF BudgetInv, TypeOK, Transmitting, Idling
<1>8. CallerInv'
  BY DEF CallerInv, TypeOK, Idling
<1>9. OffsetInv'
  BY DEF OffsetInv, TypeOK, Transmitting
<1>10. GrantInv'
  BY DEF GrantInv, TypeOK, Due, Owed, Idling
<1> QED BY <1>1, <1>2, <1>3, <1>4, <1>5, <1>6, <1>7, <1>8, <1>9, <1>10

\* sr_isotp_rx returns the whole message that the session holds, or nothing.
LEMMA ClaimKeeps == ASSUME IsoInv, Claim PROVE IsoInv'
<1> USE IsoTpAssumption DEF IsoInv, Types, Labels, Goto, GoIdle, Waiting, MsgLen, testVars
<1>0. /\ pc = "claim" /\ pc' = "idle1" /\ after' = "serve" /\ rxDone' = FALSE
      /\ sess.state # "receiving" /\ Good /\ hit' \in BOOLEAN
      /\ UNCHANGED <<sess, buf, lastErr, txDone, caller, out, len, tester, fcs, late, heard>>
  <2>1. hit' \in BOOLEAN
    BY Zenon DEF Claim, TypeOK
  <2> QED BY <2>1 DEF Claim, DoneInv, Idling, Loading, InTx, Sending
<1>1. \/ got' = got /\ budget' = budget
      \/ /\ budget' = 2 /\ got' = Append(got, SubSeq(buf, 1, sess.full))
         /\ \E m \in Last + 1 .. tester.msg : Holds(m)
  BY <1>0 DEF Claim, Good
<1> HIDE DEF Goto, GoIdle
<1>2. /\ got' \in Seq(Seq(Nat \X Nat)) /\ DeliveredIntact' /\ OrderInv'
  <2>1. CASE got' = got
    BY <1>0, <2>1, Returned DEF TypeOK
  <2>2. ASSUME NEW m \in Last + 1 .. tester.msg, Holds(m),
               got' = Append(got, SubSeq(buf, 1, sess.full))
        PROVE  got' \in Seq(Seq(Nat \X Nat)) /\ DeliveredIntact' /\ OrderInv'
    <3> DEFINE s == SubSeq(buf, 1, sess.full)
    <3>1. \A i \in 1 .. sess.full : buf[i] \in Nat \X Nat
      BY <2>2 DEF TypeOK, Holds
    <3>2. /\ s \in Seq(Nat \X Nat) /\ Len(s) = sess.full
          /\ \A i \in 1 .. sess.full : s[i] = buf[i]
      <4>1. sess.full \in Nat /\ sess.full >= 1
        BY <2>2 DEF Holds
      <4> QED BY <3>1, <4>1, SubSeqProperties
    <3> HIDE DEF s
    <3>3. Whole(s, m) /\ s[1][1] = m
      <4>1. CASE sess.full = 1 /\ buf[1] = <<m, 0>>
        <5> DEFINE t == << <<m, 0>> >>
        <5>1. t \in Seq(Nat \X Nat) /\ Len(t) = 1 /\ t[1] = <<m, 0>>
          BY DEF OrderInv
        <5>2. Len(s) = Len(t) /\ \A i \in 1 .. Len(s) : s[i] = t[i]
          BY <3>2, <4>1, <5>1
        <5>3. s = t
          BY ONLY <3>2, <5>1, <5>2, SeqEqual
        <5> QED BY <5>3 DEF Whole
      <4>2. CASE sess.full = MsgLen /\ \A i \in 1 .. MsgLen : buf[i] = <<m, i>>
        <5>1. s \in [1 .. MsgLen -> Nat \X Nat]
          BY <3>2, <4>2, LenProperties
        <5>2. s = [i \in 1 .. MsgLen |-> <<m, i>>]
          BY <3>2, <4>2, <5>1
        <5> QED BY <5>2 DEF Whole
      <4> QED BY <2>2, <4>1, <4>2 DEF Holds
    <3>5. got' \in Seq(Seq(Nat \X Nat)) /\ Len(got') = Len(got) + 1 /\ got'[Len(got')] = s
          /\ (\A i \in 1 .. Len(got) : got'[i] = got[i]) /\ Len(got) \in Nat
      BY <2>2, <3>2 DEF s
    <3>6. Last' = m
      BY <3>3, <3>5 DEF Last
    <3>7. OrderInv'
      BY <1>0, <3>5, <3>6 DEF OrderInv, TypeOK
    <3>8. m \in 1 .. tester.msg
      BY DEF OrderInv
    <3>9. ASSUME NEW i \in 1 .. Len(got') PROVE \E k \in 1 .. tester'.msg : Whole(got'[i], k)
      <4>1. CASE i = Len(got')
        BY <1>0, <3>3, <3>5, <3>8, <4>1
      <4>2. CASE i \in 1 .. Len(got)
        BY <1>0, <3>5, <4>2 DEF DeliveredIntact
      <4> QED BY <3>5, <4>1, <4>2
    <3>10. ASSUME NEW i \in 1 .. Len(got'), i > 1 PROVE got'[i - 1][1][1] < got'[i][1][1]
      <4>1. CASE i = Len(got')
        <5>1. Len(got) >= 1 /\ i - 1 = Len(got)
          BY <3>5, <3>10, <4>1
        <5>2. got # <<>> /\ got'[i - 1] = got[Len(got)]
          BY <3>5, <5>1
        <5>3. Last = got'[i - 1][1][1]
          BY <5>2 DEF Last
        <5>4. got'[i][1][1] = m
          BY <3>3, <3>5, <4>1
        <5> QED BY <5>3, <5>4 DEF OrderInv
      <4>2. CASE i \in 1 .. Len(got)
        <5>1. i - 1 \in 1 .. Len(got)
          BY <3>5, <3>10, <4>2
        <5> QED BY <3>5, <3>10, <4>2, <5>1 DEF DeliveredIntact
      <4> QED BY <3>5, <4>1, <4>2
    <3> QED BY <3>5, <3>7, <3>9, <3>10 DEF DeliveredIntact
  <2> QED BY <1>1, <2>1, <2>2
<1>3. Types'
  BY <1>0, <1>1, <1>2
<1>4. TypeOK'
  <2>1. {rxDone', txDone', hit', late'} \subseteq BOOLEAN
    BY <1>0 DEF TypeOK
  <2>2. Len(got') <= MaxMsgs
    BY <1>0, <1>2, <1>3 DEF OrderInv
  <2> QED BY <1>0, <2>1, <2>2 DEF TypeOK
<1>5. DoneInv'
  BY <1>0 DEF DoneInv
<1>6. ReceivingInv'
  BY <1>0 DEF ReceivingInv
<1>7. LoadingInv' /\ BudgetInv' /\ CallerInv' /\ OffsetInv'
  BY <1>0 DEF LoadingInv, BudgetInv, CallerInv, OffsetInv, Loading, Idling
<1>8. GrantInv'
  BY <1>0 DEF GrantInv, Due, Owed, Idling, TypeOK
<1> QED BY <1>2, <1>3, <1>4, <1>5, <1>6, <1>7, <1>8

-----------------------------------------------------------------------------
(* The interrupt.  The tester sends a frame of the message under way or of  *)
(* a new one; Sends is what all of its actions have in common.              *)

Sends ==
    /\ Arrives
    /\ tester' \in [msg : 0 .. MaxMsgs, sent : 1 .. MsgLen, clear : BOOLEAN]
    /\ tester'.msg >= tester.msg
    /\ tester'.msg = tester.msg => tester'.sent >= tester.sent
    /\ fcs' = fcs

\* The types after an interrupt.
LEMMA InterruptTypes ==
    ASSUME IsoInv, Sends, sess' \in SessType, rxDone' \in BOOLEAN,
           buf' \in [1 .. MsgLen -> (0 .. MaxMsgs) \X (0 .. MsgLen)],
           lastErr' \in {"ok", "tooLarge", "other"}, heard' \subseteq {"FC", "CF"}
    PROVE  TypeOK' /\ Types' /\ DeliveredIntact' /\ OrderInv'
<1>1. txDone' \in BOOLEAN /\ hit' \in BOOLEAN /\ late' \in BOOLEAN
  BY Zenon DEF IsoInv, TypeOK, Types, Sends, Arrives, mainVars
<1>2. {rxDone', txDone', hit', late'} \subseteq BOOLEAN
  BY <1>1, Flags
<1>3. UNCHANGED <<pc, after, caller, out, len, budget, got>>
  BY DEF Sends, Arrives, mainVars
<1>4. tester.msg \in Nat /\ tester'.msg \in Nat
  BY DEF IsoInv, Types, Sends
<1> QED BY <1>1, <1>2, <1>3, <1>4, IsoTpAssumption, Returned
        DEF IsoInv, TypeOK, SessType, Types, Sends

\* While a message waits nothing that arrives changes the session.
LEMMA DeafKeeps == ASSUME IsoInv, Ignored, UNCHANGED isoVars, Sends PROVE IsoInv'
<1> USE IsoTpAssumption DEF IsoInv, Types, Labels, isoVars, Sends, Arrives, mainVars, MsgLen,
        Waiting
<1>1. TypeOK' /\ Types' /\ DeliveredIntact' /\ OrderInv'
  <2>1. sess' \in SessType
    BY DEF SessType, TypeOK
  <2>2. rxDone' \in BOOLEAN
    BY Zenon DEF TypeOK
  <2> QED BY <2>1, <2>2, InterruptTypes DEF TypeOK
<1>2. sess.state # "receiving"
  BY DEF Ignored, DoneInv
<1>3. Good => Good'
  BY DEF Good, Holds, Last, OrderInv
<1>4. DoneInv'
  BY <1>3 DEF DoneInv, Loading, Idling, InTx, Sending
<1>5. ReceivingInv'
  BY <1>2 DEF ReceivingInv
<1>6. LoadingInv'
  BY DEF LoadingInv, Loading, Idling, Transmitting
<1>7. BudgetInv' /\ CallerInv'
  BY DEF BudgetInv, CallerInv, Idling, Transmitting
<1>8. OffsetInv'
  BY DEF OffsetInv, Transmitting
<1>9. GrantInv'
  BY <1>2 DEF GrantInv, Due, Owed, Idling, TypeOK
<1> QED BY <1>1, <1>4, <1>5, <1>6, <1>7, <1>8, <1>9

\* A frame that does not fit, or asks to stop, ends what the session does.
LEMMA EndedKeeps ==
    ASSUME IsoInv, ~Ignored, Sends, sess' = IdleSession, lastErr' \in {"other", "tooLarge"},
           UNCHANGED <<buf, rxDone>>, heard' \subseteq {"FC", "CF"}
    PROVE  IsoInv'
<1> USE IsoTpAssumption DEF IsoInv, Types, Labels, Sends, Arrives, mainVars, MsgLen, Waiting,
        IdleSession
<1>1. TypeOK' /\ Types' /\ DeliveredIntact' /\ OrderInv'
  <2>1. sess' \in SessType
    BY DEF SessType
  <2>2. rxDone' \in BOOLEAN
    BY Zenon DEF TypeOK
  <2> QED BY <2>1, <2>2, InterruptTypes DEF TypeOK
<1>2. ~rxDone /\ ~rxDone' /\ sess'.state = "idle"
  BY DEF Ignored
<1>3. DoneInv'
  BY <1>2 DEF DoneInv
<1>4. ReceivingInv' /\ BudgetInv'
  BY <1>2 DEF ReceivingInv, BudgetInv, Transmitting, Idling
<1>5. LoadingInv'
  BY <1>2 DEF LoadingInv, Loading, Idling, Transmitting
<1>6. CallerInv' /\ OffsetInv'
  BY <1>2 DEF CallerInv, OffsetInv, Transmitting, Idling
<1>7. GrantInv'
  BY <1>2 DEF GrantInv, Due, Owed, Idling, TypeOK
<1> QED BY <1>1, <1>3, <1>4, <1>5, <1>6, <1>7

\* A frame that does not fit.
LEMMA FailedKeeps ==
    ASSUME IsoInv, NEW error \in {"other", "tooLarge"}, ~Ignored, Failed(error), Sends
    PROVE  IsoInv'
<1>1. heard' \subseteq {"FC", "CF"}
  BY DEF Failed, IsoInv, TypeOK
<1> QED BY <1>1, EndedKeeps DEF Failed

\* A single frame: the whole message, at once.
LEMMA SingleFrameKeeps == ASSUME IsoInv, SingleFrame PROVE IsoInv'
<1> USE IsoTpAssumption DEF IsoInv, Types, Labels, Arrives, mainVars, MsgLen, Waiting,
        IdleSession
<1>1. Sends
  BY DEF SingleFrame, Sends, TypeOK, Fresh
<1>2. CASE Ignored
  BY <1>1, <1>2, DeafKeeps DEF SingleFrame
<1>3. CASE ~Ignored
  <2>1. HandleSingleFrame(Fresh) /\ Fresh \in 1 .. MaxMsgs /\ tester'.msg = Fresh /\ fcs' = fcs
    BY <1>3 DEF SingleFrame, Fresh
  <2>2. UNCHANGED mainVars /\ hit' = (pc \notin Waiting) /\ (pc \in Waiting \/ ~hit)
    BY <1>1 DEF Sends
  <2>3. sess' = [state |-> "received", full |-> 1, off |-> 1, fc |-> 0, idx |-> 1]
    BY <2>1 DEF HandleSingleFrame
  <2>4. buf' = [buf EXCEPT ![1] = <<Fresh, 0>>] /\ rxDone' = TRUE /\ lastErr' = Interrupted
        /\ heard' = heard
    BY <2>1 DEF HandleSingleFrame
  <2>5. ~rxDone
    BY <1>3 DEF Ignored
  <2> HIDE DEF Arrives
  <2>6. TypeOK' /\ Types' /\ DeliveredIntact' /\ OrderInv'
    <3>1. sess' \in SessType
      BY <2>3 DEF SessType
    <3>2. buf' \in [1 .. MsgLen -> (0 .. MaxMsgs) \X (0 .. MsgLen)]
      BY <2>1, <2>4 DEF TypeOK
    <3>3. lastErr' \in {"ok", "tooLarge", "other"}
      BY <2>4 DEF Interrupted, TypeOK
    <3>4. heard' \subseteq {"FC", "CF"}
      BY <2>4 DEF TypeOK
    <3> QED BY <1>1, <2>4, <3>1, <3>2, <3>3, <3>4, InterruptTypes
  <2>7. Good'
    <3>1. buf'[1] = <<Fresh, 0>>
      BY <2>4 DEF TypeOK
    <3>2. Fresh \in Last' + 1 .. tester'.msg
      BY <2>1, <2>2 DEF OrderInv, Last, Fresh
    <3> QED BY <2>3, <3>1, <3>2 DEF Good, Holds
  <2>8. DoneInv'
    <3>1. Loading => lastErr' = "ok"
      BY <2>2, <2>4 DEF Interrupted, LoadingInv, Loading, Idling
    <3> QED BY <2>2, <2>3, <2>4, <2>7, <3>1 DEF DoneInv, Loading, Idling
  <2>9. ReceivingInv' /\ BudgetInv'
    BY <2>2, <2>3 DEF ReceivingInv, BudgetInv, Transmitting, Idling
  <2>10. LoadingInv'
    BY <2>2, <2>3 DEF LoadingInv, Loading, Idling, Transmitting
  <2>11. CallerInv' /\ OffsetInv'
    BY <2>2, <2>3 DEF CallerInv, OffsetInv, Transmitting, Idling
  <2>12. GrantInv'
    BY <2>1, <2>2, <2>3 DEF GrantInv, Due, Owed, Idling, TypeOK, Fresh
  <2> QED BY <2>6, <2>8, <2>9, <2>10, <2>11, <2>12
<1> QED BY <1>2, <1>3

\* A first frame: the beginning of a message.
LEMMA FirstFrameKeeps == ASSUME IsoInv, FirstFrame PROVE IsoInv'
<1> USE IsoTpAssumption DEF IsoInv, Types, Labels, Arrives, mainVars, MsgLen, Waiting,
        IdleSession
<1>1. Sends
  BY DEF FirstFrame, Sends, TypeOK, Fresh
<1>2. CASE Ignored
  BY <1>1, <1>2, DeafKeeps DEF FirstFrame
<1>3. CASE ~Ignored
  <2>1. /\ HandleFirstFrame(Fresh) /\ Fresh \in 1 .. MaxMsgs /\ fcs' = fcs
        /\ tester'.msg = Fresh /\ tester'.sent = 1
    BY <1>3 DEF FirstFrame, Fresh
  <2>2. UNCHANGED mainVars /\ hit' = (pc \notin Waiting) /\ (pc \in Waiting \/ ~hit)
    BY <1>1 DEF Sends
  <2>3. sess' = [state |-> "receiving", full |-> 3, off |-> 1, fc |-> 0, idx |-> 1]
    BY <2>1 DEF HandleFirstFrame
  <2>4. buf' = [buf EXCEPT ![1] = <<Fresh, 1>>] /\ rxDone' = rxDone /\ lastErr' = Interrupted
        /\ heard' = heard
    BY <2>1 DEF HandleFirstFrame
  <2>5. ~rxDone
    BY <1>3 DEF Ignored
  <2> HIDE DEF Arrives
  <2>6. TypeOK' /\ Types' /\ DeliveredIntact' /\ OrderInv'
    <3>1. sess' \in SessType
      BY <2>3 DEF SessType
    <3>2. buf' \in [1 .. MsgLen -> (0 .. MaxMsgs) \X (0 .. MsgLen)]
      BY <2>1, <2>4 DEF TypeOK
    <3>3. lastErr' \in {"ok", "tooLarge", "other"}
      BY <2>4 DEF Interrupted, TypeOK
    <3>4. rxDone' \in BOOLEAN
      BY Zenon, <2>4 DEF TypeOK
    <3>5. heard' \subseteq {"FC", "CF"}
      BY <2>4 DEF TypeOK
    <3> QED BY <1>1, <3>1, <3>2, <3>3, <3>4, <3>5, InterruptTypes
  <2>7. Partial'
    <3>1. buf'[1] = <<Fresh, 1>>
      BY <2>4 DEF TypeOK
    <3>2. tester'.msg > Last'
      BY <2>1, <2>2 DEF OrderInv, Last, Fresh
    <3>3. 1 % IdxMod = 1
      OBVIOUS
    <3> QED BY <2>1, <2>3, <3>1, <3>2, <3>3 DEF Partial
  <2>8. DoneInv'
    BY <2>2, <2>4, <2>5 DEF DoneInv
  <2>9. ReceivingInv'
    <3>1. sess'.full = 3 /\ sess'.off = 1 /\ sess'.fc = 0 /\ pc' = pc
      BY <2>2, <2>3
    <3>2. pc' \in {"idle2", "idle3", "length", "state", "build"} => hit'
      BY <2>2
    <3> QED BY <2>7, <3>1, <3>2 DEF ReceivingInv
  <2>10. LoadingInv' /\ BudgetInv'
    BY <2>2, <2>3 DEF LoadingInv, BudgetInv, Loading, Idling, Transmitting
  <2>11. CallerInv' /\ OffsetInv'
    BY <2>2, <2>3 DEF CallerInv, OffsetInv, Transmitting, Idling
  <2>12. GrantInv'
    BY <2>1, <2>2, <2>3 DEF GrantInv, Due, Owed, Idling, TypeOK, Fresh
  <2> QED BY <2>6, <2>8, <2>9, <2>10, <2>11, <2>12
<1> QED BY <1>2, <1>3

\* A consecutive frame in its place in the message being received.
LEMMA ConsecutiveKeeps ==
    ASSUME IsoInv, Sends, ~Ignored, sess.state = "receiving",
           tester.sent < MsgLen, tester'.msg = tester.msg, tester'.sent = tester.sent + 1,
           HandleConsecutiveFrame(tester.msg, tester'.sent)
    PROVE  IsoInv'
<1> USE IsoTpAssumption DEF IsoInv, Types, Labels, MsgLen, Waiting
<1> DEFINE off == IF sess.off = sess.full THEN sess.off ELSE sess.off + 1
           fits == (tester'.sent - 1) % IdxMod = sess.idx /\ sess.off # MsgLen
<1>1. CASE ~fits
  BY <1>1, FailedKeeps DEF HandleConsecutiveFrame
<1>2. CASE fits
  <2>1. /\ sess' = [sess EXCEPT !.off = off, !.idx = (@ + 1) % IdxMod,
                                !.fc = IF @ \in {0, Unlimited} THEN @ ELSE @ - 1,
                                !.state = IF off >= sess.full THEN "received" ELSE @]
        /\ buf' = IF off = sess.off THEN buf
                  ELSE [buf EXCEPT ![off] = <<tester.msg, tester'.sent>>]
        /\ rxDone' = (off >= sess.full) /\ lastErr' = lastErr
        /\ heard' = heard \cup {"CF"}
    BY <1>2 DEF HandleConsecutiveFrame
  <2>2. /\ UNCHANGED mainVars /\ hit' = (pc \notin Waiting) /\ (pc \in Waiting \/ ~hit)
        /\ fcs' = fcs
    BY DEF Sends, Arrives
  <2>3. ~rxDone /\ sess.fc \in {0, Unlimited} /\ (sess.full = 0 \/ Partial)
    <3>1. pc \notin {"idle3", "state"} /\ ~(pc = "limit" /\ hit)
      BY <2>2 DEF ReceivingInv
    <3> QED BY <3>1 DEF Ignored, ReceivingInv
  <2>4. /\ sess'.full = sess.full /\ sess'.off = off /\ sess'.fc = sess.fc
        /\ sess'.idx = (sess.idx + 1) % IdxMod
        /\ sess'.state = IF off >= sess.full THEN "received" ELSE "receiving"
    BY <2>1, <2>3 DEF TypeOK
  <2>0. rxDone' <=> off >= sess.full
    BY Zenon, <2>1
  <2>5. off \in 0 .. MsgLen /\ (off # sess.off => off \in 1 .. MsgLen)
    BY <1>2 DEF TypeOK
  <2>6. TypeOK' /\ Types' /\ DeliveredIntact' /\ OrderInv'
    <3>1. sess' \in SessType
      <4>1. (sess.idx + 1) % IdxMod \in 0 .. IdxMod - 1
        BY DEF TypeOK
      <4> HIDE DEF off
      <4> QED BY <2>1, <2>3, <2>5, <4>1 DEF SessType, TypeOK
    <3>2. buf' \in [1 .. MsgLen -> (0 .. MaxMsgs) \X (0 .. MsgLen)]
      <4>1. <<tester.msg, tester'.sent>> \in (0 .. MaxMsgs) \X (0 .. MsgLen)
        OBVIOUS
      <4> HIDE DEF off
      <4> QED BY <2>1, <2>5, <4>1 DEF TypeOK
    <3>3. rxDone' \in BOOLEAN
      BY <2>1
    <3>4. heard' \subseteq {"FC", "CF"} /\ lastErr' \in {"ok", "tooLarge", "other"}
      BY <2>1 DEF TypeOK
    <3> QED BY <3>1, <3>2, <3>3, <3>4, InterruptTypes
  <2>7. Partial => /\ off = sess.off + 1 /\ tester'.sent = off
                   /\ \A i \in 1 .. off : buf'[i] = <<tester'.msg, i>>
                   /\ tester'.msg > Last'
    <3> SUFFICES ASSUME Partial
                 PROVE  /\ off = sess.off + 1 /\ tester'.sent = off
                        /\ \A i \in 1 .. off : buf'[i] = <<tester'.msg, i>>
                        /\ tester'.msg > Last'
      OBVIOUS
    <3>1. off = sess.off + 1 /\ sess.off \in 1 .. 2 /\ tester.sent \in 1 .. 2
          /\ sess.off <= tester.sent
      BY DEF Partial
    <3>2. tester.sent % IdxMod = sess.off % IdxMod
      BY <1>2 DEF Partial
    <3>3. tester.sent = sess.off
      <4>1. 1 % IdxMod = 1
        OBVIOUS
      <4>2. 2 % IdxMod # 1
        <5>1. CASE IdxMod = 2
          BY <5>1
        <5>2. CASE IdxMod > 2
          <6>1. 2 % IdxMod = 2
            BY <5>2
          <6> QED BY <6>1
        <5> QED BY <5>1, <5>2
      <4> QED BY <3>1, <3>2, <4>1, <4>2
    <3>4. \A i \in 1 .. off : buf'[i] = <<tester'.msg, i>>
      BY <2>1, <2>5, <3>1, <3>3 DEF Partial, TypeOK
    <3> QED BY <2>2, <3>1, <3>3, <3>4 DEF Partial, Last, mainVars
  <2>8. sess'.state = "receiving" => Partial'
    <3> SUFFICES ASSUME sess'.state = "receiving" PROVE Partial'
      OBVIOUS
    <3>1. Partial
      BY <2>3, <2>4, <2>5
    <3>2. off = 2 /\ sess.off = 1 /\ sess.full = MsgLen
      BY <2>4, <2>7, <3>1 DEF Partial
    <3>3. (sess.idx + 1) % IdxMod = 2 % IdxMod
      <4>1. 1 % IdxMod = 1
        BY ONLY IsoTpAssumption
      <4>2. sess.idx = sess.off % IdxMod
        BY <3>1 DEF Partial
      <4> QED BY ONLY <3>2, <4>1, <4>2
    <3> HIDE DEF off
    <3> QED BY <2>4, <2>7, <3>1, <3>2, <3>3 DEF Partial
  <2>9. rxDone' => Good'
    <3> SUFFICES ASSUME rxDone', sess.full # 0 PROVE Good'
      BY <2>4 DEF Good
    <3>1. Partial /\ off = 3 /\ sess'.full = MsgLen
      BY <2>0, <2>3, <2>4, <2>5, <2>7 DEF Partial
    <3>2. tester'.msg \in Last' + 1 .. tester'.msg
      BY <2>6, <2>7, <3>1 DEF OrderInv
    <3> HIDE DEF off
    <3> QED BY <2>7, <3>1, <3>2 DEF Good, Holds
  <2> HIDE DEF off, fits
  <2>10. UNCHANGED <<pc, after, caller, out, budget, got>>
    BY <2>2 DEF mainVars
  <2>11. pc \notin {"idle2", "idle3", "length", "state", "build"}
    BY <2>2 DEF ReceivingInv
  <2>12. DoneInv'
    <3>1. Loading => lastErr = "ok"
      BY <2>2 DEF LoadingInv, Loading, Idling
    <3>2. rxDone' => sess'.state # "receiving"
      BY <2>0, <2>4
    <3>3. pc # "claim"
      BY <2>3 DEF DoneInv
    <3> QED BY <2>1, <2>9, <2>10, <3>1, <3>2, <3>3 DEF DoneInv, Loading, Idling
  <2>13. ReceivingInv'
    BY <2>3, <2>4, <2>8, <2>10, <2>11 DEF ReceivingInv, Idling
  <2>14. sess'.state \in {"receiving", "received"}
    BY <2>4
  <2>15. LoadingInv' /\ BudgetInv'
    BY <2>1, <2>2, <2>10, <2>14 DEF LoadingInv, BudgetInv, Loading, Idling, Transmitting
  <2>16. CallerInv' /\ OffsetInv'
    BY <2>10, <2>11, <2>14 DEF CallerInv, OffsetInv, Transmitting, Idling
  <2>17. GrantInv'
    BY <2>2, <2>4, <2>10, <2>14 DEF GrantInv, Due, Owed, Idling, TypeOK
  <2> QED BY <2>6, <2>12, <2>13, <2>15, <2>16, <2>17
<1> QED BY <1>1, <1>2

\* A consecutive frame: in its place, out of it, or unheard.
LEMMA ConsecutiveFrameKeeps == ASSUME IsoInv, ConsecutiveFrame PROVE IsoInv'
<1>1. /\ Sends /\ tester.sent < MsgLen
      /\ tester'.msg = tester.msg /\ tester'.sent = tester.sent + 1
  BY IsoTpAssumption DEF IsoInv, Types, ConsecutiveFrame, Sends, MsgLen
<1>2. CASE Ignored /\ UNCHANGED isoVars
  BY <1>1, <1>2, DeafKeeps
<1>3. CASE /\ ~Ignored /\ sess.state = "receiving"
           /\ HandleConsecutiveFrame(tester.msg, tester'.sent)
  BY <1>1, <1>3, ConsecutiveKeeps
<1>4. CASE ~Ignored /\ Failed("other")
  BY <1>1, <1>4, FailedKeeps
<1> QED BY <1>2, <1>3, <1>4 DEF ConsecutiveFrame

\* A flow control of the ECU reaches the tester.
LEMMA ClearToSendKeeps == ASSUME IsoInv, ClearToSend PROVE IsoInv'
<1> USE IsoTpAssumption DEF IsoInv, Types, Labels, ClearToSend, isoVars, mainVars, MsgLen
<1>0. /\ tester' \in [msg : 0 .. MaxMsgs, sent : 1 .. MsgLen, clear : BOOLEAN]
      /\ tester'.msg = tester.msg /\ tester'.sent = tester.sent
  <2>1. (tester.sent < MsgLen) \in BOOLEAN
    OBVIOUS
  <2>2. tester' = [tester EXCEPT !.clear = tester.sent < MsgLen]
    BY Zenon
  <2>3. PICK b \in BOOLEAN : tester' = [tester EXCEPT !.clear = b]
    BY ONLY <2>1, <2>2, Zenon
  <2> QED BY <2>3
<1>1. TypeOK'
  BY DEF TypeOK
<1>2. Types'
  BY <1>0
<1>3. DeliveredIntact' /\ OrderInv'
  BY <1>0, Returned
<1> HIDE DEF ClearToSend
<1>4. UNCHANGED <<isoVars, mainVars, hit>> /\ fcs' \in Nat /\ fcs' = fcs - 1
  BY DEF ClearToSend, TypeOK
<1>5. DoneInv'
  BY <1>0, <1>4 DEF DoneInv, Loading, Idling, InTx, Sending, Good, Holds, Last
<1>6. ReceivingInv'
  BY <1>0, <1>4 DEF ReceivingInv, Partial, Idling, Last
<1>7. LoadingInv' /\ BudgetInv' /\ CallerInv' /\ OffsetInv'
  BY <1>4 DEF LoadingInv, BudgetInv, CallerInv, OffsetInv, Loading, Idling, Transmitting
<1>8. GrantInv'
  BY <1>0, <1>4 DEF GrantInv, Due, Owed, Idling, TypeOK
<1> QED BY <1>1, <1>2, <1>3, <1>5, <1>6, <1>7, <1>8

\* A flow control restarts or ends a transmission, and nothing else.
LEMMA FlowControlKeeps ==
    ASSUME IsoInv, NEW flag \in {"continue", "wait", "abort"}, NEW blockSize \in BlockSize,
           FlowControl(flag, blockSize)
    PROVE  IsoInv'
<1> USE IsoTpAssumption
<1>1. Sends
  BY DEF IsoInv, Types, FlowControl, Sends, MsgLen, testVars
<1>2. CASE Ignored /\ UNCHANGED isoVars
  BY <1>1, <1>2, DeafKeeps
<1>3. CASE ~Ignored /\ Failed("other")
  BY <1>1, <1>3, FailedKeeps
<1>4. CASE /\ ~Ignored /\ Transmitting /\ flag # "abort"
           /\ HandleFlowControlFrame(flag, blockSize)
  <2> USE DEF IsoInv, Types, Labels, MsgLen, Waiting
  <2>1. /\ sess' = [sess EXCEPT !.state = IF flag = "continue" THEN "transmitting"
                                                               ELSE "awaitingFC",
                                !.fc = blockSize]
        /\ UNCHANGED <<buf, rxDone, lastErr>> /\ heard' = heard \cup {"FC"}
    BY <1>4 DEF HandleFlowControlFrame
  <2>2. UNCHANGED <<mainVars, fcs, tester>> /\ hit' = (pc \notin Waiting)
        /\ (pc \in Waiting \/ ~hit)
    BY DEF FlowControl, Arrives, testVars
  <2>3. /\ sess'.state \in {"transmitting", "awaitingFC"} /\ sess'.full = sess.full
        /\ sess'.off = sess.off /\ ~rxDone /\ ~rxDone'
    BY <1>4, <2>1 DEF TypeOK, Ignored
  <2>4. TypeOK' /\ Types' /\ DeliveredIntact' /\ OrderInv'
    <3>1. sess' \in SessType
      BY <2>1 DEF BlockSize, SessType, TypeOK
    <3>2. rxDone' \in BOOLEAN
      BY Zenon, <2>1 DEF TypeOK
    <3> QED BY <1>1, <2>1, <3>1, <3>2, InterruptTypes DEF TypeOK
  <2>5. UNCHANGED <<pc, after, caller, out, budget, got>>
    BY <2>2 DEF mainVars
  <2>6. DoneInv'
    BY <2>3, <2>5 DEF DoneInv
  <2>7. ReceivingInv'
    BY <2>3 DEF ReceivingInv
  <2>8. LoadingInv' /\ BudgetInv'
    BY <1>4, <2>1, <2>2, <2>5 DEF LoadingInv, BudgetInv, Loading, Idling, Transmitting
  <2>9. CallerInv' /\ OffsetInv'
    BY <1>4, <2>3, <2>5 DEF CallerInv, OffsetInv, Transmitting, Idling
  <2>10. GrantInv'
    BY <1>4, <2>2, <2>3, <2>5 DEF GrantInv, Due, Owed, Idling, Transmitting, TypeOK
  <2> QED BY <2>4, <2>6, <2>7, <2>8, <2>9, <2>10
<1>5. CASE /\ ~Ignored /\ Transmitting /\ flag = "abort"
           /\ HandleFlowControlFrame(flag, blockSize)
  <2> USE IsoTpAssumption DEF IsoInv, Types, Labels, MsgLen, Waiting
  <2>1. /\ sess' = IdleSession /\ lastErr' = "other" /\ heard' = heard \cup {"FC"}
        /\ UNCHANGED <<buf, rxDone>>
    BY <1>5 DEF HandleFlowControlFrame
  <2>2. heard' \subseteq {"FC", "CF"}
    BY <2>1 DEF TypeOK
  <2> QED BY <1>1, <1>5, <2>1, <2>2, EndedKeeps
<1> QED BY <1>2, <1>3, <1>4, <1>5 DEF FlowControl

\* A faulty frame ends what the session does, unless it is unheard.
LEMMA FaultyFrameKeeps == ASSUME IsoInv, FaultyFrame PROVE IsoInv'
<1>1. Sends
  BY IsoTpAssumption DEF IsoInv, Types, FaultyFrame, Sends, MsgLen, testVars
<1>2. CASE Ignored
  BY <1>1, <1>2, DeafKeeps DEF FaultyFrame
<1>3. CASE ~Ignored
  BY <1>1, <1>3, FailedKeeps DEF FaultyFrame
<1> QED BY <1>2, <1>3

-----------------------------------------------------------------------------
(* The theorems                                                             *)

\* The program starts with an idle session and nothing returned.
LEMMA InitInv == Init => IsoInv
<1> SUFFICES ASSUME Init PROVE IsoInv
  OBVIOUS
<1> USE IsoTpAssumption DEF Init, IdleSession, MsgLen
<1>1. TypeOK
  <2>1. {rxDone, txDone, hit, late} \subseteq BOOLEAN
    OBVIOUS
  <2>2. buf \in [1 .. MsgLen -> (0 .. MaxMsgs) \X (0 .. MsgLen)]
    OBVIOUS
  <2>3. Len(got) = 0
    OBVIOUS
  <2> QED BY <2>1, <2>2, <2>3 DEF TypeOK
<1>2. Types /\ Last = 0
  <2>1. got \in Seq(Seq(Nat \X Nat))
    OBVIOUS
  <2>2. Last = 0
    BY DEF Last
  <2>3. tester \in [msg : 0 .. MaxMsgs, sent : 1 .. MsgLen, clear : BOOLEAN]
    OBVIOUS
  <2>4. /\ txDone \in BOOLEAN /\ pc = "serve" /\ after = "serve" /\ caller = "rx"
        /\ out = "none" /\ len = 1 /\ budget = 0
    OBVIOUS
  <2> HIDE DEF Init
  <2> QED BY <2>1, <2>2, <2>3, <2>4 DEF Types, Labels
<1>3. OrderInv /\ DeliveredIntact
  BY <1>2 DEF OrderInv, DeliveredIntact
<1>4. DoneInv /\ ReceivingInv /\ LoadingInv /\ BudgetInv /\ CallerInv /\ OffsetInv
  BY DEF DoneInv, ReceivingInv, LoadingInv, BudgetInv, CallerInv, OffsetInv, Loading, Idling,
         Transmitting
<1>5. GrantInv
  BY DEF GrantInv, Due, Owed, Idling
<1> QED BY <1>1, <1>2, <1>3, <1>4, <1>5 DEF IsoInv

\* A step that changes nothing.
LEMMA StutterKeeps == ASSUME IsoInv, UNCHANGED vars PROVE IsoInv'
BY DEF IsoInv, vars, isoVars, mainVars, testVars, TypeOK, Types, DeliveredIntact, OrderInv,
       Last, DoneInv, ReceivingInv, LoadingInv, BudgetInv, CallerInv, OffsetInv, GrantInv,
       Loading, Idling, InTx, Sending, Good, Holds, Partial, Transmitting, Due, Owed, Labels

\* Every step of the interrupt and of the main loop keeps the invariant.
LEMMA NextKeeps == IsoInv /\ [Next]_vars => IsoInv'
<1> SUFFICES ASSUME IsoInv, [Next]_vars PROVE IsoInv'
  OBVIOUS
<1>1. CASE Tester
  BY <1>1, SingleFrameKeeps, FirstFrameKeeps, ConsecutiveFrameKeeps, ClearToSendKeeps,
     FlowControlKeeps, FaultyFrameKeeps DEF Tester
<1>2. CASE Main
  BY <1>2, ReceiveKeeps, RespondKeeps, LoadKeeps, IdleKeeps, TxPollKeeps, TxTimeoutKeeps,
     RxPollKeeps, RxTimeoutKeeps, ElapseKeeps, SendDueKeeps, BuildKeeps, LimitKeeps,
     CompleteKeeps, GrantKeeps, CheckKeeps, AirKeeps, ClaimKeeps DEF Main
<1>3. CASE UNCHANGED vars
  BY <1>3, StutterKeeps
<1> QED BY <1>1, <1>2, <1>3 DEF Next

\* The inductive invariant: what waits to be claimed is a whole message, what is
\* being received is the beginning of the tester's, and a session that the main loop
\* has half changed is known as such.
THEOREM IsoInvariance == Spec => []IsoInv
<1> QED BY InitInv, NextKeeps, PTL DEF Spec

\* Every reachable state is well typed: offsets stay in the buffer, and the ECU grants
\* no more messages than the tester began.
THEOREM TypeCorrect == Spec => []TypeOK
<1>1. IsoInv => TypeOK
  BY DEF IsoInv
<1> QED BY <1>1, IsoInvariance, PTL

\* Whatever the interrupt does between two steps of sr_isotp_rx and sr_isotp_tx, the
\* messages that come out are the tester's, whole, in order and at most once.
THEOREM Delivered == Spec => []DeliveredIntact
<1>1. IsoInv => DeliveredIntact
  BY DEF IsoInv
<1> QED BY <1>1, IsoInvariance, PTL

\* While rx_done_flag is set nothing writes the receive buffer: sr_isotp_rx copies a
\* message that stands still.
THEOREM BufferStands == Spec => BufferHeld
<1>1. ASSUME [Next]_vars, rxDone PROVE buf' = buf
  <2>1. Ignored
    BY <1>1 DEF Ignored
  <2>2. CASE Tester
    BY <2>1, <2>2 DEF Tester, SingleFrame, FirstFrame, ConsecutiveFrame, ClearToSend,
                      FlowControl, FaultyFrame, isoVars
  <2>3. CASE Main
    BY <2>3 DEF Main, Receive, Respond, Load, Idle, TxPoll, TxTimeout, RxPoll, RxTimeout,
                Elapse, SendDue,
                Build, Limit, Complete, Grant, Check, Air, Claim, isoVars
  <2> QED BY <1>1, <2>2, <2>3 DEF Next, vars, isoVars
<1>2. [Next]_vars => [rxDone => buf' = buf]_vars
  BY <1>1
<1> QED BY <1>2, PTL DEF Spec, BufferHeld
=============================================================================
