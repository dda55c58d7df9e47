-------------------------- MODULE ProxyStreamProofs --------------------------
(***************************************************************************)
(* Proofs about ProxyStream, for any set of messages and any bounds.  The  *)
(* inductive invariant is Inv of ProxyStream: the pumps' bookkeeping       *)
(* (UpInv, DownInv), the meaning of an error in a channel (ChanInv) and    *)
(* the lifecycle of the handler (HandlerInv).                              *)
(***************************************************************************)
EXTENDS ProxyStream, TLAPS

-----------------------------------------------------------------------------
(* Every variable keeps its type in every reachable state. *)
LEMMA TypeInit == Init => TypeOK
<1> SUFFICES ASSUME Init PROVE TypeOK
  OBVIOUS
<1>1. up \in Seq(Msg) /\ toBackend \in Seq(Msg) /\ down \in Seq(Msg)
      /\ toCaller \in Seq(Msg)
  BY DEF Init
<1>2. upRead \in Nat /\ downRead \in Nat /\ iter \in 0..2
  BY DEF Init
<1>3. /\ callerDone \in BOOLEAN /\ callerGone \in BOOLEAN
      /\ sendClosed \in BOOLEAN /\ header \in BOOLEAN
      /\ trailer \in BOOLEAN /\ cancelled \in BOOLEAN
  BY DEF Init
<1> QED
  BY <1>1, <1>2, <1>3 DEF Init, TypeOK, RecvErrors, CallErrors

LEMMA TypeStep == TypeOK /\ [Next]_vars => TypeOK'
<1> SUFFICES ASSUME TypeOK, [Next]_vars PROVE TypeOK'
  OBVIOUS
<1> USE DEF TypeOK, RecvErrors, CallErrors, upVars, s2cVars, downVars,
            c2sVars, handlerVars, chanVars
<1>1. CASE CallerSend
  BY <1>1 DEF CallerSend
<1>2. CASE CallerHalfClose
  BY <1>2 DEF CallerHalfClose
<1>3. CASE CallerLeave
  BY <1>3 DEF CallerLeave
<1>4. CASE BackendSend
  BY <1>4 DEF BackendSend
<1>5. CASE BackendEnd
  BY <1>5 DEF BackendEnd
<1>6. CASE S2CRecv
  BY <1>6 DEF S2CRecv
<1>7. CASE S2CRecvFail
  BY <1>7 DEF S2CRecvFail
<1>8. CASE S2CSend
  BY <1>8 DEF S2CSend
<1>9. CASE S2CSendFail
  BY <1>9 DEF S2CSendFail
<1>10. CASE C2SRecv
  BY <1>10 DEF C2SRecv
<1>11. CASE C2SRecvFail
  BY <1>11 DEF C2SRecvFail
<1>12. CASE C2SHeader
  BY <1>12 DEF C2SHeader
<1>13. CASE C2SSend
  BY <1>13 DEF C2SSend
<1>14. CASE C2SSendFail
  BY <1>14 DEF C2SSendFail
<1>15. CASE DirectorRefuse
  BY <1>15 DEF DirectorRefuse, Return
<1>16. CASE DirectorAccept
  BY <1>16 DEF DirectorAccept
<1>17. CASE DialFail
  BY <1>17 DEF DialFail, Return
<1>18. CASE Dial
  BY <1>18 DEF Dial
<1>19. CASE SelectS2CEof
  <2>1. sendClosed' \in BOOLEAN
    BY <1>19 DEF SelectS2CEof
  <2>3. iter' \in 0..2
    BY <1>19 DEF SelectS2CEof
  <2>2. /\ s2cErrChan' = "empty"
        /\ UNCHANGED <<hpc, outcome, cancelled, trailer, c2sErrChan, upVars,
                       s2cVars, downVars, c2sVars>>
    BY <1>19 DEF SelectS2CEof
  <2> QED
    BY <2>1, <2>2, <2>3
<1>22. CASE SelectS2CError
  BY <1>22 DEF SelectS2CError, Return
<1>20. CASE SelectC2S
  BY <1>20 DEF SelectC2S, Return
<1>21. CASE UNCHANGED vars
  BY <1>21 DEF vars
<1> QED
  BY <1>1, <1>2, <1>3, <1>4, <1>5, <1>6, <1>7, <1>8, <1>9, <1>10, <1>11,
     <1>12, <1>13, <1>14, <1>15, <1>16, <1>17, <1>18, <1>19, <1>20, <1>21, <1>22
     DEF Next

THEOREM TypeCorrect == Spec => []TypeOK
  BY TypeInit, TypeStep, PTL DEF Spec

-----------------------------------------------------------------------------
(* The s2c pump's bookkeeping: a step of the pump or of the caller keeps   *)
(* it, every other step leaves its variables alone.                        *)
LEMMA UpInit == Init => UpInv
  BY DEF Init, UpInv

LEMMA UpStep == TypeOK /\ HandlerInv /\ UpInv /\ [Next]_vars => UpInv'
<1> SUFFICES ASSUME TypeOK, HandlerInv, UpInv, [Next]_vars PROVE UpInv'
  OBVIOUS
<1> USE DEF UpInv, upVars, s2cVars, downVars, c2sVars, handlerVars, chanVars
<1>1. CASE CallerSend
  BY <1>1 DEF CallerSend, TypeOK
<1>2. CASE S2CRecv
  BY <1>2 DEF S2CRecv, TypeOK
<1>3. CASE S2CRecvFail
  BY <1>3 DEF S2CRecvFail, TypeOK
<1>4. CASE S2CSend
  BY <1>4 DEF S2CSend, TypeOK
<1>5. CASE S2CSendFail
  BY <1>5 DEF S2CSendFail, TypeOK
<1>6. CASE Dial
  BY <1>6 DEF Dial, TypeOK, HandlerInv
<1>7. CASE UNCHANGED <<up, s2cVars>>
  BY <1>7
<1> QED
  BY <1>1, <1>2, <1>3, <1>4, <1>5, <1>6, <1>7
     DEF Next, vars, CallerHalfClose, CallerLeave, BackendSend, BackendEnd,
         C2SRecv, C2SRecvFail, C2SHeader, C2SSend, C2SSendFail,
         DirectorRefuse, DirectorAccept, DialFail, SelectS2CEof,
         SelectS2CError, SelectC2S

(* The c2s pump's bookkeeping, the mirror image, with the header. *)
LEMMA DownInit == Init => DownInv
  BY DEF Init, DownInv

LEMMA DownStep == TypeOK /\ HandlerInv /\ DownInv /\ [Next]_vars => DownInv'
<1> SUFFICES ASSUME TypeOK, HandlerInv, DownInv, [Next]_vars PROVE DownInv'
  OBVIOUS
<1> USE DEF DownInv, upVars, s2cVars, downVars, c2sVars, handlerVars, chanVars
<1>1. CASE BackendSend
  BY <1>1 DEF BackendSend, TypeOK
<1>2. CASE C2SRecv
  BY <1>2 DEF C2SRecv, TypeOK
<1>3. CASE C2SRecvFail
  BY <1>3 DEF C2SRecvFail, TypeOK
<1>4. CASE C2SHeader
  BY <1>4 DEF C2SHeader, TypeOK
<1>5. CASE C2SSend
  BY <1>5 DEF C2SSend, TypeOK
<1>6. CASE C2SSendFail
  BY <1>6 DEF C2SSendFail, TypeOK
<1>7. CASE Dial
  BY <1>7 DEF Dial, TypeOK, HandlerInv
<1>8. CASE UNCHANGED <<down, c2sVars>>
  BY <1>8
<1> QED
  BY <1>1, <1>2, <1>3, <1>4, <1>5, <1>6, <1>7, <1>8
     DEF Next, vars, CallerSend, CallerHalfClose, CallerLeave, BackendEnd,
         S2CRecv, S2CRecvFail, S2CSend, S2CSendFail, DirectorRefuse,
         DirectorAccept, DialFail, SelectS2CEof, SelectS2CError, SelectC2S

-----------------------------------------------------------------------------
(* What a channel's error stands for stays true until it is read, because  *)
(* contexts stay done, the backend stays ended and messages stay sent.     *)
LEMMA Stays ==
    ASSUME TypeOK, HandlerInv, [Next]_vars
    PROVE  /\ ServerCtxDone => ServerCtxDone'
           /\ hpc = "returned" => hpc' = "returned" /\ UNCHANGED outcome
           /\ callerGone => callerGone'
           /\ cancelled => cancelled'
           /\ Ended => UNCHANGED downVars
           /\ s2c = "done" => UNCHANGED s2cVars
           /\ c2s = "done" => UNCHANGED c2sVars
           /\ callerDone => UNCHANGED <<up, callerDone>>
           /\ up' = up \/ \E m \in Msg : up' = Append(up, m)
           /\ down' = down \/ \E m \in Msg : down' = Append(down, m)
  BY DEF TypeOK, HandlerInv, ServerCtxDone, Ended, Next, vars, upVars, s2cVars,
         downVars, c2sVars, handlerVars, chanVars, Return, CallerSend,
         CallerHalfClose, CallerLeave, BackendSend, BackendEnd, S2CRecv,
         S2CRecvFail, S2CSend, S2CSendFail, C2SRecv, C2SRecvFail, C2SHeader,
         C2SSend, C2SSendFail, DirectorRefuse, DirectorAccept, DialFail, Dial,
         SelectS2CEof, SelectS2CError, SelectC2S

LEMMA StreamDeadStays ==
    ASSUME TypeOK, HandlerInv, [Next]_vars, StreamDead PROVE StreamDead'
  BY Stays DEF StreamDead, ClientCtxDone, Ended, downVars, c2sVars

LEMMA OversizeAppend ==
    ASSUME NEW s \in Seq(Msg), NEW m \in Msg, OversizeIn(s)
    PROVE  OversizeIn(Append(s, m))
<1>1. PICK i \in 1..Len(s) : s[i] \in Oversize
  BY DEF OversizeIn
<1>2. i \in 1..Len(Append(s, m)) /\ Append(s, m)[i] = s[i]
  OBVIOUS
<1> QED
  BY <1>1, <1>2 DEF OversizeIn

LEMMA OversizeStays ==
    ASSUME TypeOK, HandlerInv, [Next]_vars
    PROVE  /\ OversizeIn(up) => OversizeIn(up)'
           /\ OversizeIn(down) => OversizeIn(down)'
<1>1. OversizeIn(up)' <=> OversizeIn(up')
  BY DEF OversizeIn
<1>2. OversizeIn(down)' <=> OversizeIn(down')
  BY DEF OversizeIn
<1> QED
  BY <1>1, <1>2, Stays, OversizeAppend DEF TypeOK

-----------------------------------------------------------------------------
(* Every error in a channel means what ChanInv says of it. *)
LEMMA ChanInit == Init => ChanInv
  BY DEF Init, ChanInv

LEMMA S2CChanKept ==
    ASSUME TypeOK, HandlerInv, ChanInv, [Next]_vars, UNCHANGED s2cErrChan
    PROVE  /\ s2cErrChan' # "empty" => s2c' = "done"
           /\ s2cErrChan' = "eof" => UpSent' \/ StreamDead'
           /\ s2cErrChan' = "tooLarge" => OversizeIn(up)'
           /\ s2cErrChan' = "canceled" => ServerCtxDone'
<1>1. UpSent /\ s2c = "done" => UpSent'
  BY Stays DEF UpSent, s2cVars
<1> QED
  BY <1>1, Stays, StreamDeadStays, OversizeStays DEF ChanInv, s2cVars

LEMMA C2SChanKept ==
    ASSUME TypeOK, HandlerInv, ChanInv, [Next]_vars, UNCHANGED c2sErrChan
    PROVE  /\ c2sErrChan' # "empty" => c2s' = "done"
           /\ c2sErrChan' = "eof" => (backend = "ok" /\ toCaller = down)'
           /\ c2sErrChan' = "status" => (backend = "failed" /\ toCaller = down)'
           /\ c2sErrChan' = "tooLarge" => OversizeIn(down)'
           /\ c2sErrChan' \in {"canceled", "sendFailed"} => ServerCtxDone'
  BY Stays, OversizeStays DEF ChanInv, Ended, downVars, c2sVars

LEMMA SameElements ==
    ASSUME NEW s \in Seq(Msg), NEW t \in Seq(Msg), Len(s) = Len(t),
           \A i \in 1..Len(s) : s[i] = t[i]
    PROVE  s = t
  OBVIOUS

LEMMA ChanStep ==
    ASSUME TypeOK, UpInv, DownInv, HandlerInv, ChanInv, [Next]_vars
    PROVE  ChanInv'
<1> USE DEF chanVars
<1>1. CASE S2CRecvFail
  <2>1. UNCHANGED <<up, callerDone, toBackend, c2sErrChan>> /\ s2c' = "done"
    BY <1>1 DEF S2CRecvFail, upVars
  <2>2. s2cErrChan' = "eof" => UpSent'
    <3> SUFFICES ASSUME s2cErrChan' = "eof" PROVE UpSent'
      OBVIOUS
    <3>1. callerDone /\ upRead = Len(up) /\ upRead = Len(toBackend)
      BY <1>1 DEF S2CRecvFail, S2CRecvError, UpInv
    <3>2. toBackend = up
      BY <3>1, SameElements DEF UpInv, TypeOK
    <3> QED
      BY <2>1, <3>1, <3>2 DEF UpSent
  <2>3. s2cErrChan' = "tooLarge" => OversizeIn(up)'
    <3> SUFFICES ASSUME s2cErrChan' = "tooLarge" PROVE OversizeIn(up)'
      OBVIOUS
    <3>1. upRead < Len(up) /\ up[upRead + 1] \in Oversize
      BY <1>1 DEF S2CRecvFail, S2CRecvError
    <3>2. upRead + 1 \in 1..Len(up)
      BY <3>1 DEF TypeOK
    <3> QED
      BY <2>1, <3>1, <3>2 DEF OversizeIn
  <2>4. s2cErrChan' = "canceled" => ServerCtxDone'
    BY <1>1, Stays DEF S2CRecvFail, S2CRecvError
  <2>5. s2cErrChan' \in {"eof", "tooLarge", "canceled"}
    BY <1>1 DEF S2CRecvFail
  <2> QED
    BY <2>1, <2>2, <2>3, <2>4, <2>5, C2SChanKept DEF ChanInv
<1>2. CASE S2CSendFail
  BY <1>2, StreamDeadStays, C2SChanKept DEF S2CSendFail, ChanInv
<1>3. CASE C2SRecvFail
  <2>1. UNCHANGED <<downVars, toCaller, s2cErrChan>> /\ c2s' = "done"
    BY <1>3 DEF C2SRecvFail
  <2>2. c2sErrChan' \in {"eof", "status"} => toCaller = down
    <3> SUFFICES ASSUME c2sErrChan' \in {"eof", "status"} PROVE toCaller = down
      OBVIOUS
    <3>1. downRead = Len(down) /\ downRead = Len(toCaller)
      BY <1>3 DEF C2SRecvFail, C2SRecvError, DownInv
    <3> QED
      BY <3>1, SameElements DEF DownInv, TypeOK
  <2>3. /\ c2sErrChan' = "eof" => backend = "ok"
        /\ c2sErrChan' = "status" => backend = "failed"
    BY <1>3 DEF C2SRecvFail, C2SRecvError
  <2>4. c2sErrChan' = "tooLarge" => OversizeIn(down)'
    <3> SUFFICES ASSUME c2sErrChan' = "tooLarge" PROVE OversizeIn(down)'
      OBVIOUS
    <3>1. downRead < Len(down) /\ down[downRead + 1] \in Oversize
      BY <1>3 DEF C2SRecvFail, C2SRecvError
    <3>2. downRead + 1 \in 1..Len(down)
      BY <3>1 DEF TypeOK
    <3> QED
      BY <2>1, <3>1, <3>2 DEF OversizeIn, downVars
  <2>5. c2sErrChan' = "canceled" => ServerCtxDone'
    <3>1. c2sErrChan' = "canceled" => ClientCtxDone
      BY <1>3 DEF C2SRecvFail, C2SRecvError
    <3> QED
      BY <3>1, Stays DEF ClientCtxDone, HandlerInv, ServerCtxDone
  <2>6. c2sErrChan' \in {"eof", "status", "tooLarge", "canceled"}
    BY <1>3 DEF C2SRecvFail
  <2> QED
    BY <2>1, <2>2, <2>3, <2>4, <2>5, <2>6, S2CChanKept DEF ChanInv, downVars
<1>4. CASE C2SSendFail
  BY <1>4, Stays, S2CChanKept DEF C2SSendFail, ChanInv
<1>5. CASE SelectS2CEof
  BY <1>5, C2SChanKept DEF SelectS2CEof, ChanInv
<1>6. CASE SelectS2CError
  BY <1>6, C2SChanKept DEF SelectS2CError, ChanInv
<1>7. CASE SelectC2S
  BY <1>7, S2CChanKept DEF SelectC2S, ChanInv
<1>8. CASE UNCHANGED chanVars
  BY <1>8, S2CChanKept, C2SChanKept DEF ChanInv
<1> QED
  BY <1>1, <1>2, <1>3, <1>4, <1>5, <1>6, <1>7, <1>8
     DEF Next, vars, CallerSend, CallerHalfClose, CallerLeave, BackendSend,
         BackendEnd, S2CRecv, S2CSend, C2SRecv, C2SHeader, C2SSend,
         DirectorRefuse, DirectorAccept, DialFail, Dial

-----------------------------------------------------------------------------
(* Which states of the handler, the pumps and the backend coexist. *)
LEMMA HandlerInit == Init => HandlerInv
  BY DEF Init, HandlerInv

LEMMA SentBeforeClosed ==
    ASSUME TypeOK, ChanInv, HandlerInv, [Next]_vars
    PROVE  (sendClosed => UpSent /\ s2c = "done")'
<1>1. UpSent /\ s2c = "done" => UpSent' /\ s2c' = "done"
  BY Stays DEF UpSent, s2cVars
<1>2. CASE SelectS2CEof
  <2>1. sendClosed' => sendClosed \/ ~StreamDead
    BY <1>2 DEF SelectS2CEof
  <2>2. sendClosed' => UpSent /\ s2c = "done"
    BY <1>2, <2>1 DEF SelectS2CEof, ChanInv, HandlerInv
  <2> QED
    BY <1>1, <2>2
<1>3. CASE UNCHANGED sendClosed
  BY <1>1, <1>3 DEF HandlerInv
<1> QED
  BY <1>2, <1>3
     DEF Next, vars, handlerVars, CallerSend, CallerHalfClose, CallerLeave,
         BackendSend, BackendEnd, S2CRecv, S2CRecvFail, S2CSend, S2CSendFail,
         C2SRecv, C2SRecvFail, C2SHeader, C2SSend, C2SSendFail, DirectorRefuse,
         DirectorAccept, DialFail, Dial, SelectS2CError, SelectC2S

LEMMA HandlerStep ==
    ASSUME TypeOK, ChanInv, HandlerInv, [Next]_vars
    PROVE  HandlerInv'
<1> USE SentBeforeClosed DEF HandlerInv, upVars, s2cVars, downVars, c2sVars,
        handlerVars, chanVars
<1>1. CASE CallerSend \/ CallerHalfClose \/ CallerLeave
  BY <1>1 DEF CallerSend, CallerHalfClose, CallerLeave
<1>2. CASE BackendSend \/ BackendEnd
  BY <1>2 DEF BackendSend, BackendEnd
<1>3. CASE S2CRecv \/ S2CRecvFail \/ S2CSend \/ S2CSendFail
  BY <1>3 DEF S2CRecv, S2CRecvFail, S2CSend, S2CSendFail
<1>4. CASE C2SRecv \/ C2SRecvFail \/ C2SHeader \/ C2SSend \/ C2SSendFail
  BY <1>4 DEF C2SRecv, C2SRecvFail, C2SHeader, C2SSend, C2SSendFail
<1>5. CASE DirectorRefuse \/ DirectorAccept \/ DialFail \/ Dial
  BY <1>5 DEF DirectorRefuse, DirectorAccept, DialFail, Dial, Return
<1>6. CASE SelectS2CEof
  <2>1. iter = 0 /\ iter' = 1
    BY <1>6 DEF SelectS2CEof, TypeOK
  <2> QED
    BY <1>6, <2>1 DEF SelectS2CEof, ChanInv
<1>7. CASE SelectS2CError
  BY <1>7 DEF SelectS2CError, Return
<1>8. CASE SelectC2S
  BY <1>8 DEF SelectC2S, Return, ChanInv, TypeOK, CallErrors, RecvErrors
<1>9. CASE UNCHANGED vars
  BY <1>9 DEF vars
<1> QED
  BY <1>1, <1>2, <1>3, <1>4, <1>5, <1>6, <1>7, <1>8, <1>9 DEF Next

-----------------------------------------------------------------------------
(* The status the caller is given. *)
LEMMA OutcomeInit == Init => StatusIsComplete /\ AbortIsJustified
  BY DEF Init, StatusIsComplete, AbortIsJustified

LEMMA StatusStep ==
    ASSUME TypeOK, ChanInv, HandlerInv, StatusIsComplete, [Next]_vars
    PROVE  StatusIsComplete'
<1> USE DEF StatusIsComplete
<1>1. CASE SelectC2S
  <2>1. outcome' = "ok" => c2sErrChan = "eof"
    BY <1>1 DEF SelectC2S, Return, TypeOK, CallErrors, RecvErrors
  <2>2. outcome' = "status" => c2sErrChan = "status"
    BY <1>1 DEF SelectC2S, Return
  <2> QED
    BY <1>1, <2>1, <2>2
       DEF SelectC2S, ChanInv, upVars, s2cVars, downVars, c2sVars
<1>2. CASE DirectorRefuse \/ DialFail \/ SelectS2CError
  BY <1>2 DEF DirectorRefuse, DialFail, SelectS2CError, Return
<1>3. CASE /\ UNCHANGED <<outcome, trailer>>
           /\ hpc = "returned" => UNCHANGED toCaller
  <2>1. outcome \in {"ok", "status"} => hpc = "returned" /\ Ended
    BY DEF HandlerInv, Ended
  <2> QED
    BY <1>3, <2>1, Stays DEF downVars
<1> QED
  BY <1>1, <1>2, <1>3
     DEF Next, vars, c2sVars, handlerVars, CallerSend, CallerHalfClose,
         CallerLeave, BackendSend, BackendEnd, S2CRecv, S2CRecvFail, S2CSend,
         S2CSendFail, C2SRecv, C2SRecvFail, C2SHeader, C2SSend, C2SSendFail,
         DirectorAccept, Dial, SelectS2CEof

LEMMA AbortStep ==
    ASSUME TypeOK, ChanInv, HandlerInv, AbortIsJustified, [Next]_vars
    PROVE  AbortIsJustified'
<1> USE DEF AbortIsJustified
<1>1. CASE SelectS2CError
  <2>1. s2cErrChan \in {"tooLarge", "canceled"} /\ hpc = "select"
    BY <1>1 DEF SelectS2CError, TypeOK, RecvErrors
  <2>2. outcome' = "internal"
    BY <1>1 DEF SelectS2CError, Return
  <2> QED
    BY <2>1, <2>2, Stays, OversizeStays DEF ChanInv, ServerCtxDone
<1>2. CASE SelectC2S
  <2>1. hpc = "select"
    BY <1>2 DEF SelectC2S
  <2>2. outcome' \in {"internal", "tooLarge", "canceled", "sendFailed"}
          => outcome' = c2sErrChan /\ outcome' # "internal"
    BY <1>2 DEF SelectC2S, Return, TypeOK, RecvErrors, CallErrors
  <2> QED
    BY <2>1, <2>2, Stays, OversizeStays DEF ChanInv, ServerCtxDone
<1>3. CASE DirectorRefuse \/ DialFail
  BY <1>3 DEF DirectorRefuse, DialFail, Return
<1>4. CASE UNCHANGED outcome
  BY <1>4, Stays, OversizeStays
<1> QED
  BY <1>1, <1>2, <1>3, <1>4
     DEF Next, vars, handlerVars, CallerSend, CallerHalfClose,
         CallerLeave, BackendSend, BackendEnd, S2CRecv, S2CRecvFail, S2CSend,
         S2CSendFail, C2SRecv, C2SRecvFail, C2SHeader, C2SSend, C2SSendFail,
         DirectorAccept, Dial, SelectS2CEof

-----------------------------------------------------------------------------
(* The inductive invariant, and the safety properties that follow from it. *)
THEOREM InvHolds == Spec => []Inv
<1>1. Init => Inv
  BY TypeInit, UpInit, DownInit, ChanInit, HandlerInit, OutcomeInit DEF Inv
<1>2. Inv /\ [Next]_vars => Inv'
  BY TypeStep, UpStep, DownStep, ChanStep, HandlerStep, StatusStep, AbortStep
     DEF Inv
<1> QED
  BY <1>1, <1>2, PTL DEF Spec

LEMMA PrefixByElements ==
    ASSUME NEW s \in Seq(Msg), NEW t \in Seq(Msg), Len(s) <= Len(t),
           \A i \in 1..Len(s) : s[i] = t[i]
    PROVE  IsPrefix(s, t)
<1>1. SubSeq(s, 1, Len(s)) \in Seq(Msg) /\ SubSeq(t, 1, Len(s)) \in Seq(Msg)
  OBVIOUS
<1>2. Len(SubSeq(s, 1, Len(s))) = Len(s) /\ Len(SubSeq(t, 1, Len(s))) = Len(s)
  OBVIOUS
<1>3. \A i \in 1..Len(s) : SubSeq(s, 1, Len(s))[i] = SubSeq(t, 1, Len(s))[i]
  OBVIOUS
<1> QED
  BY <1>1, <1>2, <1>3, SameElements DEF IsPrefix

(* Messages are relayed in order and behind the header, whatever the       *)
(* number of messages and wherever the call is broken off.                 *)
THEOREM MessagesInOrder == Spec => []InOrder
<1>1. Inv => InOrder
  <2> SUFFICES ASSUME Inv PROVE InOrder
    OBVIOUS
  <2>1. IsPrefix(toBackend, up)
    BY PrefixByElements DEF Inv, TypeOK, UpInv
  <2>2. IsPrefix(toCaller, down)
    BY PrefixByElements DEF Inv, TypeOK, DownInv
  <2> QED
    BY <2>1, <2>2 DEF InOrder, Inv, DownInv
<1> QED
  BY <1>1, InvHolds, PTL

(* The backend sees the half-close behind every message of the caller. *)
THEOREM HalfCloseComplete == Spec => []HalfCloseIsComplete
<1>1. Inv => HalfCloseIsComplete
  BY DEF Inv, HandlerInv, UpSent, HalfCloseIsComplete
<1> QED
  BY <1>1, InvHolds, PTL

(* A status the handler passes on is the backend's and comes last. *)
THEOREM StatusComplete == Spec => []StatusIsComplete
<1>1. Inv => StatusIsComplete
  BY DEF Inv
<1> QED
  BY <1>1, InvHolds, PTL

(* The proxy's own errors have a cause outside the proxy. *)
THEOREM AbortJustified == Spec => []AbortIsJustified
<1>1. Inv => AbortIsJustified
  BY DEF Inv
<1> QED
  BY <1>1, InvHolds, PTL

(* The loop never runs out: the statement behind it is dead code. *)
THEOREM LoopReturns == Spec => []NeverFallsThrough
<1>1. Inv => NeverFallsThrough
  BY DEF Inv, HandlerInv, NeverFallsThrough
<1> QED
  BY <1>1, InvHolds, PTL

-----------------------------------------------------------------------------
(* The proxy implements the abstract pipe: every step of a goroutine is a  *)
(* step of the pipe or invisible to its two ends.                          *)
LEMMA RelayInit == Init => Relay!Init
  BY DEF Init, Relay!Init, RelayOutcome

LEMMA RelayStep ==
    ASSUME Inv, [Next]_vars
    PROVE  [Relay!Next]_(Relay!vars)
<1> USE DEF Relay!vars, upVars, s2cVars, downVars, c2sVars, handlerVars, chanVars
<1>1. CASE CallerSend
  BY <1>1 DEF CallerSend, Relay!Next, Relay!CallerSend, RelayOutcome
<1>2. CASE CallerHalfClose
  BY <1>2 DEF CallerHalfClose, Relay!Next, Relay!HalfClose, RelayOutcome
<1>3. CASE CallerLeave
  BY <1>3 DEF CallerLeave, Relay!Next, Relay!Leave, RelayOutcome
<1>4. CASE BackendSend
  BY <1>4 DEF BackendSend, Relay!Next, Relay!Reply, RelayOutcome
<1>5. CASE BackendEnd
  BY <1>5 DEF BackendEnd, Relay!Next, Relay!Finish, RelayOutcome
<1>6. CASE S2CRecv \/ S2CRecvFail \/ S2CSendFail \/ C2SRecv \/ C2SRecvFail
           \/ C2SHeader \/ C2SSendFail \/ DirectorAccept
  BY <1>6 DEF S2CRecv, S2CRecvFail, S2CSendFail, C2SRecv, C2SRecvFail,
              C2SHeader, C2SSendFail, DirectorAccept, RelayOutcome
<1>7. CASE S2CSend
  <2>1. Len(toBackend) < Len(up) /\ s2cFrame = up[Len(toBackend) + 1]
    BY <1>7 DEF S2CSend, Inv, UpInv, TypeOK
  <2>2. backend # "none" /\ ~sendClosed
    BY <1>7 DEF S2CSend, Inv, HandlerInv
  <2> QED
    BY <1>7, <2>1, <2>2 DEF S2CSend, Relay!Next, Relay!DeliverUp, RelayOutcome
<1>8. CASE C2SSend
  <2>1. Len(toCaller) < Len(down) /\ c2sFrame = down[Len(toCaller) + 1]
    BY <1>8 DEF C2SSend, Inv, DownInv, TypeOK
  <2>2. RelayOutcome = "pending"
    BY <1>8 DEF C2SSend, Inv, HandlerInv, RelayOutcome
  <2> QED
    BY <1>8, <2>1, <2>2 DEF C2SSend, Relay!Next, Relay!DeliverDown, RelayOutcome
<1>9. CASE DirectorRefuse \/ DialFail
  <2>1. hpc \in {"director", "dial"}
    BY <1>9 DEF DirectorRefuse, DialFail
  <2>2. backend = "none" /\ RelayOutcome = "pending"
    BY <2>1 DEF Inv, HandlerInv, RelayOutcome
  <2>3. RelayOutcome' = "refused"
    BY <1>9 DEF DirectorRefuse, DialFail, Return, RelayOutcome
  <2> QED
    BY <1>9, <2>2, <2>3
       DEF DirectorRefuse, DialFail, Relay!Next, Relay!Refuse
<1>10. CASE Dial
  <2>1. backend = "none" /\ RelayOutcome = "pending"
    BY <1>10 DEF Dial, Inv, HandlerInv, RelayOutcome
  <2> QED
    BY <1>10, <2>1 DEF Dial, Relay!Next, Relay!Connect, RelayOutcome
<1>11. CASE SelectS2CEof
  <2>1. sendClosed' \in BOOLEAN /\ sendClosed' # sendClosed
          => sendClosed' = TRUE /\ ~StreamDead
    BY <1>11 DEF SelectS2CEof, Inv, TypeOK
  <2>2. sendClosed' \in BOOLEAN
    BY <1>11 DEF SelectS2CEof, Inv, TypeOK
  <2>3. CASE sendClosed' = sendClosed
    BY <1>11, <2>3 DEF SelectS2CEof, RelayOutcome
  <2>4. CASE sendClosed' # sendClosed
    <3>1. backend # "none" /\ callerDone /\ toBackend = up
      BY <1>11, <2>1, <2>2, <2>4
         DEF SelectS2CEof, Inv, ChanInv, HandlerInv, UpSent
    <3> QED
      BY <1>11, <2>1, <2>2, <2>4, <3>1
         DEF SelectS2CEof, Relay!Next, Relay!CloseUp, RelayOutcome
  <2> QED
    BY <2>3, <2>4
<1>12. CASE SelectS2CError
  <2>1. RelayOutcome = "pending" /\ backend # "none"
    BY <1>12 DEF SelectS2CError, Inv, HandlerInv, RelayOutcome
  <2>2. outcome' = "internal" /\ UNCHANGED <<up, callerGone, down>>
    BY <1>12 DEF SelectS2CError, Return
  <2>3. callerGone \/ OversizeIn(up) \/ OversizeIn(down)
    BY <2>2, AbortStep DEF Inv, AbortIsJustified, OversizeIn
  <2>4. RelayOutcome' = "aborted"
    BY <2>2 DEF RelayOutcome
  <2> QED
    BY <1>12, <2>1, <2>3, <2>4
       DEF SelectS2CError, Relay!Next, Relay!Abort, Relay!OversizeIn, OversizeIn
<1>13. CASE SelectC2S
  <2>1. RelayOutcome = "pending" /\ backend # "none"
    BY <1>13 DEF SelectC2S, Inv, HandlerInv, RelayOutcome
  <2>2. CASE c2sErrChan = "eof"
    <3>1. backend = "ok" /\ toCaller = down /\ RelayOutcome' = "ok"
      BY <1>13, <2>2 DEF SelectC2S, Return, Inv, ChanInv, RelayOutcome
    <3> QED
      BY <1>13, <2>1, <3>1 DEF SelectC2S, Relay!Next, Relay!Complete
  <2>3. CASE c2sErrChan = "status"
    <3>1. backend = "failed" /\ toCaller = down /\ RelayOutcome' = "failed"
      BY <1>13, <2>3 DEF SelectC2S, Return, Inv, ChanInv, RelayOutcome
    <3> QED
      BY <1>13, <2>1, <3>1 DEF SelectC2S, Relay!Next, Relay!Complete
  <2>4. CASE c2sErrChan \in {"tooLarge", "canceled", "sendFailed"}
    <3>1. outcome' = c2sErrChan /\ UNCHANGED <<up, callerGone, down>>
      BY <1>13, <2>4 DEF SelectC2S, Return
    <3>2. callerGone \/ OversizeIn(up) \/ OversizeIn(down)
      BY <2>4, <3>1, AbortStep DEF Inv, AbortIsJustified, OversizeIn
    <3>3. RelayOutcome' = "aborted"
      BY <2>4, <3>1 DEF RelayOutcome
    <3> QED
      BY <1>13, <2>1, <3>2, <3>3
         DEF SelectC2S, Relay!Next, Relay!Abort, Relay!OversizeIn, OversizeIn
  <2> QED
    BY <1>13, <2>2, <2>3, <2>4
       DEF SelectC2S, Inv, TypeOK, RecvErrors, CallErrors, ChanInv
<1>14. CASE UNCHANGED vars
  BY <1>14 DEF vars, RelayOutcome
<1> QED
  BY <1>1, <1>2, <1>3, <1>4, <1>5, <1>6, <1>7, <1>8, <1>9, <1>10, <1>11, <1>12,
     <1>13, <1>14 DEF Next

THEOREM ProxyImplementsRelay == Spec => ImplementsRelay
  BY RelayInit, RelayStep, InvHolds, PTL DEF Spec, Relay!Spec, ImplementsRelay
=============================================================================
