----------------------- MODULE TimeoutInterceptorProofs -----------------------
(***************************************************************************)
(* TLAPS proofs about TimeoutInterceptor, for unary calls and for streams. *)
(* The argument is one of ownership: as long as the timer's case is not    *)
(* taken only the worker stores, it signals its end behind its last store, *)
(* and the caller loads behind that signal.                                *)
(***************************************************************************)
EXTENDS TimeoutInterceptor, TLAPS

(* Signals and phases agree. *)
PhaseInv ==
    /\ caller = "start" <=> worker = "off"
    /\ finishChan <=> worker = "done"
    /\ panicChan <=> worker = "panicked"
    /\ caller \in {"start", "select"} <=> branch = "none"
    /\ branch = "finish" => finishChan
    /\ branch = "panic" <=> caller = "panicked"
    /\ caller = "onTimeout" => branch = "timeout"

(* What the worker has stored is there until the timeout overwrites it. *)
StoreInv ==
    branch # "timeout" /\ worker \in {"storing", "done"} =>
        \A w \in Words \ storing : toCtx[w] = Word(result, w)

(* What the caller has loaded of a finished call is the result. *)
LoadInv ==
    branch = "finish" /\ caller \in {"load", "returned"} =>
        \A w \in Words \ loading : answer[w] = Word(result, w)

(* The inductive invariant. *)
IInv == TypeOK /\ PhaseInv /\ StoreInv /\ LoadInv

(* The words of the values a handler returns and of defaultResponse have   *)
(* their type.                                                             *)
LEMMA WordType ==
    ASSUME NEW pair \in Results, NEW w \in Words
    PROVE  /\ Word(pair, w) \in WordValues
           /\ DefaultResponse[w[2]] \in WordValues
<1>1. PICK f \in Fields, k \in {"type", "data"} : w = <<f, k>>
  BY DEF Words
<1>2. w[1] = f /\ w[2] = k
  BY <1>1
<1>3. DefaultResponse[k] \in WordValues
  <2>1. CASE k = "type"
    BY <2>1 DEF DefaultResponse, Value, WordValues
  <2>2. CASE k = "data"
    BY <2>2 DEF DefaultResponse, Value, WordValues
  <2>3. QED
    BY <2>1, <2>2
<1>4. pair[f] \in [type : {"nil", "message", "status", "other"},
                   data : {"nil", "reply", "handlerError"}]
  BY DEF Results, Value, Nil
<1>5. pair[f][k] \in WordValues
  <2>1. CASE k = "type"
    BY <1>4, <2>1 DEF WordValues
  <2>2. CASE k = "data"
    BY <1>4, <2>2 DEF WordValues
  <2>3. QED
    BY <2>1, <2>2
<1>6. QED
  BY <1>2, <1>3, <1>5 DEF Word

LEMMA InitInv == Init => IInv
<1> SUFFICES ASSUME Init PROVE IInv
  OBVIOUS
<1>1. NilWords \in [Words -> WordValues]
  BY DEF NilWords, WordValues
<1>2. TypeOK
  BY <1>1 DEF Init, TypeOK
<1>3. PhaseInv /\ StoreInv /\ LoadInv
  BY DEF Init, PhaseInv, StoreInv, LoadInv
<1>4. QED
  BY <1>2, <1>3 DEF IInv

LEMMA TypeStep == IInv /\ [Next]_vars => TypeOK'
<1> SUFFICES ASSUME IInv, [Next]_vars PROVE TypeOK'
  OBVIOUS
<1> USE DEF IInv, TypeOK, callerVars, workerVars
<1>1. CASE HandlerReturn
  BY <1>1 DEF HandlerReturn, PhaseInv
<1>2. CASE NextHandlerStore
  <2>1. PICK w \in storing :
          /\ toCtx' = [toCtx EXCEPT ![w] = Word(result, w)]
          /\ storing' = storing \ {w}
    BY <1>2 DEF NextHandlerStore
  <2>2. Word(result, w) \in WordValues
    BY WordType
  <2>3. toCtx' \in [Words -> WordValues]
    BY <2>1, <2>2
  <2>4. QED
    BY <1>2, <2>1, <2>3 DEF NextHandlerStore
<1>3. CASE SignalFinish
  BY <1>3 DEF SignalFinish
<1>4. CASE HandlerPanic
  BY <1>4 DEF HandlerPanic
<1>5. CASE Recover
  BY <1>5 DEF Recover
<1>6. CASE Wait
  BY <1>6 DEF Wait, PhaseInv
<1>7. CASE TimerFires
  BY <1>7 DEF TimerFires
<1>8. CASE SelectFinish
  BY <1>8 DEF SelectFinish, Take
<1>9. CASE SelectPanic
  BY <1>9 DEF SelectPanic, Take
<1>10. CASE SelectTimeout
  BY <1>10, FieldsAssumption DEF SelectTimeout, Take, Words
<1>11. CASE TimeoutHandlerStore
  <2>1. PICK w \in loading :
          /\ toCtx' = [toCtx EXCEPT ![w] = DefaultResponse[w[2]]]
          /\ loading' = loading \ {w}
    BY <1>11 DEF TimeoutHandlerStore
  <2>2. DefaultResponse[w[2]] \in WordValues
    BY WordType
  <2>3. toCtx' \in [Words -> WordValues]
    BY <2>1, <2>2
  <2>4. QED
    BY <1>11, <2>1, <2>3 DEF TimeoutHandlerStore
<1>12. CASE WaitReturns
  BY <1>12 DEF WaitReturns
<1>13. CASE Load
  <2>1. PICK w \in loading :
          /\ answer' = [answer EXCEPT ![w] = toCtx[w]]
          /\ loading' = loading \ {w}
          /\ caller' = IF loading = {w} THEN "returned" ELSE "load"
    BY <1>13 DEF Load
  <2>2. answer' \in [Words -> WordValues]
    BY <2>1
  <2>3. loading' # {} => caller' = "load"
    BY <2>1
  <2>4. QED
    BY <1>13, <2>1, <2>2, <2>3 DEF Load
<1>14. CASE UNCHANGED vars
  BY <1>14 DEF vars
<1>15. QED
  BY <1>1, <1>2, <1>3, <1>4, <1>5, <1>6, <1>7, <1>8, <1>9, <1>10, <1>11,
     <1>12, <1>13, <1>14 DEF Next

LEMMA PhaseStep == IInv /\ [Next]_vars => PhaseInv'
<1> SUFFICES ASSUME IInv, [Next]_vars PROVE PhaseInv'
  OBVIOUS
<1> USE DEF IInv, TypeOK, PhaseInv, callerVars, workerVars
<1>1. CASE HandlerReturn
  BY <1>1 DEF HandlerReturn
<1>2. CASE NextHandlerStore
  BY <1>2 DEF NextHandlerStore
<1>3. CASE SignalFinish
  BY <1>3 DEF SignalFinish
<1>4. CASE HandlerPanic
  BY <1>4 DEF HandlerPanic
<1>5. CASE Recover
  BY <1>5 DEF Recover
<1>6. CASE Wait
  BY <1>6 DEF Wait
<1>7. CASE TimerFires
  BY <1>7 DEF TimerFires
<1>8. CASE SelectFinish
  BY <1>8 DEF SelectFinish, Take
<1>9. CASE SelectPanic
  BY <1>9 DEF SelectPanic, Take
<1>10. CASE SelectTimeout
  BY <1>10 DEF SelectTimeout, Take
<1>11. CASE TimeoutHandlerStore
  BY <1>11 DEF TimeoutHandlerStore
<1>12. CASE WaitReturns
  BY <1>12 DEF WaitReturns
<1>13. CASE Load
  BY <1>13 DEF Load
<1>14. CASE UNCHANGED vars
  BY <1>14 DEF vars
<1>15. QED
  BY <1>1, <1>2, <1>3, <1>4, <1>5, <1>6, <1>7, <1>8, <1>9, <1>10, <1>11,
     <1>12, <1>13, <1>14 DEF Next

LEMMA StoreStep == IInv /\ [Next]_vars => StoreInv'
<1> SUFFICES ASSUME IInv, [Next]_vars PROVE StoreInv'
  OBVIOUS
<1> USE DEF IInv, TypeOK, PhaseInv, StoreInv, Word, callerVars, workerVars
<1>1. CASE HandlerReturn
  BY <1>1 DEF HandlerReturn
<1>2. CASE NextHandlerStore
  <2>1. PICK w \in storing :
          /\ toCtx' = [toCtx EXCEPT ![w] = Word(result, w)]
          /\ storing' = storing \ {w}
    BY <1>2 DEF NextHandlerStore
  <2>2. ASSUME branch # "timeout", NEW v \in Words \ storing'
        PROVE  toCtx'[v] = Word(result, v)
    BY <1>2, <2>1, <2>2 DEF NextHandlerStore
  <2>3. QED
    BY <1>2, <2>2 DEF NextHandlerStore
<1>3. CASE SignalFinish
  BY <1>3 DEF SignalFinish
<1>4. CASE HandlerPanic
  BY <1>4 DEF HandlerPanic
<1>5. CASE Recover
  BY <1>5 DEF Recover
<1>6. CASE Wait
  BY <1>6 DEF Wait
<1>7. CASE TimerFires
  BY <1>7 DEF TimerFires
<1>8. CASE SelectFinish
  BY <1>8 DEF SelectFinish, Take
<1>9. CASE SelectPanic
  BY <1>9 DEF SelectPanic, Take
<1>10. CASE SelectTimeout
  BY <1>10 DEF SelectTimeout, Take
<1>11. CASE TimeoutHandlerStore
  BY <1>11 DEF TimeoutHandlerStore
<1>12. CASE WaitReturns
  BY <1>12 DEF WaitReturns
<1>13. CASE Load
  BY <1>13 DEF Load
<1>14. CASE UNCHANGED vars
  BY <1>14 DEF vars
<1>15. QED
  BY <1>1, <1>2, <1>3, <1>4, <1>5, <1>6, <1>7, <1>8, <1>9, <1>10, <1>11,
     <1>12, <1>13, <1>14 DEF Next

LEMMA LoadStep == IInv /\ [Next]_vars => LoadInv'
<1> SUFFICES ASSUME IInv, [Next]_vars PROVE LoadInv'
  OBVIOUS
<1> USE DEF IInv, TypeOK, PhaseInv, LoadInv, Word, callerVars, workerVars
<1>1. CASE HandlerReturn
  BY <1>1 DEF HandlerReturn
<1>2. CASE NextHandlerStore
  BY <1>2 DEF NextHandlerStore
<1>3. CASE SignalFinish
  BY <1>3 DEF SignalFinish
<1>4. CASE HandlerPanic
  BY <1>4 DEF HandlerPanic
<1>5. CASE Recover
  BY <1>5 DEF Recover
<1>6. CASE Wait
  BY <1>6 DEF Wait
<1>7. CASE TimerFires
  BY <1>7 DEF TimerFires
<1>8. CASE SelectFinish
  BY <1>8 DEF SelectFinish, Take
<1>9. CASE SelectPanic
  BY <1>9 DEF SelectPanic, Take
<1>10. CASE SelectTimeout
  BY <1>10 DEF SelectTimeout, Take
<1>11. CASE TimeoutHandlerStore
  BY <1>11 DEF TimeoutHandlerStore
<1>12. CASE WaitReturns
  BY <1>12 DEF WaitReturns
<1>13. CASE Load
  <2>1. PICK w \in loading :
          /\ answer' = [answer EXCEPT ![w] = toCtx[w]]
          /\ loading' = loading \ {w}
    BY <1>13 DEF Load
  <2>2. branch = "finish" => toCtx[w] = Word(result, w)
    BY DEF StoreInv
  <2>3. ASSUME branch = "finish", NEW v \in Words \ loading'
        PROVE  answer'[v] = Word(result, v)
    BY <1>13, <2>1, <2>2, <2>3 DEF Load
  <2>4. QED
    BY <1>13, <2>3 DEF Load
<1>14. CASE UNCHANGED vars
  BY <1>14 DEF vars
<1>15. QED
  BY <1>1, <1>2, <1>3, <1>4, <1>5, <1>6, <1>7, <1>8, <1>9, <1>10, <1>11,
     <1>12, <1>13, <1>14 DEF Next

(* The invariant holds in every reachable state. *)
THEOREM InvHolds == Spec => []IInv
<1>1. IInv /\ [Next]_vars => IInv'
  BY TypeStep, PhaseStep, StoreStep, LoadStep DEF IInv
<1>2. QED
  BY <1>1, InitInv, PTL DEF Spec

(* The types of TimeoutInterceptor hold in every reachable state. *)
THEOREM TypeCorrect == Spec => []TypeOK
<1>1. IInv => TypeOK
  BY DEF IInv
<1>2. QED
  BY <1>1, InvHolds, PTL

(* A call that finished in time is answered with its handler's result.     *)
(* Every word is loaded when the caller has returned, so LoadInv is about  *)
(* all of them.                                                            *)
THEOREM FinishedAnswerHolds == Spec => []FinishedAnswer
<1>1. IInv => FinishedAnswer
  BY DEF IInv, TypeOK, LoadInv, FinishedAnswer, Answers
<1>2. QED
  BY <1>1, InvHolds, PTL

(* A panic is never answered with a response: the finish case and the      *)
(* panic exclude each other.                                               *)
THEOREM PanicKept == Spec => []PanicIsKept
<1>1. IInv => PanicIsKept
  BY DEF IInv, TypeOK, PhaseInv, PanicIsKept
<1>2. QED
  BY <1>1, InvHolds, PTL
=============================================================================
