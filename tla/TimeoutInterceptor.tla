-------------------------- MODULE TimeoutInterceptor --------------------------
(***************************************************************************)
(* One call through the timeout interceptor                                *)
(* (middleware/timeout/server_interceptor.go).  The request's goroutine    *)
(* ("caller") hands five closures to rk-entry's WaitFunc and waits; a      *)
(* second goroutine ("worker") runs the rest of the chain in NextHandler.  *)
(* Both write the same struct toCtx, and after WaitFunc the caller returns *)
(* whatever toCtx holds.                                                   *)
(*                                                                         *)
(* Nothing orders the worker's stores with the caller's once the timer has *)
(* fired.  An interface value is two machine words, and neither goroutine  *)
(* is bound to an order among its own unsynchronised words: each word is   *)
(* stored or loaded by a step of its own, in any order.                    *)
(*                                                                         *)
(* WaitFunc is external: it runs NextHandler in a goroutine that recovers  *)
(* a panic into a buffered channel and signals its end on another, and     *)
(* selects over both and a timer, as the five closures and the             *)
(* interceptor's tests use it.                                             *)
(***************************************************************************)
EXTENDS Naturals, FiniteSets

CONSTANT Fields   \* the fields of toCtx: {"resp", "err"}, or {"err"} of a stream

ASSUME FieldsAssumption == Fields \in {{"resp", "err"}, {"err"}}

Words == Fields \X {"type", "data"}

Value(type, data) == [type |-> type, data |-> data]

Nil     == Value("nil", "nil")
(* rkgrpcerr.Canceled("Request timed out!").Err() *)
DefaultResponse == Value("status", "timedOut")

(* What the handler may return: a message, an error of the status package  *)
(* or an error of its own type.                                            *)
Results ==
    {[f \in Fields |-> IF f = "resp" THEN Value("message", "reply") ELSE Nil]} \cup
    {[f \in Fields |-> IF f = "resp" THEN Nil ELSE Value(t, "handlerError")] :
        t \in {"status", "other"}}

VARIABLES
    caller,     \* the request's goroutine: "start", "select", "onTimeout",
                \* "load", "returned" or "panicked"
    worker,     \* the handler's goroutine: "off", "running", "storing",
                \* "panicking", "panicked" or "done"
    result,     \* what the handler returned
    toCtx,      \* the shared words of toCtx
    storing,    \* words the worker still has to store
    loading,    \* words the caller still has to store (onTimeout) or load
    answer,     \* the words the caller has loaded
    finishChan, \* WaitFunc's finish channel holds a signal
    panicChan,  \* WaitFunc's panic channel holds a recovered panic
    timer,      \* the timer has fired
    branch      \* the select case WaitFunc took

vars == <<caller, worker, result, toCtx, storing, loading, answer, finishChan,
          panicChan, timer, branch>>
callerVars == <<caller, loading, answer, branch>>
workerVars == <<worker, result, storing>>

Word(pair, w) == pair[w[1]][w[2]]
NilWords == [w \in Words |-> "nil"]

Init ==
    /\ caller = "start" /\ worker = "off"
    /\ result \in Results
    /\ toCtx = NilWords /\ storing = {}
    /\ loading = {} /\ answer = NilWords
    /\ finishChan = FALSE /\ panicChan = FALSE /\ timer = FALSE
    /\ branch = "none"

-----------------------------------------------------------------------------
(* The worker: NextHandler inside WaitFunc's goroutine. *)

HandlerReturn ==
    /\ worker = "running"
    /\ worker' = "storing" /\ storing' = Words
    /\ UNCHANGED <<callerVars, result, toCtx, finishChan, panicChan, timer>>

(* Mutant: _, ctx.err = ... *)
NextHandlerStoreErr ==
    /\ worker = "storing"
    /\ \E w \in storing :
          /\ toCtx' = IF w[1] = "resp" THEN toCtx
                                     ELSE [toCtx EXCEPT ![w] = Word(result, w)]
          /\ storing' = storing \ {w}
    /\ UNCHANGED <<callerVars, worker, result, finishChan, panicChan, timer>>
(* ctx.resp, ctx.err = ctx.handler(ctx.grpcCtx, ctx.req) *)
NextHandlerStore ==
    /\ worker = "storing"
    /\ \E w \in storing :
          /\ toCtx' = [toCtx EXCEPT ![w] = Word(result, w)]
          /\ storing' = storing \ {w}
    /\ UNCHANGED <<callerVars, worker, result, finishChan, panicChan, timer>>

SignalFinish ==
    /\ worker = "storing" /\ storing = {}
    /\ finishChan' = TRUE
    /\ worker' = "done"
    /\ UNCHANGED <<callerVars, result, storing, toCtx, panicChan, timer>>

HandlerPanic ==
    /\ worker = "running"
    /\ worker' = "panicking"
    /\ UNCHANGED <<callerVars, result, storing, toCtx, finishChan, panicChan,
                   timer>>

Recover ==
    /\ worker = "panicking"
    /\ panicChan' = TRUE
    /\ worker' = "panicked"
    /\ UNCHANGED <<callerVars, result, storing, toCtx, finishChan, timer>>

-----------------------------------------------------------------------------
(* The caller: the interceptor around WaitFunc. *)

Wait ==
    /\ caller = "start"
    /\ caller' = "select" /\ worker' = "running"
    /\ UNCHANGED <<loading, answer, branch, result, storing, toCtx, finishChan,
                   panicChan, timer>>

TimerFires ==
    /\ caller = "select" /\ ~timer
    /\ timer' = TRUE
    /\ UNCHANGED <<callerVars, workerVars, toCtx, finishChan, panicChan>>

Take(case, next, words) ==
    /\ caller = "select"
    /\ branch' = case /\ caller' = next /\ loading' = words
    /\ UNCHANGED <<answer, workerVars, toCtx, finishChan, panicChan, timer>>

(* FinishHandler does nothing. *)
SelectFinish == finishChan /\ Take("finish", "load", Words)

(* Mutant: the panic is taken for an answer. *)
SelectPanicAnswered == panicChan /\ Take("panic", "load", Words)
(* PanicHandler does nothing; WaitFunc panics again in this goroutine. *)
SelectPanic == panicChan /\ Take("panic", "panicked", {})

(* Mutant: the timeout waits for the handler all the same. *)
SelectTimeoutJoin ==
    /\ timer /\ worker \in {"panicked", "done"}
    /\ Take("timeout", "onTimeout", {"err"} \X {"type", "data"})
SelectTimeout ==
    timer /\ Take("timeout", "onTimeout", {"err"} \X {"type", "data"})

(* TimeoutHandler: ctx.err = defaultResponse *)
TimeoutHandlerStore ==
    /\ caller = "onTimeout"
    /\ \E w \in loading :
          /\ toCtx' = [toCtx EXCEPT ![w] = DefaultResponse[w[2]]]
          /\ loading' = loading \ {w}
    /\ UNCHANGED <<caller, answer, branch, workerVars, finishChan, panicChan,
                   timer>>

WaitReturns ==
    /\ caller = "onTimeout" /\ loading = {}
    /\ caller' = "load" /\ loading' = Words
    /\ UNCHANGED <<answer, branch, workerVars, toCtx, finishChan, panicChan,
                   timer>>

(* Mutant: the call is answered before the error is loaded. *)
LoadOne ==
    /\ caller = "load"
    /\ \E w \in loading :
          /\ answer' = [answer EXCEPT ![w] = toCtx[w]]
          /\ loading' = loading \ {w}
          /\ caller' = "returned"
    /\ UNCHANGED <<branch, workerVars, toCtx, finishChan, panicChan, timer>>
(* return toCtx.resp, toCtx.err *)
Load ==
    /\ caller = "load"
    /\ \E w \in loading :
          /\ answer' = [answer EXCEPT ![w] = toCtx[w]]
          /\ loading' = loading \ {w}
          /\ caller' = IF loading = {w} THEN "returned" ELSE "load"
    /\ UNCHANGED <<branch, workerVars, toCtx, finishChan, panicChan, timer>>

Next ==
    \/ HandlerReturn \/ NextHandlerStore \/ SignalFinish
    \/ HandlerPanic \/ Recover
    \/ Wait \/ TimerFires \/ SelectFinish \/ SelectPanic \/ SelectTimeout
    \/ TimeoutHandlerStore \/ WaitReturns \/ Load

Spec == Init /\ [][Next]_vars

(* Both goroutines run and the timer fires; the handler may never return.  *)
Fairness ==
    /\ WF_vars(Wait) /\ WF_vars(TimerFires)
    /\ WF_vars(SelectFinish \/ SelectPanic \/ SelectTimeout)
    /\ WF_vars(TimeoutHandlerStore \/ WaitReturns) /\ WF_vars(Load)
    /\ WF_vars(NextHandlerStore) /\ WF_vars(SignalFinish) /\ WF_vars(Recover)

FairSpec == Spec /\ Fairness

-----------------------------------------------------------------------------
(* Properties. *)

WordValues == {"nil", "message", "reply", "status", "other", "handlerError",
               "timedOut"}

(* Every variable has its type, and only a goroutine that copies has words *)
(* left to copy.                                                           *)
TypeOK ==
    /\ caller \in {"start", "select", "onTimeout", "load", "returned", "panicked"}
    /\ worker \in {"off", "running", "storing", "panicking", "panicked",
                  "done"}
    /\ result \in Results
    /\ toCtx \in [Words -> WordValues] /\ answer \in [Words -> WordValues]
    /\ storing \subseteq Words /\ loading \subseteq Words
    /\ finishChan \in BOOLEAN /\ panicChan \in BOOLEAN /\ timer \in BOOLEAN
    /\ branch \in {"none", "finish", "panic", "timeout"}
    /\ loading # {} => caller \in {"onTimeout", "load"}
    /\ storing # {} => worker = "storing"

Answers(pair) == \A w \in Words : answer[w] = Word(pair, w)
TimedOut == [f \in Fields |-> IF f = "err" THEN DefaultResponse ELSE Nil]

(* A call that finished in time is answered with exactly what its handler  *)
(* returned, although two goroutines share toCtx.                          *)
FinishedAnswer == caller = "returned" /\ branch = "finish" => Answers(result)

(* A panic is never answered with a response or a nil error: unless the    *)
(* timeout came first it is raised again in the request's goroutine, where *)
(* the panic interceptor recovers it.                                      *)
PanicIsKept == worker = "panicked" /\ caller = "returned" => branch = "timeout"

(* The call is answered in bounded time whatever its handler does. *)
AlwaysAnswers == caller = "select" ~> caller \in {"returned", "panicked"}

(* The tests' claim: a call that timed out is answered with no response    *)
(* and defaultResponse.                                                    *)
TimeoutAnswer == caller = "returned" /\ branch = "timeout" => Answers(TimedOut)
=============================================================================
