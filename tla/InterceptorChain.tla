--------------------------- MODULE InterceptorChain ---------------------------
(***************************************************************************)
(* One RPC through the interceptors RegisterGrpcEntryYAML puts around a    *)
(* gRPC handler, for every set of enabled middlewares, unary and stream.   *)
(* The request's goroutine ("main") goes down the chain and back up; below *)
(* the timeout interceptor a second goroutine ("worker") does, and lives   *)
(* on after the timer has fired.  Both share the payload map that          *)
(* WrapContextForServer put into the context: AddToServerContextPayload    *)
(* writes it and GetRequestId, GetTraceId, GetEvent and GetLogger read it, *)
(* with no lock.                                                           *)
(*                                                                         *)
(* What an option set decides (accept or reject) is external and free.     *)
(* The answer of a call that timed out is simplified here to the timeout   *)
(* error: TimeoutInterceptor has the race about it.  An error that is not  *)
(* nil and whose own status is OK is left out.                             *)
(***************************************************************************)
EXTENDS Naturals, FiniteSets, SequencesExt

CONSTANT Optional   \* the middlewares a configuration may enable

ASSUME OptionalAssumption ==
    Optional \subseteq {"log", "prom", "trace", "jwt", "meta", "auth",
                        "timeout", "ratelimit"}

(* Mutant: the timer includes the metrics and the span. *)
ChainTimeoutFirst == <<"log", "panic", "timeout", "prom", "trace", "jwt",
                       "meta", "auth", "ratelimit", "handler">>
(* The order of the AddUnaryInterceptors / AddStreamInterceptors calls; the *)
(* handler is the last link.                                               *)
Chain == <<"log", "panic", "prom", "trace", "jwt", "meta", "auth", "timeout",
           "ratelimit", "handler">>

Goroutines == {"main", "worker"}
Guards == {"jwt", "auth", "ratelimit"}

VARIABLES
    kind,       \* "unary" or "stream"
    enabled,    \* the optional middlewares of this configuration
    at,         \* at[g]: the link g is in, 0 outside of the chain
    phase,      \* phase[g]: what g does there
    err,       \* err[g]: the error g carries up, a status by its code
    access,     \* access[g]: g is in the middle of this map operation
    payload,    \* payload[g]: the context g passes down has a payload map
    rejected,   \* guards that rejected the call
    served,     \* the handler has run, with or without a payload map
    panicked,   \* with what the handler has panicked
    timedOut,   \* WaitFunc took the timer's case
    logged,     \* codes set.After of the logging middleware has recorded
    metric,     \* codes set.After of the prom middleware has recorded
    span,       \* the trace middleware's span: none, open, or once it has
                \* ended its attribute "grpc.code", "ended" without one
    counted,    \* the call's event has the "panic" counter
    answer      \* the code the client got

vars == <<kind, enabled, at, phase, err, access, payload, rejected, served,
          panicked, timedOut, logged, metric, span, counted, answer>>

config  == <<kind, enabled>>
records == <<logged, metric, span, counted>>

(* The panic interceptor is not optional. *)
Present == {i \in 1..Len(Chain) : Chain[i] \in enabled \cup {"panic", "handler"}}

Below(i) == CHOOSE j \in Present : j > i /\ \A k \in Present : k > i => j <= k
Above(i) ==
    IF \E j \in Present : j < i
      THEN CHOOSE j \in Present : j < i /\ \A k \in Present : k < i => k <= j
      ELSE 0
TimeoutLink == CHOOSE i \in 1..Len(Chain) : Chain[i] = "timeout"

Link(g) == IF at[g] = 0 THEN "none" ELSE Chain[at[g]]

Init ==
    /\ kind \in {"unary", "stream"}
    /\ enabled \in SUBSET Optional
    /\ at = [g \in Goroutines |-> IF g = "main" THEN Below(0) ELSE 0]
    /\ phase = [g \in Goroutines |-> IF g = "main" THEN "enter" ELSE "off"]
    /\ err = [g \in Goroutines |-> "none"]
    /\ access = [g \in Goroutines |-> "none"]
    /\ payload = [g \in Goroutines |-> FALSE]
    /\ rejected = {} /\ served = "no" /\ panicked = "no" /\ timedOut = FALSE
    /\ logged = <<>> /\ metric = <<>> /\ span = "none" /\ counted = FALSE
    /\ answer = "none"

-----------------------------------------------------------------------------
(* Errors. *)

(* An error is a status, written as its code, with "OK" for nil, or one    *)
(* without a status; the errors of a context that ended are such.          *)
ContextErrors == {"ctxCanceled", "ctxDeadline"}
Raw == {"plain"} \cup ContextErrors

(* status.Code and status.FromError: Unknown for what has no status.       *)
StatusCode(e) == IF e \in Raw THEN "Unknown" ELSE e

(* The code the gRPC server sends: status.FromContextError knows the       *)
(* errors of a context.                                                    *)
ServerCode(e) == CASE e = "ctxCanceled" -> "Canceled"
                   [] e = "ctxDeadline" -> "DeadlineExceeded"
                   [] OTHER -> StatusCode(e)

(* The attributes of a stream's end are built and dropped.  For a success  *)
(* "grpc.code" gets OpenTelemetry's codes.Ok, 2, which is gRPC's Unknown.  *)
SpanEnd(e) == IF kind = "stream" THEN "ended"
              ELSE IF e = "OK" THEN "Unknown" ELSE StatusCode(e)

(* The values a handler panics with: one without a status, one with, and   *)
(* one whose status is OK or nil, which makes err nil again.               *)
Panics == {"NoStatus", "PanicStatus", "OkStatus"}
PanicError(v) == CASE v = "NoStatus" -> "Internal"
                   [] v = "PanicStatus" -> "PanicStatus"
                   [] v = "OkStatus" -> "OK"

-----------------------------------------------------------------------------
(* Going down. *)

(* g goes on with the link above in its chain; the worker's chain ends at  *)
(* the timeout interceptor.                                                *)
Up(g, e) ==
    /\ err' = [err EXCEPT ![g] = e]
    /\ IF g = "worker" /\ Above(at[g]) = TimeoutLink
         THEN at' = [at EXCEPT ![g] = 0] /\ phase' = [phase EXCEPT ![g] = "done"]
         ELSE at' = [at EXCEPT ![g] = Above(at[g])]
              /\ phase' = [phase EXCEPT ![g] = "up"]

Down(g) ==
    /\ at' = [at EXCEPT ![g] = Below(at[g])]
    /\ phase' = [phase EXCEPT ![g] = "enter"]

(* WrapContextForServer keeps the payload the context already has; then    *)
(* AddToServerContextPayload writes.                                       *)
Enter(g) ==
    /\ phase[g] = "enter" /\ Link(g) # "handler"
    /\ phase' = [phase EXCEPT ![g] = "before"]
    /\ access' = [access EXCEPT ![g] = "write"]
    /\ UNCHANGED <<config, at, err, payload, rejected, served, panicked,
                   timedOut, records, answer>>

(* Mutant: the unary interceptors hand on the context they were given too. *)
PassesPayloadNever(link) == link \notin {"panic", "timeout"}
(* A unary interceptor passes its wrapped context on, and so does a stream *)
(* interceptor that hands wrappedStream to its handler.  The stream        *)
(* interceptors of panic and timeout hand on the stream they were given.   *)
PassesPayload(link) == kind = "unary" \/ link \notin {"panic", "timeout"}

Pass(g) ==
    /\ phase[g] = "before" /\ Link(g) # "timeout"
    /\ access' = [access EXCEPT ![g] = "none"]
    /\ payload' = [payload EXCEPT ![g] = @ \/ PassesPayload(Link(g))]
    /\ span' = IF Link(g) = "trace" THEN "open" ELSE span
    /\ Down(g)
    /\ UNCHANGED <<config, err, rejected, served, panicked, timedOut, logged,
                   metric, counted, answer>>

(* beforeCtx.Output.ErrResp # nil: the handler is not called. *)
RejectCode(link) == IF link = "ratelimit" THEN "ResourceExhausted"
                                          ELSE "Unauthenticated"
(* Mutant: a middleware that is no guard rejects the call. *)
RejectAnywhere(g) ==
    /\ phase[g] = "before"
    /\ access' = [access EXCEPT ![g] = "none"]
    /\ rejected' = rejected \cup {Link(g)}
    /\ Up(g, RejectCode(Link(g)))
    /\ UNCHANGED <<config, payload, served, panicked, timedOut, records, answer>>
(* Mutant: the error response is recorded but the call goes on. *)
RejectAndGoOn(g) ==
    /\ phase[g] = "before" /\ Link(g) \in Guards
    /\ access' = [access EXCEPT ![g] = "none"]
    /\ rejected' = rejected \cup {Link(g)}
    /\ Down(g)
    /\ UNCHANGED <<config, err, payload, served, panicked, timedOut, records,
                   answer>>
Reject(g) ==
    /\ phase[g] = "before" /\ Link(g) \in Guards
    /\ access' = [access EXCEPT ![g] = "none"]
    /\ rejected' = rejected \cup {Link(g)}
    /\ Up(g, RejectCode(Link(g)))
    /\ UNCHANGED <<config, payload, served, panicked, timedOut, records, answer>>

(* The user's handler may add a header to the client, which writes the     *)
(* payload map (AddHeaderToClient).                                        *)
HandlerWrite(g) ==
    /\ phase[g] = "enter" /\ Link(g) = "handler" /\ payload[g]
    /\ phase' = [phase EXCEPT ![g] = "handling"]
    /\ access' = [access EXCEPT ![g] = "write"]
    /\ UNCHANGED <<config, at, err, payload, rejected, served, panicked,
                   timedOut, records, answer>>

HandlerWritten(g) ==
    /\ phase[g] = "handling"
    /\ phase' = [phase EXCEPT ![g] = "handled"]
    /\ access' = [access EXCEPT ![g] = "none"]
    /\ UNCHANGED <<config, at, err, payload, rejected, served, panicked,
                   timedOut, records, answer>>

HandlerEnds(g) ==
    /\ phase[g] \in {"enter", "handled"} /\ Link(g) = "handler"
    /\ UNCHANGED access
    /\ served' = IF payload[g] THEN "withEntry" ELSE "withoutEntry"

HandlerReturn(g) ==
    /\ HandlerEnds(g)
    /\ \E e \in {"OK", "HandlerError"} \cup Raw : Up(g, e)
    /\ UNCHANGED <<config, payload, rejected, panicked, timedOut, records, answer>>

-----------------------------------------------------------------------------
(* A panic: the deferred function of the panic interceptor recovers it,    *)
(* all other links are skipped, set.After and all.                         *)

Unwind(g) ==
    IF g = "worker" /\ Above(at[g]) = TimeoutLink
      THEN at' = [at EXCEPT ![g] = 0] /\ phase' = [phase EXCEPT ![g] = "recovered"]
      ELSE at' = [at EXCEPT ![g] = Above(at[g])]
           /\ phase' = [phase EXCEPT ![g] = "panic"]

HandlerPanic(g) ==
    /\ HandlerEnds(g)
    /\ panicked' \in Panics
    /\ Unwind(g)
    /\ UNCHANGED <<config, err, payload, rejected, timedOut, records, answer>>

UnwindLink(g) ==
    /\ phase[g] = "panic" /\ at[g] # 0 /\ Link(g) # "panic"
    /\ Unwind(g)
    /\ UNCHANGED <<config, err, access, payload, rejected, served, panicked,
                   timedOut, records, answer>>

(* Mutant: the panic interceptor looks up the event before it is there. *)
RecoverPanicUncounted(g) ==
    /\ phase[g] = "panic" /\ Link(g) = "panic"
    /\ Up(g, PanicError(panicked))
    /\ UNCHANGED <<config, access, payload, rejected, served, panicked, timedOut,
                   records, answer>>
(* The panic's own status, as it is, or codes.Internal; the counter goes   *)
(* to the event of the call, which exists when the logging is enabled.     *)
RecoverPanic(g) ==
    /\ phase[g] = "panic" /\ Link(g) = "panic"
    /\ counted' = (counted \/ "log" \in enabled)
    /\ Up(g, PanicError(panicked))
    /\ UNCHANGED <<config, access, payload, rejected, served, panicked, timedOut,
                   logged, metric, span, answer>>

-----------------------------------------------------------------------------
(* Going up. *)

(* The logging reads the request id and the trace id from the payload map  *)
(* before set.After.                                                       *)
LogRead(g) ==
    /\ phase[g] = "up" /\ Link(g) = "log"
    /\ phase' = [phase EXCEPT ![g] = "after"]
    /\ access' = [access EXCEPT ![g] = "read"]
    /\ UNCHANGED <<config, at, err, payload, rejected, served, panicked,
                   timedOut, records, answer>>

LogAfter(g) ==
    /\ phase[g] = "after" /\ Link(g) = "log"
    /\ access' = [access EXCEPT ![g] = "none"]
    /\ logged' = Append(logged, StatusCode(err[g]))
    /\ Up(g, err[g])
    /\ UNCHANGED <<config, payload, rejected, served, panicked, timedOut, metric,
                   span, counted, answer>>

After(g) ==
    /\ phase[g] = "up" /\ at[g] # 0 /\ Link(g) # "log"
    /\ metric' = IF Link(g) = "prom" THEN Append(metric, StatusCode(err[g]))
                                       ELSE metric
    /\ span' = IF Link(g) = "trace" THEN SpanEnd(err[g]) ELSE span
    /\ Up(g, err[g])
    /\ UNCHANGED <<config, access, payload, rejected, served, panicked, timedOut,
                   logged, counted, answer>>

(* The gRPC server sends what leaves the chain.                            *)
Answer ==
    /\ phase["main"] = "up" /\ at["main"] = 0
    /\ answer' = ServerCode(err["main"])
    /\ phase' = [phase EXCEPT !["main"] = "done"]
    /\ UNCHANGED <<config, at, err, access, payload, rejected, served, panicked,
                   timedOut, records>>

-----------------------------------------------------------------------------
(* The timeout interceptor: WaitFunc. *)

(* Mutant: the interceptor writes the payload map beside its worker. *)
StartWorkerWriting ==
    /\ phase["main"] = "before" /\ Link("main") = "timeout"
    /\ phase' = [phase EXCEPT !["main"] = "wait", !["worker"] = "enter"]
    /\ at' = [at EXCEPT !["worker"] = Below(at["main"])]
    /\ payload' = [payload EXCEPT !["worker"] = TRUE]
    /\ UNCHANGED <<config, err, access, rejected, served, panicked, timedOut,
                   records, answer>>
StartWorker ==
    /\ phase["main"] = "before" /\ Link("main") = "timeout"
    /\ access' = [access EXCEPT !["main"] = "none"]
    /\ phase' = [phase EXCEPT !["main"] = "wait", !["worker"] = "enter"]
    /\ at' = [at EXCEPT !["worker"] = Below(at["main"])]
    /\ payload' = [payload EXCEPT !["worker"] =
                      payload["main"] \/ PassesPayload("timeout")]
    /\ UNCHANGED <<config, err, rejected, served, panicked, timedOut, records,
                   answer>>

WaitFinish ==
    /\ phase["main"] = "wait" /\ phase["worker"] = "done"
    /\ Up("main", err["worker"])
    /\ UNCHANGED <<config, access, payload, rejected, served, panicked, timedOut,
                   records, answer>>

(* Mutant: the recovered panic is dropped. *)
WaitPanicDropped ==
    /\ phase["main"] = "wait" /\ phase["worker"] = "recovered"
    /\ Up("main", "OK")
    /\ UNCHANGED <<config, access, payload, rejected, served, panicked, timedOut,
                   records, answer>>
WaitPanic ==
    /\ phase["main"] = "wait" /\ phase["worker"] = "recovered"
    /\ Unwind("main")
    /\ UNCHANGED <<config, err, access, payload, rejected, served, panicked,
                   timedOut, records, answer>>

(* Mutant: the timer's case joins the worker. *)
WaitTimeoutJoin ==
    /\ phase["main"] = "wait" /\ phase["worker"] \in {"done", "recovered"}
    /\ timedOut' = TRUE
    /\ Up("main", "Canceled")
    /\ UNCHANGED <<config, access, payload, rejected, served, panicked, records,
                   answer>>
WaitTimeout ==
    /\ phase["main"] = "wait"
    /\ timedOut' = TRUE
    /\ Up("main", "Canceled")
    /\ UNCHANGED <<config, access, payload, rejected, served, panicked, records,
                   answer>>

-----------------------------------------------------------------------------

Step(g) ==
    \/ Enter(g) \/ Pass(g) \/ Reject(g)
    \/ UnwindLink(g) \/ RecoverPanic(g)
    \/ LogRead(g) \/ LogAfter(g) \/ After(g)

HandlerStep(g) ==
    HandlerWrite(g) \/ HandlerWritten(g) \/ HandlerReturn(g) \/ HandlerPanic(g)

Next ==
    \/ \E g \in Goroutines : Step(g) \/ HandlerStep(g)
    \/ StartWorker \/ WaitFinish \/ WaitPanic \/ WaitTimeout \/ Answer

Spec == Init /\ [][Next]_vars

(* The interceptors' own steps happen; a handler may run for ever. *)
Fairness ==
    /\ \A g \in Goroutines : WF_vars(Step(g))
    /\ WF_vars(StartWorker) /\ WF_vars(Answer)
    /\ WF_vars(WaitFinish \/ WaitPanic \/ WaitTimeout)

FairSpec == Spec /\ Fairness

-----------------------------------------------------------------------------
(* Properties. *)

Codes == {"OK", "HandlerError", "Unauthenticated", "ResourceExhausted",
          "Internal", "PanicStatus", "Canceled", "DeadlineExceeded", "Unknown"}
Errors == Codes \cup Raw

(* Every variable has its type. *)
TypeOK ==
    /\ kind \in {"unary", "stream"} /\ enabled \subseteq Optional
    /\ at \in [Goroutines -> 0..Len(Chain)]
    /\ phase \in [Goroutines -> {"off", "enter", "before", "handling", "handled", "up",
                                 "after", "panic", "wait", "recovered", "done"}]
    /\ err \in [Goroutines -> Errors \cup {"none"}]
    /\ access \in [Goroutines -> {"none", "read", "write"}]
    /\ payload \in [Goroutines -> BOOLEAN]
    /\ rejected \subseteq Guards
    /\ served \in {"no", "withEntry", "withoutEntry"}
    /\ panicked \in Panics \cup {"no"}
    /\ timedOut \in BOOLEAN /\ counted \in BOOLEAN
    /\ logged \in Seq(Codes) /\ metric \in Seq(Codes)
    /\ span \in {"none", "open", "ended"} \cup Codes
    /\ answer \in Codes \cup {"none"}

Answered == answer # "none"

(* The handler never runs for a call that a guard rejected, in whichever   *)
(* goroutine and whether or not the client was answered first.             *)
GuardsBeforeHandler == served # "no" => rejected = {}

(* No panic of a handler reaches the gRPC server, which would end the      *)
(* process.  The client is answered by the status of what the handler      *)
(* panicked with, so by a success when that is OK, or, out of time, by the *)
(* timeout.  A panic in time is counted in the call's event before it is   *)
(* logged.                                                                 *)
PanicIsRecovered ==
    /\ ~(phase["main"] = "panic" /\ at["main"] = 0)
    /\ panicked # "no" /\ Answered =>
          /\ answer = IF timedOut THEN "Canceled" ELSE PanicError(panicked)
          /\ ~timedOut /\ "log" \in enabled => counted

(* "Log every RPC requests": once, also when the call panicked, was        *)
(* rejected or timed out.  The log has the code the client got, save for a *)
(* context's error that a handler returned as it is: the log has Unknown   *)
(* for it, the client Canceled or DeadlineExceeded.  The metrics of a call *)
(* that did not panic in time have what the log has; so has the span of a  *)
(* unary call, save that it has Unknown for OK, and the span of a stream   *)
(* has ended with no code.  All are complete when the answer is given,     *)
(* although the handler of a call that timed out is still running.         *)
Recorded == IF err["main"] \in ContextErrors THEN "Unknown" ELSE answer
RecordedAsAnswered ==
    Answered =>
        /\ err["main"] \in ContextErrors =>
              served # "no" /\ panicked = "no" /\ ~timedOut
        /\ "log" \in enabled => logged = <<Recorded>>
        /\ (panicked # "no" => timedOut) =>
              /\ "prom" \in enabled => metric = <<Recorded>>
              /\ "trace" \in enabled =>
                    span = IF kind = "stream" THEN "ended"
                           ELSE IF answer = "OK" THEN "Unknown" ELSE Recorded

(* A handler whose context has no payload map with the entry's name is one *)
(* of a stream that nothing but panic and timeout stands in front of.      *)
EntryReachesHandler ==
    served = "withoutEntry" => kind = "stream" /\ enabled \subseteq {"timeout"}

(* The two goroutines of a call are in the payload map at once only when   *)
(* the logging reads it for a call that timed out, whose handler goes on   *)
(* writing.  Every other access of a call excludes the others, by the      *)
(* order of the calls alone.                                               *)
RaceNeedsTimeout ==
    access["worker"] # "none" /\ access["main"] # "none" =>
        timedOut /\ Link("main") = "log" /\ access["main"] = "read"

(* The chain is an accounted call: in every configuration and for every    *)
(* way through it, the code the client gets tells whether a guard rejected *)
(* the call or how its handler ended, and one record of the call is in the *)
(* log by then, with this code or, for a context's error that the handler  *)
(* returned as it is, Unknown.                                             *)
Verdict == IF panicked = "OkStatus" THEN "excused"
           ELSE IF panicked # "no" THEN "panicked"
           ELSE IF served # "no" THEN "returned"
           ELSE IF rejected # {} THEN "rejected" ELSE "open"
Account ==
    INSTANCE AccountedCall WITH
        logging <- "log" \in enabled, limited <- "timeout" \in enabled,
        verdict <- Verdict, records <- logged, outcome <- answer
ImplementsAccountedCall == Account!Spec

(* With the timeout enabled a call is answered even if its handler hangs.  *)
TimeoutAnswers == "timeout" \in enabled ~> Answered

(* "Collect RPC metrics": of every call, those that panicked included.     *)
MetricsOfEveryCall == Answered /\ "prom" \in enabled => Len(metric) = 1

(* "make sure interceptors never panic": Go ends the process when one      *)
(* goroutine writes a map while another one reads or writes it.            *)
NoMapRace ==
    ~(access["worker"] = "write" /\ access["main"] # "none")

(* "Extract the call-scoped entry name": also for streams. *)
StreamHandlerSeesEntry == kind = "stream" => served # "withoutEntry"
=============================================================================
