# rk-grpc: models, checks and proofs

TLA+ models of rk-grpc, written from the source under `src/`: the transparent
proxy and its rules, the timeout interceptor, the interceptor chain, the life
of a `GrpcEntry`, and a call from the browser client that the repository ships
for its grpc-web server. TLC checks them on small instances, TLAPS proves the
most important results for every instance.

## 1. The system

A `GrpcEntry` (`src/boot/grpc_entry.go`) is one gRPC server and one http
server with a grpc-gateway in front of it, on one port (behind a cmux) or on
two. `RegisterGrpcEntryYAML` builds it from a configuration; `Bootstrap`
starts it and returns; `Interrupt` stops it. Around every gRPC handler sits a
chain of interceptors (`src/middleware/`), and a method that no service
implements goes to the transparent proxy (`src/boot/proxy_entry.go`).

| Part | State it keeps | Operations | Interacts with | Hard behaviour | Correct when |
|---|---|---|---|---|---|
| proxy handler (`handler`, `forwardServerToClient`, `forwardClientToServer`) | loop round, two error channels of capacity 1, a frame per pump, the client context | director, dial, receive and send on either stream, half-close, status and trailer, cancel | two gRPC streams, the director | three goroutines, `select`, end of either side at any moment | it behaves as one duplex pipe and leaves no goroutine behind |
| proxy rules and director (`rule`) | patterns, a shared `rand.Rand` | match by IP, path, header; dial a destination | the proxy handler | shared random source, a connection per call | the first matching rule decides; no panic |
| timeout interceptor | `unaryTimeoutCtx` / `streamTimeoutCtx` | five closures handed to rk-entry's `WaitFunc` | the rest of the chain, in another goroutine | the handler outlives its call and shares memory with it | an answer in bounded time, and it is the handler's or the timeout's |
| interceptor chain | the call's payload map, event, metrics, span | enter, pass on, reject, record, recover | each other, by nesting and by the payload map | panics, rejections, two goroutines below the timeout | every call is logged and measured once, by the error its handler returned, and no panic escapes |
| call context (`common.go`, `context.go`, `wrappers.go`) | payload map in the context | wrap, add, get | interceptors and handlers | no lock on the map | the entry's data reach the handler |
| entry lifecycle | listeners, two servers, `bootstrapLogOnce` | `Bootstrap`, its goroutine, `startGrpcServer`, `startHttpServer`, `Interrupt` | net, cmux, grpc, http | `Interrupt` overtakes the boot goroutine; servers close each other's listener | ports come back, calls are drained, the process survives |
| YAML registration | entries | options from configuration | all of the above | the order of interceptors | see the chain |
| grpc-web client (`src/example/boot/grpc-web`) and the origins the server permits (`grpc_web.go`) | the `XhrIo` with its request and timer, the stream parser, the last message, what the page was told | `greeter` of two clients, the events of the request, the timer, cancel | XMLHttpRequest, the grpc-web server | pieces of a response, four ways in which a request ends, listeners that throw, sizes | a page is answered once, with what the response means |
| gateway options, error builders, raw codec, `ProxyEntry`, http middlewares | none that changes | pure functions and wrappers | - | - | - |

The last row and the other generated code are not modelled; `PROJECT.json` gives the
reason for each, and lists every hazard at its line.

## 2. Modules

| Module | Models | Notes |
|---|---|---|
| `RpcRelay` | nothing in the code: the abstract duplex pipe a caller and a backend may rely on | abstract specification of the proxy |
| `ProxyStream` | one proxied call, `proxy_entry.go:471-576` | `Relay == INSTANCE RpcRelay WITH outcome <- RelayOutcome` |
| `ProxyStreamProofs` | theorems about `ProxyStream` | |
| `ProxyDirector` | registration of the proxy's rules, and the director several calls use at once | `Configs`, `Requests`: any set of configurations and of what calls bring |
| `ProxyDirectorProofs` | theorems about it | |
| `TimeoutInterceptor` | one call through `middleware/timeout`, word by word | `Fields` chooses unary or stream |
| `TimeoutInterceptorProofs` | theorems about it | |
| `AccountedCall` | nothing in the code: one verdict of the chain, told to the client and to every link that counts the call | abstract specification of the chain |
| `InterceptorChain` | one call through every configuration of the chain | `Optional` names the middlewares that may be enabled; `Account == INSTANCE AccountedCall WITH verdict <- Verdict, ...` |
| `InterceptorChainProofs` | theorems about it | |
| `EntryLifecycle` | `Bootstrap`, serving, `Interrupt` | `MaxCalls` bounds the calls in flight |
| `EntryLifecycleProofs` | theorems about it | |
| `UnaryCall` | nothing in the code: what a page may rely on | abstract specification of the browser's call |
| `GreeterMessage` | the two messages and the protobuf runtime under them: writer, reader, fields | operators |
| `GrpcWebFraming` | base64, frames, the stream parser, codes, delays, headers | operators |
| `GrpcWebCall` | one call of a page | `Call == INSTANCE UnaryCall WITH outcome <- answers`; `Scenarios`: any set of what a page meets |
| `SequenceFolds` | nothing in the code: theorems about `FoldLeft` for any operator | `Parse == INSTANCE SequenceFolds WITH Op <- ParseByte` for bytes; `Hear`, `Ask`, `Pages` for frames and headers |
| `GrpcWebBytesProofs` | theorems about `GreeterMessage` and `GrpcWebFraming`: base64, the parser in pieces, messages written and read, headers | |
| `GrpcWebCallProofs` | theorems about the call | |
| `MC*` | instances for TLC | one `.cfg` per run |

Definitions named as mutants in their comments are variants with a plausible
bug. They are used by no specification; each one replaces the definition it
stands in front of to show that a property can fail.

### ProxyStream

The handler's position is `hpc` (director, dial, select, returned) and `iter`
its loop variable. Each pump has its position, the number of messages it has
received, its frame, and an error channel that holds at most one error
(`s2cErrChan`, `c2sErrChan`). `up` and `down` are what caller and backend have
sent, `toBackend` and `toCaller` what was handed on. One action is one call on
a stream or one branch of the `select`: `S2CRecv`, `S2CRecvFail`, `S2CSend`,
`S2CSendFail`, their `C2S` counterparts with `C2SHeader`, `DirectorRefuse`,
`DirectorAccept`, `Dial`, `DialFail`, `SelectS2CEof`, `SelectS2CError` and
`SelectC2S`. The branch `SelectS2CEof` contains the `CloseSend` the code calls
there; `SelectC2S` contains `SetTrailer` and the return.

Caller, backend and the two gRPC streams are the environment. A caller may
send, half-close and leave at any moment; a backend may send, and end well or
badly at any moment, also before it has read everything. What `RecvMsg` and
`SendMsg` may return in each situation is stated in `S2CRecvError`,
`C2SRecvError` and the two send failures: in particular a send on a client
stream that is over returns `io.EOF`, the same value as the caller's
half-close, and a message above the receive limit ends the stream. Payloads
are opaque; the raw codec does not change them.

### ProxyDirector

`Register` is one round of the loop over the configured rules: it sorts a rule
into the patterns of its kind or drops it, when its type is unknown. Then each
call of `Calls` runs the director in steps of its own: `Skip` a pattern that
does not match, `KindIsOver` behind the last one, `Match` and `Draw` for the
shared random source, `MatchNoDest` for `Intn(0)`, `Dial`. `RemoteIp` is
`GetRemoteAddressSet`, with its text for `::1`; `Headers` is the map built from
the configured pairs. CIDRs and regular expressions are names whose extension
is a constant; those outside `DOMAIN Subnet` and `DOMAIN Matched` do not parse.
`rand.Rand` has no lock: of two draws that overlap each may panic
(`DrawPanic`), and none can return anything but an index in range. On a gRPC
server a call always has a method and metadata, so that the two `!ok` returns
cannot happen.

### TimeoutInterceptor

Two goroutines share `toCtx`. An interface value of Go is two words, and
nothing orders the accesses after the timer has fired, so every word is
loaded or stored by a step of its own, in any order. `WaitFunc` belongs to
rk-entry and is modelled from the five closures and their tests: run
`NextHandler` in a goroutine, recover its panic into one channel, signal its
end on another, select over both and a timer.

### InterceptorChain

`Chain` is the order of the `Add*Interceptors` calls in
`RegisterGrpcEntryYAML`. A goroutine goes down (`Enter`, then `Pass` or
`Reject`), runs the handler, and comes back up (`After`, `LogRead`,
`LogAfter`) or unwinds a panic until `RecoverPanic`. Below the timeout a
second goroutine does so. `access` tells when a goroutine is inside an access
of the payload map. What the option sets of rk-entry decide is free. The
answer of a call that timed out is taken to be the timeout error here;
`TimeoutInterceptor` has the race about it.

What goes up the chain (`err`) is an error, not a code: a status, `"OK"` for
nil, or an error without a status (`Raw`), of which the errors of a context that
ended are two. Three places turn it into a code, each in its own way. Logging
and metrics take `status.Code` (`StatusCode`), which is Unknown for every error
without a status. The gRPC server sends `status.FromContextError`
(`ServerCode`), which knows the two of a context; grpc-go v1.59 (`go.mod:20`) is
external. The span of a unary call takes the status of an error, and for a
success the number 2 of OpenTelemetry's `codes.Ok`, which read as a gRPC code is
Unknown; the span of a stream ends without one (`SpanEnd`). A panic becomes the
status of what the handler panicked with (`PanicError`): Internal if that has
none, and nil if its own code is OK. Left out is an error that is not nil and
whose own status is OK.

The mapping to `AccountedCall` reads the verdict of a call from what happened
at its end of the chain (`Verdict`: a guard rejected it, the handler returned,
or it panicked, or did so with the status OK and is excused), the records from the logging's and the outcome from the
client's answer. A rejection, a return and a panic of the handler are
`Decide`, also when they come behind the timeout's answer; `LogAfter` is
`Record`, `Answer` is `Answer`, and everything else stutters. The pipe from the
verdict to the client is exact; the record may differ from it in one way
(`LoggedAs`): Unknown, for a handler that returned and whose client is told
Canceled or DeadlineExceeded.

### EntryLifecycle

`main` is the goroutine that calls `Bootstrap` and later `Interrupt`, `boot`
the goroutine `Bootstrap` leaves behind, `grpcServe` and `httpServe` the two
servers' goroutines. On one port `grpcLis` is the root listener under the
cmux, and closing the gateway's listener closes it, too. `net.Listen` and the
registration of a gateway function may fail, and so may `Accept` on the open
listener of a shared port (`MuxFails`): `tcpL.Serve()` then returns an error
that is not tolerated, and the boot goroutine finishes the event, if nobody has,
and ends the process (`MuxFail`). `ShutdownWithError` panics, and
no goroutine of these recovers it: `crashed` ends the process. Two kinds of
calls are in flight, `rpcs` and gateway requests, which need the gRPC server.

### GreeterMessage, GrpcWebFraming, GrpcWebCall

The client is example code: `client.js` with the generated
`greeter_grpc_web_pb.js` and `greeter_pb.js`, and `bundle.js`, which holds
copies of these three, google-protobuf and grpc-web, and is what the page
loads. The names of grpc-web are those of the minified bundle: `X` is the
stream of a call, `pc` the `XhrIo`, `Ea` the parser, `Oc` makes the request and
`Pc` connects the callback. Where a definition stands for code that is in the
bundle and in its own file, the map of `PROJECT.json` names one of the two.

`GreeterMessage` works on bytes and UTF-16 code units. A message is its array;
`null` stands in it for a field set to the empty text. Reading throws where the
runtime's assertions fail. Recursion is written with recursive functions of one
argument, a place in the bytes. `WellFormed`, `Utf8Size` and `FieldSize` at its
end are the reference that `RequestIsWhole` measures the code by: they write and
read nothing.
`GrpcWebFraming` has base64 with a pad inside of the text, the parser as a fold
over bytes, and the headers in the order in which they are set; a browser joins
those whose names differ in case only (`RequestHeaders`, which folds
`SetRequestHeader`).

`GrpcWebCall` makes each event of JavaScript one action: `OnLoad` (everything
from the page to `send`), `Receive` and `Finish` (the events of the response,
with the listener that decodes, parses and reports), `LoseConnection`,
`Timeout`, `Cancel`. A scenario is what a run meets and no step changes:
request, metadata, api, deadline, origin and response. The environment
decides how many characters each event shows and when the connection is lost.
`open` is the request that the `XhrIo` has, `ending` what took it away. A page
of another origin sees a response only where `ToAllowOriginFunc` of the server
permits it (`Permitted`). `Trailers` gives what the payload of a trailer says,
and `says` of a scenario what each frame of its response means; `MeaningAssumption`
states that codecs and `says` agree for a response made of groups and frames
(`sound`), and TLC evaluates it for each of the scenarios.

## 3. Runs

| Run | Question | Bounds |
|---|---|---|
| `proxy_call` | Do caller and backend receive and learn the right things, and only those, in every interleaving? Is the proxy a duplex pipe, and do the handler and both pumps end? | 2 messages each way, two ordinary payloads and one too large |
| `director_routing` | Is every call routed, refused or failed as the rules say? | two calls, five requests, 97 configurations of nine rules |
| `director_loopback` | Does a rule by address match every address in its CIDR? **Violated** | as above |
| `timeout_unary` | Is a call answered in time, with its own result, and is a panic kept? | three results, one call |
| `timeout_race` | Is a call that timed out answered with the timeout? **Violated** | as above |
| `interceptor_chain` | Is every call logged, measured and answered by the error its handler returned, guarded, recovered, and answered when its handler hangs? Does the chain implement `AccountedCall`? | all 256 configurations, unary and stream |
| `chain_metrics` | Is every call measured? **Violated** | as `interceptor_chain` |
| `chain_map_race` | Is the payload map ever accessed twice at once? **Violated** | as `interceptor_chain` |
| `chain_stream_entry` | Does every stream handler find its entry's name? **Violated** | as `interceptor_chain` |
| `entry_lifecycle` | Does an entry drain, stop in order and give its ports back? | two calls of each kind |
| `entry_never_panics` | Does an entry with free ports ever end the process? **Violated** | one call of each kind |
| `web_call` | Is a page answered once, with what the response means, and is what it sends whole? | 232 scenarios, the response in every division into pieces |

Why the bounds suffice. A pump holds one message at a time, so two messages
give one handed on or held and one behind it, each of which may be the one
that is too large; the proofs cover every number. Only positions are compared, never contents,
so two ordinary payloads tell any swap or repetition apart. The timeout model
has one call, as its state is per call. The chain is enumerated completely.
Two calls suffice for the race of the director; its rules include one that does
not parse, one of an unknown type, one without destinations, one with an empty
destination, an overridden, a malformed and an upper-case header pair, in every
order of two. Calls in flight matter as none, one and more than one. The scenarios of
`web_call` are one call with everything usual, and variations of it: eleven
bodies, each in one flush and in one flush per frame (a message of a newer
server with a group and unknown fields, a tag of six bytes, a message that is
cut, two messages, an error behind a message or alone); four responses that are
not well-formed and an unreadable status in the headers; eight HTTP codes with
three content types; texts at every boundary of UTF-8 and of a size, with whole
and half surrogate pairs; deadlines that are over, near, at the limit of the
timer and beyond; metadata that grpc-web overrides, that differs from its
names in case only, or that is a `grpc-timeout` of the page; both apis. Every piece of a response may be cut after any
character. Deadlock is
off in all runs: a call, or a process, ends.

What the properties say, in short:

* `InOrder`, `HalfCloseIsComplete`, `StatusIsComplete`, `AbortIsJustified`:
  the pipe's contract. The interesting cases are a backend that ends while the
  caller still sends (the pump's `SendMsg` returns `io.EOF`, the handler calls
  `CloseSend` and waits in its second round for the status) and a half-close
  taken from its channel behind the status. `AbortIsJustified` tells the causes
  apart. Behind a send to the caller that failed the handler calls `Trailer()`
  too early, which gRPC does not define: the property says that the caller has
  left then, so that what it returns (not modelled) reaches nobody.
* `NeverFallsThrough`: the statement behind the loop is unreachable, as its
  text says.
* `LeaveEndsCall`, `BackendEndsCall`, `PumpsEnd`: nothing waits for ever,
  although one of the two channels is read at most once.
* `RoutedByRules`, `RefusedUnmatched`, `PanicNeedsCause`: the loops, lists and
  fall-throughs of the director agree with a definition that has none of them
  (`Deciding`, `Passes`, `Routes`), whatever other calls do.
* `FinishedAnswer`, `PanicIsKept`, `AlwaysAnswers`: what the timeout may and
  may not change.
* `RecordedAsAnswered`, `PanicIsRecovered`, `ImplementsAccountedCall`: each
  interceptor records a call once and says of it what the client is told, in
  every configuration; there is one verdict, and no record from before it. The
  exceptions are part of the statements: a context's error that the handler
  returned as it is, which is recorded as Unknown, and the span, which has
  Unknown for a success and nothing for a stream. A panic ends in the log and in
  the answer, never outside of the chain.
* `GuardsBeforeHandler`, `EntryReachesHandler`, `RaceNeedsTimeout`,
  `TimeoutAnswers`: a handler runs behind every guard, and a unary one with the
  entry in its context; two goroutines are inside of the payload map at once
  only with a timeout in the chain; and a hanging handler is answered by it.
* `EventFinishedOnce`, `GatewayHasBackend`, `InterruptDrains`,
  `CleanWithTwoPorts`, `InterruptEnds`, `PortsReleased`: start and stop. The
  event is finished by whichever comes first, a failure to listen, that of the
  shared port or the end of `Bootstrap`.
* `EndedIsAnswered`, `DeadlineAnswers`, `ImplementsUnaryCall`: a request that
  ends is an answer, one with a deadline ends, and there is one answer whatever
  comes together. The exceptions are part of the statements: the page's own
  cancel, a request that cannot be opened or sent, and a `grpc-message` in the
  headers that does not decode.
* `AnswerIsFaithful`: however a response is cut, the page sees what it means as
  a whole (`Expected`, which knows no pieces, parser or events: the first error
  of the frames, the HTTP status and the headers, or else the last message).
  Decoding, parsing and deserializing of the whole text are compared with what
  the scenario says each frame means by `MeaningAssumption`.
* `RequestIsWhole`: the request, decoded, is one frame whose size is that of
  its message, and the message has the page's text in as many bytes as UTF-8
  has for it, tag and size of the field included. Its headers keep every name of
  the page's metadata but the deadline, say that it is text, and announce a
  deadline that is ahead, which the server reaches before the page's timer.

### Fairness

* `ProxyStream`: the handler and the pumps take a step that stays possible
  (Go runs runnable goroutines, and a `RecvMsg` or `SendMsg` on a stream that
  has ended returns), and a caller that has not left reads what the proxy
  sends it. A send to the backend has no fairness: flow control blocks it as
  long as the backend does not read. Neither end is assumed to send, half-close, leave or end: where
  one does, the property says so.
* `ProxyDirector`: a call in the director goes on; it waits for nothing.
* `TimeoutInterceptor`, `InterceptorChain`: the interceptors' own steps and
  the timer happen. A handler may hang for ever.
* `EntryLifecycle`: goroutines run and accepted calls end. The second half is
  an assumption about callers that the code does not enforce: `Shutdown` and
  `GracefulStop` have no deadline. `Interrupt` may never be called, and
  `Accept` may never fail.
* `GrpcWebCall`: a timer that is set fires. Nothing is assumed of the network
  or of the server, so only a call with a deadline is sure of an answer.

## 4. What the code does differently

Each of the first six is a run that TLC must find violated.

1. `timeout_race`: `toCtx` is read behind the timeout (line 47) while the
   abandoned handler may still write it (line 114). A call that timed out may
   return the handler's answer, or a response together with an error, or an
   interface of mixed words. The tests expect `nil` and `defaultResponse`.
2. `entry_never_panics`: `startGrpcServer` tolerates "mux: server closed"
   only. `Interrupt` right behind `Bootstrap` makes `Serve` return
   `grpc.ErrServerStopped`; on a shared port the closed root listener may
   surface as "mux: listener closed" before `GracefulStop`. Both end the
   process. The tests sleep for a second in between.
3. `chain_map_race`: the payload map has no lock, and a handler that outlives
   its timeout writes it while the logging of the same call reads it.
4. `chain_metrics`: metrics and spans are completed by plain statements below
   the panic interceptor: a call that panics has neither.
5. `chain_stream_entry`: the stream interceptors of panic and timeout fill a
   context and then pass on the stream without it.
6. `director_loopback`: the address `::1` is turned into the text `localhost`
   before rules by address see it, and no CIDR contains that.

Found while modelling, and part of the models or of their environment, without
a run of their own:

* A handler that returns a context's error as it is, as handlers do with
  `ctx.Err()`, is logged and measured as Unknown (`log/server_interceptor.go:60,
  111`, `prom/server_interceptor.go:40, 73`), while its client gets Canceled or
  DeadlineExceeded (`ContextErrors`).
* The span of a unary call that succeeded has 2 as its `grpc.code`
  (`tracing/server_interceptor.go:66`), and the attributes collected for the end
  of a stream are dropped (114-128).
* A handler that panics with a status whose code is OK has its call answered as
  a success (`panic/interceptor.go:34-39`).
* A list of origins permits none, `*` included: the function `ToAllowOriginFunc`
  returns for a list ends in `return false`, whatever matched
  (`grpc_web.go:46-55`), while `README.md:598` has `[*]` for the default. Only the
  empty list permits, and then everything (`AllowOrigin`). No property is about
  it: the properties of `web_call` hold with either function.
* `pingIntervalMs` is multiplied by `time.Microsecond` (`grpc_web.go:65`), and
  `CompressMode` is read and never used.
* A request that cannot be opened or sent is reported before the client has
  connected the callback (`bundle.js:1056`, then 1077): the page hears nothing.
  This is the `opens` of a scenario.
* A deadline that is over sends no `grpc-timeout` and sets no timer
  (`bundle.js:1074`): the call then has no deadline at all.
* A `grpc-message` that `decodeURIComponent` rejects throws out of the
  listener. In a trailer the request stays open until the timer; in the headers
  the error is lost (`HeaderLost`).
* A half of a surrogate pair becomes bytes that are no UTF-8, or none
  (`bundle.js:909`); `RequestIsWhole` states its text for well-formed texts.
* Metadata whose name differs from one of grpc-web's in case only does not give
  way to it: the browser joins the two values into one header.
* A page's own `grpc-timeout` is sent as it is when it gave no `deadline` that
  is ahead (`bundle.js:1074`): the server then has a deadline and the page has
  no timer. `RequestIsWhole` says so.

The rule types are compared exactly: `IpBased`, as `example/boot/proxy/README.md`
spells it, is dropped without a word (`IpTypo` in `MCProxyDirector`).

## 5. Proofs

Checked by TLAPS for every value of the constants, from the named assumptions
only (`MsgAssumption`, `BoundAssumption`; `FieldsAssumption`;
`OptionalAssumption`; `MaxCallsAssumption`; `ConfigAssumption`, `RequestAssumption`,
`TextAssumption`; `ScenarioAssumption`, `DelayAssumption`, `MeaningAssumption`,
`RequestTextAssumption`). TLC evaluates each of them on the instances of the runs.
`RequestTextAssumption` bounds the text of a page by the longest string of V8,
2^29 - 24 code units. Each takes four bytes at most, so that a message has less
than 2^31 of them and the signed shifts of the bundle do not show.

* `ProxyStreamProofs`. `Inv` is inductive. Its parts are the bookkeeping of
  each pump between two calls (`UpInv`, `DownInv`: what was handed on is a
  prefix, and the frame holds the next message), the meaning of an error in a
  channel (`ChanInv`: an `eof` stands for the half-close or for a stream that
  is over; the backend's status stands behind all its messages), and the
  states of handler, pumps and backend that coexist (`HandlerInv`). The
  properties alone are not inductive: `StatusIsComplete` depends on what the
  status in the channel meant when the pump put it there. From `Inv` follow
  `TypeCorrect`, `MessagesInOrder`, `HalfCloseComplete`, `StatusComplete`,
  `AbortJustified` and `LoopReturns`. `ProxyImplementsRelay` proves that the
  initial state and every step map to `RpcRelay`, with one lemma for each kind
  of step.
* `ProxyDirectorProofs`. `Inv` adds to the properties that the patterns of a
  kind are the registered rules of its type in order (`PatternInv`), and that a
  call in a loop was passed on by the kinds before and matches no pattern before
  its cursor (`LoopInv`). `DecidesHere` and `NoneDecides` turn that into
  statements about the configuration; `OneCall` reduces a step to the call that
  takes it. `Routed`, `RefusalRight` and `PanicExplained` follow for every
  configuration, any number of calls and any requests.
* `InterceptorChainProofs`, for every set of middlewares that may be enabled.
  `IInv` says where each goroutine can be and which positions go together
  (`PlaceInv`, `TogetherInv`); that the verdict is open as long as a goroutine
  goes down, and that an error carried up tells it, unless it is the timeout's
  (`VerdictInv`, `Carried`); that a link has recorded nothing until main passes
  it, and then what it makes of main's error (`RecordInv`); and who holds a payload map or is inside of
  one (`PayloadInv`, `AccessInv`). The properties alone are not inductive: they
  speak of the end of a call, and only the error that main carries on its way
  up ties the handler, the records and the answer together.
  `ContextErrorIsReturned` says that a context's error on its way up is a
  handler's own, returned in time: the one case in which record and answer
  differ. From `IInv` follow
  `TypeCorrect`, `GuardsFirst`, `PanicRecovered`, `RecordedRight`,
  `EntryReaches` and `RaceExplained`; `ImplementsAccount` maps each step to one
  of `AccountedCall`.
* `TimeoutInterceptorProofs`. The argument is ownership: until the timer's
  case is taken only the worker stores (`StoreInv`), its signal stands behind
  its last store and the caller loads behind the signal (`PhaseInv`,
  `LoadInv`). `FinishedAnswerHolds` and `PanicKept` follow, for unary calls
  and streams.
* `EntryLifecycleProofs`. `OrderInv` says what each phase of `Interrupt` has
  stopped and drained, `ListenerInv` who can have closed a listener, and
  `EventInv` who can have finished the event. `EventOnce`, `GatewayBackend`,
  `Drained` and `CleanShutdown` follow, for any number of calls.
* `SequenceFolds` and `GrpcWebBytesProofs` have what the call's proofs need of
  its operators. The library's induction takes an operator as a parameter, which
  no installed prover can instantiate; here induction is over the set of the
  numbers that have a property, by the well-foundedness of `<` on `Nat`
  (`SetInduction`). The recursive function behind `FoldLeft` gets its existence
  and its equation that way (`FoldsExists`, `RunStep`), and with them
  `FoldConcat` and `FoldStays` for any operator. `DecodeInPieces`,
  `ParseInPieces` and `ParseAhead` say that base64 text may be cut between two
  groups, bytes anywhere, and that frames may be given out early; `ReadInPieces`
  puts them together for a text that is read piece by piece.
* The other half of `GrpcWebBytesProofs` is about what is written and read again.
  A recursive function of TLA+ is a `CHOOSE`: nothing follows from its
  definition until a function is known to exist that satisfies it.
  `RecursionExists` proves that for any definition whose value at `x` depends on
  values at places of a lower rank only. The rank is what remains of the bytes,
  so that each reader must be shown to move ahead or throw (`ReadMoves`,
  `ScalarSkips`, `GroupStepMoves`): also a group that nests in another, where the
  function calls itself twice and the second place is the result of the first.
  `CharsAre`, `GroupIs` and `FieldsAre` are the equations of `DecodeString`,
  `SkipGroup` and `DeserializeBinary` that result, for all bytes.
  With them `DecodeText` follows from one fact about each character
  (`CharacterReads`: one to four bytes, and a pair of surrogates as one), by
  induction from the end of the text to its beginning; `EncodedSize` counts its
  bytes; `ReadBack` reads the varints of tag and size; and `MessageReadBack`
  puts them together. `DecodeEncoded` is the same for base64, group by group, and
  `FrameRead` for the four bytes of a frame's size. `SetHeaderIs`,
  `DeleteHeaderIs` and `RequestHas` say what the map of headers has after each of
  its operations, and what the browser makes of it.
* `GrpcWebCallProofs`, for every set of scenarios and every meaning of trailers.
  `CallInv` adds to `EndedIsAnswered` that the flag of
  the callback and the answers go together while the request is there: without
  it a second error could be an answer again, and an end no answer. `Settled`
  says what a report leaves of the answers for either api, `CompletedAnswers`
  that each way through the end of a response answers. `Answered` and
  `ImplementsCall` follow, the latter by mapping each step to one of
  `UnaryCall`. `TypeInv` adds to the types that characters are taken in whole
  groups and that a parser which is not broken keeps no frame from one event to
  the next; `TypeCorrect` follows. `FaithInv` ties an open call to its text:
  the parser is the one that has read the text taken so far as a whole, its
  frames given out, and there is a code, the first error of those frames, which
  the callback or the promise was told, and the last message of those frames is
  kept (`SoFar`, `Told`). `AnswerIsFaithful` alone says nothing of a call that is
  open. `NextPiece` takes the invariant over one event, `CompletedTells` over
  the end of the response; `VerdictIsExpected` turns the first error and the
  last message into `Expected`. `MeaningAssumption` gives that the whole text is
  made of groups and frames (`SoundText`) and what its frames say. `Faithful`
  follows: for every response, and every division of it into pieces. `SentInv`
  says that what was sent is what the scenario asks for, in the text format of
  both stubs, and that a timer that is set is the one of its deadline: without
  the latter a step could set a timer of which the headers say nothing.
  `HeadersTell` and `BodyCarries` say what such a request has, `WholeRequest`
  follows: for every text, metadata and deadline.

Only model-checked are the liveness properties: fairness and ENABLED are beyond
the prover. Every type invariant, safety invariant and refinement of the passing
runs is a theorem.

## 6. Not modelled

rk-entry, grpc-go, net/http and cmux appear as environments. Metadata and
status messages are abstracted to what a property tells apart. HTTP/2 requests
to the gateway, which `http.Server.Shutdown` does not wait for once hijacked,
are left out of `EntryLifecycle`: its gateway requests are HTTP/1. A TLS entry
takes the same steps as one without. Of the browser's client streaming calls,
its interceptors, the `suppressCorsPreflight` and credentials options and
white space in base64 are left out, and of google-protobuf everything that the
Greeter's two messages do not use; the polyfills of the bundle are those of
browsers without the feature, and `Promise` is modelled by what both promise.
Wording, logging and layout are left out.

## 7. Plan

Done, in this order: the proxied call and its abstract pipe; the timeout; the
chain; the lifecycle; the director; their proofs; the browser's call with its
abstract call and proofs; the abstract specification of the chain and the
chain's proofs; types and faithfulness of the browser's call, with the theorems
about folds, base64 and the parser under them; the whole request, with those
about recursion, UTF-8, protobuf and headers.

Next:

1. The connections of the director: a call's connection outlives it. Together
   with `ProxyStream` this gives the life of all calls of an entry.
2. `CallContext`: the metadata helpers and the getters, and the merging of
   incoming and outgoing headers, as operators checked against references.
3. `GatewayOptions`: header matching and marshaller options.
4. The timeout in front of a proxied call (`TimeoutInterceptor` with
   `ProxyStream`): what remains of a call whose caller was answered early.
5. The server's side of `web_call`: the wrapper handler in `Bootstrap`
   (`grpc_entry.go:635-645`) in front of the chain.
6. HTTP/2 gateway requests and the boot goroutine's listeners on a TLS port
   in `EntryLifecycle`.
