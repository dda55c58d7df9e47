----------------------------- MODULE GrpcWebCall -----------------------------
(***************************************************************************)
(* One call of the Greeter from a browser's page, from the page's onload   *)
(* to the answer it shows: client.js, the generated stub                   *)
(* (greeter_grpc_web_pb.js) and grpc-web's call with its XMLHttpRequest    *)
(* (bundle.js, from line 1050).                                            *)
(*                                                                         *)
(* JavaScript runs a handler to its end: the events of the network, the    *)
(* timer and the page's cancel each are one action.  The server and the    *)
(* network are the environment.  They may give the response in any pieces, *)
(* and lose the connection between any two.                                *)
(*                                                                         *)
(* scenario is what a run of the page meets: the text it sends, the api,   *)
(* the options and the names of its metadata, the milliseconds left before *)
(* deadline if the metadata has one, whether the request can be opened and *)
(* sent, where the page comes from, and the response.                      *)
(***************************************************************************)
EXTENDS GreeterMessage, GrpcWebFraming

CONSTANTS Scenarios,   \* set of scenarios
          Trailers,    \* what the payloads of trailers say
          MaxDelay     \* the longest delay of a timer, 2^31 - 1 in browsers

ASSUME DelayAssumption == MaxDelay \in Nat
ASSUME ScenarioAssumption ==
    \A s \in Scenarios :
        /\ s.api \in {"callback", "promise"} /\ s.opens \in BOOLEAN
        /\ s.type \in {"text", "binary", "none", "other"}
        /\ s.text \in Seq(Bad..Pad)
        /\ s.metadata \in Seq(STRING) /\ s.left \in Int

(* The text of a page, no longer than the longest string of V8: a message  *)
(* is then below 2^31 bytes.                                               *)
LongestText == 536870888
ASSUME RequestTextAssumption ==
    \A s \in Scenarios : s.request \in Seq(CodeUnits) /\ Len(s.request) <= LongestText

VARIABLES scenario,
          phase,       \* of the page: loading, or called
          sent,        \* the request: its headers and its body
          open,        \* the XhrIo has its request
          readyState,
          timer,       \* the timer of the XhrIo is set
          taken,       \* characters of the response decoded so far
          parser,
          last,        \* the last message, if any
          errored,     \* the callback was given an error
          cancelled,
          answers,     \* what the page was told
          ending       \* what took the request away from the XhrIo

vars == <<scenario, phase, sent, open, readyState, timer, taken, parser, last,
          errored, cancelled, answers, ending>>

response == <<readyState, taken, parser, last>>

-----------------------------------------------------------------------------
(* Where the page comes from: ToAllowOriginFunc of the server. *)

(* The function made from a list returns FALSE behind its loop, matched    *)
(* or not.                                                                 *)
AllowOrigin(allowOrigins, origin) == allowOrigins = <<>>

(* A browser shows the page nothing of a response that does not permit it. *)
Permitted ==
    \/ scenario.origin = "same"
    \/ AllowOrigin(scenario.allowOrigins, scenario.origin)

-----------------------------------------------------------------------------
(* The stub: two clients, whose format is text whatever the page asks for, *)
(* and the descriptor of their method.                                     *)

(* An option that is not there is null. *)
Option(name, options) == IF name \in DOMAIN options THEN options[name] ELSE "null"

GrpcWebClientBase(options) ==
    [format |-> IF Option("format", options) = "null" THEN "text"
                ELSE Option("format", options)]

GreeterClient(options) == GrpcWebClientBase(Assign(options, "format", "text"))

GreeterPromiseClient(options) == GrpcWebClientBase(Assign(options, "format", "text"))

RequestSerializeFn(request) == SerializeBinary(request)

ResponseDeserializeFn(bytes) == ResponseDeserializeBinary(bytes)

-----------------------------------------------------------------------------
(* Answers to the page. *)

Error(code) == [ok |-> FALSE, code |-> code]

(* client.js shows the error, or the text of the response. *)
Shown(msg) == [ok |-> TRUE, message |-> ResponseGetMessage(msg)]

(* A promise is settled once. *)
Promise(results) ==
    IF answers = <<>> /\ results # <<>> THEN <<results[1]>> ELSE answers

(* Mutant: every result counts, also behind the first. *)
SettleAlways(results) == answers \o results
(* A callback is called with each result. *)
Settle(results) ==
    IF scenario.api = "callback" THEN answers \o results ELSE Promise(results)

(* Mutant: the later error counts. *)
FirstOfLast(code, later) == IF later # 0 THEN later ELSE code
(* Of the statuses that an event reports, only the first error counts:     *)
(* the callback is given one error and no more.  0 is no error.            *)
FirstOf(code, later) == IF code # 0 THEN code ELSE later

OnStatus(code) == IF errored \/ code = 0 THEN <<>> ELSE <<Error(code)>>

(* The listener to "end".  A promise is resolved there in any case, with   *)
(* no message behind an error.                                             *)
OnEnd(failed, msg) ==
    (IF failed \/ (msg # <<>> /\ scenario.api = "promise") THEN <<>>
     ELSE <<IF msg = <<>> THEN Error(UNKNOWN) ELSE Shown(msg[1])>>)
    \o (IF scenario.api = "promise"
        THEN <<Shown(IF msg = <<>> THEN GreeterResponse ELSE msg[1])>> ELSE <<>>)

Report(code) ==
    /\ errored' = (errored \/ code # 0)
    /\ answers' = Settle(OnStatus(code))

ReportAndEnd(code, msg) ==
    /\ errored' = (errored \/ code # 0)
    /\ answers' = Settle(OnStatus(code) \o OnEnd(errored \/ code # 0, msg))

(* Nothing follows for the XhrIo. *)
CleanUp(how) == open' = FALSE /\ timer' = FALSE /\ ending' = how

-----------------------------------------------------------------------------
(* The listener to "readystatechange". *)

Quiet == [code |-> 0, throws |-> FALSE,
          taken |-> taken, parser |-> parser, last |-> last]

OnData(heard, read) ==
    IF read.ok THEN [heard EXCEPT !.last = <<read.msg>>]
    ELSE [heard EXCEPT !.code = FirstOf(@, INTERNAL)]

(* A trailer's grpc-message that is not a text throws out of the listener. *)
OnTrailer(heard, payload) ==
    IF payload = <<>> THEN heard
    ELSE IF Trailers[payload].readable
    THEN [heard EXCEPT !.code = FirstOf(@, Trailers[payload].code)]
    ELSE [heard EXCEPT !.throws = TRUE]

OnFrame(heard, frame) ==
    IF heard.throws THEN heard
    ELSE IF frame.kind = DataKind THEN OnData(heard, ResponseDeserializeFn(frame.payload))
    ELSE OnTrailer(heard, frame.payload)

(* The frames that bytes of the response complete, one after the other. *)
OnBytes(heard, bytes) ==
    LET parsed == ParseChunk(parser, bytes)
    IN  IF parsed.state = "broken"
        THEN [heard EXCEPT !.parser = parsed, !.code = UNKNOWN]
        ELSE FoldLeft(OnFrame,
                      [heard EXCEPT !.parser = [parsed EXCEPT !.frames = <<>>]],
                      parsed.frames)

(* Mutant: also the beginning of a group is taken. *)
OnTextUnaligned(n) ==
    LET chunk  == Base64Decode(SubSeq(scenario.text, taken + 1, n))
        heard  == [Quiet EXCEPT !.taken = n]
    IN  IF n = taken THEN Quiet
        ELSE IF ~chunk.ok THEN [heard EXCEPT !.throws = TRUE]
        ELSE OnBytes(heard, chunk.bytes)
(* The groups of four that came since the last time. *)
OnText(n) ==
    LET upTo   == n - (n % 4)
        chunk  == Base64Decode(SubSeq(scenario.text, taken + 1, upTo))
        heard  == [Quiet EXCEPT !.taken = upTo]
    IN  IF upTo = taken THEN Quiet
        ELSE IF ~chunk.ok THEN [heard EXCEPT !.throws = TRUE]
        ELSE OnBytes(heard, chunk.bytes)

(* What the request of a text client makes of a response that says it is   *)
(* binary: its text, which no number of bytes can be read from.            *)
OnBinary == OnBytes(Quiet, <<>>)

(* With n characters of the response received. *)
OnReadyStateChange(n) ==
    CASE scenario.type = "text"   -> OnText(n)
      [] scenario.type = "binary" -> OnBinary
      [] scenario.type = "none"   -> Quiet
      [] scenario.type = "other"  -> [Quiet EXCEPT !.code = UNKNOWN]

Heard(heard) ==
    /\ taken' = heard.taken
    /\ parser' = heard.parser
    /\ last' = heard.last

-----------------------------------------------------------------------------
(* The page. *)

Init ==
    /\ scenario \in Scenarios
    /\ phase = "loading" /\ sent = [headers |-> <<>>, body |-> <<>>]
    /\ open = FALSE /\ readyState = 0 /\ timer = FALSE
    /\ taken = 0 /\ parser = NewParser /\ last = <<>>
    /\ errored = FALSE /\ cancelled = FALSE /\ answers = <<>> /\ ending = "none"

Request == SetMessage(GreeterRequest, scenario.request)

TimeLeft == IF "deadline" \in ToSet(scenario.metadata) THEN scenario.left ELSE 0

TypedHeaders(headers, format) ==
    IF format = "text"
    THEN SetHeader(SetHeader(headers, "Content-Type", "application/grpc-web-text"),
                   "Accept", "application/grpc-web-text")
    ELSE SetHeader(headers, "Content-Type", "application/grpc-web+proto")

PageHeader(headers, name) == SetHeader(headers, name, "page")

(* The page's metadata, and what grpc-web sets, also over it.  In place of *)
(* the deadline the server is told what is left, if anything is.           *)
Headers(format) ==
    LET typed == TypedHeaders(FoldLeft(PageHeader, NewHeaders, scenario.metadata), format)
        named == SetHeader(SetHeader(typed, "X-User-Agent", "grpc-web-javascript/0.1"),
                           "X-Grpc-Web", "1")
        plain == DeleteHeader(named, "deadline")
    IN  IF TimeLeft > 0 THEN SetHeader(plain, "grpc-timeout", TimeLeft) ELSE plain

Body(format) ==
    LET frame == FrameRequest(RequestSerializeFn(Request))
    IN  IF format = "text" THEN Base64Encode(frame) ELSE frame

(* Browsers would fire a timer with a longer delay at once: none is set. *)
SetsTimer(delay) == delay \in 1..MaxDelay

(* The request with its timer.  Where open or send fails the XhrIo reports *)
(* it at once, before the callback is connected to it: nobody hears it.    *)
Send(client) ==
    IF scenario.opens
    THEN /\ sent' = [headers |-> RequestHeaders(Headers(client.format)),
                  body |-> Body(client.format)]
         /\ open' = TRUE /\ readyState' = 1
         /\ timer' = SetsTimer(XhrTimeout(TimeLeft))
         /\ UNCHANGED ending
    ELSE CleanUp("unsent") /\ UNCHANGED <<sent, readyState>>

(* greeter of either client: rpcCall with a callback, or unaryCall. *)
Greeter(client) == scenario.api = "callback" /\ Send(client)

GreeterPromise(client) == scenario.api = "promise" /\ Send(client)

(* The client that the page makes. *)
Service == GreeterClient(scenario.options)

(* client.js, and a page that does the same with the promise. *)
OnLoad ==
    /\ phase = "loading"
    /\ phase' = "called"
    /\ Greeter(Service) \/ GreeterPromise(GreeterPromiseClient(scenario.options))
    /\ UNCHANGED <<scenario, taken, parser, last, errored, cancelled, answers>>

(* An abort ends the request with its code; one of the page's own cancel   *)
(* is not reported.                                                        *)
Abort(code, how) ==
    /\ Report(IF code = ABORTED /\ cancelled' THEN 0 ELSE code)
    /\ CleanUp(how)

(* The page calls cancel; a promise has none. *)
Cancel ==
    /\ phase = "called" /\ scenario.api = "callback" /\ ~cancelled
    /\ cancelled' = TRUE
    /\ IF open THEN Abort(ABORTED, "cancel")
       ELSE UNCHANGED <<open, timer, ending, errored, answers>>
    /\ UNCHANGED <<scenario, phase, sent>>
    /\ UNCHANGED response

-----------------------------------------------------------------------------
(* The request. *)

(* The headers, and any part of the response behind those before.  What    *)
(* was received and is no whole group is not kept: it comes with the next. *)
Receive ==
    /\ open /\ readyState \in 1..3 /\ Permitted
    /\ \E n \in taken..Len(scenario.text) :
          /\ readyState = 1 => n = 0
          /\ LET heard == OnReadyStateChange(n)
             IN  Heard(heard) /\ Report(heard.code)
    /\ readyState' = IF readyState = 1 THEN 2 ELSE 3
    /\ UNCHANGED <<scenario, phase, sent, open, timer, cancelled, ending>>

(* Mutant: an error status in the headers is left to the trailers. *)
CompletedTrailersOnly(code, msg) ==
    IF scenario.http \notin HttpOk
    THEN Report(FirstOf(code, HttpToGrpc(scenario.http)))
    ELSE IF scenario.header.code \in {-1, 0} THEN ReportAndEnd(code, msg)
    ELSE Report(code)
(* The listener to "complete": the status of HTTP, that of gRPC in the     *)
(* headers if there is one (-1 if not), or the end.                        *)
Completed(code, msg) ==
    IF scenario.http \notin HttpOk
    THEN Report(FirstOf(code, HttpToGrpc(scenario.http)))
    ELSE IF scenario.header.code \in {-1, 0} THEN ReportAndEnd(code, msg)
    ELSE IF scenario.header.readable
    THEN Report(FirstOf(code, scenario.header.code))
    ELSE Report(code)

(* The response is over.  Where the first listener throws the XhrIo does   *)
(* not get further, and keeps its request.                                 *)
Finish ==
    /\ open /\ readyState \in 2..3
    /\ readyState' = 4
    /\ LET heard == OnReadyStateChange(Len(scenario.text))
       IN  /\ Heard(heard)
           /\ IF heard.throws
              THEN Report(heard.code) /\ UNCHANGED <<open, timer, ending>>
              ELSE Completed(heard.code, heard.last) /\ CleanUp("response")
    /\ UNCHANGED <<scenario, phase, sent, cancelled>>

(* The browser fails: status 0, no headers, no text. *)
LoseConnection ==
    /\ open /\ readyState \in 1..3
    /\ readyState' = 4
    /\ Report(HttpToGrpc(0))
    /\ CleanUp("lost")
    /\ UNCHANGED <<scenario, phase, sent, taken, parser, last, cancelled>>

(* Mutant: the request is taken away before abort, which then does nothing. *)
TimeoutUnreported ==
    /\ open /\ timer
    /\ CleanUp("timeout")
    /\ UNCHANGED <<scenario, phase, sent, errored, cancelled, answers>>
    /\ UNCHANGED response
(* The timer fires. *)
Timeout ==
    /\ open /\ timer
    /\ UNCHANGED <<scenario, phase, sent, cancelled>>
    /\ Abort(DEADLINE_EXCEEDED, "timeout")
    /\ UNCHANGED response

Next == OnLoad \/ Cancel \/ Receive \/ Finish \/ LoseConnection \/ Timeout

Spec == Init /\ [][Next]_vars

(* The browser's timer fires. *)
FairSpec == Spec /\ WF_vars(Timeout)

-----------------------------------------------------------------------------
(* Properties. *)

(* Types.  Only whole groups of the text are taken, and a frame never gets *)
(* more bytes than its size.                                               *)
TypeOK ==
    /\ scenario \in Scenarios
    /\ phase \in {"loading", "called"}
    /\ {open, timer, errored, cancelled} \subseteq BOOLEAN
    /\ readyState \in 0..4
    /\ taken \in 0..Len(scenario.text) /\ taken % 4 = 0
    /\ parser.state \in {"kind", "size", "payload", "broken"}
    /\ parser.state # "broken" => parser.frames = <<>>
    /\ Len(parser.payload) <= parser.size \/ parser.state = "size"
    /\ Len(last) <= 1 /\ Len(answers) <= 1
    /\ ending \in {"none", "unsent", "cancel", "response", "lost", "timeout"}

(* The call is a unary call: one answer at most, whatever statuses, frames *)
(* and ends come together, and none behind the page's cancel.              *)
Call == INSTANCE UnaryCall WITH outcome <- answers
ImplementsUnaryCall == Call!Spec

(* The error status in the headers is lost where its message is no text.   *)
HeaderLost ==
    ending = "response" /\ scenario.header.code \notin {-1, 0}
        /\ ~scenario.header.readable

(* A request that the XhrIo has given up is answered, however it ended:    *)
(* response, lost connection or timeout.  Without an answer are the page's *)
(* own cancel, a failed open or send, and HeaderLost.                      *)
EndedIsAnswered ==
    phase = "called" /\ ~open =>
        answers # <<>> \/ cancelled \/ ~scenario.opens \/ HeaderLost

(* What a frame says by itself: a code, and a text if it is a message.     *)
Meaning(frame) ==
    LET read == ResponseDeserializeFn(frame.payload)
    IN  IF frame.kind = TrailerKind
        THEN [code |-> IF frame.payload = <<>> THEN 0 ELSE Trailers[frame.payload].code,
              texts |-> <<>>]
        ELSE IF read.ok THEN [code |-> 0, texts |-> <<ResponseGetMessage(read.msg)>>]
        ELSE [code |-> INTERNAL, texts |-> <<>>]

(* The says of a sound scenario are what was meant by it: the frames that  *)
(* the whole of its text has, each with its meaning.  All messages of its  *)
(* errors are texts.                                                       *)
ASSUME MeaningAssumption ==
    \A s \in Scenarios : s.sound =>
        /\ s.header.code \in {-1, 0} \/ s.header.readable
        /\ s.type = "text" =>
               LET decoded == Base64Decode(s.text)
                   parsed  == ParseChunk(NewParser, decoded.bytes)
                   frames  == parsed.frames
               IN  /\ Len(s.text) % 4 = 0 /\ decoded.ok /\ parsed.state # "broken"
                   /\ s.says = [i \in 1..Len(frames) |-> Meaning(frames[i])]
                   /\ \A i \in 1..Len(frames) :
                         frames[i].kind = TrailerKind /\ frames[i].payload # <<>> =>
                             Trailers[frames[i].payload].readable

(* The status that is no frame: that of HTTP, or the one in the headers. *)
Status ==
    IF scenario.http \notin HttpOk THEN HttpToGrpc(scenario.http)
    ELSE IF scenario.header.code = -1 THEN 0 ELSE scenario.header.code

(* What the response means as a whole: its first error, in the order of    *)
(* the frames, the HTTP status and the status in the headers, or else its  *)
(* last message.                                                           *)
Expected ==
    LET says   == IF scenario.type = "text" THEN scenario.says ELSE <<>>
        errors == {i \in 1..Len(says) : says[i].code # 0}
        told   == {i \in 1..Len(says) : says[i].texts # <<>>}
    IN  IF scenario.type = "other" THEN Error(UNKNOWN)
        ELSE IF errors # {} THEN Error(says[Min(errors)].code)
        ELSE IF Status # 0 THEN Error(Status)
        ELSE IF told = {} THEN Error(UNKNOWN)
        ELSE [ok |-> TRUE, message |-> says[Max(told)].texts[1]]

(* A response that came to its end is answered by what it means, in        *)
(* whatever pieces it was flushed by the server and read by the browser,   *)
(* through base64, frames and protobuf.  Not meant is a response that is   *)
(* not made of groups and frames (~sound).                                 *)
AnswerIsFaithful ==
    ending = "response" /\ scenario.sound => answers = <<Expected>>

(* What is sent is one frame whose size is that of its message, and whose  *)
(* message is the page's text in as many bytes as UTF-8 has for it, at     *)
(* every boundary of code units and sizes.  Its headers say that it is     *)
(* text, unless the page gave another spelling of their name, and carry    *)
(* the page's metadata but not the deadline; the server is told of one     *)
(* that is ahead, and gives up before the page's timer.                    *)
RequestIsWhole ==
    sent.body # <<>> =>
        LET bytes == Base64Decode(sent.body).bytes
            body  == SubSeq(bytes, 6, Len(bytes))
            read  == DeserializeBinary(body)
            told  == DOMAIN sent.headers
            pages == ToSet(scenario.metadata)
        IN  /\ sent.body \in Seq(0..Pad)
            /\ "content-type" \in pages
                \/ sent.headers["content-type"] = <<"application/grpc-web-text">>
            /\ {Lower(name) : name \in pages \ {"deadline"}} \subseteq told
            /\ "deadline" \in told => "Deadline" \in pages
            /\ timer => "grpc-timeout" \in told
            /\ "grpc-timeout" \in told =>
                   \/ TimeLeft <= 0 /\ "grpc-timeout" \in pages
                   \/ sent.headers["grpc-timeout"][1] \in 1..(XhrTimeout(TimeLeft) - 1)
            /\ bytes[1] = DataKind
            /\ Len(body) = ((bytes[2] * 256 + bytes[3]) * 256 + bytes[4]) * 256
                                + bytes[5]
            /\ WellFormed(scenario.request) =>
                   /\ read.ok /\ Equals(read.msg, Request)
                   /\ ToObject(read.msg).message = scenario.request
                   /\ Len(body) = FieldSize(Utf8Size(scenario.request))

(* A call with a deadline that a timer can hold is answered in the end:    *)
(* also one whose server is silent, and one that a listener which threw    *)
(* has left with its request.                                              *)
DeadlineAnswers ==
    (phase = "called" /\ scenario.opens /\ SetsTimer(XhrTimeout(TimeLeft)))
        ~> (answers # <<>> \/ cancelled \/ HeaderLost)
=============================================================================
