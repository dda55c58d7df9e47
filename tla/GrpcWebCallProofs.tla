-------------------------- MODULE GrpcWebCallProofs --------------------------
(***************************************************************************)
(* Theorems about GrpcWebCall, for every set of scenarios: a call is       *)
(* answered at most once and never behind its cancel, every way in which   *)
(* its request ends is an answer, the answer is what the response means,   *)
(* and the request is what the page asked for.                             *)
(***************************************************************************)
EXTENDS GrpcWebCall, GrpcWebBytesProofs

Hear == INSTANCE SequenceFolds WITH Op <- OnFrame

Apis == {"callback", "promise"}

(* Nothing, or one answer. *)
AtMostOne(results) == results = <<>> \/ \E r : results = <<r>>

(* The callback's flag and the answers go together while the request is    *)
(* there; that and EndedIsAnswered are inductive.                          *)
CallInv ==
    /\ scenario \in Scenarios
    /\ phase \in {"loading", "called"}
    /\ {open, errored, cancelled} \subseteq BOOLEAN
    /\ AtMostOne(answers)
    /\ errored => answers # <<>>
    /\ open => (phase = "called" /\ ~cancelled /\ (answers # <<>> => errored))
    /\ phase = "loading" => answers = <<>> /\ ~errored /\ ~cancelled /\ ~open
    /\ EndedIsAnswered

-----------------------------------------------------------------------------
(* Results. *)

LEMMA OneStatus ==
    ASSUME NEW code
    PROVE  /\ AtMostOne(OnStatus(code))
           /\ (~errored /\ code # 0) => \E r : OnStatus(code) = <<r>>
           /\ (errored \/ code = 0) => OnStatus(code) = <<>>
BY DEF AtMostOne, OnStatus

LEMMA JoinEmpty == ASSUME NEW r PROVE <<>> \o <<r>> = <<r>> /\ <<r>> \o <<>> = <<r>>
                                      /\ <<>> \o <<>> = <<>>
OBVIOUS

LEMMA JoinTwo == ASSUME NEW p, NEW q PROVE <<p>> \o <<q>> = <<p, q>>
<1> DEFINE X == {p, q}
           s == <<p>> \o <<q>>
           t == <<p, q>>
<1>1. /\ <<p>> \in Seq(X) /\ Len(<<p>>) = 1 /\ <<p>>[1] = p
      /\ <<q>> \in Seq(X) /\ Len(<<q>>) = 1 /\ <<q>>[1] = q
  OBVIOUS
<1>2. /\ s \in Seq(X) /\ Len(s) = 1 + 1
      /\ \A i \in 1..(1 + 1) : s[i] = IF i <= 1 THEN <<p>>[i] ELSE <<q>>[i - 1]
  BY <1>1, ConcatProperties
<1>3. s[1] = p /\ s[2] = q
  BY <1>1, <1>2
<1>4. t \in Seq(X) /\ Len(t) = 2 /\ t[1] = p /\ t[2] = q
  OBVIOUS
<1> HIDE DEF s, t
<1>5. \A i \in 1..2 : s[i] = t[i]
  BY <1>3, <1>4
<1>6. s = t
  BY <1>2, <1>4, <1>5, SeqEqual
<1> QED  BY <1>6 DEF s, t

(* A callback without an answer takes one result, and one that has failed  *)
(* takes none; a promise takes the first.                                  *)
LEMMA Settled ==
    ASSUME AtMostOne(answers), NEW results,
           scenario.api \in Apis,
           scenario.api = "callback" =>
               IF answers = <<>> THEN AtMostOne(results) ELSE results = <<>>
    PROVE  /\ AtMostOne(Settle(results))
           /\ (answers # <<>> \/ results # <<>>) => Settle(results) # <<>>
           /\ (answers = <<>> /\ results = <<>>) => Settle(results) = <<>>
<1>1. CASE scenario.api = "callback" /\ answers = <<>>
  <2>1. results = <<>> \/ \E r : results = <<r>>
    BY <1>1 DEF AtMostOne
  <2>2. CASE results = <<>>
    <3>1. Settle(results) = <<>>
      BY <1>1, <2>2, JoinEmpty DEF Settle
    <3> QED  BY <1>1, <2>2, <3>1 DEF AtMostOne
  <2>3. ASSUME NEW r, results = <<r>> PROVE Settle(results) = <<r>>
    BY <1>1, <2>3, JoinEmpty DEF Settle
  <2> QED  BY <1>1, <2>1, <2>2, <2>3 DEF AtMostOne
<1>2. CASE scenario.api = "callback" /\ answers # <<>>
  <2>1. results = <<>>
    BY <1>2
  <2>2. PICK r : answers = <<r>>
    BY <1>2 DEF AtMostOne
  <2>3. Settle(results) = <<r>>
    BY <1>2, <2>1, <2>2, JoinEmpty DEF Settle
  <2> QED  BY <1>2, <2>1, <2>2, <2>3 DEF AtMostOne
<1>3. CASE scenario.api = "promise"
  BY <1>3 DEF Settle, Promise, AtMostOne
<1> QED  BY <1>1, <1>2, <1>3 DEF Apis

(* What a report leaves: an error is an answer. *)
LEMMA Reported ==
    ASSUME CallInv, open, NEW code, Report(code)
    PROVE  /\ errored' \in BOOLEAN /\ AtMostOne(answers')
           /\ errored' => answers' # <<>>
           /\ answers' # <<>> => errored'
           /\ code # 0 => answers' # <<>>
<1>1. scenario.api \in Apis
  BY ScenarioAssumption DEF CallInv, Apis
<1>2. scenario.api = "callback" =>
          IF answers = <<>> THEN AtMostOne(OnStatus(code)) ELSE OnStatus(code) = <<>>
  BY OneStatus DEF CallInv
<1>3. /\ AtMostOne(answers')
      /\ (answers # <<>> \/ OnStatus(code) # <<>>) => answers' # <<>>
      /\ (answers = <<>> /\ OnStatus(code) = <<>>) => answers' = <<>>
  BY <1>1, <1>2, Settled DEF CallInv, Report
<1>4. errored' = (errored \/ code # 0) /\ errored \in BOOLEAN
  BY DEF Report, CallInv
<1>5. (~errored /\ code # 0) => OnStatus(code) # <<>>
  BY OneStatus
<1> QED  BY <1>3, <1>4, <1>5, OneStatus DEF CallInv

(* The end is an answer. *)
LEMMA ReportedEnd ==
    ASSUME CallInv, open, NEW code, NEW msg, ReportAndEnd(code, msg)
    PROVE  errored' \in BOOLEAN /\ AtMostOne(answers') /\ answers' # <<>>
<1> DEFINE failed  == errored \/ code # 0
           results == OnStatus(code) \o OnEnd(failed, msg)
<1>1. scenario.api \in Apis
  BY ScenarioAssumption DEF CallInv, Apis
<1>2. /\ scenario.api = "callback" =>
             IF answers = <<>> THEN AtMostOne(results) ELSE results = <<>>
      /\ answers # <<>> \/ results # <<>>
  <2>1. CASE scenario.api = "callback" /\ failed
    <3>1. OnEnd(failed, msg) = <<>>
      BY <2>1, JoinEmpty DEF OnEnd
    <3>2. CASE errored
      BY <3>1, <3>2, <2>1, OneStatus, JoinEmpty DEF CallInv
    <3>3. CASE ~errored
      <4>1. PICK r : OnStatus(code) = <<r>>
        BY <2>1, <3>3, OneStatus
      <4>2. results = <<r>>
        BY <3>1, <4>1, JoinEmpty
      <4> QED  BY <3>3, <4>2 DEF AtMostOne, CallInv
    <3> QED  BY <3>2, <3>3
  <2>2. CASE scenario.api = "callback" /\ ~failed
    <3>1. PICK r : OnEnd(failed, msg) = <<r>>
      BY <2>2, JoinEmpty DEF OnEnd
    <3>2. results = <<r>>
      BY <2>2, <3>1, OneStatus, JoinEmpty
    <3> QED  BY <2>2, <3>2 DEF AtMostOne, CallInv
  <2>3. CASE scenario.api = "promise"
    <3>1. OnEnd(failed, msg) # <<>>
      BY <2>3 DEF OnEnd
    <3>2. CASE errored
      BY <2>3, <3>2 DEF CallInv
    <3>3. CASE ~errored
      BY <2>3, <3>1, <3>3, OneStatus, JoinEmpty
    <3> QED  BY <3>2, <3>3
  <2> QED  BY <1>1, <2>1, <2>2, <2>3 DEF Apis
<1>3. answers' = Settle(results) /\ errored' = failed /\ errored \in BOOLEAN
  BY DEF ReportAndEnd, CallInv
<1> QED  BY <1>1, <1>2, <1>3, Settled DEF CallInv

-----------------------------------------------------------------------------
(* Steps. *)

LEMMA InitInv == Init => CallInv
BY DEF Init, CallInv, AtMostOne, EndedIsAnswered

LEMMA OnLoadInv == CallInv /\ OnLoad => CallInv'
<1> SUFFICES ASSUME CallInv, OnLoad PROVE CallInv'
  OBVIOUS
<1>1. scenario.opens \in BOOLEAN
  BY ScenarioAssumption DEF CallInv
<1>2. PICK client : Send(client)
  BY DEF OnLoad, Greeter, GreeterPromise
<1>3. CASE scenario.opens
  BY <1>2, <1>3 DEF CallInv, OnLoad, Send, AtMostOne, EndedIsAnswered
<1>4. CASE ~scenario.opens
  BY <1>2, <1>4 DEF CallInv, OnLoad, Send, CleanUp, AtMostOne, EndedIsAnswered
<1> QED  BY <1>1, <1>3, <1>4

(* The page's cancel is no answer. *)
LEMMA CancelSilent == CallInv /\ Cancel => UNCHANGED <<errored, answers>>
<1> SUFFICES ASSUME CallInv, Cancel, open PROVE UNCHANGED <<errored, answers>>
  BY DEF Cancel
<1>1. Report(0) /\ scenario.api = "callback"
  BY DEF Cancel, Abort
<1>2. OnStatus(0) = <<>>
  BY OneStatus
<1>3. answers' = answers \o <<>>
  BY <1>1, <1>2 DEF Report, Settle
<1>4. answers \o <<>> = answers
  BY JoinEmpty DEF CallInv, AtMostOne
<1> QED  BY <1>1, <1>3, <1>4 DEF Report, CallInv

LEMMA CancelInv == CallInv /\ Cancel => CallInv'
<1> SUFFICES ASSUME CallInv, Cancel PROVE CallInv'
  OBVIOUS
<1>1. /\ cancelled' = TRUE /\ phase = "called"
      /\ UNCHANGED <<scenario, phase, errored, answers>>
  BY CancelSilent DEF Cancel
<1>2. open' = FALSE
  BY DEF Cancel, Abort, CleanUp, CallInv
<1>3. AtMostOne(answers')
  BY <1>1 DEF CallInv
<1>4. EndedIsAnswered'
  BY <1>1 DEF EndedIsAnswered
<1> QED  BY <1>1, <1>2, <1>3, <1>4 DEF CallInv

LEMMA ReceiveInv == CallInv /\ Receive => CallInv'
<1> SUFFICES ASSUME CallInv, Receive PROVE CallInv'
  OBVIOUS
<1>1. PICK n : Report(OnReadyStateChange(n).code)
  BY DEF Receive
<1>2. /\ open /\ UNCHANGED <<scenario, phase, open, cancelled>>
  BY DEF Receive
<1>3. errored' \in BOOLEAN /\ AtMostOne(answers') /\ (errored' => answers' # <<>>)
      /\ (answers' # <<>> => errored')
  BY <1>1, <1>2, Reported
<1> QED  BY <1>2, <1>3 DEF CallInv, EndedIsAnswered

(* The connection and the timer end the request with an error. *)
LEMMA FailInv ==
    ASSUME CallInv, open, NEW code, code # 0, Report(code), NEW how, CleanUp(how),
           UNCHANGED <<scenario, phase, cancelled>>
    PROVE  CallInv'
<1>1. errored' \in BOOLEAN /\ AtMostOne(answers') /\ answers' # <<>>
  BY Reported
<1> QED  BY <1>1 DEF CallInv, CleanUp, EndedIsAnswered

LEMMA LoseConnectionInv == CallInv /\ LoseConnection => CallInv'
<1> SUFFICES ASSUME CallInv, LoseConnection PROVE CallInv'
  OBVIOUS
<1>1. HttpToGrpc(0) # 0
  BY DEF HttpToGrpc, UNKNOWN
<1> QED  BY <1>1, FailInv DEF LoseConnection

LEMMA TimeoutInv == CallInv /\ Timeout => CallInv'
<1> SUFFICES ASSUME CallInv, Timeout PROVE CallInv'
  OBVIOUS
<1>1. DEADLINE_EXCEEDED # 0 /\ DEADLINE_EXCEEDED # ABORTED
  BY DEF DEADLINE_EXCEEDED, ABORTED
<1>2. Report(DEADLINE_EXCEEDED) /\ CleanUp("timeout")
  BY <1>1 DEF Timeout, Abort
<1> QED  BY <1>1, <1>2, FailInv DEF Timeout

LEMMA HttpErrors == \A http : http \notin HttpOk => HttpToGrpc(http) # 0
BY DEF HttpOk, HttpToGrpc, CANCELLED, UNKNOWN, INVALID_ARGUMENT, DEADLINE_EXCEEDED,
       NOT_FOUND, PERMISSION_DENIED, RESOURCE_EXHAUSTED, FAILED_PRECONDITION,
       ABORTED, UNIMPLEMENTED, UNAVAILABLE, UNAUTHENTICATED

LEMMA CompletedAnswers ==
    ASSUME CallInv, open, NEW code, NEW msg, Completed(code, msg),
           CleanUp("response"), UNCHANGED scenario
    PROVE  /\ errored' \in BOOLEAN /\ AtMostOne(answers')
           /\ errored' => answers' # <<>>
           /\ answers' # <<>> \/ HeaderLost'
<1>1. CASE scenario.http \notin HttpOk
  <2>1. FirstOf(code, HttpToGrpc(scenario.http)) # 0
    BY <1>1, HttpErrors DEF FirstOf
  <2> QED  BY <1>1, <2>1, Reported DEF Completed
<1>2. CASE scenario.http \in HttpOk /\ scenario.header.code \in {-1, 0}
  BY <1>2, ReportedEnd DEF Completed
<1>3. CASE /\ scenario.http \in HttpOk /\ scenario.header.code \notin {-1, 0}
           /\ scenario.header.readable
  <2>1. FirstOf(code, scenario.header.code) # 0
    BY <1>3 DEF FirstOf
  <2> QED  BY <1>3, <2>1, Reported DEF Completed
<1>4. CASE /\ scenario.http \in HttpOk /\ scenario.header.code \notin {-1, 0}
           /\ ~scenario.header.readable
  <2>1. HeaderLost'
    BY <1>4 DEF HeaderLost, CleanUp
  <2> QED  BY <1>4, <2>1, Reported DEF Completed
<1> QED  BY <1>1, <1>2, <1>3, <1>4

LEMMA FinishInv == CallInv /\ Finish => CallInv'
<1> SUFFICES ASSUME CallInv, Finish PROVE CallInv'
  OBVIOUS
<1> DEFINE heard == OnReadyStateChange(Len(scenario.text))
<1>1. open /\ UNCHANGED <<scenario, phase, cancelled>>
  BY DEF Finish
<1>2. CASE heard.throws
  <2>1. Report(heard.code) /\ UNCHANGED <<open, ending>>
    BY <1>2 DEF Finish
  <2>2. errored' \in BOOLEAN /\ AtMostOne(answers') /\ (errored' => answers' # <<>>)
        /\ (answers' # <<>> => errored')
    BY <1>1, <2>1, Reported
  <2> QED  BY <1>1, <2>1, <2>2 DEF CallInv, EndedIsAnswered
<1>3. CASE ~heard.throws
  <2>1. Completed(heard.code, heard.last) /\ CleanUp("response")
    BY <1>3 DEF Finish
  <2>2. errored' \in BOOLEAN /\ AtMostOne(answers') /\ (errored' => answers' # <<>>)
        /\ (answers' # <<>> \/ HeaderLost')
    BY <1>1, <2>1, CompletedAnswers
  <2> QED  BY <1>1, <2>1, <2>2 DEF CallInv, CleanUp, EndedIsAnswered
<1> QED  BY <1>2, <1>3

LEMMA StepInv == CallInv /\ [Next]_vars => CallInv'
<1> SUFFICES ASSUME CallInv, [Next]_vars PROVE CallInv'
  OBVIOUS
<1>1. CASE UNCHANGED vars
  BY <1>1 DEF vars, CallInv, AtMostOne, EndedIsAnswered, HeaderLost
<1> QED  BY <1>1, OnLoadInv, CancelInv, ReceiveInv, FinishInv, LoseConnectionInv,
            TimeoutInv DEF Next

LEMMA CallInvHolds == Spec => []CallInv
<1> QED  BY InitInv, StepInv, PTL DEF Spec

(* A request that the XhrIo has given up is answered, but for the page's   *)
(* cancel, a failed open or send, and an unreadable status in the headers. *)
THEOREM Answered == Spec => []EndedIsAnswered
<1>1. CallInv => EndedIsAnswered
  BY DEF CallInv
<1> QED  BY <1>1, CallInvHolds, PTL

-----------------------------------------------------------------------------
(* Refinement. *)

(* Only a call with its request gives answers, and only the first. *)
LEMMA AnswersOnce ==
    CallInv /\ CallInv' /\ Next =>
        \/ UNCHANGED answers
        \/ open /\ answers = <<>> /\ Len(answers') = 1 /\ UNCHANGED cancelled
<1> SUFFICES ASSUME CallInv, CallInv', Next, answers' # answers
             PROVE  open /\ answers = <<>> /\ Len(answers') = 1 /\ UNCHANGED cancelled
  OBVIOUS
<1>1. Receive \/ Finish \/ LoseConnection \/ Timeout
  BY CancelSilent DEF Next, OnLoad
<1>2. open /\ UNCHANGED <<scenario, cancelled>>
  BY <1>1 DEF Receive, Finish, LoseConnection, Timeout
<1>3. scenario.api \in Apis
  BY ScenarioAssumption DEF CallInv, Apis
<1>4. \/ \E code : Report(code)
      \/ \E code, msg : ReportAndEnd(code, msg)
  BY <1>1 DEF Receive, Finish, LoseConnection, Timeout, Abort, Completed
<1>5. answers = <<>>
  <2> SUFFICES ASSUME answers # <<>> PROVE FALSE
    OBVIOUS
  <2>1. errored
    BY <1>2 DEF CallInv
  <2>2. PICK a : answers = <<a>>
    BY DEF CallInv, AtMostOne
  <2>3. ASSUME NEW results, answers' = Settle(results), scenario.api = "promise"
        PROVE  FALSE
    BY <2>3 DEF Settle, Promise
  <2>4. ASSUME answers' = Settle(<<>>), scenario.api = "callback" PROVE FALSE
    BY <2>2, <2>4 DEF Settle
  <2>5. CASE scenario.api = "promise"
    BY <1>4, <2>3, <2>5 DEF Report, ReportAndEnd
  <2>6. CASE scenario.api = "callback"
    <3>1. \A code, msg : OnStatus(code) = <<>> /\ OnEnd(TRUE, msg) = <<>>
      BY <2>1, <2>6, JoinEmpty DEF OnStatus, OnEnd
    <3>2. \A code : (errored \/ code # 0) = TRUE
      BY <2>1
    <3> QED  BY <1>4, <2>4, <2>6, <3>1, <3>2, JoinEmpty DEF Report, ReportAndEnd
  <2> QED  BY <1>3, <2>5, <2>6 DEF Apis
<1>6. Len(answers') = 1
  BY <1>5 DEF CallInv, AtMostOne
<1> QED  BY <1>2, <1>5, <1>6

(* The call is a unary call: the first state and every step are ones of    *)
(* UnaryCall, with the answers as its outcome.                             *)
THEOREM ImplementsCall == Spec => ImplementsUnaryCall
<1>1. Init => Call!Init
  BY DEF Init, Call!Init
<1>2. CallInv /\ CallInv' /\ [Next]_vars => [Call!Next]_Call!vars
  <2> SUFFICES ASSUME CallInv, CallInv', [Next]_vars PROVE [Call!Next]_Call!vars
    OBVIOUS
  <2>1. CASE UNCHANGED vars
    BY <2>1 DEF vars, Call!vars
  <2>2. CASE Next /\ UNCHANGED answers
    <3>1. UNCHANGED cancelled \/ cancelled' = TRUE
      BY <2>2 DEF Next, OnLoad, Cancel, Receive, Finish, LoseConnection, Timeout
    <3> QED  BY <2>2, <3>1 DEF Call!Next, Call!Cancel, Call!vars
  <2>3. CASE Next /\ ~UNCHANGED answers
    BY <2>3, AnswersOnce DEF CallInv, Call!Next, Call!Answer
  <2> QED  BY <2>1, <2>2, <2>3
<1> QED  BY <1>1, <1>2, CallInvHolds, PTL DEF Spec, ImplementsUnaryCall, Call!Spec
-----------------------------------------------------------------------------
(* Listening: what a listener has heard, and its types. *)

Hearing(heard) ==
    heard = [code |-> heard.code, throws |-> heard.throws, taken |-> heard.taken,
             parser |-> heard.parser, last |-> heard.last]

(* A listener that changes one thing of it. *)
Coded(heard, v)    == [heard EXCEPT !.code = v]
Thrown(heard)      == [heard EXCEPT !.throws = TRUE]
TakenTo(heard, v)  == [heard EXCEPT !.taken = v]
ParsedTo(heard, v) == [heard EXCEPT !.parser = v]
Spoken(heard, v)   == [heard EXCEPT !.last = v]

(* Both have the same, but for these. *)
Same(g, h, but) ==
    /\ Hearing(g)
    /\ "code"   \notin but => g.code = h.code
    /\ "throws" \notin but => g.throws = h.throws
    /\ "taken"  \notin but => g.taken = h.taken
    /\ "parser" \notin but => g.parser = h.parser
    /\ "last"   \notin but => g.last = h.last

LEMMA Changed ==
    ASSUME NEW heard, Hearing(heard), NEW v
    PROVE  /\ Same(Coded(heard, v), heard, {"code"}) /\ Coded(heard, v).code = v
           /\ Same(Thrown(heard), heard, {"throws"}) /\ Thrown(heard).throws
           /\ Same(TakenTo(heard, v), heard, {"taken"}) /\ TakenTo(heard, v).taken = v
           /\ Same(ParsedTo(heard, v), heard, {"parser"}) /\ ParsedTo(heard, v).parser = v
           /\ Same(Spoken(heard, v), heard, {"last"}) /\ Spoken(heard, v).last = v
<1>1. Same(Coded(heard, v), heard, {"code"}) /\ Coded(heard, v).code = v
  BY DEF Hearing, Same, Coded
<1>2. Same(Thrown(heard), heard, {"throws"}) /\ Thrown(heard).throws
  <2> DEFINE w == TRUE
             g == [heard EXCEPT !.throws = w]
  <2>1. w = TRUE /\ Thrown(heard) = g
    BY DEF Thrown
  <2> HIDE DEF w
  <2>2. Same(g, heard, {"throws"}) /\ g.throws = w
    BY DEF Hearing, Same
  <2> HIDE DEF g
  <2> QED  BY <2>1, <2>2
<1>3. Same(TakenTo(heard, v), heard, {"taken"}) /\ TakenTo(heard, v).taken = v
  BY DEF Hearing, Same, TakenTo
<1>4. Same(ParsedTo(heard, v), heard, {"parser"}) /\ ParsedTo(heard, v).parser = v
  BY DEF Hearing, Same, ParsedTo
<1>5. Same(Spoken(heard, v), heard, {"last"}) /\ Spoken(heard, v).last = v
  BY DEF Hearing, Same, Spoken
<1> QED  BY <1>1, <1>2, <1>3, <1>4, <1>5

(* The frames of OnBytes are folded. *)
OnFrames(heard, frames) == Hear!Folded(heard, frames)

LEMMA OnBytesFolds ==
    ASSUME NEW heard, NEW bytes
    PROVE  LET parsed == ParseChunk(parser, bytes)
           IN  OnBytes(heard, bytes) =
                   IF parsed.state = "broken"
                   THEN Coded(ParsedTo(heard, parsed), UNKNOWN)
                   ELSE OnFrames(ParsedTo(heard, Emptied(parsed)),
                                 parsed.frames)
BY DEF OnBytes, OnFrames, Coded, ParsedTo, Emptied, FoldLeft, MapThenFoldSet, Max,
       Hear!Folded, Hear!FoldLeft, Hear!MapThenFoldSet, Hear!Max

(* A frame says something about the code and the last message only. *)
LEMMA OnFrameKeeps ==
    ASSUME NEW heard, Hearing(heard), AtMostOne(heard.last), NEW frame
    PROVE  /\ Hearing(OnFrame(heard, frame))
           /\ OnFrame(heard, frame).taken = heard.taken
           /\ OnFrame(heard, frame).parser = heard.parser
           /\ AtMostOne(OnFrame(heard, frame).last)
<1>1. \/ OnFrame(heard, frame) = heard
      \/ \E m : OnFrame(heard, frame) = Spoken(heard, <<m>>)
      \/ \E d : OnFrame(heard, frame) = Coded(heard, d)
      \/ OnFrame(heard, frame) = Thrown(heard)
  BY DEF OnFrame, OnData, OnTrailer, Spoken, Coded, Thrown
<1> DEFINE Kept(g) == /\ Hearing(g) /\ g.taken = heard.taken /\ g.parser = heard.parser
                      /\ AtMostOne(g.last)
<1>2. ASSUME NEW m PROVE Kept(Spoken(heard, <<m>>))
  BY Changed DEF Same, AtMostOne
<1>3. ASSUME NEW d PROVE Kept(Coded(heard, d))
  BY Changed DEF Same
<1>4. Kept(Thrown(heard))
  BY Changed DEF Same
<1>5. Kept(heard)
  OBVIOUS
<1> HIDE DEF Kept
<1>6. Kept(OnFrame(heard, frame))
  BY <1>1, <1>2, <1>3, <1>4, <1>5
<1> QED  BY <1>6 DEF Kept

LEMMA OnFramesKeep ==
    ASSUME NEW heard, Hearing(heard), AtMostOne(heard.last), NEW frames \in Seq(Frames)
    PROVE  LET g == OnFrames(heard, frames)
           IN  /\ Hearing(g) /\ g.taken = heard.taken /\ g.parser = heard.parser
               /\ AtMostOne(g.last)
<1> DEFINE n == Len(frames)
           r(k) == Hear!Run(heard, frames, k)
           Kept(g) == /\ Hearing(g) /\ g.taken = heard.taken /\ g.parser = heard.parser
                      /\ AtMostOne(g.last)
           T == {k \in 0..n : Kept(r(k))}
<1>1. n \in Nat
  BY LenProperties
<1>2. /\ r(0) = heard /\ OnFrames(heard, frames) = r(n)
      /\ \A k \in 1..n : r(k) = OnFrame(r(k - 1), frames[k])
  BY Hear!RunStart, Hear!RunStep, Hear!RunEnd DEF OnFrames
<1> HIDE DEF r
<1>3. 0 \in T
  BY <1>1, <1>2
<1>4. ASSUME NEW k \in 1..n, k - 1 \in T PROVE k \in T
  <2>1. k \in 0..n
    BY <1>1
  <2>2. Kept(r(k - 1))
    BY <1>4
  <2>3. Kept(OnFrame(r(k - 1), frames[k]))
    BY <2>2, OnFrameKeeps
  <2> QED  BY <1>2, <2>1, <2>3
<1>5. n \in T
  <2> HIDE DEF T
  <2> QED  BY <1>1, <1>3, <1>4, Parse!PositionInduction
<1> QED  BY <1>2, <1>5

(* The types that need the steps of the parser. *)
Taken(n)  == n \in 0..Len(scenario.text) /\ n % 4 = 0
Between(p) == p \in FitParsers /\ (p.state # "broken" => p.frames = <<>>)

TypeInv ==
    /\ CallInv
    /\ Taken(taken) /\ Between(parser) /\ AtMostOne(last)
    /\ timer \in BOOLEAN
    /\ readyState \in 0..4
    /\ ending \in {"none", "unsent", "cancel", "response", "lost", "timeout"}

TypedHeard(heard) ==
    Hearing(heard) /\ Taken(heard.taken) /\ Between(heard.parser) /\ AtMostOne(heard.last)

LEMMA OnBytesTyped ==
    ASSUME TypeInv, NEW bytes \in Seq(Nat), NEW heard, TypedHeard(heard)
    PROVE  TypedHeard(OnBytes(heard, bytes)) /\ OnBytes(heard, bytes).taken = heard.taken
<1> DEFINE parsed == ParseChunk(parser, bytes)
           bare == Emptied(parsed)
           base == ParsedTo(heard, bare)
<1>1. parsed \in FitParsers
  BY ParseFits DEF TypeInv, Between
<1>2. bare \in FitParsers /\ bare.frames = <<>> /\ parsed.frames \in Seq(Frames)
  <2> HIDE DEF parsed
  <2> QED  BY <1>1, EmptiedFits
<1>3. OnBytes(heard, bytes) =
          IF parsed.state = "broken"
          THEN Coded(ParsedTo(heard, parsed), UNKNOWN)
          ELSE OnFrames(base, parsed.frames)
  BY OnBytesFolds
<1> HIDE DEF parsed, bare
<1>4. Hearing(heard) /\ Taken(heard.taken) /\ AtMostOne(heard.last)
  BY DEF TypedHeard
<1>5. CASE parsed.state = "broken"
  <2> DEFINE q == ParsedTo(heard, parsed)
             g == Coded(q, UNKNOWN)
  <2>1. Same(q, heard, {"parser"}) /\ q.parser = parsed /\ Hearing(q)
    BY <1>4, Changed DEF Same
  <2> HIDE DEF q
  <2>2. Same(g, q, {"code"})
    BY <2>1, Changed
  <2>3. Hearing(g) /\ g.taken = heard.taken /\ g.parser = parsed /\ g.last = heard.last
    BY <2>1, <2>2 DEF Same
  <2>4. Between(parsed)
    BY <1>1, <1>5 DEF Between
  <2> HIDE DEF g
  <2>5. TypedHeard(g) /\ g.taken = heard.taken
    BY <1>4, <2>3, <2>4 DEF TypedHeard
  <2> QED  BY <1>3, <1>5, <2>5 DEF g, q
<1>6. CASE parsed.state # "broken"
  <2>1. Hearing(base) /\ base.taken = heard.taken /\ base.parser = bare
        /\ base.last = heard.last
    BY <1>4, Changed DEF Same
  <2> HIDE DEF base
  <2> DEFINE g == OnFrames(base, parsed.frames)
  <2>2. /\ Hearing(g) /\ g.taken = base.taken /\ g.parser = base.parser
        /\ AtMostOne(g.last)
    BY <1>2, <1>4, <2>1, OnFramesKeep
  <2>3. Between(bare)
    BY <1>2 DEF Between
  <2> HIDE DEF g
  <2>4. TypedHeard(g) /\ g.taken = heard.taken
    BY <1>4, <2>1, <2>2, <2>3 DEF TypedHeard
  <2> QED  BY <1>3, <1>6, <2>4 DEF g
<1> QED  BY <1>5, <1>6

LEMMA QuietTyped == TypeInv => TypedHeard(Quiet) /\ Quiet.code = 0 /\ Quiet.throws = FALSE
BY DEF TypeInv, TypedHeard, Quiet, Hearing

(* Only whole groups are taken. *)
LEMMA WholeGroups ==
    ASSUME NEW n \in Nat, NEW t \in 0..n, t % 4 = 0
    PROVE  n - (n % 4) \in t..n /\ (n - (n % 4)) % 4 = 0
OBVIOUS

LEMMA OnTextTyped ==
    ASSUME TypeInv, NEW n \in taken..Len(scenario.text)
    PROVE  TypedHeard(OnText(n))
<1> DEFINE upTo == n - (n % 4)
           chunk == Base64Decode(SubSeq(scenario.text, taken + 1, upTo))
           heard == TakenTo(Quiet, upTo)
<1>1. /\ scenario.text \in Seq(Chars) /\ Len(scenario.text) \in Nat
      /\ taken \in 0..Len(scenario.text) /\ taken % 4 = 0
  BY ScenarioAssumption, LenProperties DEF TypeInv, CallInv, Taken, Chars
<1>2. n \in Nat /\ n \in 0..Len(scenario.text) /\ taken \in 0..n
  BY <1>1
<1>3. Taken(upTo) /\ upTo \in taken..Len(scenario.text)
  <2>1. upTo \in taken..n /\ upTo % 4 = 0
    BY <1>1, <1>2, WholeGroups
  <2> HIDE DEF upTo
  <2> QED  BY <1>1, <1>2, <2>1 DEF Taken
<1>4. SubSeq(scenario.text, taken + 1, upTo) \in Seq(Chars)
  BY <1>1, <1>3, SubText
<1>5. chunk.ok => chunk.bytes \in Seq(Nat)
  BY <1>4, DecodeTyped
<1>6. OnText(n) = IF upTo = taken THEN Quiet
                  ELSE IF ~chunk.ok THEN Thrown(heard)
                  ELSE OnBytes(heard, chunk.bytes)
  BY DEF OnText, TakenTo, Thrown
<1> HIDE DEF chunk, upTo
<1>7. TypedHeard(heard) /\ TypedHeard(Thrown(heard))
  <2>1. /\ Hearing(heard) /\ heard.taken = upTo /\ heard.parser = Quiet.parser
        /\ heard.last = Quiet.last
    BY QuietTyped, Changed DEF TypedHeard, Same
  <2>2. TypedHeard(heard)
    BY <1>3, <2>1, QuietTyped DEF TypedHeard
  <2> HIDE DEF heard
  <2>3. TypedHeard(Thrown(heard))
    BY <2>2, Changed DEF TypedHeard, Same
  <2> QED  BY <2>2, <2>3
<1> HIDE DEF heard
<1>8. chunk.ok => TypedHeard(OnBytes(heard, chunk.bytes))
  BY <1>5, <1>7, OnBytesTyped
<1> QED  BY <1>6, <1>7, <1>8, QuietTyped

LEMMA OnReadyStateChangeTyped ==
    ASSUME TypeInv, NEW n \in taken..Len(scenario.text)
    PROVE  TypedHeard(OnReadyStateChange(n))
<1>1. scenario.type \in {"text", "binary", "none", "other"}
  BY ScenarioAssumption DEF TypeInv, CallInv
<1>2. CASE scenario.type = "text"
  BY <1>2, OnTextTyped DEF OnReadyStateChange
<1>3. CASE scenario.type = "binary"
  <2>1. <<>> \in Seq(Nat)
    OBVIOUS
  <2>2. TypedHeard(OnBinary)
    BY <2>1, QuietTyped, OnBytesTyped DEF OnBinary
  <2> QED  BY <1>3, <2>2 DEF OnReadyStateChange
<1>4. CASE scenario.type = "none"
  BY <1>4, QuietTyped DEF OnReadyStateChange
<1>5. CASE scenario.type = "other"
  <2>1. OnReadyStateChange(n) = Coded(Quiet, UNKNOWN)
    BY <1>5 DEF OnReadyStateChange, Coded
  <2>2. TypedHeard(Coded(Quiet, UNKNOWN))
    BY QuietTyped, Changed DEF TypedHeard, Same
  <2> QED  BY <2>1, <2>2
<1> QED  BY <1>1, <1>2, <1>3, <1>4, <1>5

LEMMA InitTypes == Init => TypeInv
<1> SUFFICES ASSUME Init PROVE TypeInv
  OBVIOUS
<1>1. CallInv
  BY InitInv
<1>2. Taken(taken)
  <2>1. Len(scenario.text) \in Nat
    BY ScenarioAssumption, LenProperties DEF Init
  <2> QED  BY <2>1 DEF Init, Taken
<1>3. Between(parser)
  BY NewParserFits DEF Init, Between, NewParser
<1>4. AtMostOne(last) /\ readyState \in 0..4 /\ ending = "none"
  BY DEF Init, AtMostOne
<1>5. timer \in BOOLEAN
  BY DEF Init
<1> QED  BY <1>1, <1>2, <1>3, <1>4, <1>5 DEF TypeInv

(* What was heard keeps its types. *)
LEMMA HeardTypes ==
    ASSUME TypeInv, NEW n \in taken..Len(scenario.text), Heard(OnReadyStateChange(n)),
           UNCHANGED scenario
    PROVE  Taken(taken)' /\ Between(parser)' /\ AtMostOne(last)'
<1> DEFINE heard == OnReadyStateChange(n)
<1>1. TypedHeard(heard)
  BY OnReadyStateChangeTyped
<1>2. taken' = heard.taken /\ parser' = heard.parser /\ last' = heard.last
  BY DEF Heard
<1> HIDE DEF heard
<1> QED  BY <1>1, <1>2 DEF TypedHeard, Taken, Between, AtMostOne

LEMMA StepTypes == TypeInv /\ [Next]_vars => TypeInv'
<1> SUFFICES ASSUME TypeInv, [Next]_vars PROVE TypeInv'
  OBVIOUS
<1>1. CallInv'
  BY StepInv DEF TypeInv
<1>2. CASE OnLoad
  <2>1. PICK client : Send(client)
    BY <1>2 DEF OnLoad, Greeter, GreeterPromise
  <2>2. timer' \in BOOLEAN
    <3>1. timer' = SetsTimer(XhrTimeout(TimeLeft)) \/ timer' = FALSE
      BY <2>1 DEF Send, CleanUp
    <3>2. SetsTimer(XhrTimeout(TimeLeft)) \in BOOLEAN
      BY DEF SetsTimer
    <3> QED  BY <3>1, <3>2
  <2>3. readyState' \in 0..4 /\ ending' \in {ending, "unsent"}
    BY <2>1 DEF Send, CleanUp, TypeInv
  <2> QED  BY <1>1, <1>2, <2>2, <2>3 DEF OnLoad, TypeInv, Taken, Between, AtMostOne
<1>3. CASE Cancel
  <2>1. timer' \in BOOLEAN /\ ending' \in {ending, "cancel"}
    BY <1>3 DEF Cancel, Abort, CleanUp, TypeInv
  <2> QED  BY <1>1, <1>3, <2>1 DEF Cancel, response, TypeInv, Taken, Between, AtMostOne
<1>4. CASE Receive
  <2>1. PICK n \in taken..Len(scenario.text) : Heard(OnReadyStateChange(n))
    BY <1>4 DEF Receive
  <2>2. Taken(taken)' /\ Between(parser)' /\ AtMostOne(last)'
    BY <1>4, <2>1, HeardTypes DEF Receive
  <2> QED  BY <1>1, <1>4, <2>2 DEF Receive, TypeInv
<1>5. CASE Finish
  <2>1. Len(scenario.text) \in taken..Len(scenario.text)
    BY DEF TypeInv, Taken
  <2>2. Taken(taken)' /\ Between(parser)' /\ AtMostOne(last)'
    BY <1>5, <2>1, HeardTypes DEF Finish
  <2>3. timer' \in BOOLEAN /\ ending' \in {ending, "response"}
    BY <1>5 DEF Finish, CleanUp, TypeInv
  <2> QED  BY <1>1, <1>5, <2>2, <2>3 DEF Finish, TypeInv
<1>6. CASE LoseConnection
  <2>1. timer' \in BOOLEAN
    BY <1>6 DEF LoseConnection, CleanUp
  <2>2. readyState' \in 0..4 /\ ending' = "lost"
    BY <1>6 DEF LoseConnection, CleanUp
  <2> QED  BY <1>1, <1>6, <2>1, <2>2 DEF LoseConnection, TypeInv, Taken, Between, AtMostOne
<1>7. CASE Timeout
  BY <1>1, <1>7 DEF Timeout, Abort, CleanUp, response, TypeInv, Taken, Between, AtMostOne
<1>8. CASE UNCHANGED vars
  BY <1>1, <1>8 DEF vars, TypeInv, Taken, Between, AtMostOne
<1> QED  BY <1>2, <1>3, <1>4, <1>5, <1>6, <1>7, <1>8 DEF Next

LEMMA TypeInvHolds == Spec => []TypeInv
<1> QED  BY InitTypes, StepTypes, PTL DEF Spec

(* Only whole groups of the text are taken, and a frame never gets more    *)
(* bytes than its size, in whatever pieces the response comes.             *)
THEOREM TypeCorrect == Spec => []TypeOK
<1>1. TypeInv => TypeOK
  <2> SUFFICES ASSUME TypeInv PROVE TypeOK
    OBVIOUS
  <2>1. /\ parser.state \in {"kind", "size", "payload", "broken"}
        /\ Len(parser.payload) <= parser.size \/ parser.state = "size"
    BY DEF TypeInv, Between, FitParsers, Parsers, Fits
  <2>2. ASSUME NEW results, AtMostOne(results) PROVE Len(results) <= 1
    <3>1. CASE results = <<>>
      BY <3>1
    <3>2. ASSUME NEW x, results = <<x>> PROVE Len(results) <= 1
      BY <3>2
    <3> QED  BY <2>2, <3>1, <3>2 DEF AtMostOne
  <2>3. {open, timer, errored, cancelled} \subseteq BOOLEAN
    BY DEF TypeInv, CallInv
  <2>4. Len(last) <= 1 /\ Len(answers) <= 1
    BY <2>2 DEF TypeInv, CallInv
  <2>5. /\ scenario \in Scenarios /\ phase \in {"loading", "called"}
        /\ readyState \in 0..4 /\ taken \in 0..Len(scenario.text) /\ taken % 4 = 0
        /\ parser.state # "broken" => parser.frames = <<>>
        /\ ending \in {"none", "unsent", "cancel", "response", "lost", "timeout"}
    BY DEF TypeInv, CallInv, Taken, Between
  <2> QED  BY <2>1, <2>3, <2>4, <2>5 DEF TypeOK
<1> QED  BY <1>1, TypeInvHolds, PTL

-----------------------------------------------------------------------------
(* What the frames mean. *)

(* c is the first error of the first k frames, 0 if there is none. *)
FirstError(c, says, k) ==
    IF c = 0 THEN \A i \in 1..k : says[i].code = 0
    ELSE \E i \in 1..k : says[i].code = c /\ \A j \in 1..k : j < i => says[j].code = 0

(* m is the last message of the first k frames, if there is one. *)
LastMessage(m, says, k) ==
    IF m = <<>> THEN \A i \in 1..k : says[i].texts = <<>>
    ELSE \E i \in 1..k : /\ says[i].texts = <<ResponseGetMessage(m[1])>>
                         /\ \A j \in 1..k : i < j => says[j].texts = <<>>

LEMMA FirstErrorStep ==
    ASSUME NEW says, NEW k \in Nat, k # 0, NEW c, FirstError(c, says, k - 1)
    PROVE  FirstError(FirstOf(c, says[k].code), says, k)
<1>1. /\ k \in 1..k
      /\ \A i \in 1..k : i = k \/ i \in 1..(k - 1)
      /\ \A i \in 1..(k - 1) : i \in 1..k /\ ~(k < i)
  OBVIOUS
<1>2. CASE c = 0
  <2>1. \A i \in 1..(k - 1) : says[i].code = 0
    BY <1>2 DEF FirstError
  <2>2. \A j \in 1..k : j < k => says[j].code = 0
    BY <1>1, <2>1
  <2>3. FirstOf(c, says[k].code) = says[k].code
    BY <1>2 DEF FirstOf
  <2> QED  BY <1>1, <2>1, <2>2, <2>3 DEF FirstError
<1>3. CASE c # 0
  <2>1. PICK i \in 1..(k - 1) :
            says[i].code = c /\ \A j \in 1..(k - 1) : j < i => says[j].code = 0
    BY <1>3 DEF FirstError
  <2>2. \A j \in 1..k : j < i => says[j].code = 0
    BY <1>1, <2>1
  <2>3. FirstOf(c, says[k].code) = c
    BY <1>3 DEF FirstOf
  <2> QED  BY <1>1, <1>3, <2>1, <2>2, <2>3 DEF FirstError
<1> QED  BY <1>2, <1>3

LEMMA LastMessageKept ==
    ASSUME NEW says, NEW k \in Nat, k # 0, NEW m, LastMessage(m, says, k - 1),
           says[k].texts = <<>>
    PROVE  LastMessage(m, says, k)
<1>1. /\ \A i \in 1..k : i = k \/ i \in 1..(k - 1)
      /\ \A i \in 1..(k - 1) : i \in 1..k
  OBVIOUS
<1>2. CASE m = <<>>
  BY <1>1, <1>2 DEF LastMessage
<1>3. CASE m # <<>>
  <2>1. PICK i \in 1..(k - 1) :
            /\ says[i].texts = <<ResponseGetMessage(m[1])>>
            /\ \A j \in 1..(k - 1) : i < j => says[j].texts = <<>>
    BY <1>3 DEF LastMessage
  <2>2. \A j \in 1..k : i < j => says[j].texts = <<>>
    BY <1>1, <2>1
  <2> QED  BY <1>1, <1>3, <2>1, <2>2 DEF LastMessage
<1> QED  BY <1>2, <1>3

LEMMA LastMessageNext ==
    ASSUME NEW says, NEW k \in Nat, k # 0, NEW msg,
           says[k].texts = <<ResponseGetMessage(msg)>>
    PROVE  LastMessage(<<msg>>, says, k)
<1>1. k \in 1..k /\ \A j \in 1..k : ~(k < j)
  OBVIOUS
<1>2. <<msg>> # <<>> /\ <<msg>>[1] = msg
  OBVIOUS
<1> QED  BY <1>1, <1>2 DEF LastMessage

(* The error in a trailer can be read. *)
Legible(frame) ==
    frame.kind = TrailerKind /\ frame.payload # <<>> => Trailers[frame.payload].readable

(* A frame is heard as what it means. *)
LEMMA OnFrameMeans ==
    ASSUME NEW heard, Hearing(heard), heard.throws = FALSE,
           NEW frame \in Frames, Legible(frame)
    PROVE  /\ Hearing(OnFrame(heard, frame)) /\ OnFrame(heard, frame).throws = FALSE
           /\ OnFrame(heard, frame).code = FirstOf(heard.code, Meaning(frame).code)
           /\ \/ Meaning(frame).texts = <<>> /\ OnFrame(heard, frame).last = heard.last
              \/ \E msg : /\ Meaning(frame).texts = <<ResponseGetMessage(msg)>>
                          /\ OnFrame(heard, frame).last = <<msg>>
<1>1. /\ frame.kind = DataKind \/ frame.kind = TrailerKind
      /\ DataKind # TrailerKind
  BY DEF Frames, Kinds, DataKind, TrailerKind
<1>2. FirstOf(heard.code, 0) = heard.code
  BY DEF FirstOf
<1>3. CASE frame.kind = DataKind
  <2> DEFINE read == ResponseDeserializeFn(frame.payload)
  <2>1. /\ OnFrame(heard, frame) =
               IF read.ok THEN Spoken(heard, <<read.msg>>)
               ELSE Coded(heard, FirstOf(heard.code, INTERNAL))
        /\ Meaning(frame) =
               IF read.ok THEN [code |-> 0, texts |-> <<ResponseGetMessage(read.msg)>>]
               ELSE [code |-> INTERNAL, texts |-> <<>>]
    BY <1>1, <1>3 DEF OnFrame, OnData, Meaning, Spoken, Coded
  <2> HIDE DEF read
  <2>2. CASE read.ok
    BY <1>2, <2>1, <2>2, Changed DEF Same
  <2>3. CASE ~read.ok
    BY <2>1, <2>3, Changed DEF Same
  <2> QED  BY <2>2, <2>3
<1>4. CASE frame.kind = TrailerKind
  <2>1. Meaning(frame).texts = <<>>
    BY <1>4 DEF Meaning
  <2>2. CASE frame.payload = <<>>
    <3>1. OnFrame(heard, frame) = heard /\ Meaning(frame).code = 0
      BY <1>1, <1>4, <2>2 DEF OnFrame, OnTrailer, Meaning
    <3> QED  BY <1>2, <2>1, <3>1
  <2>3. CASE frame.payload # <<>>
    <3> DEFINE d == Trailers[frame.payload].code
    <3>1. Trailers[frame.payload].readable
      BY <1>4, <2>3 DEF Legible
    <3>2. OnFrame(heard, frame) = Coded(heard, FirstOf(heard.code, d))
      BY <1>1, <1>4, <2>3, <3>1 DEF OnFrame, OnTrailer, Coded
    <3>3. Meaning(frame).code = d
      BY <1>4, <2>3 DEF Meaning
    <3> HIDE DEF d
    <3> QED  BY <2>1, <3>2, <3>3, Changed DEF Same
  <2> QED  BY <2>2, <2>3
<1> QED  BY <1>1, <1>3, <1>4

(* So are frames one after the other, behind k0 that were heard before. *)
LEMMA OnFramesMean ==
    ASSUME NEW frames \in Seq(Frames), NEW says, NEW k0 \in Nat,
           \A i \in 1..Len(frames) :
               says[k0 + i] = Meaning(frames[i]) /\ Legible(frames[i]),
           NEW heard, Hearing(heard), heard.throws = FALSE,
           NEW c, FirstError(FirstOf(c, heard.code), says, k0),
           LastMessage(heard.last, says, k0)
    PROVE  LET g == OnFrames(heard, frames)
           IN  /\ g.throws = FALSE
               /\ FirstError(FirstOf(c, g.code), says, k0 + Len(frames))
               /\ LastMessage(g.last, says, k0 + Len(frames))
<1> DEFINE n == Len(frames)
           r(k) == Hear!Run(heard, frames, k)
           Meant(h, k) == /\ Hearing(h) /\ h.throws = FALSE
                          /\ FirstError(FirstOf(c, h.code), says, k)
                          /\ LastMessage(h.last, says, k)
           T == {k \in 0..n : Meant(r(k), k0 + k)}
<1>1. n \in Nat /\ \A k \in 1..n : frames[k] \in Frames
  BY LenProperties
<1>2. /\ r(0) = heard /\ OnFrames(heard, frames) = r(n)
      /\ \A k \in 1..n : r(k) = OnFrame(r(k - 1), frames[k])
  BY Hear!RunStart, Hear!RunStep, Hear!RunEnd DEF OnFrames
<1> HIDE DEF r
<1>3. 0 \in T
  <2>1. k0 + 0 = k0 /\ 0 \in 0..n
    BY <1>1
  <2> QED  BY <1>2, <2>1
<1>4. ASSUME NEW k \in 1..n, k - 1 \in T PROVE k \in T
  <2> DEFINE h == r(k - 1)
             g == OnFrame(h, frames[k])
             m == Meaning(frames[k])
             l == k0 + k
  <2>1. /\ k \in 0..n /\ l \in Nat /\ l # 0 /\ k0 + (k - 1) = l - 1
    BY <1>1
  <2>2. /\ Hearing(h) /\ h.throws = FALSE
        /\ FirstError(FirstOf(c, h.code), says, l - 1) /\ LastMessage(h.last, says, l - 1)
    BY <1>4, <2>1
  <2>3. says[l] = m /\ Legible(frames[k]) /\ frames[k] \in Frames
    BY <1>1
  <2> HIDE DEF h, m, l
  <2>4. /\ Hearing(g) /\ g.throws = FALSE /\ g.code = FirstOf(h.code, m.code)
        /\ \/ m.texts = <<>> /\ g.last = h.last
           \/ \E msg : m.texts = <<ResponseGetMessage(msg)>> /\ g.last = <<msg>>
    BY <2>2, <2>3, OnFrameMeans DEF m
  <2> HIDE DEF g
  <2>5. FirstOf(c, g.code) = FirstOf(FirstOf(c, h.code), m.code)
    BY <2>4 DEF FirstOf
  <2>6. FirstError(FirstOf(c, g.code), says, l)
    BY <2>1, <2>2, <2>3, <2>5, FirstErrorStep
  <2>7. LastMessage(g.last, says, l)
    <3>1. CASE m.texts = <<>> /\ g.last = h.last
      BY <2>1, <2>2, <2>3, <3>1, LastMessageKept
    <3>2. ASSUME NEW msg, m.texts = <<ResponseGetMessage(msg)>>, g.last = <<msg>>
          PROVE  LastMessage(g.last, says, l)
      BY <2>1, <2>3, <3>2, LastMessageNext
    <3> QED  BY <2>4, <3>1, <3>2
  <2>8. r(k) = g
    BY <1>2 DEF g, h
  <2>9. Meant(r(k), k0 + k)
    BY <2>4, <2>6, <2>7, <2>8 DEF l
  <2> QED  BY <2>1, <2>9
<1>5. n \in T
  <2> HIDE DEF T
  <2> QED  BY <1>1, <1>3, <1>4, Parse!PositionInduction
<1> QED  BY <1>2, <1>5

-----------------------------------------------------------------------------
(* What was heard so far. *)

Says   == IF scenario.type = "text" THEN scenario.says ELSE <<>>
Read(n) == ReadTo(scenario.text, n)

(* The page was told of the error c, or of nothing. *)
Told(c) == IF c = 0 THEN answers = <<>> ELSE answers = <<Error(c)>>

(* With t characters taken, p is the parser of the text so far, its frames *)
(* given out, c their first error and m their last message.                *)
SoFar(t, p, c, m) ==
    IF scenario.type = "text"
    THEN /\ p = Emptied(Read(t))
         /\ FirstError(c, Says, Len(Read(t).frames))
         /\ LastMessage(m, Says, Len(Read(t).frames))
    ELSE /\ p = NewParser /\ m = <<>>
         /\ c = 0 \/ (scenario.type = "other" /\ c = UNKNOWN)

(* That, while something can be heard, is the strengthening with which     *)
(* AnswerIsFaithful is inductive.                                          *)
FaithInv ==
    scenario.sound =>
        /\ phase = "loading" \/ open =>
               \E c : Told(c) /\ SoFar(taken, parser, c, last)
        /\ ending = "response" => ~open /\ phase = "called" /\ answers = <<Expected>>

LEMMA SoundText ==
    ASSUME scenario \in Scenarios, scenario.sound, scenario.type = "text"
    PROVE  LET text   == scenario.text
               frames == Read(Len(text)).frames
           IN  /\ text \in Seq(Chars) /\ Bad \notin ToSet(text)
               /\ Len(text) \in Nat /\ Len(text) % 4 = 0
               /\ Read(Len(text)).state # "broken"
               /\ Says = [i \in 1..Len(frames) |-> Meaning(frames[i])]
               /\ \A i \in 1..Len(frames) : Legible(frames[i])
<1> DEFINE text == scenario.text
<1>1. text \in Seq(Chars) /\ Len(text) \in Nat
  BY ScenarioAssumption, LenProperties DEF Chars
<1>2. Read(Len(text)) = ParseChunk(NewParser, Base64Decode(text).bytes)
  BY <1>1, SubSeqFull DEF Read, ReadTo
<1>3. Bad \notin ToSet(text)
  BY MeaningAssumption DEF Base64Decode
<1> DEFINE parsed == ParseChunk(NewParser, Base64Decode(text).bytes)
<1>4. /\ Len(text) % 4 = 0 /\ parsed.state # "broken"
      /\ scenario.says = [i \in 1..Len(parsed.frames) |-> Meaning(parsed.frames[i])]
      /\ \A i \in 1..Len(parsed.frames) : Legible(parsed.frames[i])
  BY MeaningAssumption DEF Legible
<1> HIDE DEF parsed
<1>5. Read(Len(text)) = parsed /\ Says = scenario.says
  BY <1>2 DEF parsed, Says
<1> QED  BY <1>1, <1>3, <1>4, <1>5

(* The frames that the next piece of the text completes, and what they     *)
(* mean.                                                                   *)
LEMMA NextPiece ==
    ASSUME scenario \in Scenarios, scenario.sound, scenario.type = "text",
           NEW t \in 0..Len(scenario.text), NEW u \in t..Len(scenario.text),
           t % 4 = 0, u % 4 = 0
    PROVE  LET chunk  == Base64Decode(SubSeq(scenario.text, t + 1, u))
               parsed == ParseChunk(Emptied(Read(t)), chunk.bytes)
               k0     == Len(Read(t).frames)
           IN  /\ chunk.ok /\ parsed.state # "broken"
               /\ parsed.frames \in Seq(Frames) /\ k0 \in Nat
               /\ Emptied(Read(u)) = Emptied(parsed)
               /\ Len(Read(u).frames) = k0 + Len(parsed.frames)
               /\ \A i \in 1..Len(parsed.frames) :
                     /\ Says[k0 + i] = Meaning(parsed.frames[i])
                     /\ Legible(parsed.frames[i])
<1> DEFINE text   == scenario.text
           n      == Len(text)
           chunk  == Base64Decode(SubSeq(text, t + 1, u))
           parsed == ParseChunk(Emptied(Read(t)), chunk.bytes)
           rest   == ParseChunk(Emptied(Read(u)),
                                Base64Decode(SubSeq(text, u + 1, n)).bytes)
           a == Read(t).frames
           b == parsed.frames
           c == rest.frames
           w == Read(n).frames
<1>1. /\ text \in Seq(Chars) /\ Bad \notin ToSet(text)
      /\ n \in Nat /\ n % 4 = 0 /\ Read(n).state # "broken"
  BY SoundText
<1>2. u \in 0..n /\ n \in u..n
  BY <1>1
<1>3. /\ chunk.ok /\ parsed.state # "broken"
      /\ Read(u).frames = a \o b /\ a \in Seq(Frames) /\ b \in Seq(Frames)
      /\ Emptied(Read(u)) = Emptied(parsed)
  BY <1>1, ReadInPieces DEF Read
<1>4. w = Read(u).frames \o c /\ c \in Seq(Frames)
  BY <1>1, <1>2, ReadInPieces DEF Read
<1>5. /\ Says = [i \in 1..Len(w) |-> Meaning(w[i])]
      /\ \A i \in 1..Len(w) : Legible(w[i])
  BY SoundText
<1> HIDE DEF chunk, parsed, rest, a, b, c, w
<1>6. /\ Len(a) \in Nat /\ Len(b) \in Nat /\ Len(c) \in Nat
      /\ a \o b \in Seq(Frames) /\ Len(a \o b) = Len(a) + Len(b)
      /\ \A i \in 1..(Len(a) + Len(b)) : (a \o b)[i] = IF i <= Len(a) THEN a[i] ELSE b[i - Len(a)]
  BY <1>3, LenProperties, ConcatProperties
<1> DEFINE ab == a \o b
<1>7. /\ w = ab \o c /\ ab \in Seq(Frames) /\ Len(ab) = Len(a) + Len(b)
      /\ \A i \in 1..(Len(a) + Len(b)) : ab[i] = IF i <= Len(a) THEN a[i] ELSE b[i - Len(a)]
  BY <1>3, <1>4, <1>6
<1> HIDE DEF ab
<1>8. /\ Len(w) = Len(ab) + Len(c)
      /\ \A i \in 1..(Len(ab) + Len(c)) : w[i] = IF i <= Len(ab) THEN ab[i] ELSE c[i - Len(ab)]
  BY <1>4, <1>7, ConcatProperties
<1>9. ASSUME NEW i \in 1..Len(b)
      PROVE  Says[Len(a) + i] = Meaning(b[i]) /\ Legible(b[i])
  <2>1. /\ Len(a) + i \in 1..(Len(ab) + Len(c)) /\ Len(a) + i <= Len(ab)
        /\ Len(a) + i \in 1..(Len(a) + Len(b)) /\ ~(Len(a) + i <= Len(a))
        /\ (Len(a) + i) - Len(a) = i
    BY <1>6, <1>7
  <2>2. w[Len(a) + i] = b[i] /\ Len(a) + i \in 1..Len(w)
    BY <1>7, <1>8, <2>1
  <2> QED  BY <1>5, <2>2
<1> QED  BY <1>3, <1>6, <1>9 DEF chunk, parsed, a, b

(* What a listener has heard behind what the page was told. *)
Follows(heard, c) ==
    /\ heard.throws = FALSE
    /\ SoFar(heard.taken, heard.parser, FirstOf(c, heard.code), heard.last)

LEMMA QuietFollows ==
    ASSUME NEW c, SoFar(taken, parser, c, last)
    PROVE  Follows(Quiet, c)
<1>1. FirstOf(c, 0) = c
  BY DEF FirstOf
<1> QED  BY <1>1 DEF Follows, Quiet

LEMMA OnTextFollows ==
    ASSUME TypeInv, scenario.sound, scenario.type = "text",
           NEW n \in taken..Len(scenario.text),
           NEW c, SoFar(taken, parser, c, last)
    PROVE  Follows(OnText(n), c) /\ OnText(n).taken = n - (n % 4)
<1> DEFINE upTo == n - (n % 4)
           chunk == Base64Decode(SubSeq(scenario.text, taken + 1, upTo))
           parsed == ParseChunk(Emptied(Read(taken)), chunk.bytes)
           heard == TakenTo(Quiet, upTo)
           base == ParsedTo(heard, Emptied(parsed))
           k0 == Len(Read(taken).frames)
<1>1. /\ scenario \in Scenarios /\ Len(scenario.text) \in Nat
      /\ taken \in 0..Len(scenario.text) /\ taken % 4 = 0
  BY SoundText DEF TypeInv, CallInv, Taken
<1>2. n \in Nat /\ n <= Len(scenario.text) /\ taken \in 0..n
  BY <1>1
<1>3. upTo \in taken..Len(scenario.text) /\ upTo % 4 = 0
  <2>1. upTo \in taken..n /\ upTo % 4 = 0
    BY <1>1, <1>2, WholeGroups
  <2> HIDE DEF upTo
  <2> QED  BY <1>1, <1>2, <2>1
<1>4. /\ parser = Emptied(Read(taken))
      /\ FirstError(c, Says, k0) /\ LastMessage(last, Says, k0)
  BY DEF SoFar
<1>5. CASE upTo = taken
  <2>1. OnText(n) = Quiet
    BY <1>5 DEF OnText
  <2>2. Quiet.taken = taken
    BY DEF Quiet
  <2> QED  BY <1>5, <2>1, <2>2, QuietFollows
<1>6. CASE upTo # taken
  <2>1. /\ chunk.ok /\ parsed.state # "broken"
        /\ parsed.frames \in Seq(Frames) /\ k0 \in Nat
        /\ Emptied(Read(upTo)) = Emptied(parsed)
        /\ Len(Read(upTo).frames) = k0 + Len(parsed.frames)
        /\ \A i \in 1..Len(parsed.frames) :
              Says[k0 + i] = Meaning(parsed.frames[i]) /\ Legible(parsed.frames[i])
    <3> HIDE DEF upTo
    <3> QED  BY <1>1, <1>3, NextPiece
  <2>2. OnText(n) = OnBytes(heard, chunk.bytes)
    BY <1>6, <2>1 DEF OnText, TakenTo
  <2>3. OnBytes(heard, chunk.bytes) = OnFrames(base, parsed.frames)
    BY <1>4, <2>1, OnBytesFolds
  <2>4. Hearing(Quiet) /\ Quiet.code = 0 /\ Quiet.throws = FALSE /\ Quiet.last = last
    BY DEF Quiet, Hearing
  <2> HIDE DEF upTo, chunk, parsed, k0
  <2>5. Same(heard, Quiet, {"taken"}) /\ heard.taken = upTo /\ Hearing(heard)
    BY <2>4, Changed DEF Same
  <2> HIDE DEF heard
  <2>6. Same(base, heard, {"parser"}) /\ base.parser = Emptied(parsed)
    BY <2>5, Changed
  <2>7. /\ Hearing(base) /\ base.code = 0 /\ base.throws = FALSE /\ base.last = last
        /\ base.taken = upTo /\ base.parser = Emptied(parsed)
    BY <2>4, <2>5, <2>6 DEF Same
  <2>8. FirstError(FirstOf(c, base.code), Says, k0) /\ LastMessage(base.last, Says, k0)
    BY <1>4, <2>7 DEF FirstOf
  <2> HIDE DEF base
  <2> DEFINE g == OnFrames(base, parsed.frames)
  <2>9. /\ g.throws = FALSE
        /\ FirstError(FirstOf(c, g.code), Says, k0 + Len(parsed.frames))
        /\ LastMessage(g.last, Says, k0 + Len(parsed.frames))
    BY <2>1, <2>7, <2>8, OnFramesMean
  <2>10. g.taken = upTo /\ g.parser = Emptied(parsed)
    <3>1. AtMostOne(base.last)
      BY <2>7 DEF TypeInv
    <3> QED  BY <2>1, <2>7, <3>1, OnFramesKeep
  <2> HIDE DEF g
  <2>11. SoFar(g.taken, g.parser, FirstOf(c, g.code), g.last)
    BY <2>1, <2>9, <2>10 DEF SoFar
  <2>12. OnText(n) = g
    BY <2>2, <2>3 DEF g
  <2> QED  BY <2>9, <2>10, <2>11, <2>12 DEF Follows, upTo
<1> QED  BY <1>5, <1>6

LEMMA OnReadyStateChangeFollows ==
    ASSUME TypeInv, scenario.sound, NEW n \in taken..Len(scenario.text),
           NEW c, SoFar(taken, parser, c, last)
    PROVE  /\ Follows(OnReadyStateChange(n), c)
           /\ scenario.type = "text" => OnReadyStateChange(n).taken = n - (n % 4)
           /\ scenario.type = "other" => FirstOf(c, OnReadyStateChange(n).code) = UNKNOWN
<1>1. scenario.type \in {"text", "binary", "none", "other"}
  BY ScenarioAssumption DEF TypeInv, CallInv
<1>2. CASE scenario.type = "text"
  BY <1>2, OnTextFollows DEF OnReadyStateChange
<1>3. CASE scenario.type = "binary"
  <2> DEFINE base == ParsedTo(Quiet, Emptied(NewParser))
  <2>1. parser = NewParser /\ ParseChunk(parser, <<>>) = NewParser
    BY <1>3, ParseNothing DEF SoFar
  <2>2. /\ NewParser.state # "broken" /\ NewParser.frames = <<>>
        /\ Emptied(NewParser) = NewParser
    BY EmptiedNew
  <2>3. OnBytes(Quiet, <<>>) = OnFrames(base, <<>>)
    BY <2>1, <2>2, OnBytesFolds
  <2>4. base = Quiet
    <3>1. Hearing(Quiet) /\ Quiet.parser = NewParser
      BY <2>1 DEF Quiet, Hearing
    <3>2. ASSUME NEW h, Hearing(h) PROVE ParsedTo(h, h.parser) = h
      BY <3>2 DEF ParsedTo, Hearing
    <3> QED  BY <2>2, <3>1, <3>2
  <2> HIDE DEF base
  <2>5. OnFrames(base, <<>>) = base
    <3>1. <<>> \in Seq(Frames) /\ Len(<<>>) = 0
      OBVIOUS
    <3>2. Hear!Folded(base, <<>>) = Hear!Run(base, <<>>, 0)
      BY <3>1, Hear!RunEnd
    <3>3. Hear!Run(base, <<>>, 0) = base
      BY <3>1, Hear!RunStart
    <3> QED  BY <3>2, <3>3 DEF OnFrames
  <2>6. OnReadyStateChange(n) = Quiet
    BY <1>3, <2>3, <2>4, <2>5 DEF OnReadyStateChange, OnBinary
  <2> QED  BY <1>3, <2>6, QuietFollows
<1>4. CASE scenario.type = "none"
  BY <1>4, QuietFollows DEF OnReadyStateChange
<1>5. CASE scenario.type = "other"
  <2>1. OnReadyStateChange(n) = Coded(Quiet, UNKNOWN)
    BY <1>5 DEF OnReadyStateChange, Coded
  <2>2. Hearing(Quiet) /\ Follows(Quiet, c)
    BY QuietFollows DEF Quiet, Hearing
  <2>3. Same(Coded(Quiet, UNKNOWN), Quiet, {"code"}) /\ Coded(Quiet, UNKNOWN).code = UNKNOWN
    BY <2>2, Changed
  <2>4. c = 0 \/ c = UNKNOWN
    BY <1>5 DEF SoFar
  <2>5. FirstOf(c, UNKNOWN) = UNKNOWN
    BY <2>4 DEF FirstOf
  <2>6. Follows(Coded(Quiet, UNKNOWN), c)
    BY <1>5, <2>2, <2>3, <2>5 DEF Follows, SoFar, Same
  <2> QED  BY <1>5, <2>1, <2>3, <2>5, <2>6
<1> QED  BY <1>1, <1>2, <1>3, <1>4, <1>5

-----------------------------------------------------------------------------
(* What the page is told. *)

(* What the first error e and the last message m come to. *)
Verdict(e, m) ==
    IF e # 0 THEN Error(e) ELSE IF Status # 0 THEN Error(Status)
    ELSE IF m = <<>> THEN Error(UNKNOWN) ELSE Shown(m[1])

(* The first result counts, whatever follows it. *)
LEMMA SettledFirst ==
    ASSUME answers = <<>>, scenario.api \in Apis, NEW r
    PROVE  /\ Settle(<<r>>) = <<r>>
           /\ \A q : scenario.api = "promise" => Settle(<<r, q>>) = <<r>>
           /\ Settle(<<>>) = <<>>
<1>1. CASE scenario.api = "callback"
  BY <1>1, JoinEmpty DEF Settle
<1>2. CASE scenario.api = "promise"
  <2>1. <<r>> # <<>> /\ <<r>>[1] = r /\ \A q : <<r, q>> # <<>> /\ <<r, q>>[1] = r
    OBVIOUS
  <2> QED  BY <1>2, <2>1 DEF Settle, Promise
<1> QED  BY <1>1, <1>2 DEF Apis

LEMMA SettledKept ==
    ASSUME CallInv, answers # <<>>, NEW results, scenario.api \in Apis,
           scenario.api = "callback" => results = <<>>
    PROVE  Settle(results) = answers
<1>1. PICK r : answers = <<r>>
  BY DEF CallInv, AtMostOne
<1>2. <<r>> \o <<>> = <<r>>
  OBVIOUS
<1>3. CASE scenario.api = "callback"
  BY <1>1, <1>2, <1>3 DEF Settle
<1>4. CASE scenario.api = "promise"
  BY <1>4 DEF Settle, Promise
<1> QED  BY <1>3, <1>4 DEF Apis

LEMMA ReportTells ==
    ASSUME CallInv, open, NEW c, Told(c), NEW code, Report(code)
    PROVE  answers' = IF FirstOf(c, code) = 0 THEN <<>> ELSE <<Error(FirstOf(c, code))>>
<1>1. scenario.api \in Apis
  BY ScenarioAssumption DEF CallInv, Apis
<1>2. answers' = Settle(OnStatus(code))
  BY DEF Report
<1>3. CASE c = 0
  <2>1. answers = <<>> /\ ~errored /\ FirstOf(c, code) = code
    BY <1>3 DEF Told, CallInv, FirstOf
  <2>2. OnStatus(code) = IF code = 0 THEN <<>> ELSE <<Error(code)>>
    BY <2>1 DEF OnStatus
  <2> QED  BY <1>1, <1>2, <2>1, <2>2, SettledFirst
<1>4. CASE c # 0
  <2>1. answers = <<Error(c)>> /\ FirstOf(c, code) = c
    BY <1>4 DEF Told, FirstOf
  <2>2. answers # <<>>
    BY <2>1
  <2>3. OnStatus(code) = <<>>
    BY <2>2 DEF CallInv, OnStatus
  <2> QED  BY <1>1, <1>2, <1>4, <2>1, <2>2, <2>3, SettledKept
<1> QED  BY <1>3, <1>4

LEMMA EndTells ==
    ASSUME CallInv, open, NEW c, Told(c), NEW code, NEW m, ReportAndEnd(code, m)
    PROVE  answers' = IF FirstOf(c, code) # 0 THEN <<Error(FirstOf(c, code))>>
                      ELSE IF m = <<>> THEN <<Error(UNKNOWN)>> ELSE <<Shown(m[1])>>
<1> DEFINE failed  == errored \/ code # 0
           results == OnStatus(code) \o OnEnd(failed, m)
           none == Shown(GreeterResponse)
           some == Shown(m[1])
           unknown == Error(UNKNOWN)
           error == Error(code)
<1>1. scenario.api \in Apis
  BY ScenarioAssumption DEF CallInv, Apis
<1>2. answers' = Settle(results)
  BY DEF ReportAndEnd
<1>3. OnEnd(failed, m) =
          (IF failed \/ (m # <<>> /\ scenario.api = "promise") THEN <<>>
           ELSE <<IF m = <<>> THEN unknown ELSE some>>)
          \o (IF scenario.api = "promise" THEN <<IF m = <<>> THEN none ELSE some>> ELSE <<>>)
  BY DEF OnEnd
<1> HIDE DEF none, some, unknown, error
<1>4. CASE c = 0 /\ code = 0
  <2>1. answers = <<>> /\ ~failed /\ FirstOf(c, code) = 0
    BY <1>4 DEF Told, CallInv, FirstOf
  <2>2. OnStatus(code) = <<>>
    BY <1>4 DEF OnStatus
  <2>3. CASE m = <<>>
    <3>1. results = IF scenario.api = "promise" THEN <<unknown, none>> ELSE <<unknown>>
      BY <1>3, <2>1, <2>2, <2>3, JoinEmpty
    <3>2. Settle(results) = <<unknown>>
      BY <1>1, <2>1, <3>1, SettledFirst
    <3> QED  BY <1>2, <2>1, <2>3, <3>2 DEF unknown
  <2>4. CASE m # <<>>
    <3>1. results = <<some>>
      BY <1>3, <2>1, <2>2, <2>4, JoinEmpty
    <3>2. Settle(results) = <<some>>
      BY <1>1, <2>1, <3>1, SettledFirst
    <3> QED  BY <1>2, <2>1, <2>4, <3>2 DEF some
  <2> QED  BY <2>3, <2>4
<1>5. CASE c = 0 /\ code # 0
  <2>1. answers = <<>> /\ ~errored /\ FirstOf(c, code) = code
    BY <1>5 DEF Told, CallInv, FirstOf
  <2>2. OnStatus(code) = <<error>>
    BY <1>5, <2>1 DEF OnStatus, error
  <2>3. OnEnd(failed, m) = IF scenario.api = "promise"
                           THEN <<IF m = <<>> THEN none ELSE some>> ELSE <<>>
    BY <1>3, <1>5, JoinEmpty
  <2>4. ASSUME NEW q PROVE <<error>> \o <<q>> = <<error, q>>
    BY JoinTwo
  <2>5. results = IF scenario.api = "promise"
                  THEN <<error, IF m = <<>> THEN none ELSE some>> ELSE <<error>>
    BY <2>2, <2>3, <2>4, JoinEmpty
  <2>6. Settle(results) = <<error>>
    BY <1>1, <2>1, <2>5, SettledFirst
  <2> QED  BY <1>2, <1>5, <2>1, <2>6 DEF error
<1>6. CASE c # 0
  <2>1. answers = <<Error(c)>> /\ FirstOf(c, code) = c
    BY <1>6 DEF Told, FirstOf
  <2>2. answers # <<>>
    BY <2>1
  <2>3. errored
    BY <2>2 DEF CallInv
  <2>4. scenario.api = "callback" => results = <<>>
    BY <1>3, <2>3, JoinEmpty DEF OnStatus
  <2> QED  BY <1>1, <1>2, <1>6, <2>1, <2>2, <2>4, SettledKept
<1> QED  BY <1>4, <1>5, <1>6

LEMMA CompletedTells ==
    ASSUME CallInv, open, scenario.sound, NEW c, Told(c), NEW code, NEW m,
           Completed(code, m)
    PROVE  answers' = <<Verdict(FirstOf(c, code), m)>>
<1> DEFINE e == FirstOf(c, code)
<1>1. scenario.header.code \in {-1, 0} \/ scenario.header.readable
  BY MeaningAssumption DEF CallInv
<1>2. \A s : FirstOf(c, FirstOf(code, s)) = IF e # 0 THEN e ELSE s
  BY DEF FirstOf
<1> HIDE DEF e
<1>3. CASE scenario.http \notin HttpOk
  <2> DEFINE s == HttpToGrpc(scenario.http)
  <2>1. Status = s /\ s # 0
    BY <1>3, HttpErrors DEF Status
  <2>2. Report(FirstOf(code, s))
    BY <1>3 DEF Completed
  <2> HIDE DEF s
  <2>3. answers' = IF FirstOf(c, FirstOf(code, s)) = 0 THEN <<>>
                   ELSE <<Error(FirstOf(c, FirstOf(code, s)))>>
    BY <2>2, ReportTells
  <2> QED  BY <1>2, <2>1, <2>3 DEF Verdict, e
<1>4. CASE scenario.http \in HttpOk /\ scenario.header.code \in {-1, 0}
  <2>1. Status = 0
    BY <1>4 DEF Status
  <2>2. ReportAndEnd(code, m)
    BY <1>4 DEF Completed
  <2>3. answers' = IF e # 0 THEN <<Error(e)>>
                   ELSE IF m = <<>> THEN <<Error(UNKNOWN)>> ELSE <<Shown(m[1])>>
    BY <2>2, EndTells DEF e
  <2> QED  BY <2>1, <2>3 DEF Verdict, e
<1>5. CASE scenario.http \in HttpOk /\ scenario.header.code \notin {-1, 0}
  <2> DEFINE s == scenario.header.code
  <2>1. Status = s /\ s # 0
    BY <1>5 DEF Status
  <2>2. Report(FirstOf(code, s))
    BY <1>1, <1>5 DEF Completed
  <2> HIDE DEF s
  <2>3. answers' = IF FirstOf(c, FirstOf(code, s)) = 0 THEN <<>>
                   ELSE <<Error(FirstOf(c, FirstOf(code, s)))>>
    BY <2>2, ReportTells
  <2> QED  BY <1>2, <2>1, <2>3 DEF Verdict, e
<1> QED  BY <1>3, <1>4, <1>5

(* The first error of all frames is the one that Expected looks up. *)
LEMMA FirstErrorIs ==
    ASSUME NEW says, NEW n \in Nat, NEW e, FirstError(e, says, n)
    PROVE  LET errors == {i \in 1..n : says[i].code # 0}
           IN  (e = 0 <=> errors = {}) /\ (e # 0 => says[Min(errors)].code = e)
<1> DEFINE errors == {i \in 1..n : says[i].code # 0}
<1>1. CASE e = 0
  BY <1>1 DEF FirstError
<1>2. CASE e # 0
  <2>1. PICK i \in 1..n : says[i].code = e /\ \A j \in 1..n : j < i => says[j].code = 0
    BY <1>2 DEF FirstError
  <2>2. i \in errors /\ \A j \in errors : i <= j
    BY <1>2, <2>1
  <2>3. \A x \in errors : (\A y \in errors : x <= y) => x = i
    BY <2>2
  <2>4. Min(errors) = i
    <3> HIDE DEF errors
    <3> QED  BY <2>2, <2>3 DEF Min
  <2> HIDE DEF errors
  <2> QED  BY <1>2, <2>1, <2>2, <2>4 DEF errors
<1> QED  BY <1>1, <1>2

LEMMA LastMessageIs ==
    ASSUME NEW says, NEW n \in Nat, NEW m, LastMessage(m, says, n)
    PROVE  LET told == {i \in 1..n : says[i].texts # <<>>}
           IN  /\ m = <<>> <=> told = {}
               /\ m # <<>> => says[Max(told)].texts = <<ResponseGetMessage(m[1])>>
<1> DEFINE told == {i \in 1..n : says[i].texts # <<>>}
<1>1. CASE m = <<>>
  BY <1>1 DEF LastMessage
<1>2. CASE m # <<>>
  <2>1. PICK i \in 1..n : /\ says[i].texts = <<ResponseGetMessage(m[1])>>
                          /\ \A j \in 1..n : i < j => says[j].texts = <<>>
    BY <1>2 DEF LastMessage
  <2>2. i \in told /\ \A j \in told : i >= j
    <3> DEFINE x == ResponseGetMessage(m[1])
    <3>1. <<x>> # <<>>
      <4> HIDE DEF x
      <4> QED  OBVIOUS
    <3>2. i \in told
      BY <2>1, <3>1
    <3>3. \A j \in 1..n : i >= j \/ i < j
      OBVIOUS
    <3> QED  BY <2>1, <3>2, <3>3
  <2>3. \A x \in told : (\A y \in told : x >= y) => x = i
    BY <2>2
  <2>4. Max(told) = i
    <3> HIDE DEF told
    <3> QED  BY <2>2, <2>3 DEF Max
  <2> HIDE DEF told
  <2> QED  BY <1>2, <2>1, <2>2, <2>4 DEF told
<1> QED  BY <1>1, <1>2

(* With all of the text heard the verdict is what is expected. *)
LEMMA VerdictIsExpected ==
    ASSUME scenario \in Scenarios, scenario.sound, NEW p, NEW e, NEW m,
           SoFar(Len(scenario.text), p, e, m),
           scenario.type = "other" => e = UNKNOWN
    PROVE  Verdict(e, m) = Expected
<1> DEFINE n      == Len(Says)
           errors == {i \in 1..n : Says[i].code # 0}
           told   == {i \in 1..n : Says[i].texts # <<>>}
<1>1. Expected =
          IF scenario.type = "other" THEN Error(UNKNOWN)
          ELSE IF errors # {} THEN Error(Says[Min(errors)].code)
          ELSE IF Status # 0 THEN Error(Status)
          ELSE IF told = {} THEN Error(UNKNOWN)
          ELSE [ok |-> TRUE, message |-> Says[Max(told)].texts[1]]
  BY DEF Expected, Says
<1>2. CASE scenario.type = "other"
  <2>1. UNKNOWN # 0
    BY DEF UNKNOWN
  <2> QED  BY <1>1, <1>2, <2>1 DEF Verdict
<1>3. CASE scenario.type # "other"
  <2>1. n \in Nat /\ FirstError(e, Says, n) /\ LastMessage(m, Says, n)
    <3>1. CASE scenario.type = "text"
      <4> DEFINE frames == Read(Len(scenario.text)).frames
      <4>1. Says = [i \in 1..Len(frames) |-> Meaning(frames[i])]
        BY <3>1, SoundText
      <4>2. FirstError(e, Says, Len(frames)) /\ LastMessage(m, Says, Len(frames))
        BY <3>1 DEF SoFar
      <4>3. Len(frames) \in Nat
        <5>1. /\ scenario.text \in Seq(Chars) /\ Bad \notin ToSet(scenario.text)
              /\ Len(scenario.text) \in Nat /\ Len(scenario.text) % 4 = 0
              /\ Read(Len(scenario.text)).state # "broken"
          BY <3>1, SoundText
        <5>2. /\ Len(scenario.text) \in 0..Len(scenario.text)
              /\ Len(scenario.text) \in Len(scenario.text)..Len(scenario.text)
          BY <5>1
        <5>3. frames \in Seq(Frames)
          BY <5>1, <5>2, ReadInPieces DEF Read
        <5> HIDE DEF frames
        <5> QED  BY <5>3, LenProperties
      <4> HIDE DEF frames
      <4>4. n = Len(frames)
        BY <4>1, <4>3
      <4> QED  BY <4>2, <4>3, <4>4
    <3>2. CASE scenario.type # "text"
      <4>1. Says = <<>> /\ e = 0 /\ m = <<>>
        BY <1>3, <3>2 DEF SoFar, Says
      <4>2. n = 0 /\ \A i \in 1..0 : FALSE
        BY <4>1
      <4> QED  BY <4>1, <4>2 DEF FirstError, LastMessage
    <3> QED  BY <3>1, <3>2
  <2>2. (e = 0 <=> errors = {}) /\ (e # 0 => Says[Min(errors)].code = e)
    BY <2>1, FirstErrorIs
  <2>3. /\ m = <<>> <=> told = {}
        /\ m # <<>> => Says[Max(told)].texts = <<ResponseGetMessage(m[1])>>
    BY <2>1, LastMessageIs
  <2> HIDE DEF errors, told
  <2>4. m # <<>> => Says[Max(told)].texts[1] = ResponseGetMessage(m[1])
    <3> DEFINE x == ResponseGetMessage(m[1])
    <3>1. <<x>>[1] = x
      <4> HIDE DEF x
      <4> QED  OBVIOUS
    <3> QED  BY <2>3, <3>1
  <2> QED  BY <1>1, <1>3, <2>2, <2>3, <2>4 DEF Verdict, Shown
<1> QED  BY <1>2, <1>3

-----------------------------------------------------------------------------
(* Faithfulness. *)

LEMMA InitFaith == Init => FaithInv
<1> SUFFICES ASSUME Init PROVE FaithInv
  OBVIOUS
<1>1. Told(0)
  BY DEF Init, Told
<1>2. Read(0) = NewParser
  BY ReadNothing DEF Read
<1>3. NewParser.frames = <<>> /\ Emptied(NewParser) = NewParser
  BY EmptiedNew
<1>4. Len(Read(0).frames) = 0
  BY <1>2, <1>3
<1>5. SoFar(0, NewParser, 0, <<>>)
  <2>1. \A i \in 1..0 : FALSE
    OBVIOUS
  <2> QED  BY <1>2, <1>3, <1>4, <2>1 DEF SoFar, FirstError, LastMessage
<1> QED  BY <1>1, <1>5 DEF Init, FaithInv

(* What is expected, and what was heard, is the same for both states. *)
LEMMA SameScenario ==
    ASSUME UNCHANGED scenario
    PROVE  /\ Expected' = Expected
           /\ \A t, p, c, m : SoFar(t, p, c, m)' <=> SoFar(t, p, c, m)
BY DEF Expected, Status, SoFar, Says, Read

LEMMA ReceiveFaith ==
    ASSUME TypeInv, FaithInv, Receive PROVE FaithInv'
<1> SUFFICES ASSUME scenario.sound
             PROVE  /\ (\E c : Told(c) /\ SoFar(taken, parser, c, last))'
                    /\ ending' # "response"
  BY DEF FaithInv, Receive
<1>1. open /\ UNCHANGED scenario /\ ending' # "response"
  BY DEF Receive, FaithInv
<1>2. PICK c : Told(c) /\ SoFar(taken, parser, c, last)
  BY <1>1 DEF FaithInv
<1>3. PICK n \in taken..Len(scenario.text) :
          Heard(OnReadyStateChange(n)) /\ Report(OnReadyStateChange(n).code)
  BY DEF Receive
<1>4. Follows(OnReadyStateChange(n), c)
  BY <1>2, OnReadyStateChangeFollows
<1>5. PICK heard : heard = OnReadyStateChange(n)
  OBVIOUS
<1> DEFINE e == FirstOf(c, heard.code)
<1>6. SoFar(heard.taken, heard.parser, e, heard.last)
  BY <1>4, <1>5 DEF Follows
<1>7. answers' = IF e = 0 THEN <<>> ELSE <<Error(e)>>
  BY <1>1, <1>2, <1>3, <1>5, ReportTells DEF TypeInv
<1>8. taken' = heard.taken /\ parser' = heard.parser /\ last' = heard.last
  BY <1>3, <1>5 DEF Heard
<1> HIDE DEF e
<1>9. Told(e)'
  BY <1>7 DEF Told
<1>10. SoFar(heard.taken, heard.parser, e, heard.last)'
  BY <1>1, <1>6, SameScenario
<1>11. SoFar(taken, parser, e, last)'
  BY <1>8, <1>10 DEF SoFar
<1> QED  BY <1>1, <1>9, <1>11

LEMMA FinishFaith ==
    ASSUME TypeInv, FaithInv, Finish PROVE FaithInv'
<1> SUFFICES ASSUME scenario.sound
             PROVE  /\ ~open' /\ phase' = "called"
                    /\ answers' = <<Expected'>>
  BY DEF FaithInv, Finish
<1> DEFINE n == Len(scenario.text)
<1>1. open /\ UNCHANGED <<scenario, phase>> /\ phase = "called"
  BY DEF Finish, TypeInv, CallInv
<1>2. PICK c : Told(c) /\ SoFar(taken, parser, c, last)
  BY <1>1 DEF FaithInv
<1>3. n \in taken..n /\ n \in Nat
  BY LenProperties, ScenarioAssumption DEF TypeInv, CallInv, Taken
<1>4. PICK heard : heard = OnReadyStateChange(n)
  OBVIOUS
<1>5. /\ Follows(heard, c)
      /\ scenario.type = "text" => heard.taken = n - (n % 4)
      /\ scenario.type = "other" => FirstOf(c, heard.code) = UNKNOWN
  BY <1>2, <1>3, <1>4, OnReadyStateChangeFollows
<1>6. Completed(heard.code, heard.last) /\ CleanUp("response")
  BY <1>4, <1>5 DEF Finish, Follows
<1>7. answers' = <<Verdict(FirstOf(c, heard.code), heard.last)>>
  BY <1>1, <1>2, <1>6, CompletedTells DEF TypeInv
<1>8. SoFar(n, heard.parser, FirstOf(c, heard.code), heard.last)
  <2>1. SoFar(heard.taken, heard.parser, FirstOf(c, heard.code), heard.last)
    BY <1>5 DEF Follows
  <2>2. CASE scenario.type = "text"
    <3>1. n % 4 = 0
      BY <2>2, SoundText DEF TypeInv, CallInv
    <3>2. n - (n % 4) = n
      <4> HIDE DEF n
      <4> QED  BY <1>3, <3>1
    <3>3. heard.taken = n
      BY <1>5, <2>2, <3>2
    <3> QED  BY <2>1, <3>3
  <2>3. CASE scenario.type # "text"
    BY <2>1, <2>3 DEF SoFar
  <2> QED  BY <2>2, <2>3
<1>9. Verdict(FirstOf(c, heard.code), heard.last) = Expected
  BY <1>5, <1>8, VerdictIsExpected DEF TypeInv, CallInv
<1>10. Expected' = Expected
  BY <1>1, SameScenario
<1> QED  BY <1>1, <1>6, <1>7, <1>9, <1>10 DEF CleanUp

(* Other steps change nothing of what was heard, or end the request        *)
(* otherwise.                                                              *)
LEMMA OtherFaith ==
    ASSUME TypeInv, FaithInv, UNCHANGED scenario,
           \/ UNCHANGED <<phase, open, taken, parser, last, answers, ending>>
           \/ OnLoad \/ Cancel \/ LoseConnection \/ Timeout
    PROVE  FaithInv'
<1> SUFFICES ASSUME scenario.sound
             PROVE  /\ phase' = "loading" \/ open' =>
                           \E c : Told(c)' /\ SoFar(taken, parser, c, last)'
                    /\ ending' = "response" =>
                           ~open' /\ phase' = "called" /\ answers' = <<Expected'>>
  BY DEF FaithInv
<1>1. Expected' = Expected
  BY SameScenario
<1>2. CASE \/ UNCHANGED <<phase, open, taken, parser, last, answers, ending>>
           \/ OnLoad
  <2>1. /\ UNCHANGED <<taken, parser, last, answers>>
        /\ open' => open \/ phase = "loading"
        /\ phase' = "loading" => phase = "loading"
        /\ ending' = "response" => ending = "response" /\ UNCHANGED <<open, phase>>
    <3>1. CASE OnLoad
      <4>1. PICK client : Send(client)
        BY <3>1 DEF OnLoad, Greeter, GreeterPromise
      <4>2. ending' = "response" => ending = "response"
        BY <4>1 DEF Send, CleanUp
      <4>3. phase = "loading" /\ phase' = "called" /\ UNCHANGED <<taken, parser, last, answers>>
        BY <3>1 DEF OnLoad
      <4>4. ending # "response"
        BY <4>3 DEF FaithInv
      <4> QED  BY <4>2, <4>3, <4>4
    <3>2. CASE UNCHANGED <<phase, open, taken, parser, last, answers, ending>>
      BY <3>2
    <3> QED  BY <1>2, <3>1, <3>2
  <2>2. ASSUME phase' = "loading" \/ open'
        PROVE  \E c : Told(c)' /\ SoFar(taken, parser, c, last)'
    <3>1. PICK c : Told(c) /\ SoFar(taken, parser, c, last)
      BY <2>1, <2>2 DEF FaithInv
    <3>2. Told(c)'
      BY <2>1, <3>1 DEF Told
    <3>3. SoFar(taken, parser, c, last)'
      BY <2>1, <3>1 DEF SoFar, Says, Read
    <3> QED  BY <3>2, <3>3
  <2> QED  BY <1>1, <2>1, <2>2 DEF FaithInv
<1>3. CASE Cancel \/ LoseConnection \/ Timeout
  <2>1. ~open' /\ phase' = "called"
    BY <1>3 DEF Cancel, LoseConnection, Timeout, Abort, CleanUp, TypeInv, CallInv
  <2>2. CASE Cancel
    <3>1. UNCHANGED answers /\ (ending' = ending \/ ending' = "cancel")
      BY <2>2, CancelSilent DEF Cancel, Abort, CleanUp, TypeInv
    <3> QED  BY <1>1, <2>1, <3>1 DEF FaithInv
  <2>3. CASE LoseConnection \/ Timeout
    <3>1. ending' # "response"
      BY <2>3 DEF LoseConnection, Timeout, Abort, CleanUp
    <3> QED  BY <2>1, <3>1 DEF FaithInv
  <2> QED  BY <1>3, <2>2, <2>3
<1> QED  BY <1>2, <1>3

LEMMA StepFaith == TypeInv /\ FaithInv /\ [Next]_vars => FaithInv'
<1> SUFFICES ASSUME TypeInv, FaithInv, [Next]_vars PROVE FaithInv'
  OBVIOUS
<1>1. UNCHANGED scenario
  BY DEF Next, vars, OnLoad, Cancel, Receive, Finish, LoseConnection, Timeout
<1>2. CASE UNCHANGED vars
  BY <1>1, <1>2, OtherFaith DEF vars
<1>3. CASE Receive
  BY <1>3, ReceiveFaith
<1>4. CASE Finish
  BY <1>4, FinishFaith
<1>5. CASE OnLoad \/ Cancel \/ LoseConnection \/ Timeout
  BY <1>1, <1>5, OtherFaith
<1> QED  BY <1>2, <1>3, <1>4, <1>5 DEF Next

(* A response that came to its end is answered by what it means, whichever *)
(* groups of its text the pieces end with and wherever they cut its frames *)
(* and messages.                                                           *)
THEOREM Faithful == Spec => []AnswerIsFaithful
<1>1. FaithInv => AnswerIsFaithful
  BY DEF FaithInv, AnswerIsFaithful
<1> QED  BY <1>1, InitFaith, StepFaith, TypeInvHolds, PTL DEF Spec

-----------------------------------------------------------------------------
(* The request: its headers. *)

Pages == INSTANCE SequenceFolds WITH Op <- PageHeader

(* The page's headers have the names of its metadata. *)
PageHeaders(metadata) == FoldLeft(PageHeader, NewHeaders, metadata)

LEMMA PageHeadersAre ==
    ASSUME NEW metadata \in Seq(STRING)
    PROVE  /\ HeaderList(PageHeaders(metadata))
           /\ Names(PageHeaders(metadata)) = ToSet(metadata)
<1> DEFINE n == Len(metadata)
           h(k) == Pages!Run(NewHeaders, metadata, k)
           T == {k \in 0..n : /\ HeaderList(h(k))
                              /\ Names(h(k)) = {metadata[i] : i \in 1..k}}
<1>1. n \in Nat /\ DOMAIN metadata = 1..n /\ \A i \in 1..n : metadata[i] \in STRING
  BY LenProperties
<1>2. /\ h(0) = NewHeaders /\ PageHeaders(metadata) = h(n)
      /\ \A k \in 1..n : h(k) = SetHeader(h(k - 1), metadata[k], "page")
  <2>1. PageHeaders(metadata) = Pages!Folded(NewHeaders, metadata)
    BY DEF PageHeaders, FoldLeft, MapThenFoldSet, Max,
           Pages!Folded, Pages!FoldLeft, Pages!MapThenFoldSet, Pages!Max
  <2>2. \A k \in 1..n : h(k) = PageHeader(h(k - 1), metadata[k])
    BY Pages!RunStep
  <2> QED  BY <2>1, <2>2, Pages!RunStart, Pages!RunEnd DEF PageHeader
<1> HIDE DEF h
<1>3. 0 \in T
  <2>1. {metadata[i] : i \in 1..0} = {}
    OBVIOUS
  <2> QED  BY <1>1, <1>2, <2>1, NoHeaders
<1>4. ASSUME NEW k \in 1..n, k - 1 \in T PROVE k \in T
  <2> DEFINE g == h(k - 1)
             name == metadata[k]
  <2>1. HeaderList(g) /\ Names(g) = {metadata[i] : i \in 1..(k - 1)}
    BY <1>4
  <2>2. name \in HeaderNames /\ "page" \in Values
    BY <1>1 DEF HeaderNames, Values
  <2>3. h(k) = SetHeader(g, name, "page")
    BY <1>2
  <2>4. HeaderList(h(k)) /\ Names(h(k)) = Names(g) \cup {name}
    <3> HIDE DEF g, name
    <3>1. /\ HeaderList(SetHeader(g, name, "page"))
          /\ Names(SetHeader(g, name, "page")) = Names(g) \cup {name}
      BY <2>1, <2>2, SetHeaderIs, Zenon
    <3> QED  BY <2>3, <3>1
  <2>5. k \in 0..n /\ \A i : i \in 1..k <=> i \in 1..(k - 1) \/ i = k
    BY <1>1
  <2> QED  BY <2>1, <2>4, <2>5
<1>5. n \in T
  <2> HIDE DEF T
  <2> QED  BY <1>1, <1>3, <1>4, Pages!PositionInduction
<1>6. ToSet(metadata) = {metadata[i] : i \in 1..n}
  BY <1>1 DEF ToSet
<1> QED  BY <1>2, <1>5, <1>6

Typed == "application/grpc-web-text"
OwnNames == {"Content-Type", "Accept", "X-User-Agent", "X-Grpc-Web"}

(* Headers of these names, with the type of a text. *)
TypedAs(h, names) ==
    HeaderList(h) /\ Names(h) = names /\ Valued(h, "Content-Type", Typed)

LEMMA TypeSet ==
    ASSUME NEW h, HeaderList(h)
    PROVE  TypedAs(SetHeader(h, "Content-Type", Typed), Names(h) \cup {"Content-Type"})
<1>1. Typed \in Values /\ "Content-Type" \in HeaderNames
  BY DEF Values, Typed, HeaderNames
<1> QED  BY <1>1, SetHeaderIs, Zenon DEF TypedAs

(* Setting another name keeps the type. *)
LEMMA OtherSet ==
    ASSUME NEW h, NEW names, TypedAs(h, names),
           NEW name \in HeaderNames, name # "Content-Type", NEW value \in Values
    PROVE  /\ TypedAs(SetHeader(h, name, value), names \cup {name})
           /\ Valued(SetHeader(h, name, value), name, value)
<1> DEFINE g == SetHeader(h, name, value)
<1>1. HeaderList(h) /\ Names(h) = names /\ Valued(h, "Content-Type", Typed)
  BY DEF TypedAs
<1>2. /\ HeaderList(g) /\ Names(g) = Names(h) \cup {name} /\ Valued(g, name, value)
      /\ \A m, v : m # name /\ Valued(h, m, v) => Valued(g, m, v)
  BY <1>1, SetHeaderIs, Zenon
<1> HIDE DEF g
<1>3. Valued(g, "Content-Type", Typed)
  BY <1>1, <1>2
<1> QED  BY <1>1, <1>2, <1>3 DEF TypedAs, g

(* What the map of a text request has. *)
CallHeaders(h) ==
    /\ HeaderList(h)
    /\ Names(h) = ((ToSet(scenario.metadata) \cup OwnNames) \ {"deadline"})
                      \cup (IF TimeLeft > 0 THEN {"grpc-timeout"} ELSE {})
    /\ Valued(h, "Content-Type", Typed)
    /\ TimeLeft > 0 => Valued(h, "grpc-timeout", TimeLeft)

(* The map that Oc gives to the XhrIo. *)
LEMMA HeadersAre ==
    ASSUME scenario.metadata \in Seq(STRING), TimeLeft \in Int
    PROVE  CallHeaders(Headers("text"))
<1> DEFINE pages == ToSet(scenario.metadata)
           h0 == PageHeaders(scenario.metadata)
           h1 == SetHeader(h0, "Content-Type", Typed)
           h2 == SetHeader(h1, "Accept", Typed)
           h3 == SetHeader(h2, "X-User-Agent", "grpc-web-javascript/0.1")
           h4 == SetHeader(h3, "X-Grpc-Web", "1")
           h5 == DeleteHeader(h4, "deadline")
           h6 == SetHeader(h5, "grpc-timeout", TimeLeft)
<1>0. Headers("text") = IF TimeLeft > 0 THEN h6 ELSE h5
  BY DEF Headers, TypedHeaders, PageHeaders, Typed
<1>1. HeaderList(h0) /\ Names(h0) = pages
  BY PageHeadersAre
<1>2. /\ Typed \in Values /\ "grpc-web-javascript/0.1" \in Values /\ "1" \in Values
      /\ TimeLeft \in Values
      /\ {"Accept", "X-User-Agent", "X-Grpc-Web", "deadline", "grpc-timeout"} \subseteq HeaderNames
      /\ \A name \in {"Accept", "X-User-Agent", "X-Grpc-Web", "grpc-timeout"} :
            name # "Content-Type"
  BY DEF Values, Typed, HeaderNames
<1> HIDE DEF h0, pages
<1>3. TypedAs(h1, pages \cup {"Content-Type"})
  BY <1>1, TypeSet
<1> HIDE DEF h1
<1>4. TypedAs(h2, pages \cup {"Content-Type"} \cup {"Accept"})
  BY <1>2, <1>3, OtherSet, Zenon
<1> HIDE DEF h2
<1>5. TypedAs(h3, pages \cup {"Content-Type"} \cup {"Accept"} \cup {"X-User-Agent"})
  BY <1>2, <1>4, OtherSet, Zenon
<1> HIDE DEF h3
<1>6. TypedAs(h4, pages \cup {"Content-Type"} \cup {"Accept"} \cup {"X-User-Agent"}
                      \cup {"X-Grpc-Web"})
  BY <1>2, <1>5, OtherSet, Zenon
<1> HIDE DEF h4
<1>7. TypedAs(h5, (pages \cup OwnNames) \ {"deadline"})
  <2>1. HeaderList(h4) /\ Valued(h4, "Content-Type", Typed)
    BY <1>6 DEF TypedAs
  <2>2. /\ HeaderList(h5) /\ Names(h5) = Names(h4) \ {"deadline"}
        /\ Valued(h5, "Content-Type", Typed)
    BY <1>2, <2>1, DeleteHeaderIs, Zenon
  <2>3. Names(h4) = pages \cup OwnNames
    BY <1>6 DEF OwnNames, TypedAs
  <2> QED  BY <2>2, <2>3 DEF TypedAs
<1> HIDE DEF h5
<1>8. /\ TypedAs(h6, ((pages \cup OwnNames) \ {"deadline"}) \cup {"grpc-timeout"})
      /\ Valued(h6, "grpc-timeout", TimeLeft)
  BY <1>2, <1>7, OtherSet, Zenon
<1> HIDE DEF h6
<1>9. CASE TimeLeft > 0
  BY <1>0, <1>8, <1>9 DEF CallHeaders, TypedAs, pages
<1>10. CASE ~(TimeLeft > 0)
  BY <1>0, <1>7, <1>10 DEF CallHeaders, TypedAs, pages
<1> QED  BY <1>9, <1>10

(* The spellings of the names that the request is judged by. *)
LEMMA Spellings ==
    /\ Lower("Content-Type") = "content-type" /\ Lower("grpc-timeout") = "grpc-timeout"
    /\ \A name \in HeaderNames :
          /\ Lower(name) = "content-type" => name \in {"Content-Type", "content-type"}
          /\ Lower(name) = "grpc-timeout" => name = "grpc-timeout"
          /\ Lower(name) = "deadline" => name \in {"Deadline", "deadline"}
BY DEF Lower

(* What the headers of a request tell of the page, with the timer. *)
Tells(told, set) ==
    LET pages == ToSet(scenario.metadata)
    IN  /\ "content-type" \in pages \/ told["content-type"] = <<"application/grpc-web-text">>
        /\ {Lower(name) : name \in pages \ {"deadline"}} \subseteq DOMAIN told
        /\ "deadline" \in DOMAIN told => "Deadline" \in pages
        /\ set => "grpc-timeout" \in DOMAIN told
        /\ "grpc-timeout" \in DOMAIN told =>
               \/ TimeLeft <= 0 /\ "grpc-timeout" \in pages
               \/ told["grpc-timeout"][1] \in 1..(XhrTimeout(TimeLeft) - 1)

LEMMA HeadersTell ==
    ASSUME scenario.metadata \in Seq(STRING), TimeLeft \in Int,
           NEW set, set => SetsTimer(XhrTimeout(TimeLeft))
    PROVE  Tells(RequestHeaders(Headers("text")), set)
<1> DEFINE pages == ToSet(scenario.metadata)
           h == Headers("text")
           told == RequestHeaders(h)
<1>1. CallHeaders(h)
  BY HeadersAre
<1> HIDE DEF h
<1>2. h \in Seq(Header) /\ \A i, j \in 1..Len(h) : h[i].name = h[j].name => i = j
  BY <1>1 DEF CallHeaders, HeaderList
<1>3. \A i \in 1..Len(h) : h[i].name \in HeaderNames
  <2>1. \A i \in 1..Len(h) : h[i] \in Header
    BY <1>2, LenProperties
  <2> QED  BY <2>1 DEF Header
<1>4. pages \subseteq STRING
  BY LenProperties DEF ToSet
<1> DEFINE own == (pages \cup OwnNames) \ {"deadline"}
           timed == IF TimeLeft > 0 THEN {"grpc-timeout"} ELSE {}
<1>5. Names(h) = own \cup timed
  BY <1>1 DEF CallHeaders
<1>6. DOMAIN told = {Lower(name) : name \in Names(h)}
  BY <1>2, RequestHas
<1>7. \A j \in 1..Len(h) :
          (\A i \in 1..Len(h) : Lower(h[i].name) = Lower(h[j].name) => i = j) =>
              told[Lower(h[j].name)] = <<h[j].value>>
  BY <1>2, RequestHas
<1> HIDE DEF told, own, timed, pages
<1>8. ASSUME NEW name \in Names(h), NEW value, Valued(h, name, value),
             \A other \in Names(h) : Lower(other) = Lower(name) => other = name
      PROVE  told[Lower(name)] = <<value>>
  <2>1. PICK j \in 1..Len(h) : h[j].name = name
    BY DEF Names
  <2>2. \A i \in 1..Len(h) : Lower(h[i].name) = Lower(h[j].name) => i = j
    <3>1. ASSUME NEW i \in 1..Len(h), Lower(h[i].name) = Lower(h[j].name) PROVE i = j
      <4>1. h[i].name \in Names(h)
        BY DEF Names
      <4>2. h[i].name = h[j].name
        BY <1>8, <2>1, <3>1, <4>1
      <4> QED  BY <1>2, <4>2
    <3> QED  BY <3>1
  <2>3. h[j].value = value
    BY <1>8, <2>1 DEF Valued
  <2> QED  BY <1>7, <2>1, <2>2, <2>3
<1>9. ASSUME "content-type" \notin pages
      PROVE  told["content-type"] = <<"application/grpc-web-text">>
  <2>1. "Content-Type" \in Names(h)
    BY <1>5 DEF own, OwnNames
  <2>2. "content-type" \notin Names(h)
    BY <1>5, <1>9 DEF own, timed, OwnNames
  <2>3. Names(h) \subseteq HeaderNames
    BY <1>3 DEF Names
  <2>4. \A other \in Names(h) : Lower(other) = Lower("Content-Type") => other = "Content-Type"
    BY <2>2, <2>3, Spellings
  <2>5. Valued(h, "Content-Type", "application/grpc-web-text")
    BY <1>1 DEF CallHeaders, Typed
  <2> QED  BY <1>8, <2>1, <2>4, <2>5, Spellings
<1>10. {Lower(name) : name \in pages \ {"deadline"}} \subseteq DOMAIN told
  BY <1>5, <1>6 DEF own
<1>11. "deadline" \in DOMAIN told => "Deadline" \in pages
  <2> SUFFICES ASSUME "deadline" \in DOMAIN told PROVE "Deadline" \in pages
    OBVIOUS
  <2>1. PICK name \in Names(h) : Lower(name) = "deadline"
    BY <1>6
  <2>2. name \in HeaderNames
    BY <1>3 DEF Names
  <2>3. name \in {"Deadline", "deadline"}
    BY <2>1, <2>2, Spellings
  <2> QED  BY <1>5, <2>3 DEF own, timed, OwnNames
<1>12. CASE TimeLeft > 0
  <2>1. "grpc-timeout" \in Names(h)
    BY <1>5, <1>12 DEF timed
  <2>2. Names(h) \subseteq HeaderNames
    BY <1>3 DEF Names
  <2>3. \A other \in Names(h) : Lower(other) = Lower("grpc-timeout") => other = "grpc-timeout"
    BY <2>2, Spellings
  <2>4. Valued(h, "grpc-timeout", TimeLeft)
    BY <1>1, <1>12 DEF CallHeaders
  <2>5. told["grpc-timeout"] = <<TimeLeft>>
    BY <1>8, <2>1, <2>3, <2>4, Spellings
  <2>6. "grpc-timeout" \in DOMAIN told
    BY <1>6, <2>1, Spellings
  <2>7. TimeLeft \in 1..(XhrTimeout(TimeLeft) - 1)
    <3> DEFINE t == TimeLeft
    <3>1. t \in Int /\ t > 0
      BY <1>12
    <3> HIDE DEF t
    <3>2. t \in 1..(XhrTimeout(t) - 1)
      BY <3>1 DEF XhrTimeout
    <3> QED  BY <3>2 DEF t
  <2> QED  BY <1>9, <1>10, <1>11, <2>5, <2>6, <2>7 DEF Tells, told, h, pages
<1>13. CASE ~(TimeLeft > 0)
  <2>1. ~set
    BY <1>13 DEF SetsTimer, XhrTimeout
  <2>2. TimeLeft <= 0
    BY <1>13
  <2>3. "grpc-timeout" \in DOMAIN told => "grpc-timeout" \in pages
    <3> SUFFICES ASSUME "grpc-timeout" \in DOMAIN told PROVE "grpc-timeout" \in pages
      OBVIOUS
    <3>1. PICK name \in Names(h) : Lower(name) = "grpc-timeout"
      BY <1>6
    <3>2. name = "grpc-timeout"
      BY <1>3, <3>1, Spellings DEF Names
    <3> QED  BY <1>5, <1>13, <3>2 DEF own, timed, OwnNames
  <2> QED  BY <1>9, <1>10, <1>11, <2>1, <2>2, <2>3 DEF Tells, told, h, pages
<1> QED  BY <1>12, <1>13

-----------------------------------------------------------------------------
(* The request: its body. *)

(* The body is the text of one frame with the message. *)
Carries(text) ==
    LET bytes == Base64Decode(text).bytes
        body  == SubSeq(bytes, 6, Len(bytes))
        read  == DeserializeBinary(body)
    IN  /\ text \in Seq(0..Pad)
        /\ bytes[1] = DataKind
        /\ Len(body) = ((bytes[2] * 256 + bytes[3]) * 256 + bytes[4]) * 256 + bytes[5]
        /\ WellFormed(scenario.request) => Whole(scenario.request, body, read)

LEMMA BodyCarries ==
    ASSUME Sendable(scenario.request) PROVE Carries(Body("text"))
<1> DEFINE s == scenario.request
           body == SerializeBinary(SetMessage(GreeterRequest, s))
           frame == FrameRequest(body)
           text == Base64Encode(frame)
<1>1. Body("text") = text
  BY DEF Body, RequestSerializeFn, Request
<1>2. /\ body \in Seq(Bytes) /\ Len(body) < VarintEnd
      /\ WellFormed(s) => Whole(s, body, DeserializeBinary(body))
  BY MessageReadBack
<1> HIDE DEF body
<1>3. Framed(frame, body)
  BY <1>2, FrameRead
<1> HIDE DEF frame
<1>4. frame \in Seq(Bytes)
  BY <1>3 DEF Framed
<1>5. text \in Seq(0..Pad) /\ Base64Decode(text) = [ok |-> TRUE, bytes |-> frame]
  BY <1>4, DecodeEncoded, Zenon
<1> HIDE DEF text
<1>6. Base64Decode(text).bytes = frame
  BY <1>5
<1>7. SubSeq(frame, 6, Len(frame)) = body /\ frame[1] = DataKind
  BY <1>3 DEF Framed
<1>8. Len(body) = ((frame[2] * 256 + frame[3]) * 256 + frame[4]) * 256 + frame[5]
  BY <1>3 DEF Framed, FrameDigits
<1>9. Carries(text)
  BY <1>2, <1>5, <1>6, <1>7, <1>8, Zenon DEF Carries
<1> QED  BY <1>1, <1>9

-----------------------------------------------------------------------------
(* The request as a whole. *)

(* Both clients are of the text format.  What was sent stays what the      *)
(* scenario asks for, and a timer that is set is the one of its deadline.  *)
SentInv ==
    /\ scenario \in Scenarios
    /\ \/ sent = [headers |-> <<>>, body |-> <<>>] /\ ~timer
       \/ /\ sent = [headers |-> RequestHeaders(Headers("text")), body |-> Body("text")]
          /\ timer => SetsTimer(XhrTimeout(TimeLeft))

(* Each stub says that its format is text, over what the page asks for. *)
LEMMA TextClients ==
    ASSUME NEW options
    PROVE  GreeterClient(options).format = "text" /\ GreeterPromiseClient(options).format = "text"
BY DEF GreeterClient, GreeterPromiseClient, GrpcWebClientBase, Option, Assign

LEMMA InitSent == Init => SentInv
BY DEF Init, SentInv

LEMMA SendSent ==
    ASSUME SentInv, UNCHANGED scenario, NEW client, client.format = "text", Send(client)
    PROVE  SentInv'
<1>1. CASE scenario.opens
  <2>1. /\ sent' = [headers |-> RequestHeaders(Headers("text")), body |-> Body("text")]
        /\ timer' = SetsTimer(XhrTimeout(TimeLeft))
    BY <1>1 DEF Send
  <2>2. scenario' = scenario
    OBVIOUS
  <2> QED  BY <2>1, <2>2 DEF SentInv, Headers, Body, Request, TimeLeft
<1>2. CASE ~scenario.opens
  <2>1. UNCHANGED sent /\ timer' = FALSE /\ scenario' = scenario
    BY <1>2 DEF Send, CleanUp
  <2> QED  BY <2>1 DEF SentInv, Headers, Body, Request, TimeLeft
<1> QED  BY <1>1, <1>2

LEMMA StepSent == SentInv /\ [Next]_vars => SentInv'
<1> SUFFICES ASSUME SentInv, [Next]_vars PROVE SentInv'
  OBVIOUS
<1>1. ASSUME UNCHANGED <<scenario, sent>>, timer' => timer PROVE SentInv'
  BY <1>1 DEF SentInv, Headers, Body, Request, TimeLeft
<1>2. CASE OnLoad
  <2>1. UNCHANGED scenario
    BY <1>2 DEF OnLoad
  <2>2. \E client : client.format = "text" /\ Send(client)
    BY <1>2, TextClients DEF OnLoad, Greeter, GreeterPromise, Service
  <2> QED  BY <2>1, <2>2, SendSent
<1>3. CASE Cancel
  BY <1>1, <1>3 DEF Cancel, Abort, CleanUp
<1>4. CASE Receive
  BY <1>1, <1>4 DEF Receive
<1>5. CASE Finish
  BY <1>1, <1>5 DEF Finish, CleanUp
<1>6. CASE LoseConnection
  BY <1>1, <1>6 DEF LoseConnection, CleanUp
<1>7. CASE Timeout
  BY <1>1, <1>7 DEF Timeout, Abort, CleanUp
<1>8. CASE UNCHANGED vars
  BY <1>1, <1>8 DEF vars
<1> QED  BY <1>2, <1>3, <1>4, <1>5, <1>6, <1>7, <1>8 DEF Next

(* What was sent so is whole. *)
LEMMA SentWhole == SentInv => RequestIsWhole
<1> SUFFICES ASSUME SentInv, sent.body # <<>> PROVE RequestIsWhole
  BY DEF RequestIsWhole
<1>1. /\ sent.headers = RequestHeaders(Headers("text")) /\ sent.body = Body("text")
      /\ timer => SetsTimer(XhrTimeout(TimeLeft))
  BY DEF SentInv
<1>2. /\ scenario.metadata \in Seq(STRING) /\ scenario.left \in Int
  BY ScenarioAssumption DEF SentInv
<1>3. Sendable(scenario.request)
  <2> DEFINE l == Len(scenario.request)
  <2>1. scenario.request \in Seq(CodeUnits) /\ l <= LongestText
    BY RequestTextAssumption DEF SentInv
  <2>2. l \in Nat
    BY <2>1, LenProperties
  <2> HIDE DEF l
  <2>3. 4 * l + 6 < VarintEnd
    BY <2>1, <2>2, SMT DEF VarintEnd, LongestText
  <2> QED  BY <2>1, <2>3 DEF Sendable, l
<1>4. TimeLeft \in Int
  BY <1>2 DEF TimeLeft
<1>5. Tells(sent.headers, timer)
  BY <1>1, <1>2, <1>4, HeadersTell
<1>6. Carries(sent.body)
  BY <1>1, <1>3, BodyCarries
<1> QED  BY <1>5, <1>6, Zenon DEF RequestIsWhole, Tells, Carries, Whole, Request

(* What a page sends is its text: in one frame with its size, in as many   *)
(* bytes as UTF-8 has, and read back as it was, whatever the text; under   *)
(* headers that keep its metadata and announce a deadline before it is due *)
(* in the browser (client.js, greeter_pb.js, the rpcCall of bundle.js).    *)
THEOREM WholeRequest == Spec => []RequestIsWhole
<1>1. SentInv /\ [Next]_vars => SentInv'
  BY StepSent
<1> QED  BY InitSent, <1>1, SentWhole, PTL DEF Spec
=============================================================================
