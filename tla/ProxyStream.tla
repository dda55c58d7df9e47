----------------------------- MODULE ProxyStream -----------------------------
(***************************************************************************)
(* One RPC through the transparent proxy of boot/proxy_entry.go: the       *)
(* handler goroutine (handler.handler), the pump from the caller's stream  *)
(* to the backend's (forwardServerToClient, "s2c") and the pump back       *)
(* (forwardClientToServer, "c2s").  The pumps report through one buffered  *)
(* error channel each; the handler selects over both.                      *)
(*                                                                         *)
(* The caller, the backend and the two gRPC streams are external: what a   *)
(* call on a stream may return is modelled from how the handler and the    *)
(* pumps use it.  Every RecvMsg, SendMsg and select branch is one step, so *)
(* the caller leaving and the backend ending fall between any two of them. *)
(***************************************************************************)
EXTENDS Naturals, SequencesExt

CONSTANTS
    Msg,        \* message payloads (frame.payload), opaque to the proxy
    Oversize,   \* payloads above the receive limit of the proxy's streams
    NoMsg,      \* a frame nothing has been received into
    MaxUp,      \* bound: messages the caller sends in the call
    MaxDown     \* bound: messages the backend sends in the call

ASSUME MsgAssumption ==
    /\ Oversize \subseteq Msg
    /\ NoMsg \notin Msg

ASSUME BoundAssumption == MaxUp \in Nat /\ MaxDown \in Nat

VARIABLES
    up,         \* history: messages the caller sent
    callerDone, \* the caller has half-closed its stream
    callerGone, \* the caller cancelled, hit its deadline or disconnected
    s2c,        \* where the s2c pump is
    upRead,     \* how many messages of up the s2c pump has received
    s2cFrame,   \* its frame f
    s2cErrChan, \* its error channel (capacity 1): "empty" or the error in it
    toBackend,  \* messages the s2c pump sent on the client stream
    sendClosed, \* CloseSend took effect on the client stream
    backend,    \* the backend's handler: none, running, ok, failed
    down,       \* history: messages the backend sent
    c2s,        \* where the c2s pump is
    downRead,   \* how many messages of down the c2s pump has received
    c2sFrame,   \* its frame f
    c2sErrChan, \* its error channel (capacity 1)
    header,     \* the backend's header has been sent to the caller
    toCaller,   \* messages the c2s pump sent on the server stream
    trailer,    \* the backend's trailer has been set on the server stream
    hpc,        \* where the handler is
    iter,       \* the handler's loop variable i
    cancelled,  \* clientCancel was called
    outcome     \* the status the handler returned, "pending" until it does

upVars     == <<up, callerDone, callerGone>>
s2cVars    == <<s2c, upRead, s2cFrame, toBackend>>
downVars   == <<backend, down>>
c2sVars    == <<c2s, downRead, c2sFrame, header, toCaller>>
handlerVars == <<trailer, hpc, iter, cancelled, outcome, sendClosed>>
chanVars   == <<s2cErrChan, c2sErrChan>>
vars == <<upVars, s2cVars, downVars, c2sVars, handlerVars, chanVars>>

Init ==
    /\ up = <<>> /\ callerDone = FALSE /\ callerGone = FALSE
    /\ s2c = "off" /\ upRead = 0 /\ s2cFrame = NoMsg /\ toBackend = <<>>
    /\ s2cErrChan = "empty" /\ sendClosed = FALSE
    /\ backend = "none" /\ down = <<>>
    /\ c2s = "off" /\ downRead = 0 /\ c2sFrame = NoMsg /\ toCaller = <<>>
    /\ c2sErrChan = "empty" /\ header = FALSE /\ trailer = FALSE
    /\ hpc = "director" /\ iter = 0 /\ cancelled = FALSE
    /\ outcome = "pending"

(* The server stream's context ends when the caller leaves and when the    *)
(* handler returns; the client stream's context inherits from it.          *)
ServerCtxDone == callerGone \/ hpc = "returned"
(* Mutant: the client context starts from context.Background().            *)
ClientCtxDetached == cancelled
ClientCtxDone == cancelled \/ ServerCtxDone

Ended == backend \in {"ok", "failed"}

(* The client stream is over once its RPC has a status: the backend ended, *)
(* its context did, or a RecvMsg on it failed.                             *)
StreamDead == Ended \/ ClientCtxDone \/ c2s = "done"

-----------------------------------------------------------------------------
(* External: the caller and the backend's handler. *)

CallerSend ==
    /\ hpc # "returned" /\ ~callerDone /\ ~callerGone
    /\ Len(up) < MaxUp
    /\ \E m \in Msg : up' = Append(up, m)
    /\ UNCHANGED <<callerDone, callerGone, s2cVars, downVars, c2sVars,
                   handlerVars, chanVars>>

CallerHalfClose ==
    /\ hpc # "returned" /\ ~callerDone /\ ~callerGone
    /\ callerDone' = TRUE
    /\ UNCHANGED <<up, callerGone, s2cVars, downVars, c2sVars, handlerVars,
                   chanVars>>

CallerLeave ==
    /\ hpc # "returned" /\ ~callerGone
    /\ callerGone' = TRUE
    /\ UNCHANGED <<up, callerDone, s2cVars, downVars, c2sVars, handlerVars,
                   chanVars>>

BackendSend ==
    /\ backend = "running"
    /\ Len(down) < MaxDown
    /\ \E m \in Msg : down' = Append(down, m)
    /\ UNCHANGED <<upVars, s2cVars, backend, c2sVars, handlerVars, chanVars>>

(* The backend's handler may return before it has read everything, and a   *)
(* broken connection to the backend reaches the proxy as a failed status.  *)
BackendEnd ==
    /\ backend = "running"
    /\ backend' \in {"ok", "failed"}
    /\ UNCHANGED <<upVars, s2cVars, down, c2sVars, handlerVars, chanVars>>

-----------------------------------------------------------------------------
(* The s2c pump: forwardServerToClient. *)

(* ret <- err on a channel with one free slot.  The mutant is a channel    *)
(* without a buffer: the send waits for the handler's select.              *)
ReportUnbuffered(chan) == chan = "empty" /\ hpc = "select"
Report(chan) == chan = "empty"

S2CRecv ==
    /\ s2c = "recv"
    /\ upRead < Len(up) /\ up[upRead + 1] \notin Oversize
    /\ upRead' = upRead + 1
    /\ s2cFrame' = up[upRead + 1]
    /\ s2c' = "send"
    /\ UNCHANGED <<toBackend, upVars, downVars, c2sVars, handlerVars, chanVars>>

(* What RecvMsg on the server stream returns instead of a message.  Once   *)
(* its context is done it may do so with messages still buffered.          *)
S2CRecvError(err) ==
    CASE err = "eof"      -> callerDone /\ upRead = Len(up)
      [] err = "tooLarge" -> upRead < Len(up) /\ up[upRead + 1] \in Oversize
      [] err = "canceled" -> ServerCtxDone

S2CRecvFail ==
    /\ s2c = "recv"
    /\ Report(s2cErrChan)
    /\ \E err \in {"eof", "tooLarge", "canceled"} :
          S2CRecvError(err) /\ s2cErrChan' = err
    /\ s2c' = "done"
    /\ UNCHANGED <<upRead, s2cFrame, toBackend, c2sErrChan, upVars, downVars,
                   c2sVars, handlerVars>>

(* Mutant: a SendMsg that is retried after it succeeded. *)
S2CSendAgain ==
    /\ s2c = "send"
    /\ toBackend' = Append(toBackend, s2cFrame)
    /\ s2c' \in {"recv", "send"}
    /\ Len(toBackend) < 3
    /\ UNCHANGED <<upRead, s2cFrame, upVars, downVars, c2sVars, handlerVars,
                   chanVars>>

S2CSend ==
    /\ s2c = "send"
    /\ toBackend' = Append(toBackend, s2cFrame)
    /\ s2c' = "recv"
    /\ UNCHANGED <<upRead, s2cFrame, upVars, downVars, c2sVars, handlerVars,
                   chanVars>>

(* SendMsg on a client stream that is over returns io.EOF: the handler     *)
(* cannot tell it from the caller's own end of stream.                     *)
S2CSendFail ==
    /\ s2c = "send"
    /\ StreamDead
    /\ Report(s2cErrChan)
    /\ s2cErrChan' = "eof"
    /\ s2c' = "done"
    /\ UNCHANGED <<upRead, s2cFrame, toBackend, c2sErrChan, upVars, downVars,
                   c2sVars, handlerVars>>

-----------------------------------------------------------------------------
(* The c2s pump: forwardClientToServer. *)

(* The header is relayed once, between the first RecvMsg and its SendMsg.  *)
C2SRecv ==
    /\ c2s = "recv"
    /\ downRead < Len(down) /\ down[downRead + 1] \notin Oversize
    /\ downRead' = downRead + 1
    /\ c2sFrame' = down[downRead + 1]
    /\ c2s' = IF downRead = 0 THEN "header" ELSE "send"
    /\ UNCHANGED <<header, toCaller, upVars, s2cVars, downVars, handlerVars,
                   chanVars>>

(* The status of the backend comes behind every message it sent.           *)
C2SRecvError(err) ==
    CASE err = "eof"      -> backend = "ok" /\ downRead = Len(down)
      [] err = "status"   -> backend = "failed" /\ downRead = Len(down)
      [] err = "tooLarge" -> downRead < Len(down) /\ down[downRead + 1] \in Oversize
      [] err = "canceled" -> ClientCtxDone

C2SRecvFail ==
    /\ c2s = "recv"
    /\ Report(c2sErrChan)
    /\ \E err \in {"eof", "status", "tooLarge", "canceled"} :
          C2SRecvError(err) /\ c2sErrChan' = err
    /\ c2s' = "done"
    /\ UNCHANGED <<downRead, c2sFrame, header, toCaller, s2cErrChan, upVars,
                   s2cVars, downVars, handlerVars>>

C2SHeader ==
    /\ c2s = "header"
    /\ hpc # "returned"
    /\ header' = TRUE
    /\ c2s' = "send"
    /\ UNCHANGED <<downRead, c2sFrame, toCaller, upVars, s2cVars, downVars,
                   handlerVars, chanVars>>

(* Once the handler has returned, the status is written and nothing more   *)
(* can be sent on the server stream.                                       *)
C2SSend ==
    /\ c2s = "send"
    /\ hpc # "returned"
    /\ toCaller' = Append(toCaller, c2sFrame)
    /\ c2s' = "recv"
    /\ UNCHANGED <<downRead, c2sFrame, header, upVars, s2cVars, downVars,
                   handlerVars, chanVars>>

(* SendHeader or SendMsg fails on a server stream whose context is done.   *)
C2SSendFail ==
    /\ c2s \in {"header", "send"}
    /\ ServerCtxDone
    /\ Report(c2sErrChan)
    /\ c2sErrChan' = "sendFailed"
    /\ c2s' = "done"
    /\ UNCHANGED <<downRead, c2sFrame, header, toCaller, s2cErrChan, upVars,
                   s2cVars, downVars, handlerVars>>

-----------------------------------------------------------------------------
(* The handler goroutine: handler.handler. *)

Return(status) == hpc' = "returned" /\ outcome' = status

(* The director refuses the method (codes.Unimplemented) or names a        *)
(* connection.                                                             *)
DirectorRefuse ==
    /\ hpc = "director"
    /\ Return("unimplemented")
    /\ UNCHANGED <<trailer, iter, cancelled, sendClosed, upVars, s2cVars,
                   downVars, c2sVars, chanVars>>

DirectorAccept ==
    /\ hpc = "director"
    /\ hpc' = "dial"
    /\ UNCHANGED <<trailer, iter, cancelled, outcome, sendClosed, upVars,
                   s2cVars, downVars, c2sVars, chanVars>>

(* NewClientStream fails while the backend cannot be reached, and when the *)
(* caller leaves first.                                                    *)
DialFail ==
    /\ hpc = "dial"
    /\ Return("unavailable")
    /\ UNCHANGED <<trailer, iter, cancelled, sendClosed, upVars, s2cVars,
                   downVars, c2sVars, chanVars>>

(* Mutant: the s2c pump sends before it has received. *)
DialSendFirst ==
    /\ hpc = "dial"
    /\ hpc' = "select"
    /\ backend' = "running"
    /\ s2c' = "send" /\ c2s' = "recv"
    /\ UNCHANGED <<upRead, s2cFrame, toBackend, down, downRead, c2sFrame,
                   header, toCaller, trailer, iter, cancelled, outcome,
                   sendClosed, upVars, chanVars>>
Dial ==
    /\ hpc = "dial"
    /\ hpc' = "select"
    /\ backend' = "running"
    /\ s2c' = "recv" /\ c2s' = "recv"
    /\ UNCHANGED <<upRead, s2cFrame, toBackend, down, downRead, c2sFrame,
                   header, toCaller, trailer, iter, cancelled, outcome,
                   sendClosed, upVars, chanVars>>

(* Mutant: CloseSend on any error of the s2c pump. *)
SelectS2CEofOrError ==
    /\ hpc = "select" /\ iter < 2 /\ s2cErrChan # "empty"
    /\ s2cErrChan' = "empty"
    /\ sendClosed' = (IF StreamDead THEN sendClosed ELSE TRUE)
    /\ iter' = iter + 1
    /\ UNCHANGED <<hpc, outcome, cancelled, trailer, c2sErrChan, upVars,
                   s2cVars, downVars, c2sVars>>
(* Mutant: the caller's half-close ends the call with a nil error. *)
SelectS2CEofReturn ==
    /\ hpc = "select" /\ iter < 2 /\ s2cErrChan = "eof"
    /\ s2cErrChan' = "empty"
    /\ Return("ok")
    /\ UNCHANGED <<iter, cancelled, sendClosed, trailer, c2sErrChan, upVars,
                   s2cVars, downVars, c2sVars>>
(* case s2cErr := <-s2cErrChan, io.EOF.  CloseSend on a stream that is     *)
(* over sends nothing; its error is dropped.                               *)
SelectS2CEof ==
    /\ hpc = "select" /\ iter < 2 /\ s2cErrChan = "eof"
    /\ s2cErrChan' = "empty"
    /\ sendClosed' = (IF StreamDead THEN sendClosed ELSE TRUE)
    /\ iter' = iter + 1
    /\ UNCHANGED <<hpc, outcome, cancelled, trailer, c2sErrChan, upVars,
                   s2cVars, downVars, c2sVars>>

(* Mutant: io.EOF is not told from an error. *)
SelectS2CAnyError ==
    /\ hpc = "select" /\ iter < 2 /\ s2cErrChan # "empty"
    /\ s2cErrChan' = "empty"
    /\ cancelled' = TRUE
    /\ Return("internal")
    /\ UNCHANGED <<iter, sendClosed, trailer, c2sErrChan, upVars, s2cVars,
                   downVars, c2sVars>>
(* case s2cErr := <-s2cErrChan, any other error. *)
SelectS2CError ==
    /\ hpc = "select" /\ iter < 2 /\ s2cErrChan \notin {"empty", "eof"}
    /\ s2cErrChan' = "empty"
    /\ cancelled' = TRUE
    /\ Return("internal")
    /\ UNCHANGED <<iter, sendClosed, trailer, c2sErrChan, upVars, s2cVars,
                   downVars, c2sVars>>

(* Mutant: io.EOF from the c2s pump only leaves the select. *)
SelectC2SBreak ==
    /\ hpc = "select" /\ iter < 2 /\ c2sErrChan # "empty"
    /\ c2sErrChan' = "empty"
    /\ trailer' = (c2sErrChan \in {"eof", "status"})
    /\ IF c2sErrChan = "eof"
         THEN iter' = iter + 1 /\ UNCHANGED <<hpc, outcome>>
         ELSE Return(c2sErrChan) /\ UNCHANGED iter
    /\ UNCHANGED <<cancelled, sendClosed, s2cErrChan, upVars, s2cVars,
                   downVars, c2sVars>>
(* Mutant: the handler joins the s2c pump before it reads c2sErrChan.      *)
SelectC2SJoin ==
    /\ hpc = "select" /\ iter = 1 /\ c2sErrChan # "empty"
    /\ c2sErrChan' = "empty"
    /\ trailer' = (c2sErrChan \in {"eof", "status"})
    /\ Return(IF c2sErrChan = "eof" THEN "ok" ELSE c2sErrChan)
    /\ UNCHANGED <<iter, cancelled, sendClosed, s2cErrChan, upVars, s2cVars,
                   downVars, c2sVars>>
(* case c2sErr := <-c2sErrChan: the trailers exist when the backend's      *)
(* status was received; io.EOF becomes a nil error, any other is returned. *)
SelectC2S ==
    /\ hpc = "select" /\ iter < 2 /\ c2sErrChan # "empty"
    /\ c2sErrChan' = "empty"
    /\ trailer' = (c2sErrChan \in {"eof", "status"})
    /\ Return(IF c2sErrChan = "eof" THEN "ok" ELSE c2sErrChan)
    /\ UNCHANGED <<iter, cancelled, sendClosed, s2cErrChan, upVars, s2cVars,
                   downVars, c2sVars>>

Next ==
    \/ CallerSend \/ CallerHalfClose \/ CallerLeave
    \/ BackendSend \/ BackendEnd
    \/ S2CRecv \/ S2CRecvFail \/ S2CSend \/ S2CSendFail
    \/ C2SRecv \/ C2SRecvFail \/ C2SHeader \/ C2SSend \/ C2SSendFail
    \/ DirectorRefuse \/ DirectorAccept \/ DialFail \/ Dial
    \/ SelectS2CEof \/ SelectS2CError \/ SelectC2S

Spec == Init /\ [][Next]_vars

(* The goroutines run and the streams of a live process answer.  Nothing   *)
(* makes the caller or the backend send or end.  S2CSend has no fairness:  *)
(* flow control blocks it while the backend does not read.                 *)
Fairness ==
    /\ WF_vars(DirectorRefuse \/ DirectorAccept)
    /\ WF_vars(DialFail \/ Dial)
    /\ WF_vars(SelectS2CEof \/ SelectS2CError \/ SelectC2S)
    /\ WF_vars(S2CRecv \/ S2CRecvFail)
    /\ WF_vars(S2CSendFail)
    /\ WF_vars(C2SRecv \/ C2SRecvFail)
    /\ WF_vars(C2SSendFail)

(* Flow control: the caller keeps reading its stream, or leaves. *)
CallerReads == WF_vars(C2SHeader \/ C2SSend)

FairSpec == Spec /\ Fairness /\ CallerReads

-----------------------------------------------------------------------------
(* The abstract pipe.  A refused call is one the director or the dial      *)
(* turned away; every error of the proxy's own making is an abort.         *)

RelayOutcome ==
    CASE outcome = "pending" -> "pending"
      [] outcome \in {"unimplemented", "unavailable"} -> "refused"
      [] outcome = "ok" -> "ok"
      [] outcome = "status" -> "failed"
      [] OTHER -> "aborted"

Relay == INSTANCE RpcRelay WITH outcome <- RelayOutcome

-----------------------------------------------------------------------------
(* Properties. *)

RecvErrors == {"empty", "eof", "tooLarge", "canceled"}
CallErrors == RecvErrors \cup {"status", "sendFailed"}

(* Every variable has its type, and a pump that sends holds a message. *)
TypeOK ==
    /\ up \in Seq(Msg) /\ toBackend \in Seq(Msg)
    /\ down \in Seq(Msg) /\ toCaller \in Seq(Msg)
    /\ upRead \in Nat /\ downRead \in Nat
    /\ s2cFrame \in Msg \cup {NoMsg} /\ c2sFrame \in Msg \cup {NoMsg}
    /\ s2c = "send" => s2cFrame \in Msg
    /\ c2s \in {"header", "send"} => c2sFrame \in Msg
    /\ s2c \in {"off", "recv", "send", "done"}
    /\ c2s \in {"off", "recv", "header", "send", "done"}
    /\ s2cErrChan \in RecvErrors /\ c2sErrChan \in CallErrors
    /\ backend \in {"none", "running", "ok", "failed"}
    /\ hpc \in {"director", "dial", "select", "returned"}
    /\ iter \in 0..2
    /\ outcome \in {"pending", "unimplemented", "unavailable", "ok", "status",
                    "internal", "tooLarge", "canceled", "sendFailed"}
    /\ callerDone \in BOOLEAN /\ callerGone \in BOOLEAN
    /\ sendClosed \in BOOLEAN /\ header \in BOOLEAN
    /\ trailer \in BOOLEAN /\ cancelled \in BOOLEAN

(* Each side receives a prefix of what the other sent: no message is lost  *)
(* in the middle, repeated or reordered by the reused frames of the pumps, *)
(* and the caller sees the backend's header before its first message.      *)
InOrder ==
    /\ IsPrefix(toBackend, up)
    /\ IsPrefix(toCaller, down)
    /\ toCaller # <<>> => header

(* The backend sees the half-close only behind everything the caller sent, *)
(* although the handler also calls CloseSend for the io.EOF that SendMsg   *)
(* returns in the middle of the caller's messages.                         *)
HalfCloseIsComplete == sendClosed => callerDone /\ toBackend = up

(* When the handler returns the backend's status, nil or an error, the     *)
(* backend did end so, its trailer is set, and the caller has every        *)
(* message and the header that came before it.                             *)
StatusIsComplete ==
    outcome \in {"ok", "status"} =>
        /\ backend = (IF outcome = "ok" THEN "ok" ELSE "failed")
        /\ toCaller = down
        /\ trailer

OversizeIn(s) == \E i \in 1..Len(s) : s[i] \in Oversize

(* The proxy breaks a call off with an error of its own only when the      *)
(* caller left or a message that goes the way the error names exceeded the *)
(* receive limit: neither the backend ending early nor a half-close does   *)
(* it.  After a send to the caller that failed, the handler asks for the   *)
(* trailer of a stream that may still be open: nobody is there to read it. *)
AbortIsJustified ==
    /\ outcome = "internal" => callerGone \/ OversizeIn(up)
    /\ outcome = "tooLarge" => OversizeIn(down)
    /\ outcome \in {"canceled", "sendFailed"} => callerGone

(* "gRPC proxying should never reach this stage": the loop always returns  *)
(* from its second round at the latest.                                    *)
NeverFallsThrough == hpc = "select" => iter < 2

(* The strengthening that makes the properties above inductive: what each  *)
(* pump holds between two calls, what an error in a channel stands for,    *)
(* and which states of the handler, the pumps and the backend coexist.     *)
UpInv ==
    /\ Len(toBackend) <= upRead /\ upRead <= Len(up)
    /\ \A i \in 1..Len(toBackend) : toBackend[i] = up[i]
    /\ s2c \in {"off", "recv"} => upRead = Len(toBackend)
    /\ s2c = "send" => upRead = Len(toBackend) + 1 /\ s2cFrame = up[upRead]

DownInv ==
    /\ Len(toCaller) <= downRead /\ downRead <= Len(down)
    /\ \A i \in 1..Len(toCaller) : toCaller[i] = down[i]
    /\ c2s \in {"off", "recv"} => downRead = Len(toCaller)
    /\ c2s \in {"header", "send"} =>
           downRead = Len(toCaller) + 1 /\ c2sFrame = down[downRead]
    /\ c2s \in {"recv", "send"} /\ downRead > 0 => header
    /\ toCaller # <<>> => header

UpSent == callerDone /\ toBackend = up

ChanInv ==
    /\ s2cErrChan # "empty" => s2c = "done"
    /\ s2cErrChan = "eof" => UpSent \/ StreamDead
    /\ s2cErrChan = "tooLarge" => OversizeIn(up)
    /\ s2cErrChan = "canceled" => ServerCtxDone
    /\ c2sErrChan # "empty" => c2s = "done"
    /\ c2sErrChan = "eof" => backend = "ok" /\ toCaller = down
    /\ c2sErrChan = "status" => backend = "failed" /\ toCaller = down
    /\ c2sErrChan = "tooLarge" => OversizeIn(down)
    /\ c2sErrChan \in {"canceled", "sendFailed"} => ServerCtxDone

HandlerInv ==
    /\ hpc = "select" => iter < 2
    /\ iter # 0 => s2c = "done" /\ s2cErrChan = "empty"
    /\ sendClosed => UpSent /\ s2c = "done"
    /\ cancelled => hpc = "returned"
    /\ outcome = "pending" <=> hpc # "returned"
    /\ hpc \in {"director", "dial"} => backend = "none"
    /\ hpc = "select" => backend # "none"
    /\ outcome \in {"unimplemented", "unavailable"} <=> hpc = "returned" /\ backend = "none"
    /\ backend = "none" <=> s2c = "off"
    /\ backend = "none" <=> c2s = "off"

Inv == TypeOK /\ UpInv /\ DownInv /\ ChanInv /\ HandlerInv
           /\ StatusIsComplete /\ AbortIsJustified

(* The detailed proxy implements the abstract pipe. *)
ImplementsRelay == Relay!Spec

(* A caller that leaves, however far the call was, frees the handler. *)
LeaveEndsCall == callerGone ~> hpc = "returned"

(* A backend that ended frees the handler, whether or not the caller has   *)
(* half-closed: the handler does not wait for the s2c pump.                *)
BackendEndsCall == Ended ~> hpc = "returned"

(* Both pump goroutines end after the handler has, including the one whose *)
(* error nobody reads: the channels hold one error and the contexts end.   *)
PumpsEnd == hpc = "returned" ~> s2c \in {"off", "done"} /\ c2s \in {"off", "done"}
=============================================================================
