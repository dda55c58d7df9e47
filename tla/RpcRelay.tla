------------------------------ MODULE RpcRelay ------------------------------
(***************************************************************************)
(* What a caller and a backend may assume of the transparent proxy, said   *)
(* without the proxy: between them is one duplex pipe.  Messages arrive in *)
(* the order they were sent, a half-close arrives behind all of them, the  *)
(* caller learns the status the backend ended with and has every message   *)
(* that preceded it.  The relay gives a call up only when the caller went  *)
(* away or a message was too large to carry, or refuses it before either   *)
(* side has heard of the other.                                            *)
(*                                                                         *)
(* ProxyStream implements this specification: ProxyImplementsRelay of      *)
(* ProxyStreamProofs.                                                      *)
(***************************************************************************)
EXTENDS Naturals, Sequences

CONSTANTS
    Msg,        \* message payloads, opaque to the relay
    Oversize    \* the payloads above the receive limit of a hop

VARIABLES
    up,         \* every message the caller has sent, in order
    callerDone, \* the caller has half-closed
    callerGone, \* the caller cancelled, timed out or disconnected
    toBackend,  \* messages handed on to the backend
    sendClosed, \* the half-close has been handed on to the backend
    backend,    \* "none", "running", "ok" or "failed"
    down,       \* every message the backend has sent, in order
    toCaller,   \* messages handed on to the caller
    outcome     \* what the caller was told: "pending" until the call ends

vars == <<up, callerDone, callerGone, toBackend, sendClosed, backend, down,
          toCaller, outcome>>

OversizeIn(s) == \E i \in 1..Len(s) : s[i] \in Oversize

Init ==
    /\ up = <<>> /\ callerDone = FALSE /\ callerGone = FALSE
    /\ toBackend = <<>> /\ sendClosed = FALSE /\ backend = "none"
    /\ down = <<>> /\ toCaller = <<>> /\ outcome = "pending"

-----------------------------------------------------------------------------
(* The two ends of the pipe. *)

CallerSend ==
    /\ ~callerDone
    /\ \E m \in Msg : up' = Append(up, m)
    /\ UNCHANGED <<callerDone, callerGone, toBackend, sendClosed, backend,
                   down, toCaller, outcome>>

HalfClose ==
    /\ callerDone' = TRUE
    /\ UNCHANGED <<up, callerGone, toBackend, sendClosed, backend, down,
                   toCaller, outcome>>

Leave ==
    /\ callerGone' = TRUE
    /\ UNCHANGED <<up, callerDone, toBackend, sendClosed, backend, down,
                   toCaller, outcome>>

Reply ==
    /\ backend = "running"
    /\ \E m \in Msg : down' = Append(down, m)
    /\ UNCHANGED <<up, callerDone, callerGone, toBackend, sendClosed, backend,
                   toCaller, outcome>>

Finish ==
    /\ backend = "running"
    /\ backend' \in {"ok", "failed"}
    /\ UNCHANGED <<up, callerDone, callerGone, toBackend, sendClosed, down,
                   toCaller, outcome>>

-----------------------------------------------------------------------------
(* The relay. *)

Connect ==
    /\ backend = "none" /\ outcome = "pending"
    /\ backend' = "running"
    /\ UNCHANGED <<up, callerDone, callerGone, toBackend, sendClosed, down,
                   toCaller, outcome>>

Refuse ==
    /\ backend = "none" /\ outcome = "pending"
    /\ outcome' = "refused"
    /\ UNCHANGED <<up, callerDone, callerGone, toBackend, sendClosed, backend,
                   down, toCaller>>

DeliverUp ==
    /\ backend # "none" /\ ~sendClosed
    /\ Len(toBackend) < Len(up)
    /\ toBackend' = Append(toBackend, up[Len(toBackend) + 1])
    /\ UNCHANGED <<up, callerDone, callerGone, sendClosed, backend, down,
                   toCaller, outcome>>

CloseUp ==
    /\ backend # "none"
    /\ callerDone /\ toBackend = up
    /\ sendClosed' = TRUE
    /\ UNCHANGED <<up, callerDone, callerGone, toBackend, backend, down,
                   toCaller, outcome>>

DeliverDown ==
    /\ outcome = "pending"
    /\ Len(toCaller) < Len(down)
    /\ toCaller' = Append(toCaller, down[Len(toCaller) + 1])
    /\ UNCHANGED <<up, callerDone, callerGone, toBackend, sendClosed, backend,
                   down, outcome>>

Complete ==
    /\ outcome = "pending"
    /\ backend \in {"ok", "failed"} /\ toCaller = down
    /\ outcome' = backend
    /\ UNCHANGED <<up, callerDone, callerGone, toBackend, sendClosed, backend,
                   down, toCaller>>

Abort ==
    /\ outcome = "pending" /\ backend # "none"
    /\ callerGone \/ OversizeIn(up) \/ OversizeIn(down)
    /\ outcome' = "aborted"
    /\ UNCHANGED <<up, callerDone, callerGone, toBackend, sendClosed, backend,
                   down, toCaller>>

Next ==
    \/ CallerSend \/ HalfClose \/ Leave \/ Reply \/ Finish
    \/ Connect \/ Refuse \/ DeliverUp \/ CloseUp \/ DeliverDown
    \/ Complete \/ Abort

Spec == Init /\ [][Next]_vars
=============================================================================
