---------------------------- MODULE EntryLifecycle ----------------------------
(***************************************************************************)
(* GrpcEntry from Bootstrap to Interrupt (boot/grpc_entry.go).  Bootstrap  *)
(* builds a gRPC server and a gateway http server and returns; a goroutine *)
(* of its own ("boot") listens and starts one goroutine per server, behind *)
(* one cmux when both share a port.  Interrupt shuts the http server down, *)
(* then the gRPC server.  ShutdownWithError panics; in these goroutines    *)
(* nothing recovers it, so it ends the process.                            *)
(*                                                                         *)
(* External: net.Listen may fail, and so may the Accept of a shared port;  *)
(* grpc.Server, http.Server and cmux close, refuse and drain as the code   *)
(* around them expects.  A cmux listener's Close closes the shared root    *)
(* listener, and its Accept fails, once the cmux has ended, with "mux:     *)
(* server closed" or "mux: listener closed".  Gateway requests are HTTP/1  *)
(* requests, which http.Server.Shutdown waits for.                         *)
(*                                                                         *)
(* Nothing happens in a process that has ended: every action has ~crashed. *)
(***************************************************************************)
EXTENDS Naturals

CONSTANT MaxCalls   \* bound: calls of each kind in flight

ASSUME MaxCallsAssumption == MaxCalls \in Nat

VARIABLES
    ports,      \* "same" or "two": GwPort = Port, or not
    main,       \* the goroutine that calls Bootstrap, then Interrupt
    boot,       \* the goroutine Bootstrap starts
    grpcLis,    \* the gRPC listener; the root listener of a shared port
    gwLis,      \* the gateway's own listener, with two ports
    muxEnded,   \* the cmux's Serve has returned
    grpcServe,  \* the goroutine of startGrpcServer
    httpServe,  \* the goroutine of startHttpServer
    grpcServer, \* entry.Server: "live" or "stopped"
    httpServer, \* entry.HttpServer: "live" or "shutdown"
    once,       \* bootstrapLogOnce has run
    finishes,   \* how often Bootstrap's event was finished
    failed,     \* a registration, a net.Listen or the cmux's Accept failed
    crashed,    \* ShutdownWithError ended the process
    interrupt,  \* what Interrupt found: "none", "early", "serving"
    rpcs,       \* gRPC calls in flight
    gwPending,  \* gateway requests in flight
    gwConn      \* the gateway's connection to the gRPC server is up

servers == <<grpcServe, httpServe, grpcServer, httpServer, muxEnded>>
listeners == <<grpcLis, gwLis>>
events == <<once, finishes>>
clients == <<rpcs, gwPending, gwConn>>
vars == <<ports, main, boot, listeners, servers, events, failed, crashed,
          interrupt, clients>>

Init ==
    /\ ports \in {"same", "two"}
    /\ main = "setup" /\ boot = "off"
    /\ grpcLis = "none" /\ gwLis = "none" /\ muxEnded = FALSE
    /\ grpcServe = "off" /\ httpServe = "off"
    /\ grpcServer = "live" /\ httpServer = "live"
    /\ once = FALSE /\ finishes = 0
    /\ failed = FALSE /\ crashed = FALSE /\ interrupt = "none"
    /\ rpcs = 0 /\ gwPending = 0 /\ gwConn = FALSE

(* bootstrapLogOnce.Do(...) around the end of Bootstrap's event. *)
FinishOnce ==
    /\ once' = TRUE
    /\ finishes' = IF once THEN finishes ELSE finishes + 1

(* Closing the gateway's listener closes the root of a shared port. *)
CloseGwListener ==
    IF ports = "same" THEN grpcLis' = "closed" /\ UNCHANGED gwLis
                      ELSE gwLis' = "closed" /\ UNCHANGED grpcLis

-----------------------------------------------------------------------------
(* Bootstrap. *)

(* Steps 1 to 8, with every GwRegF function registered. *)
Setup ==
    /\ ~crashed /\ main = "setup"
    /\ main' = "spawn"
    /\ UNCHANGED <<ports, boot, listeners, servers, events, failed, crashed,
                   interrupt, clients>>

SetupFail ==
    /\ ~crashed /\ main = "setup"
    /\ finishes' = finishes + 1
    /\ failed' = TRUE /\ crashed' = TRUE
    /\ UNCHANGED <<ports, main, boot, listeners, servers, once, interrupt, clients>>

Spawn ==
    /\ ~crashed /\ main = "spawn"
    /\ main' = "log" /\ boot' = "listenGrpc"
    /\ UNCHANGED <<ports, listeners, servers, events, failed, crashed, interrupt,
                   clients>>

LogBootstrap ==
    /\ ~crashed /\ main = "log"
    /\ FinishOnce
    /\ main' = "ready"
    /\ UNCHANGED <<ports, boot, listeners, servers, failed, crashed, interrupt,
                   clients>>

(* Mutant: the servers are started although nothing was opened. *)
ListenGrpcSkipped ==
    /\ ~crashed /\ boot = "listenGrpc"
    /\ boot' = IF ports = "two" THEN "listenGw" ELSE "start"
    /\ UNCHANGED <<ports, main, listeners, servers, events, failed, crashed,
                   interrupt, clients>>
ListenGrpc ==
    /\ ~crashed /\ boot = "listenGrpc"
    /\ grpcLis' = "open"
    /\ boot' = IF ports = "two" THEN "listenGw" ELSE "start"
    /\ UNCHANGED <<ports, main, gwLis, servers, events, failed, crashed,
                   interrupt, clients>>

ListenGw ==
    /\ ~crashed /\ boot = "listenGw"
    /\ gwLis' = "open"
    /\ boot' = "start"
    /\ UNCHANGED <<ports, main, grpcLis, servers, events, failed, crashed,
                   interrupt, clients>>

(* Mutant: the failure finishes the event without bootstrapLogOnce. *)
ListenFailTwice ==
    /\ ~crashed /\ boot \in {"listenGrpc", "listenGw"}
    /\ finishes' = finishes + 1
    /\ failed' = TRUE /\ crashed' = TRUE
    /\ UNCHANGED <<ports, main, boot, listeners, servers, once, interrupt, clients>>
ListenFail ==
    /\ ~crashed /\ boot \in {"listenGrpc", "listenGw"}
    /\ FinishOnce
    /\ failed' = TRUE /\ crashed' = TRUE
    /\ UNCHANGED <<ports, main, boot, listeners, servers, interrupt, clients>>

StartServers ==
    /\ ~crashed /\ boot = "start"
    /\ grpcServe' = "starting" /\ httpServe' = "starting"
    /\ boot' = IF ports = "same" THEN "mux" ELSE "done"
    /\ UNCHANGED <<ports, main, listeners, grpcServer, httpServer, muxEnded,
                   events, failed, crashed, interrupt, clients>>

(* tcpL.Serve() returns "use of closed network connection". *)
MuxEnds ==
    /\ ~crashed /\ boot = "mux" /\ grpcLis = "closed"
    /\ boot' = "done" /\ muxEnded' = TRUE
    /\ UNCHANGED <<ports, main, listeners, grpcServe, httpServe, grpcServer,
                   httpServer, events, failed, crashed, interrupt, clients>>

(* External: Accept fails on a listener that is open, and tcpL.Serve()     *)
(* ends with an error that is not tolerated.                               *)
MuxFails ==
    /\ ~crashed /\ boot = "mux" /\ grpcLis = "open"
    /\ boot' = "muxFailed" /\ muxEnded' = TRUE /\ failed' = TRUE
    /\ UNCHANGED <<ports, main, listeners, grpcServe, httpServe, grpcServer,
                   httpServer, events, crashed, interrupt, clients>>

MuxFail ==
    /\ ~crashed /\ boot = "muxFailed"
    /\ FinishOnce
    /\ boot' = "done" /\ crashed' = TRUE
    /\ UNCHANGED <<ports, main, listeners, servers, failed, interrupt, clients>>

-----------------------------------------------------------------------------
(* startGrpcServer and startHttpServer. *)

(* Serve of a stopped server closes the listener and returns               *)
(* grpc.ErrServerStopped, which the code does not expect.                  *)
GrpcServe ==
    /\ ~crashed /\ grpcServe = "starting"
    /\ IF grpcServer = "stopped"
         THEN /\ grpcLis' = "closed" /\ crashed' = TRUE
              /\ grpcServe' = "done"
         ELSE grpcServe' = "accepting" /\ UNCHANGED <<grpcLis, crashed>>
    /\ UNCHANGED <<ports, main, boot, gwLis, httpServe, grpcServer, httpServer,
                   muxEnded, events, failed, interrupt, clients>>

GrpcListenerEnded == IF ports = "same" THEN muxEnded ELSE grpcLis = "closed"

(* Accept fails: Serve returns nil when GracefulStop was called, else the  *)
(* listener's error, of which "mux: server closed" is expected.            *)
GrpcServeEnds ==
    /\ ~crashed /\ grpcServe = "accepting" /\ GrpcListenerEnded
    /\ \E err \in {"mux: server closed", "mux: listener closed"} :
          crashed' = (grpcServer # "stopped" /\ err # "mux: server closed")
    /\ grpcServe' = "done"
    /\ UNCHANGED <<ports, main, boot, listeners, httpServe, grpcServer,
                   httpServer, muxEnded, events, failed, interrupt, clients>>

(* Serve of a server that was shut down closes the listener and returns    *)
(* http.ErrServerClosed, which is expected.                                *)
HttpServe ==
    /\ ~crashed /\ httpServe = "starting"
    /\ IF httpServer = "shutdown"
         THEN httpServe' = "done" /\ CloseGwListener
         ELSE httpServe' = "accepting" /\ UNCHANGED listeners
    /\ UNCHANGED <<ports, main, boot, grpcServe, grpcServer, httpServer, muxEnded,
                   events, failed, crashed, interrupt, clients>>

GwListenerEnded == IF ports = "same" THEN muxEnded ELSE gwLis = "closed"

(* Mutant: "http: Server closed" is not tolerated. *)
HttpServeEndsFatal ==
    /\ ~crashed /\ httpServe = "accepting" /\ GwListenerEnded
    /\ crashed' = TRUE
    /\ httpServe' = "done"
    /\ UNCHANGED <<ports, main, boot, listeners, grpcServe, grpcServer,
                   httpServer, muxEnded, events, failed, interrupt, clients>>
HttpServeEnds ==
    /\ ~crashed /\ httpServe = "accepting" /\ GwListenerEnded
    /\ crashed' = (httpServer # "shutdown")
    /\ httpServe' = "done"
    /\ UNCHANGED <<ports, main, boot, listeners, grpcServe, grpcServer,
                   httpServer, muxEnded, events, failed, interrupt, clients>>

-----------------------------------------------------------------------------
(* Interrupt. *)

(* HttpServer.Shutdown stops accepting and closes the listeners Serve has  *)
(* taken.                                                                  *)
ShutdownHttp ==
    /\ ~crashed /\ main = "ready"
    /\ interrupt' = IF grpcServe = "accepting" THEN "serving" ELSE "early"
    /\ httpServer' = "shutdown"
    /\ IF httpServe = "accepting" THEN CloseGwListener ELSE UNCHANGED listeners
    /\ main' = "drainHttp"
    /\ UNCHANGED <<ports, boot, grpcServe, httpServe, grpcServer, muxEnded,
                   events, failed, crashed, clients>>

(* Mutant: Interrupt waits for the gRPC goroutine before it stops it. *)
DrainHttpJoin ==
    /\ ~crashed /\ main = "drainHttp" /\ gwPending = 0 /\ grpcServe = "done"
    /\ main' = "stopGrpc"
    /\ UNCHANGED <<ports, boot, listeners, servers, events, failed, crashed,
                   interrupt, clients>>
(* Mutant: the gRPC server is stopped before the gateway is drained. *)
DrainHttpSkipped ==
    /\ ~crashed /\ main = "drainHttp"
    /\ main' = "stopGrpc"
    /\ UNCHANGED <<ports, boot, listeners, servers, events, failed, crashed,
                   interrupt, clients>>
DrainHttp ==
    /\ ~crashed /\ main = "drainHttp" /\ gwPending = 0
    /\ main' = "stopGrpc"
    /\ UNCHANGED <<ports, boot, listeners, servers, events, failed, crashed,
                   interrupt, clients>>

(* Mutant: GracefulStop is not called. *)
StopGrpcSkipped ==
    /\ ~crashed /\ main = "stopGrpc"
    /\ main' = "finish"
    /\ UNCHANGED <<ports, boot, listeners, servers, events, failed, crashed,
                   interrupt, clients>>
(* GracefulStop closes the listeners Serve has taken. *)
StopGrpc ==
    /\ ~crashed /\ main = "stopGrpc"
    /\ grpcServer' = "stopped"
    /\ grpcLis' = IF grpcServe = "accepting" THEN "closed" ELSE grpcLis
    /\ main' = "drainGrpc"
    /\ UNCHANGED <<ports, boot, gwLis, grpcServe, httpServe, httpServer, muxEnded,
                   events, failed, crashed, interrupt, clients>>

(* Mutant: Stop instead of GracefulStop: calls in flight are cut. *)
DrainGrpcCut ==
    /\ ~crashed /\ main = "drainGrpc" /\ grpcServe # "accepting"
    /\ main' = "finish"
    /\ UNCHANGED <<ports, boot, listeners, servers, events, failed, crashed,
                   interrupt, clients>>
(* GracefulStop waits for the accept loop and for every call in flight. *)
DrainGrpc ==
    /\ ~crashed /\ main = "drainGrpc" /\ rpcs = 0 /\ grpcServe # "accepting"
    /\ main' = "finish"
    /\ UNCHANGED <<ports, boot, listeners, servers, events, failed, crashed,
                   interrupt, clients>>

FinishInterrupt ==
    /\ ~crashed /\ main = "finish"
    /\ main' = "done"
    /\ UNCHANGED <<ports, boot, listeners, servers, events, failed, crashed,
                   interrupt, clients>>

-----------------------------------------------------------------------------
(* External: callers of the two servers.  A gateway request is forwarded   *)
(* on a connection to the entry's own gRPC port.                           *)

GrpcReachable ==
    grpcServe = "accepting" /\ grpcServer = "live" /\ grpcLis = "open"

RpcStart ==
    /\ ~crashed /\ GrpcReachable /\ rpcs < MaxCalls
    /\ rpcs' = rpcs + 1
    /\ UNCHANGED <<ports, main, boot, listeners, servers, events, failed, crashed,
                   interrupt, gwPending, gwConn>>

RpcEnd ==
    /\ ~crashed /\ rpcs > 0
    /\ rpcs' = rpcs - 1
    /\ UNCHANGED <<ports, main, boot, listeners, servers, events, failed, crashed,
                   interrupt, gwPending, gwConn>>

GwStart ==
    /\ ~crashed /\ httpServe = "accepting" /\ httpServer = "live" /\ gwPending < MaxCalls
    /\ gwPending' = gwPending + 1
    /\ UNCHANGED <<ports, main, boot, listeners, servers, events, failed, crashed,
                   interrupt, rpcs, gwConn>>

GwConnect ==
    /\ ~crashed /\ gwPending > 0 /\ ~gwConn /\ GrpcReachable
    /\ gwConn' = TRUE
    /\ UNCHANGED <<ports, main, boot, listeners, servers, events, failed, crashed,
                   interrupt, rpcs, gwPending>>

(* Served on the connection, or failed while there is none. *)
GwEnd ==
    /\ ~crashed /\ gwPending > 0
    /\ gwPending' = gwPending - 1
    /\ UNCHANGED <<ports, main, boot, listeners, servers, events, failed, crashed,
                   interrupt, rpcs, gwConn>>

-----------------------------------------------------------------------------

BootStep ==
    ListenGrpc \/ ListenGw \/ ListenFail \/ StartServers \/ MuxEnds \/ MuxFail
MainStep ==
    \/ Setup \/ SetupFail \/ Spawn \/ LogBootstrap
    \/ DrainHttp \/ StopGrpc \/ DrainGrpc \/ FinishInterrupt

Next ==
    \/ MainStep \/ ShutdownHttp
    \/ BootStep \/ MuxFails
    \/ GrpcServe \/ GrpcServeEnds \/ HttpServe \/ HttpServeEnds
    \/ RpcStart \/ RpcEnd \/ GwStart \/ GwConnect \/ GwEnd

Spec == Init /\ [][Next]_vars

(* Goroutines run and calls end; Interrupt may never be called and Accept  *)
(* may never fail.                                                         *)
Fairness ==
    /\ WF_vars(MainStep) /\ WF_vars(BootStep)
    /\ WF_vars(GrpcServe \/ GrpcServeEnds)
    /\ WF_vars(HttpServe \/ HttpServeEnds)
    /\ WF_vars(RpcEnd) /\ WF_vars(GwEnd)

FairSpec == Spec /\ Fairness

-----------------------------------------------------------------------------
(* Properties. *)

Listener == {"none", "open", "closed"}
Goroutine == {"off", "starting", "accepting", "done"}

(* Every variable has its type, and a server runs on a listener that was   *)
(* opened.                                                                 *)
TypeOK ==
    /\ ports \in {"same", "two"}
    /\ main \in {"setup", "spawn", "log", "ready", "drainHttp", "stopGrpc",
                 "drainGrpc", "finish", "done"}
    /\ boot \in {"off", "listenGrpc", "listenGw", "start", "mux", "muxFailed", "done"}
    /\ grpcLis \in Listener /\ gwLis \in Listener
    /\ grpcServe \in Goroutine /\ httpServe \in Goroutine
    /\ grpcServer \in {"live", "stopped"} /\ httpServer \in {"live", "shutdown"}
    /\ muxEnded \in BOOLEAN /\ once \in BOOLEAN /\ gwConn \in BOOLEAN
    /\ failed \in BOOLEAN /\ crashed \in BOOLEAN
    /\ finishes \in Nat /\ rpcs \in 0..MaxCalls /\ gwPending \in 0..MaxCalls
    /\ interrupt \in {"none", "early", "serving"}
    /\ grpcServe # "off" => grpcLis # "none"
    /\ httpServe # "off" /\ ports = "two" => gwLis # "none"

(* Bootstrap's event is finished exactly once, although the goroutine that *)
(* fails to listen or to accept and the one that reports success race for  *)
(* it.                                                                     *)
EventFinishedOnce ==
    /\ finishes <= 1
    /\ main \notin {"setup", "spawn", "log"} => finishes = 1

(* While a gateway request is in flight, the gRPC server it is forwarded   *)
(* to has not been stopped; with two ports its port is even open.          *)
GatewayHasBackend ==
    gwPending > 0 =>
        /\ grpcServer = "live"
        /\ ports = "two" => grpcLis = "open"

(* Interrupt returns only when every call that was accepted has ended. *)
InterruptDrains == main \in {"finish", "done"} => rpcs = 0 /\ gwPending = 0

(* With two ports, an entry that was serving when it was interrupted never *)
(* takes the end of its own servers for an error.                          *)
CleanWithTwoPorts ==
    crashed => failed \/ ports = "same" \/ interrupt # "serving"

(* Interrupt ends, if the calls in flight do. *)
InterruptEnds == main = "drainHttp" ~> main = "done" \/ crashed

(* An interrupted entry gives its ports back, also when Interrupt overtook *)
(* the goroutine that opens them.                                          *)
PortsReleased ==
    main = "done" ~> crashed \/ (boot = "done" /\ grpcLis # "open" /\ gwLis # "open")

(* "defer assertNotPanic(t)" around Bootstrap and Interrupt: a process     *)
(* whose ports were free, and accept, does not panic.                      *)
NeverPanics == crashed => failed
=============================================================================
