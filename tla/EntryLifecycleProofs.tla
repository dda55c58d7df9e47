------------------------- MODULE EntryLifecycleProofs -------------------------
(***************************************************************************)
(* TLAPS proofs about EntryLifecycle, for any number of calls in flight.   *)
(* The argument follows Interrupt: what each of its phases has already     *)
(* stopped (OrderInv), which listeners can be closed by whom (ListenerInv) *)
(* and who can have finished Bootstrap's event (EventInv).                 *)
(***************************************************************************)
EXTENDS EntryLifecycle, TLAPS

Interrupting == {"drainHttp", "stopGrpc", "drainGrpc", "finish", "done"}
GrpcStopped  == {"drainGrpc", "finish", "done"}

(* The servers are stopped in the order of Interrupt's statements, and     *)
(* calls only outlive the phase that waits for them.                       *)
OrderInv ==
    /\ httpServer = "shutdown" <=> main \in Interrupting
    /\ grpcServer = "stopped" <=> main \in GrpcStopped
    /\ main \in GrpcStopped \cup {"stopGrpc"} => gwPending = 0
    /\ main \in {"finish", "done"} => rpcs = 0
    /\ gwPending > 0 => httpServe # "off"
    /\ grpcServe = "off" <=> httpServe = "off"

(* With two ports a listener is closed only behind the stop of its server. *)
ListenerInv ==
    /\ ports = "two" /\ grpcLis = "closed" => grpcServer = "stopped"
    /\ ports = "two" /\ gwLis = "closed" => httpServer = "shutdown"
    /\ ports = "two" => ~muxEnded
    /\ boot \in {"start", "mux", "muxFailed", "done"} => grpcLis # "none"
    /\ boot \in {"start", "done"} /\ ports = "two" => gwLis # "none"
    /\ boot = "listenGw" => grpcLis # "none" /\ ports = "two"
    /\ boot \in {"mux", "muxFailed"} => ports = "same"
    /\ grpcServe # "off" => boot \in {"mux", "muxFailed", "done"}
    /\ interrupt = "serving" => grpcServe \in {"accepting", "done"}

(* The event is finished by SetupFail alone or through bootstrapLogOnce.   *)
EventInv ==
    /\ main \in {"setup", "spawn"} => boot = "off" /\ ~once
    /\ main \notin {"setup", "spawn", "log"} => once
    /\ once => finishes = 1
    /\ ~once => finishes = 0 \/ (main = "setup" /\ crashed /\ finishes = 1)

CleanInv ==
    crashed => failed \/ ports = "same" \/ interrupt # "serving"

(* The inductive invariant. *)
IInv == TypeOK /\ OrderInv /\ ListenerInv /\ EventInv /\ CleanInv

LEMMA InitInv == Init => IInv
<1> SUFFICES ASSUME Init PROVE IInv
  OBVIOUS
<1> USE DEF Init
<1>1. TypeOK
  <2>1. finishes \in Nat /\ rpcs \in 0..MaxCalls /\ gwPending \in 0..MaxCalls
    BY MaxCallsAssumption
  <2>2. QED
    BY <2>1, Zenon DEF TypeOK, Listener, Goroutine
<1>2. OrderInv
  BY DEF OrderInv, Interrupting, GrpcStopped
<1>3. ListenerInv
  BY DEF ListenerInv
<1>4. EventInv
  BY DEF EventInv
<1>5. CleanInv
  BY DEF CleanInv
<1>6. QED
  BY <1>1, <1>2, <1>3, <1>4, <1>5 DEF IInv

LEMMA TypeOKStep == IInv /\ [Next]_vars => TypeOK'
<1> SUFFICES ASSUME IInv, [Next]_vars PROVE TypeOK'
  OBVIOUS
<1> USE MaxCallsAssumption DEF IInv, TypeOK, Listener, Goroutine, ListenerInv,
          servers, listeners, events, clients
<1>1. CASE Setup
  BY <1>1 DEF Setup
<1>2. CASE SetupFail
  BY <1>2 DEF SetupFail
<1>3. CASE Spawn
  BY <1>3 DEF Spawn
<1>4. CASE LogBootstrap
  BY <1>4 DEF LogBootstrap, FinishOnce
<1>5. CASE ListenGrpc
  BY <1>5 DEF ListenGrpc
<1>6. CASE ListenGw
  BY <1>6 DEF ListenGw
<1>7. CASE ListenFail
  BY <1>7 DEF ListenFail, FinishOnce
<1>8. CASE StartServers
  BY <1>8 DEF StartServers
<1>9. CASE MuxEnds
  BY <1>9 DEF MuxEnds
<1>10. CASE GrpcServe
  <2>1. CASE grpcServer = "stopped"
    BY <1>10, <2>1 DEF GrpcServe
  <2>2. CASE grpcServer # "stopped"
    BY <1>10, <2>2 DEF GrpcServe
  <2>3. QED
    BY <2>1, <2>2
<1>11. CASE GrpcServeEnds
  <2>1. crashed' \in BOOLEAN
    BY <1>11, Zenon DEF GrpcServeEnds
  <2>2. grpcServe' = "done" /\ grpcLis # "none"
    BY <1>11 DEF GrpcServeEnds
  <2>3. UNCHANGED <<ports, main, boot, grpcLis, gwLis, httpServe, grpcServer,
                    httpServer, muxEnded, once, finishes, failed, interrupt,
                    rpcs, gwPending, gwConn>>
    BY <1>11 DEF GrpcServeEnds
  <2>4. QED
    BY <2>1, <2>2, <2>3
<1>12. CASE HttpServe
  BY <1>12 DEF HttpServe, CloseGwListener
<1>13. CASE HttpServeEnds
  BY <1>13 DEF HttpServeEnds, GwListenerEnded
<1>14. CASE ShutdownHttp
  BY <1>14 DEF ShutdownHttp, CloseGwListener
<1>15. CASE DrainHttp
  BY <1>15 DEF DrainHttp
<1>16. CASE StopGrpc
  BY <1>16 DEF StopGrpc
<1>17. CASE DrainGrpc
  BY <1>17 DEF DrainGrpc
<1>18. CASE FinishInterrupt
  BY <1>18 DEF FinishInterrupt
<1>19. CASE RpcStart
  BY <1>19 DEF RpcStart, GrpcReachable
<1>20. CASE RpcEnd
  BY <1>20 DEF RpcEnd
<1>21. CASE GwStart
  BY <1>21 DEF GwStart
<1>22. CASE GwConnect
  BY <1>22 DEF GwConnect, GrpcReachable
<1>23. CASE GwEnd
  BY <1>23 DEF GwEnd
<1>24. CASE UNCHANGED vars
  BY <1>24 DEF vars
<1>25. CASE MuxFails
  BY <1>25 DEF MuxFails
<1>26. CASE MuxFail
  BY <1>26 DEF MuxFail, FinishOnce
<1>27. QED
  BY <1>1, <1>2, <1>3, <1>4, <1>5, <1>6, <1>7, <1>8, <1>9, <1>10,
     <1>11, <1>12, <1>13, <1>14, <1>15, <1>16, <1>17, <1>18, <1>19, <1>20,
     <1>21, <1>22, <1>23, <1>24, <1>25, <1>26
     DEF Next, MainStep, BootStep

LEMMA OrderInvStep == IInv /\ [Next]_vars => OrderInv'
<1> SUFFICES ASSUME IInv, [Next]_vars PROVE OrderInv'
  OBVIOUS
<1> USE MaxCallsAssumption DEF IInv, TypeOK, Listener, Goroutine, OrderInv, Interrupting, GrpcStopped,
          servers, listeners, events, clients
<1>1. CASE Setup
  BY <1>1 DEF Setup
<1>2. CASE SetupFail
  BY <1>2 DEF SetupFail
<1>3. CASE Spawn
  BY <1>3 DEF Spawn
<1>4. CASE LogBootstrap
  BY <1>4 DEF LogBootstrap, FinishOnce
<1>5. CASE ListenGrpc
  BY <1>5 DEF ListenGrpc
<1>6. CASE ListenGw
  BY <1>6 DEF ListenGw
<1>7. CASE ListenFail
  BY <1>7 DEF ListenFail, FinishOnce
<1>8. CASE StartServers
  BY <1>8 DEF StartServers
<1>9. CASE MuxEnds
  BY <1>9 DEF MuxEnds
<1>10. CASE GrpcServe
  BY <1>10 DEF GrpcServe
<1>11. CASE GrpcServeEnds
  BY <1>11 DEF GrpcServeEnds, GrpcListenerEnded
<1>12. CASE HttpServe
  BY <1>12 DEF HttpServe, CloseGwListener
<1>13. CASE HttpServeEnds
  BY <1>13 DEF HttpServeEnds, GwListenerEnded
<1>14. CASE ShutdownHttp
  BY <1>14 DEF ShutdownHttp, CloseGwListener
<1>15. CASE DrainHttp
  BY <1>15 DEF DrainHttp
<1>16. CASE StopGrpc
  BY <1>16 DEF StopGrpc
<1>17. CASE DrainGrpc
  BY <1>17 DEF DrainGrpc
<1>18. CASE FinishInterrupt
  BY <1>18 DEF FinishInterrupt
<1>19. CASE RpcStart
  BY <1>19 DEF RpcStart, GrpcReachable
<1>20. CASE RpcEnd
  BY <1>20 DEF RpcEnd
<1>21. CASE GwStart
  BY <1>21 DEF GwStart
<1>22. CASE GwConnect
  BY <1>22 DEF GwConnect, GrpcReachable
<1>23. CASE GwEnd
  BY <1>23 DEF GwEnd
<1>24. CASE UNCHANGED vars
  BY <1>24 DEF vars
<1>25. CASE MuxFails
  BY <1>25 DEF MuxFails
<1>26. CASE MuxFail
  BY <1>26 DEF MuxFail, FinishOnce
<1>27. QED
  BY <1>1, <1>2, <1>3, <1>4, <1>5, <1>6, <1>7, <1>8, <1>9, <1>10,
     <1>11, <1>12, <1>13, <1>14, <1>15, <1>16, <1>17, <1>18, <1>19, <1>20,
     <1>21, <1>22, <1>23, <1>24, <1>25, <1>26
     DEF Next, MainStep, BootStep

LEMMA ListenerInvStep == IInv /\ [Next]_vars => ListenerInv'
<1> SUFFICES ASSUME IInv, [Next]_vars PROVE ListenerInv'
  OBVIOUS
<1> USE MaxCallsAssumption DEF IInv, TypeOK, Listener, Goroutine, ListenerInv, OrderInv,
          Interrupting, GrpcStopped,
          servers, listeners, events, clients
<1>1. CASE Setup
  BY <1>1 DEF Setup
<1>2. CASE SetupFail
  BY <1>2 DEF SetupFail
<1>3. CASE Spawn
  BY <1>3 DEF Spawn, EventInv
<1>4. CASE LogBootstrap
  BY <1>4 DEF LogBootstrap, FinishOnce
<1>5. CASE ListenGrpc
  BY <1>5 DEF ListenGrpc
<1>6. CASE ListenGw
  BY <1>6 DEF ListenGw
<1>7. CASE ListenFail
  BY <1>7 DEF ListenFail, FinishOnce
<1>8. CASE StartServers
  BY <1>8 DEF StartServers
<1>9. CASE MuxEnds
  BY <1>9 DEF MuxEnds
<1>10. CASE GrpcServe
  BY <1>10 DEF GrpcServe
<1>11. CASE GrpcServeEnds
  BY <1>11 DEF GrpcServeEnds, GrpcListenerEnded
<1>12. CASE HttpServe
  BY <1>12 DEF HttpServe, CloseGwListener
<1>13. CASE HttpServeEnds
  BY <1>13 DEF HttpServeEnds, GwListenerEnded
<1>14. CASE ShutdownHttp
  BY <1>14 DEF ShutdownHttp, CloseGwListener
<1>15. CASE DrainHttp
  BY <1>15 DEF DrainHttp
<1>16. CASE StopGrpc
  BY <1>16 DEF StopGrpc
<1>17. CASE DrainGrpc
  BY <1>17 DEF DrainGrpc
<1>18. CASE FinishInterrupt
  BY <1>18 DEF FinishInterrupt
<1>19. CASE RpcStart
  BY <1>19 DEF RpcStart, GrpcReachable
<1>20. CASE RpcEnd
  BY <1>20 DEF RpcEnd
<1>21. CASE GwStart
  BY <1>21 DEF GwStart
<1>22. CASE GwConnect
  BY <1>22 DEF GwConnect, GrpcReachable
<1>23. CASE GwEnd
  BY <1>23 DEF GwEnd
<1>24. CASE UNCHANGED vars
  BY <1>24 DEF vars
<1>25. CASE MuxFails
  BY <1>25 DEF MuxFails
<1>26. CASE MuxFail
  BY <1>26 DEF MuxFail, FinishOnce
<1>27. QED
  BY <1>1, <1>2, <1>3, <1>4, <1>5, <1>6, <1>7, <1>8, <1>9, <1>10,
     <1>11, <1>12, <1>13, <1>14, <1>15, <1>16, <1>17, <1>18, <1>19, <1>20,
     <1>21, <1>22, <1>23, <1>24, <1>25, <1>26
     DEF Next, MainStep, BootStep

LEMMA EventInvStep == IInv /\ [Next]_vars => EventInv'
<1> SUFFICES ASSUME IInv, [Next]_vars PROVE EventInv'
  OBVIOUS
<1> USE MaxCallsAssumption DEF IInv, TypeOK, Listener, Goroutine, EventInv,
          servers, listeners, events, clients
<1>1. CASE Setup
  BY <1>1 DEF Setup
<1>2. CASE SetupFail
  BY <1>2 DEF SetupFail
<1>3. CASE Spawn
  BY <1>3 DEF Spawn
<1>4. CASE LogBootstrap
  BY <1>4 DEF LogBootstrap, FinishOnce
<1>5. CASE ListenGrpc
  BY <1>5 DEF ListenGrpc
<1>6. CASE ListenGw
  BY <1>6 DEF ListenGw
<1>7. CASE ListenFail
  BY <1>7 DEF ListenFail, FinishOnce
<1>8. CASE StartServers
  BY <1>8 DEF StartServers
<1>9. CASE MuxEnds
  BY <1>9 DEF MuxEnds
<1>10. CASE GrpcServe
  BY <1>10 DEF GrpcServe
<1>11. CASE GrpcServeEnds
  BY <1>11 DEF GrpcServeEnds, GrpcListenerEnded
<1>12. CASE HttpServe
  BY <1>12 DEF HttpServe, CloseGwListener
<1>13. CASE HttpServeEnds
  BY <1>13 DEF HttpServeEnds, GwListenerEnded
<1>14. CASE ShutdownHttp
  BY <1>14 DEF ShutdownHttp, CloseGwListener
<1>15. CASE DrainHttp
  BY <1>15 DEF DrainHttp
<1>16. CASE StopGrpc
  BY <1>16 DEF StopGrpc
<1>17. CASE DrainGrpc
  BY <1>17 DEF DrainGrpc
<1>18. CASE FinishInterrupt
  BY <1>18 DEF FinishInterrupt
<1>19. CASE RpcStart
  BY <1>19 DEF RpcStart, GrpcReachable
<1>20. CASE RpcEnd
  BY <1>20 DEF RpcEnd
<1>21. CASE GwStart
  BY <1>21 DEF GwStart
<1>22. CASE GwConnect
  BY <1>22 DEF GwConnect, GrpcReachable
<1>23. CASE GwEnd
  BY <1>23 DEF GwEnd
<1>24. CASE UNCHANGED vars
  BY <1>24 DEF vars
<1>25. CASE MuxFails
  BY <1>25 DEF MuxFails
<1>26. CASE MuxFail
  BY <1>26 DEF MuxFail, FinishOnce
<1>27. QED
  BY <1>1, <1>2, <1>3, <1>4, <1>5, <1>6, <1>7, <1>8, <1>9, <1>10,
     <1>11, <1>12, <1>13, <1>14, <1>15, <1>16, <1>17, <1>18, <1>19, <1>20,
     <1>21, <1>22, <1>23, <1>24, <1>25, <1>26
     DEF Next, MainStep, BootStep

LEMMA CleanInvStep == IInv /\ [Next]_vars => CleanInv'
<1> SUFFICES ASSUME IInv, [Next]_vars PROVE CleanInv'
  OBVIOUS
<1> USE MaxCallsAssumption DEF IInv, TypeOK, Listener, Goroutine, ListenerInv, OrderInv, CleanInv,
          Interrupting, GrpcStopped,
          servers, listeners, events, clients
<1>1. CASE Setup
  BY <1>1 DEF Setup
<1>2. CASE SetupFail
  BY <1>2 DEF SetupFail
<1>3. CASE Spawn
  BY <1>3 DEF Spawn
<1>4. CASE LogBootstrap
  BY <1>4 DEF LogBootstrap, FinishOnce
<1>5. CASE ListenGrpc
  BY <1>5 DEF ListenGrpc
<1>6. CASE ListenGw
  BY <1>6 DEF ListenGw
<1>7. CASE ListenFail
  BY <1>7 DEF ListenFail, FinishOnce
<1>8. CASE StartServers
  BY <1>8 DEF StartServers
<1>9. CASE MuxEnds
  BY <1>9 DEF MuxEnds
<1>10. CASE GrpcServe
  BY <1>10 DEF GrpcServe
<1>11. CASE GrpcServeEnds
  BY <1>11 DEF GrpcServeEnds, GrpcListenerEnded
<1>12. CASE HttpServe
  BY <1>12 DEF HttpServe, CloseGwListener
<1>13. CASE HttpServeEnds
  BY <1>13 DEF HttpServeEnds, GwListenerEnded
<1>14. CASE ShutdownHttp
  BY <1>14 DEF ShutdownHttp, CloseGwListener
<1>15. CASE DrainHttp
  BY <1>15 DEF DrainHttp
<1>16. CASE StopGrpc
  BY <1>16 DEF StopGrpc
<1>17. CASE DrainGrpc
  BY <1>17 DEF DrainGrpc
<1>18. CASE FinishInterrupt
  BY <1>18 DEF FinishInterrupt
<1>19. CASE RpcStart
  BY <1>19 DEF RpcStart, GrpcReachable
<1>20. CASE RpcEnd
  BY <1>20 DEF RpcEnd
<1>21. CASE GwStart
  BY <1>21 DEF GwStart
<1>22. CASE GwConnect
  BY <1>22 DEF GwConnect, GrpcReachable
<1>23. CASE GwEnd
  BY <1>23 DEF GwEnd
<1>24. CASE UNCHANGED vars
  BY <1>24 DEF vars
<1>25. CASE MuxFails
  BY <1>25 DEF MuxFails
<1>26. CASE MuxFail
  BY <1>26 DEF MuxFail, FinishOnce
<1>27. QED
  BY <1>1, <1>2, <1>3, <1>4, <1>5, <1>6, <1>7, <1>8, <1>9, <1>10,
     <1>11, <1>12, <1>13, <1>14, <1>15, <1>16, <1>17, <1>18, <1>19, <1>20,
     <1>21, <1>22, <1>23, <1>24, <1>25, <1>26
     DEF Next, MainStep, BootStep

(* The invariant holds in every reachable state. *)
THEOREM InvHolds == Spec => []IInv
<1>1. IInv /\ [Next]_vars => IInv'
  BY TypeOKStep, OrderInvStep, ListenerInvStep, EventInvStep, CleanInvStep
     DEF IInv
<1>2. QED
  BY <1>1, InitInv, PTL DEF Spec

(* The types of EntryLifecycle hold in every reachable state. *)
THEOREM TypeCorrect == Spec => []TypeOK
<1>1. IInv => TypeOK
  BY DEF IInv
<1>2. QED
  BY <1>1, InvHolds, PTL

(* Bootstrap's event is finished once, whichever goroutine comes first. *)
THEOREM EventOnce == Spec => []EventFinishedOnce
<1>1. IInv => EventFinishedOnce
  BY DEF IInv, EventInv, EventFinishedOnce
<1>2. QED
  BY <1>1, InvHolds, PTL

(* The gRPC server outlives every gateway request forwarded to it. *)
THEOREM GatewayBackend == Spec => []GatewayHasBackend
<1>1. IInv => GatewayHasBackend
  BY DEF IInv, TypeOK, Listener, OrderInv, ListenerInv, GatewayHasBackend,
         Interrupting, GrpcStopped
<1>2. QED
  BY <1>1, InvHolds, PTL

(* Interrupt returns behind every accepted call. *)
THEOREM Drained == Spec => []InterruptDrains
<1>1. IInv => InterruptDrains
  BY DEF IInv, TypeOK, OrderInv, InterruptDrains, GrpcStopped
<1>2. QED
  BY <1>1, InvHolds, PTL

(* With two ports a serving entry shuts down without ShutdownWithError. *)
THEOREM CleanShutdown == Spec => []CleanWithTwoPorts
<1>1. IInv => CleanWithTwoPorts
  BY DEF IInv, CleanInv, CleanWithTwoPorts
<1>2. QED
  BY <1>1, InvHolds, PTL
=============================================================================
