----------------------------- MODULE Transport -----------------------------
(***************************************************************************)
(* proxy-client's way to a flow: TransportClient::open (transport.rs) over *)
(* QuicClient (quic.rs), which pools one connection behind an async mutex, *)
(* and GrpcClient (grpc.rs).  Flows open, relay and end concurrently; each *)
(* open is a task of its own and interleaves at every await.               *)
(*                                                                         *)
(* A verdict stands for what proxy-server answers about a target: it may   *)
(* grant or refuse at once, or be slow, in which case its answer races the *)
(* client's connect_timeout, or never comes.  The error texts are          *)
(* abstracted away.                                                        *)
(***************************************************************************)
EXTENDS Integers, FiniteSets

CONSTANTS
    Flows,          \* tasks spawned by dispatch (relay.rs)
    Conns,          \* identities of QUIC connections; a dead one is reused
    NoFlow, NoConn, \* "None"
    QuicEnabled,    \* cfg.quic_enabled
    GrpcEnabled,    \* cfg.grpc_enabled
    MaxStreams,     \* the server's max_concurrent_streams per connection
    Interval        \* cfg.reconnect_interval_ms, in ticks

ASSUME NoneAssumption == NoFlow \notin Flows /\ NoConn \notin Conns
ASSUME ModeAssumption ==                    \* ClientConfig::validate
    QuicEnabled \in BOOLEAN /\ GrpcEnabled \in BOOLEAN
        /\ (QuicEnabled \/ GrpcEnabled)
ASSUME StreamsAssumption == MaxStreams \in Nat \ {0}
ASSUME IntervalAssumption == Interval \in Nat \ {0}

VARIABLES
    pc,         \* where each flow's open() stands
    conn,       \* the Connection clone each open or relay holds
    verdict,    \* what the server would answer about the flow's target
    result,     \* outcome of the flow's last open
    slot,       \* QuicClient.connection: the pooled connection
    slotLock,   \* holder of that mutex across an await
    closed,     \* connections whose close_reason() is set
    suppress,   \* ticks until fallback_until; 0 when None or past
    quicUp,     \* packets to the QUIC server get through
    grpcUp      \* the gRPC server is reachable

flowVars == <<pc, conn, verdict, result>>
poolVars == <<slot, slotLock, closed>>
envVars  == <<quicUp, grpcUp>>
vars == <<flowVars, poolVars, suppress, envVars>>

Steps == {"idle", "check", "grpcFirst", "pool", "connecting", "openBi",
          "response", "granted", "invalidate", "unavailable", "grpcFailed",
          "grpcLast", "relay"}
Verdicts == {"grant", "refuse", "slow"}

TypeOK ==
    /\ pc \in [Flows -> Steps]
    /\ conn \in [Flows -> Conns \cup {NoConn}]
    /\ verdict \in [Flows -> Verdicts]
    /\ result \in [Flows -> {"none", "flow", "error"}]
    /\ slot \in Conns \cup {NoConn}
    /\ slotLock \in Flows \cup {NoFlow}
    /\ closed \subseteq Conns
    /\ suppress \in 0..Interval
    /\ quicUp \in BOOLEAN /\ grpcUp \in BOOLEAN

Init ==
    /\ pc = [f \in Flows |-> "idle"]
    /\ conn = [f \in Flows |-> NoConn]
    /\ verdict = [f \in Flows |-> "grant"]
    /\ result = [f \in Flows |-> "none"]
    /\ slot = NoConn /\ slotLock = NoFlow /\ closed = {}
    /\ suppress = 0
    /\ quicUp = TRUE /\ grpcUp = TRUE

\* Connections an open or a relay still refers to.
Held == {conn[f] : f \in Flows}

\* Streams of a connection the server still counts against its limit.
LiveStreams(c) == 
    {f \in Flows : conn[f] = c /\ pc[f] \in {"response", "granted", "relay"}}

Goto(f, step) == pc' = [pc EXCEPT ![f] = step]

\* open() returns Ok or Err.
Return(f, step, r) == Goto(f, step) /\ result' = [result EXCEPT ![f] = r]

\* QuicClient::open is about to return Unavailable.
GiveUpQuic(f) == Goto(f, "unavailable") /\ conn' = [conn EXCEPT ![f] = NoConn]

-----------------------------------------------------------------------------
(* TransportClient::open *)

\* dispatch spawns the flow's task, which calls open().
Begin(f) ==
    /\ pc[f] = "idle"
    /\ Goto(f, IF ~QuicEnabled THEN "grpcLast"
               ELSE IF ~GrpcEnabled THEN "pool" ELSE "check")
    /\ \E v \in Verdicts : verdict' = [verdict EXCEPT ![f] = v]
    /\ result' = [result EXCEPT ![f] = "none"]
    /\ UNCHANGED <<conn, poolVars, suppress, envVars>>

\* Read fallback_until.
CheckWindow(f) ==
    /\ pc[f] = "check"
    /\ Goto(f, IF suppress > 0 THEN "grpcFirst" ELSE "pool")
    /\ UNCHANGED <<conn, verdict, result, poolVars, suppress, envVars>>

\* Fault: every flow gRPC serves renews the window.
GrpcGrantRenews(f) ==
    /\ pc[f] \in {"grpcFirst", "grpcLast"}
    /\ grpcUp /\ verdict[f] # "refuse"
    /\ Return(f, "relay", "flow")
    /\ suppress' = Interval
    /\ UNCHANGED <<conn, verdict, poolVars, envVars>>

\* GrpcClient::open granted a flow, before or after trying QUIC.
GrpcGrant(f) ==
    /\ pc[f] \in {"grpcFirst", "grpcLast"}
    /\ grpcUp /\ verdict[f] # "refuse"
    /\ Return(f, "relay", "flow")
    /\ UNCHANGED <<conn, verdict, poolVars, suppress, envVars>>

\* GrpcClient::open failed: unreachable, timed out, or refused by the server.
GrpcFails(f) == ~grpcUp \/ verdict[f] \in {"refuse", "slow"}

\* Fault: inside the window a gRPC error is returned as it is.
GrpcFirstErrorGivesUp(f) ==
    /\ pc[f] = "grpcFirst" /\ GrpcFails(f)
    /\ Return(f, "idle", "error")
    /\ suppress' = 0
    /\ UNCHANGED <<conn, verdict, poolVars, envVars>>

\* gRPC failed inside the window: try QUIC after all.
GrpcFirstError(f) ==
    /\ pc[f] = "grpcFirst" /\ GrpcFails(f)
    /\ Goto(f, "grpcFailed")
    /\ UNCHANGED <<conn, verdict, result, poolVars, suppress, envVars>>

\* Set fallback_until to None, once its mutex is taken: gRPC failed inside the
\* window, or QUIC opened the flow.
CloseWindow(f) ==
    /\ \/ pc[f] = "grpcFailed" /\ Goto(f, "pool") /\ UNCHANGED result
       \/ pc[f] = "granted" /\ Return(f, "relay", "flow")
    /\ suppress' = 0
    /\ UNCHANGED <<conn, verdict, poolVars, envVars>>

\* QUIC was unavailable: a QUIC-only client gives up, others set fallback_until
\* and turn to gRPC.
OpenWindow(f) ==
    /\ pc[f] = "unavailable"
    /\ IF GrpcEnabled
       THEN /\ Goto(f, "grpcLast")
            /\ suppress' = Interval
            /\ UNCHANGED result
       ELSE Return(f, "idle", "error") /\ UNCHANGED suppress
    /\ UNCHANGED <<conn, verdict, poolVars, envVars>>

GrpcLastError(f) ==
    /\ pc[f] = "grpcLast" /\ GrpcFails(f)
    /\ Return(f, "idle", "error")
    /\ UNCHANGED <<conn, verdict, poolVars, suppress, envVars>>

-----------------------------------------------------------------------------
(* QuicClient::connection and invalidate *)

SlotUsable == slot # NoConn /\ slot \notin closed

\* Take the mutex, find a live connection, clone it, release.
Reuse(f) ==
    /\ pc[f] = "pool" /\ slotLock = NoFlow
    /\ SlotUsable
    /\ conn' = [conn EXCEPT ![f] = slot]
    /\ Goto(f, "openBi")
    /\ UNCHANGED <<verdict, result, poolVars, suppress, envVars>>

\* Fault: the mutex is released before connecting.
StartConnectUnlocked(f) ==
    /\ pc[f] = "pool" /\ slotLock = NoFlow
    /\ ~SlotUsable
    /\ Goto(f, "connecting")
    /\ UNCHANGED <<conn, verdict, result, poolVars, suppress, envVars>>

\* Take the mutex, find none, and keep it while connecting.
StartConnect(f) ==
    /\ pc[f] = "pool" /\ slotLock = NoFlow
    /\ ~SlotUsable
    /\ slotLock' = f
    /\ Goto(f, "connecting")
    /\ UNCHANGED <<conn, verdict, result, slot, closed, suppress, envVars>>

\* The slot's old connection, if any, is closed: its identity may be reused.
ConnectOk(f) ==
    /\ pc[f] = "connecting" /\ quicUp
    /\ \E c \in Conns \ Held :
          /\ slot' = c
          /\ conn' = [conn EXCEPT ![f] = c]
          /\ closed' = closed \cap Held
    /\ slotLock' = NoFlow
    /\ Goto(f, "openBi")
    /\ UNCHANGED <<verdict, result, suppress, envVars>>

\* The connect timed out or failed; the old slot content stays.
ConnectError(f) ==
    /\ pc[f] = "connecting" /\ ~quicUp
    /\ slotLock' = NoFlow
    /\ GiveUpQuic(f)
    /\ UNCHANGED <<verdict, result, slot, closed, suppress, envVars>>

\* Empty the slot, whatever connection it holds by now.
Invalidate(f) ==
    /\ pc[f] = "invalidate" /\ slotLock = NoFlow
    /\ slot' = NoConn
    /\ GiveUpQuic(f)
    /\ UNCHANGED <<verdict, result, slotLock, closed, suppress, envVars>>

-----------------------------------------------------------------------------
(* QuicClient::open *)

\* open_bi and the request write; waits, without a timeout, for stream credit.
OpenBi(f) ==
    /\ pc[f] = "openBi" /\ conn[f] \notin closed
    /\ Cardinality(LiveStreams(conn[f])) < MaxStreams
    /\ Goto(f, "response")
    /\ UNCHANGED <<conn, verdict, result, poolVars, suppress, envVars>>

\* The connection died under open_bi, the request write or the response read.
QuicBroken(f) ==
    /\ pc[f] \in {"openBi", "response"} /\ conn[f] \in closed
    /\ Goto(f, "invalidate")
    /\ UNCHANGED <<conn, verdict, result, poolVars, suppress, envVars>>

Answered(f) == pc[f] = "response" /\ conn[f] \notin closed /\ quicUp

QuicGrant(f) ==
    /\ Answered(f) /\ verdict[f] # "refuse"
    /\ Goto(f, "granted")
    /\ UNCHANGED <<conn, verdict, result, poolVars, suppress, envVars>>

\* A refusal by the server is final.
QuicRefuse(f) ==
    /\ Answered(f) /\ verdict[f] = "refuse"
    /\ Return(f, "idle", "error")
    /\ conn' = [conn EXCEPT ![f] = NoConn]
    /\ UNCHANGED <<verdict, poolVars, suppress, envVars>>

\* Fault: the response is read without a timeout.
QuicTimeoutMissing(f) ==
    /\ pc[f] = "response" /\ conn[f] \in closed
    /\ Goto(f, "invalidate")
    /\ UNCHANGED <<conn, verdict, result, poolVars, suppress, envVars>>

\* No answer within connect_timeout, or the stream ended without one.
QuicTimeout(f) ==
    /\ pc[f] = "response" /\ conn[f] \notin closed
    /\ ~quicUp \/ verdict[f] = "slow"
    /\ Goto(f, "invalidate")
    /\ UNCHANGED <<conn, verdict, result, poolVars, suppress, envVars>>

\* The relay (relay.rs) is over and drops its stream.
EndRelay(f) ==
    /\ pc[f] = "relay"
    /\ Goto(f, "idle")
    /\ conn' = [conn EXCEPT ![f] = NoConn]
    /\ UNCHANGED <<verdict, result, poolVars, suppress, envVars>>

-----------------------------------------------------------------------------
(* Environment *)

Tick ==
    /\ suppress > 0
    /\ suppress' = suppress - 1
    /\ UNCHANGED <<flowVars, poolVars, envVars>>

QuicOutage ==
    /\ quicUp' = ~quicUp
    /\ UNCHANGED <<flowVars, poolVars, suppress, grpcUp>>

GrpcOutage ==
    /\ grpcUp' = ~grpcUp
    /\ UNCHANGED <<flowVars, poolVars, suppress, quicUp>>

\* Idle timeout, server restart, or a close by the peer.
ConnClose ==
    /\ \E c \in ((Held \cup {slot}) \ {NoConn}) \ closed :
          closed' = closed \cup {c}
    /\ UNCHANGED <<flowVars, slot, slotLock, suppress, envVars>>

Next ==
    \/ \E f \in Flows :
          \/ Begin(f) \/ CheckWindow(f) \/ EndRelay(f)
          \/ GrpcGrant(f) \/ GrpcFirstError(f) \/ GrpcLastError(f)
          \/ CloseWindow(f) \/ OpenWindow(f)
          \/ Reuse(f) \/ StartConnect(f) \/ ConnectOk(f) \/ ConnectError(f)
          \/ OpenBi(f) \/ QuicBroken(f) \/ QuicGrant(f) \/ QuicRefuse(f)
          \/ QuicTimeout(f) \/ Invalidate(f)
    \/ Tick \/ QuicOutage \/ GrpcOutage \/ ConnClose

Spec == Init /\ [][Next]_vars

\* The steps a flow's task takes by itself once it runs, or once an await
\* under a timeout returns.
TaskStep(f) ==
    \/ CheckWindow(f) \/ CloseWindow(f) \/ OpenWindow(f)
    \/ GrpcGrant(f) \/ GrpcFirstError(f) \/ GrpcLastError(f)
    \/ ConnectOk(f) \/ ConnectError(f)
    \/ OpenBi(f) \/ QuicGrant(f) \/ QuicRefuse(f) \/ QuicTimeout(f) \/ QuicBroken(f)

\* Those it takes with the slot mutex, which tokio grants first come first
\* served, so that the flows in front of a waiter do not starve it.
MutexStep(f) == Reuse(f) \/ StartConnect(f) \/ Invalidate(f)

\* Tasks run and time passes.  New flows, the ends of relays and every outage
\* are up to the environment.  A flow stands at one await at a time, which only
\* its own step leaves: fairness to the whole is fairness to each.
Fairness ==
    /\ WF_vars(Tick)
    /\ \A f \in Flows : WF_vars(TaskStep(f)) /\ SF_vars(MutexStep(f))

-----------------------------------------------------------------------------
(* Properties *)

\* The pooled connection is only ever replaced by another when it was gone:
\* two flows that find the slot empty never connect over each other, because
\* connection() keeps the mutex while it connects (quic.rs).
PoolNotClobbered ==
    [][slot' # slot /\ slot' # NoConn => slot = NoConn \/ slot \in closed]_vars

\* A flow waits in open_bi for the server to grant its connection a stream.
OutOfStreams(f) ==
    pc[f] = "openBi" /\ Cardinality(LiveStreams(conn[f])) >= MaxStreams

\* Every open() returns: no flow waits forever for the pool, for the mutex or
\* for an answer; only while other flows hold every stream of its connection
\* may it wait on, since open_bi has no timeout (quic.rs).
OpenTerminates ==
    \A f \in Flows : []<>(pc[f] \in {"idle", "relay"} \/ OutOfStreams(f))

\* Once QUIC stays up, its connections stay open and no target is slow, the
\* client stops falling back: from some point on no flow is on its way over
\* gRPC (transport.rs, the fallback window).
QuicRecovers ==
    /\ <>[](quicUp /\ \A f \in Flows : verdict[f] # "slow")
    /\ <>[][closed' \subseteq closed]_vars
    => <>[](\A f \in Flows : pc[f] \notin {"grpcFirst", "grpcLast"})
=============================================================================
