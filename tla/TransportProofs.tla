--------------------------- MODULE TransportProofs ---------------------------
(***************************************************************************)
(* Proofs about Transport and TransportHistory, for any number of flows    *)
(* and connections, any stream limit and fallback window, and every        *)
(* combination of enabled transports.                                      *)
(***************************************************************************)
EXTENDS TransportHistory, TLAPS

\* Who owns the slot mutex, and what holding it says about the slot.  The
\* second part is what the owner learned before it started to connect; only
\* the mutex keeps it true until the connection is stored.
LockInv ==
    /\ \A f \in Flows : pc[f] = "connecting" <=> slotLock = f
    /\ slotLock # NoFlow => ~SlotUsable

PoolInv == TypeOK /\ LockInv

\* Every step of an open, of the pool and of the environment preserves the
\* type and the mutex discipline of QuicClient::connection.
LEMMA PoolStep == PoolInv /\ [Next]_vars => PoolInv'
<1> SUFFICES ASSUME PoolInv, [Next]_vars PROVE PoolInv'
  OBVIOUS
<1> USE NoneAssumption, ModeAssumption, IntervalAssumption
    DEF PoolInv, TypeOK, LockInv, SlotUsable, Steps, Verdicts,
        flowVars, poolVars, envVars, Goto, Return
<1>1. ASSUME NEW f \in Flows,
             \/ Begin(f) \/ CheckWindow(f) \/ EndRelay(f)
             \/ GrpcGrant(f) \/ GrpcFirstError(f) \/ GrpcLastError(f)
             \/ CloseWindow(f) \/ OpenWindow(f)
      PROVE  PoolInv'
  <2>1. CASE Begin(f)
    BY <2>1 DEF Begin
  <2>2. CASE CheckWindow(f)
    BY <2>2 DEF CheckWindow
  <2>3. CASE EndRelay(f)
    BY <2>3 DEF EndRelay
  <2>4. CASE GrpcGrant(f)
    BY <2>4 DEF GrpcGrant
  <2>5. CASE GrpcFirstError(f)
    BY <2>5 DEF GrpcFirstError
  <2>6. CASE GrpcLastError(f)
    BY <2>6 DEF GrpcLastError
  <2>7. CASE CloseWindow(f)
    BY <2>7 DEF CloseWindow
  <2>8. CASE OpenWindow(f)
    BY <2>8 DEF OpenWindow
  <2> QED
    BY <1>1, <2>1, <2>2, <2>3, <2>4, <2>5, <2>6, <2>7, <2>8
<1>2. ASSUME NEW f \in Flows,
             Reuse(f) \/ StartConnect(f) \/ ConnectOk(f) \/ ConnectError(f)
      PROVE  PoolInv'
  <2>1. CASE Reuse(f)
    BY <2>1 DEF Reuse
  <2>2. CASE StartConnect(f)
    BY <2>2 DEF StartConnect
  <2>3. CASE ConnectOk(f)
    BY <2>3 DEF ConnectOk, Held
  <2>4. CASE ConnectError(f)
    BY <2>4 DEF ConnectError, GiveUpQuic
  <2> QED
    BY <1>2, <2>1, <2>2, <2>3, <2>4
<1>3. ASSUME NEW f \in Flows,
             \/ OpenBi(f) \/ QuicBroken(f) \/ QuicGrant(f) \/ QuicRefuse(f)
             \/ QuicTimeout(f) \/ Invalidate(f)
      PROVE  PoolInv'
  <2>1. CASE OpenBi(f)
    BY <2>1 DEF OpenBi
  <2>2. CASE QuicBroken(f)
    BY <2>2 DEF QuicBroken
  <2>3. CASE QuicGrant(f)
    BY <2>3 DEF QuicGrant, Answered
  <2>4. CASE QuicRefuse(f)
    BY <2>4 DEF QuicRefuse, Answered
  <2>5. CASE QuicTimeout(f)
    BY <2>5 DEF QuicTimeout
  <2>6. CASE Invalidate(f)
    BY <2>6 DEF Invalidate, GiveUpQuic
  <2> QED
    BY <1>3, <2>1, <2>2, <2>3, <2>4, <2>5, <2>6
<1>4. CASE Tick \/ QuicOutage \/ GrpcOutage
  <2>1. quicUp' \in BOOLEAN /\ grpcUp' \in BOOLEAN
    BY <1>4, Zenon DEF Tick, QuicOutage, GrpcOutage
  <2>2. suppress' \in 0..Interval
    BY <1>4 DEF Tick, QuicOutage, GrpcOutage
  <2>3. UNCHANGED <<pc, conn, verdict, result, slot, slotLock, closed>>
    BY <1>4 DEF Tick, QuicOutage, GrpcOutage
  <2> QED
    BY <2>1, <2>2, <2>3, Zenon
<1>5. CASE ConnClose
  BY <1>5 DEF ConnClose, Held
<1>6. CASE UNCHANGED vars
  BY <1>6 DEF vars
<1> QED
  BY <1>1, <1>2, <1>3, <1>4, <1>5, <1>6 DEF Next

\* The pool invariant holds in every reachable state.
LEMMA PoolInvHolds == Spec => []PoolInv
<1>1. Init => PoolInv
  BY NoneAssumption, IntervalAssumption
  DEF Init, PoolInv, TypeOK, LockInv, SlotUsable, Steps, Verdicts
<1> QED
  BY <1>1, PoolStep, PTL DEF Spec

\* Every reachable state is well typed; in particular the fallback window never
\* exceeds reconnect_interval_ms, however many flows fail at once.
THEOREM TypeCorrect == Spec => []TypeOK
<1>1. PoolInv => TypeOK
  BY DEF PoolInv
<1> QED
  BY <1>1, PoolInvHolds, PTL

\* Only ConnectOk fills the slot, and its flow owns the mutex, so the slot was
\* empty or dead: no flow overwrites a connection another flow just pooled.
THEOREM PoolSafe == Spec => PoolNotClobbered
<1>1. PoolInv /\ [Next]_vars =>
        [slot' # slot /\ slot' # NoConn => slot = NoConn \/ slot \in closed]_vars
  <2> SUFFICES ASSUME PoolInv, Next, slot' # slot, slot' # NoConn
               PROVE  slot = NoConn \/ slot \in closed
    OBVIOUS
  <2>1. PICK f \in Flows : ConnectOk(f)
    BY DEF Next, Begin, CheckWindow, EndRelay, GrpcGrant, GrpcFirstError,
           GrpcLastError, CloseWindow, OpenWindow, Reuse, StartConnect, ConnectError, OpenBi, QuicBroken,
           QuicGrant, QuicRefuse, QuicTimeout, Invalidate, Tick, QuicOutage,
           GrpcOutage, ConnClose, poolVars
  <2>2. slotLock = f
    BY <2>1 DEF ConnectOk, PoolInv, LockInv
  <2> QED
    BY <2>2, NoneAssumption DEF PoolInv, LockInv, SlotUsable
<1> QED
  BY <1>1, PoolInvHolds, PTL DEF Spec, PoolNotClobbered

-----------------------------------------------------------------------------
(* AvailableIfEither *)

\* Why an open that reached a given point must have met an impaired transport:
\* an outage marks every flow, and so does the end of a connection, so a flow
\* that gave up on its connection, or was sent on to gRPC, is marked.
HistoryInv ==
    /\ ~quicUp => quicBad = Flows
    /\ ~grpcUp => grpcBad = Flows
    /\ \A f \in Flows :
          /\ pc[f] \in {"openBi", "response"} /\ conn[f] \in closed => f \in quicBad
          /\ pc[f] \in {"invalidate", "unavailable"} /\ verdict[f] = "grant" => f \in quicBad
          /\ pc[f] = "grpcLast" /\ verdict[f] = "grant" /\ QuicEnabled => f \in quicBad
    /\ AvailableIfEither

AvailInv == PoolInv /\ HistoryInv

\* A mark survives until the flow's next open begins.
LEMMA MarksPersist ==
    ASSUME Record, NEW f \in Flows, ~Started(f)
    PROVE  /\ f \in quicBad => f \in quicBad'
           /\ f \in grpcBad => f \in grpcBad'
BY DEF Record

\* An outage or a closed connection marks every flow.
LEMMA OutagesMark ==
    ASSUME Record
    PROVE  /\ ~quicUp' => quicBad' = Flows
           /\ ~grpcUp' => grpcBad' = Flows
           /\ ~(closed' \subseteq closed) => quicBad' = Flows
BY DEF Record

\* Every recorded step preserves the history invariant.
LEMMA HistoryStep == AvailInv /\ [HNext]_hvars => AvailInv'
<1> SUFFICES ASSUME AvailInv, [HNext]_hvars PROVE AvailInv'
  OBVIOUS
<1>1. PoolInv'
  BY PoolStep DEF AvailInv, HNext, hvars
<1>2. CASE UNCHANGED hvars
  BY <1>1, <1>2 DEF hvars, vars, flowVars, poolVars, envVars, AvailInv,
     HistoryInv, AvailableIfEither
<1>3. ASSUME HNext PROVE HistoryInv'
  <2>1. Record /\ Next
    BY <1>3 DEF HNext
  <2>2. (~quicUp' => quicBad' = Flows) /\ (~grpcUp' => grpcBad' = Flows)
    BY <2>1, OutagesMark
  <2> DEFINE Good(f) ==
        /\ pc[f] \in {"openBi", "response"} /\ conn[f] \in closed => f \in quicBad
        /\ pc[f] \in {"invalidate", "unavailable"} /\ verdict[f] = "grant" => f \in quicBad
        /\ pc[f] = "grpcLast" /\ verdict[f] = "grant" /\ QuicEnabled => f \in quicBad
        /\ result[f] = "error" /\ verdict[f] = "grant" =>
             (QuicEnabled => f \in quicBad) /\ (GrpcEnabled => f \in grpcBad)
  <2>4. ASSUME NEW f \in Flows PROVE Good(f)
    BY DEF AvailInv, HistoryInv, AvailableIfEither
  <2>5. \A f \in Flows : ~quicUp => f \in quicBad
    BY DEF AvailInv, HistoryInv
  <2>6. \A f \in Flows : ~grpcUp => f \in grpcBad
    BY DEF AvailInv, HistoryInv
  <2>7. ASSUME NEW g \in Flows,
               UNCHANGED <<pc[g], conn[g], verdict[g], result[g]>>
        PROVE  Good(g)'
    \* Another flow, or the environment, moved.
    <3>1. (g \in quicBad => g \in quicBad') /\ (g \in grpcBad => g \in grpcBad')
      BY <2>1, <2>7, MarksPersist DEF Started
    <3>2. ~(closed' \subseteq closed) => g \in quicBad'
      BY <2>1, OutagesMark
    <3> QED
      BY <2>4, <2>7, <3>1, <3>2
  <2>8. ASSUME NEW f \in Flows, NEW g \in Flows, g # f,
               \/ Begin(f) \/ CheckWindow(f) \/ EndRelay(f)
               \/ GrpcGrant(f) \/ GrpcFirstError(f) \/ GrpcLastError(f)
               \/ CloseWindow(f) \/ OpenWindow(f)
               \/ Reuse(f) \/ StartConnect(f) \/ ConnectOk(f) \/ ConnectError(f)
               \/ OpenBi(f) \/ QuicBroken(f) \/ QuicGrant(f) \/ QuicRefuse(f)
               \/ QuicTimeout(f) \/ Invalidate(f)
        PROVE  Good(g)'
    <3>1. UNCHANGED <<pc[g], conn[g], verdict[g], result[g]>>
      BY <2>8 DEF AvailInv, PoolInv, TypeOK, Begin, CheckWindow, EndRelay,
         GrpcGrant, GrpcFirstError, GrpcLastError, CloseWindow, OpenWindow,
         Reuse, StartConnect, ConnectOk, ConnectError, OpenBi, QuicBroken, QuicGrant, QuicRefuse, QuicTimeout,
         Invalidate, GiveUpQuic, Goto, Return
    <3> QED
      BY <2>7, <3>1
  <2>9. ASSUME NEW f \in Flows,
               \/ Begin(f) \/ CheckWindow(f) \/ EndRelay(f)
               \/ GrpcGrant(f) \/ GrpcFirstError(f) \/ GrpcLastError(f)
               \/ CloseWindow(f) \/ OpenWindow(f)
               \/ Reuse(f) \/ StartConnect(f) \/ ConnectOk(f) \/ ConnectError(f)
               \/ OpenBi(f) \/ QuicBroken(f) \/ QuicGrant(f) \/ QuicRefuse(f)
               \/ QuicTimeout(f) \/ Invalidate(f)
        PROVE  Good(f)'
    <3> USE DEF AvailInv, PoolInv, TypeOK, Goto, Return, GrpcFails, Answered
    <3>1. CASE Begin(f)
      BY <3>1, ModeAssumption DEF Begin
    <3>2. ASSUME ~Begin(f)
          PROVE  (f \in quicBad => f \in quicBad') /\ (f \in grpcBad => f \in grpcBad')
      <4>1. pc[f] # "idle"
        BY <2>9, <3>2 DEF CheckWindow, EndRelay, GrpcGrant, GrpcFirstError,
           GrpcLastError, CloseWindow, OpenWindow, Reuse, StartConnect, ConnectOk,
           ConnectError, OpenBi, QuicBroken, QuicGrant, QuicRefuse, QuicTimeout, Invalidate
      <4> QED
        BY <2>1, <4>1, MarksPersist DEF Started
    <3>3. CASE CheckWindow(f) \/ EndRelay(f) \/ GrpcGrant(f) \/ GrpcFirstError(f)
      BY <2>4, <3>2, <3>3
      DEF CheckWindow, EndRelay, GrpcGrant, GrpcFirstError, Begin
    <3>4. CASE GrpcLastError(f)
      \* A prompt target fails over gRPC only while gRPC is down.
      BY <2>4, <2>6, <3>2, <3>4 DEF GrpcLastError, Begin
    <3>5. CASE Reuse(f)
      BY <2>4, <3>2, <3>5 DEF Reuse, SlotUsable, poolVars, Begin
    <3>6. CASE StartConnect(f)
      BY <2>4, <3>2, <3>6 DEF StartConnect, Begin
    <3>7. CASE ConnectOk(f)
      BY <2>4, <3>2, <3>7 DEF ConnectOk, Begin
    <3>8. CASE ConnectError(f)
      BY <2>4, <2>5, <3>2, <3>8 DEF ConnectError, GiveUpQuic, Begin
    <3>9. CASE OpenBi(f) \/ QuicBroken(f)
      BY <2>4, <3>2, <3>9 DEF OpenBi, QuicBroken, poolVars, Begin
    <3>10. CASE QuicGrant(f) \/ QuicRefuse(f)
      BY <2>4, <3>2, <3>10 DEF QuicGrant, QuicRefuse, Begin
    <3>11. CASE QuicTimeout(f)
      BY <2>4, <2>5, <3>2, <3>11 DEF QuicTimeout, Begin
    <3>12. CASE Invalidate(f)
      BY <2>4, <3>2, <3>12 DEF Invalidate, GiveUpQuic, Begin
    <3>13. CASE CloseWindow(f) \/ OpenWindow(f)
      BY <2>4, <3>2, <3>13 DEF CloseWindow, OpenWindow, Begin
    <3> QED
      BY <2>9, <3>1, <3>3, <3>4, <3>5, <3>6, <3>7, <3>8, <3>9, <3>10, <3>11, <3>12,
         <3>13
  <2>10. ASSUME Tick \/ QuicOutage \/ GrpcOutage \/ ConnClose, NEW g \in Flows
         PROVE  Good(g)'
    BY <2>7, <2>10 DEF Tick, QuicOutage, GrpcOutage, ConnClose, flowVars
  <2>11. \A f \in Flows : Good(f)'
    BY <2>1, <2>8, <2>9, <2>10 DEF Next
  <2> QED
    BY <2>2, <2>11 DEF HistoryInv, AvailableIfEither
<1> QED
  BY <1>1, <1>2, <1>3 DEF AvailInv

\* open() fails for a promptly granted target only if every enabled transport
\* was impaired during that open.
THEOREM AvailableThroughEither == HSpec => []AvailableIfEither
<1>1. HInit => AvailInv
  BY NoneAssumption, IntervalAssumption
  DEF HInit, Init, AvailInv, PoolInv, TypeOK, LockInv, SlotUsable, Steps,
      Verdicts, HistoryInv, AvailableIfEither
<1>2. AvailInv => AvailableIfEither
  BY DEF AvailInv, HistoryInv
<1> QED
  BY <1>1, <1>2, HistoryStep, PTL DEF HSpec
=============================================================================
