------------------------- MODULE ProxySessionProofs -------------------------
(***************************************************************************)
(* Proofs about ProxySession, and TcpRelay in it, for every policy,        *)
(* resolution, deadline, idle timeout, timer lag and chunk size.           *)
(***************************************************************************)
EXTENDS ProxySession, FiniteSetTheorems, TLAPS

-----------------------------------------------------------------------------
(* TcpRelay: the timer measures the lull, except between notify_one and the *)
(* re-arming it causes, and no time passes then.                            *)

TimerMeasuresLull ==
    relay = "running" => lull = IF permit THEN 0 ELSE timer

\* Completing a chunk moves bytes.
QuietWithinLull == quiet <= lull

RelayInv == RelayTypeOK /\ TimerMeasuresLull /\ QuietWithinLull /\ NoEarlyClose

LEMMA RelayInitially == RelayInit => RelayInv
<1> SUFFICES ASSUME RelayInit PROVE RelayInv
  OBVIOUS
<1> USE IdleAssumption, LagAssumption, ChunkAssumption DEF Overdue, Cap
<1>1. permit \in BOOLEAN /\ permit = FALSE
  BY Zenon DEF RelayInit
<1>2. timer = 0 /\ lull = 0 /\ quiet = 0 /\ relay = "running"
  BY DEF RelayInit
<1>3. /\ copy \in [Ways -> {"read", "write", "done"}]
      /\ left \in [Ways -> 0..ChunkMax]
  BY DEF RelayInit
<1> QED
  BY <1>1, <1>2, <1>3 DEF RelayInv, RelayTypeOK, TimerMeasuresLull, QuietWithinLull,
      NoEarlyClose

\* Every step of the copy loops, of wait_for_idle and of the clock preserves
\* the invariant.
LEMMA RelayPreserved == RelayInv /\ [RelayNext]_tcpVars => RelayInv'
<1> SUFFICES ASSUME RelayInv, [RelayNext]_tcpVars PROVE RelayInv'
  OBVIOUS
<1> USE IdleAssumption, LagAssumption, ChunkAssumption
    DEF Overdue, Cap, RelayInv, RelayTypeOK, TimerMeasuresLull, QuietWithinLull,
        NoEarlyClose, Copying
<1>1. ASSUME NEW d \in Ways, Read(d) PROVE RelayInv'
  BY <1>1 DEF Read
<1>2. ASSUME NEW d \in Ways, ReadEof(d) PROVE RelayInv'
  BY <1>2 DEF ReadEof
<1>3. ASSUME NEW d \in Ways, WriteSome(d) PROVE RelayInv'
  BY <1>3 DEF WriteSome
<1>4. ASSUME NEW d \in Ways, WriteRest(d) PROVE RelayInv'
  BY <1>4 DEF WriteRest
<1>5. ASSUME NEW d \in Ways, CopyError(d) PROVE RelayInv'
  BY <1>5 DEF CopyError
<1>6. CASE BothDone
  BY <1>6 DEF BothDone
<1>7. CASE Rearm
  \* The permit says the lull is 0, and so is the re-armed timer.
  <2>1. permit' \in BOOLEAN /\ permit' = FALSE /\ permit
    BY <1>7, Zenon DEF Rearm
  <2>2. timer' = 0 /\ UNCHANGED <<copy, left, relay, lull, quiet>>
    BY <1>7 DEF Rearm
  <2> QED
    BY <2>1, <2>2
<1>8. CASE IdleFires
  \* Without a permit the lull is the elapsed timer.
  BY <1>8 DEF IdleFires
<1>9. CASE RelayTick
  BY <1>9 DEF RelayTick, Aged
<1>10. CASE UNCHANGED tcpVars
  BY <1>10 DEF tcpVars
<1> QED
  BY <1>1, <1>2, <1>3, <1>4, <1>5, <1>6, <1>7, <1>8, <1>9, <1>10 DEF RelayNext

-----------------------------------------------------------------------------
(* The session *)

\* The part of TypeOK that is not the relay's.
SessionTypeOK ==
    /\ client \in {"idle", "asked", "relay", "gone"}
    /\ transport \in {"quic", "grpc"} /\ cmd \in {"tcp", "udp"}
    /\ target \in Targets \cup {NoTarget} /\ tokenOk \in BOOLEAN
    /\ stage \in Setup \cup {"relay", "ended"}
    /\ todo \in SUBSET Addrs /\ (stage = "dial" => todo # {})
    /\ answer \in {"none", "ok", "auth", "unreachable", "forbidden", "server"}
    /\ upstream \in Addrs \cup {NoAddr}
    /\ age \in Nat /\ (stage \in Setup => age <= Deadline[stage] + Lag)
    /\ late \in 0..InFlight

\* What was decided before each stage, and what was not.
ProtocolInv ==
    /\ client # "idle" => target \in Targets
    /\ stage \in {"resolve", "dial"} => client # "idle" /\ tokenOk
    /\ stage \in Setup => answer = "none" /\ upstream = NoAddr /\ client # "relay"
    /\ stage = "dial" => todo \subseteq Permitted(target)
    /\ answer = "ok" => upstream # NoAddr
    /\ client = "relay" => answer = "ok"

SessionInv == SessionTypeOK /\ ProtocolInv

LEMMA SessionInitially == Init => SessionInv
  BY AddrsAssumption, InFlightAssumption, LagAssumption, TimeoutAssumption
  DEF Init, SessionInv, SessionTypeOK, ProtocolInv, Setup, Deadline

\* The steps of relay_tcp are steps of TcpRelay and end at most the session.
LEMMA RelayingStep ==
    ASSUME SessionTypeOK,
           \/ UploadRead \/ UploadEof \/ UploadWrite \/ DownloadRead \/ DownloadWrite
           \/ RelayFails \/ RelayDone \/ TakePermit \/ TimerFires \/ TimePasses
    PROVE  /\ RelayNext /\ stage = "relay" /\ stage' \in {"relay", "ended"}
           /\ late' \in 0..InFlight
           /\ UNCHANGED <<client, askVars, todo, answer, upstream, age, spent>>
  BY InFlightAssumption
  DEF SessionTypeOK, UploadRead, UploadEof, UploadWrite, DownloadRead, DownloadWrite,
      RelayFails, RelayDone, TakePermit, TimerFires, TimePasses, Relaying, Passing,
      RelayNext, Ways

LEMMA SessionPreserved == SessionInv /\ [Next]_vars => SessionInv'
<1> SUFFICES ASSUME SessionInv, [Next]_vars PROVE SessionInv'
  OBVIOUS
<1> USE AddrsAssumption, InFlightAssumption, LagAssumption, TimeoutAssumption
<1>1. CASE Ask
  BY <1>1 DEF Ask, SessionInv, SessionTypeOK, ProtocolInv, Setup, Deadline
<1>2. CASE ReadOk
  BY <1>2 DEF ReadOk, askVars, SessionInv, SessionTypeOK, ProtocolInv, Setup, Deadline
<1>3. CASE Leave
  BY <1>3 DEF Leave, askVars, SessionInv, SessionTypeOK, ProtocolInv, Setup, Deadline
<1>4. ASSUME NEW a \in {"none", "auth", "unreachable", "forbidden", "server"},
             EndWith(a), upstream' \in Addrs \cup {NoAddr}, stage \in Setup
      PROVE  SessionInv'
  BY <1>4 DEF EndWith, Enter, askVars, SessionInv, SessionTypeOK, ProtocolInv, Setup
<1>5. CASE ReadRequest
  BY <1>5 DEF ReadRequest, Enter, askVars, SessionInv, SessionTypeOK, ProtocolInv,
              Setup, Deadline
<1>6. CASE RejectToken \/ RequestError \/ ResolveRejected \/ BindError
  BY <1>4, <1>6 DEF RejectToken, RequestError, ResolveRejected, BindError, Setup,
                    SessionInv, SessionTypeOK
<1>7. CASE Resolved
  <2>1. /\ todo' # {} /\ todo' \subseteq Permitted(target) /\ Enter("dial")
        /\ stage = "resolve"
        /\ UNCHANGED <<client, askVars, answer, upstream, late>>
    BY <1>7 DEF Resolved
  <2>2. Permitted(target) \subseteq Addrs
    BY <2>1, ResolveAssumption DEF SessionInv, ProtocolInv, Permitted
  <2> QED
    BY <2>1, <2>2 DEF Enter, askVars, SessionInv, SessionTypeOK, ProtocolInv,
                      Setup, Deadline, Permitted
<1>8. CASE DialOk
  <2>1. upstream' \in Addrs /\ stage = "dial"
    BY <1>8 DEF DialOk, SessionInv, SessionTypeOK
  <2>2. CASE client = "gone" /\ EndWith("none")
    BY <1>4, <2>1, <2>2 DEF Setup
  <2>3. CASE /\ Enter("relay") /\ answer' = "ok" /\ todo' = {}
             /\ UNCHANGED <<client, askVars, late>>
    BY <2>1, <2>3 DEF Enter, askVars, SessionInv, SessionTypeOK, ProtocolInv, Setup
  <2> QED
    BY <1>8, <2>2, <2>3 DEF DialOk
<1>9. ASSUME NextCandidate, stage = "dial" PROVE SessionInv'
  <2>1. PICK a \in todo :
          \/ /\ todo # {a}
             /\ todo' = todo \ {a} /\ age' = 0
             /\ UNCHANGED <<client, askVars, stage, answer, upstream, spent, late, tcpVars>>
          \/ todo = {a} /\ EndWith("unreachable") /\ UNCHANGED upstream
    BY <1>9 DEF NextCandidate
  <2>2. CASE EndWith("unreachable") /\ UNCHANGED upstream
    BY <1>4, <1>9, <2>2 DEF Setup, SessionInv, SessionTypeOK
  <2>3. CASE /\ todo # {a} /\ todo' = todo \ {a} /\ age' = 0
             /\ UNCHANGED <<client, askVars, stage, answer, upstream, late>>
    <3>1. todo' # {} /\ todo' \in SUBSET Addrs
      BY <2>1, <2>3 DEF SessionInv, SessionTypeOK
    <3> QED
      BY <1>9, <2>3, <3>1 DEF askVars, SessionInv, SessionTypeOK, ProtocolInv, Setup,
                              Deadline, Permitted
  <2> QED
    BY <2>1, <2>2, <2>3
<1>10. CASE DialError
  BY <1>9, <1>10 DEF DialError
<1>11. CASE DeadlinePassed
  BY <1>4, <1>9, <1>11 DEF DeadlinePassed, Setup, SessionInv, SessionTypeOK
<1>12. CASE SetupTick
  BY <1>12 DEF SetupTick, askVars, SessionInv, SessionTypeOK, ProtocolInv, Setup, Deadline
<1>13. CASE UdpEnd
  BY <1>13 DEF UdpEnd, askVars, SessionInv, SessionTypeOK, ProtocolInv, Setup
<1>14. CASE \/ UploadRead \/ UploadEof \/ UploadWrite \/ DownloadRead \/ DownloadWrite
            \/ RelayFails \/ RelayDone \/ TakePermit \/ TimerFires \/ TimePasses
  <2>1. SessionTypeOK
    BY DEF SessionInv
  <2>2. /\ stage = "relay" /\ stage' \in {"relay", "ended"} /\ late' \in 0..InFlight
        /\ UNCHANGED <<client, askVars, todo, answer, upstream, age>>
    BY <1>14, <2>1, RelayingStep
  <2> QED
    BY <2>2 DEF askVars, SessionInv, SessionTypeOK, ProtocolInv, Setup
<1>15. CASE UNCHANGED vars
  BY <1>15 DEF vars, askVars, SessionInv, SessionTypeOK, ProtocolInv, Setup, Deadline
<1> QED
  BY <1>1, <1>2, <1>3, <1>5, <1>6, <1>7, <1>8, <1>10, <1>11, <1>12, <1>13, <1>14, <1>15
  DEF Next, SessionSetup, SessionRelay

-----------------------------------------------------------------------------
(* The relay in the session *)

LEMMA RelayOnlySteps == SessionInv /\ [Next]_vars => [RelayNext]_tcpVars
<1> SUFFICES ASSUME SessionInv, [Next]_vars PROVE [RelayNext]_tcpVars
  OBVIOUS
<1>1. CASE Ask \/ ReadOk \/ Leave \/ SessionSetup \/ UdpEnd \/ UNCHANGED vars
  BY <1>1 DEF Ask, ReadOk, Leave, SessionSetup, ReadRequest, RejectToken, RequestError,
              Resolved, ResolveRejected, DialOk, DialError, BindError, DeadlinePassed,
              SetupTick, NextCandidate, EndWith, UdpEnd, vars
<1>2. CASE \/ UploadRead \/ UploadEof \/ UploadWrite \/ DownloadRead \/ DownloadWrite
           \/ RelayFails \/ RelayDone \/ TakePermit \/ TimerFires \/ TimePasses
  BY <1>2, RelayingStep DEF SessionInv
<1> QED
  BY <1>1, <1>2 DEF Next, SessionRelay

LEMMA SessionAndRelay == Spec => [](SessionInv /\ RelayInv)
<1>1. Init => SessionInv /\ RelayInv
  BY SessionInitially, RelayInitially DEF Init
<1>2. SessionInv /\ RelayInv /\ [Next]_vars => (SessionInv /\ RelayInv)'
  BY SessionPreserved, RelayOnlySteps, RelayPreserved
<1> QED
  BY <1>1, <1>2, PTL DEF Spec

\* No flow is closed as idle that completed a chunk less than Idle ago
\* (wait_for_idle).
THEOREM NeverEarly == Spec => []NoEarlyClose
<1>1. RelayInv => NoEarlyClose
  BY DEF RelayInv
<1> QED
  BY <1>1, SessionAndRelay, PTL

\* A running flow received or passed on its last byte at most one late timeout
\* ago (copy_with_activity, wait_for_idle).
THEOREM StuckReclaimed == Spec => []StuckFlowReclaimed
<1>1. RelayInv => StuckFlowReclaimed
  BY IdleAssumption, LagAssumption
  DEF RelayInv, TimerMeasuresLull, QuietWithinLull, StuckFlowReclaimed, RelayTypeOK,
      Overdue
<1> QED
  BY <1>1, SessionAndRelay, PTL

-----------------------------------------------------------------------------
(* The session implements FlowService *)

\* Only asking, reading the answer, leaving and reaching an address show.
LEMMA StepServes ==
    ASSUME SessionInv, [Next]_vars
    PROVE  [\E f \in {"flow"} : Service!FsStep(f)]_(Service!fsVars)
<1> USE DEF Service!fsVars, Service!FsStep, OutcomeOf
<1>1. CASE Ask
  <2>1. /\ client = "idle" /\ client' = "asked" /\ target' \in Targets
        /\ UNCHANGED <<tokenOk, upstream>>
    BY <1>1 DEF Ask
  <2>2. Permitted(target') \in SUBSET Addrs /\ target' # NoTarget
    BY <2>1, ResolveAssumption, AddrsAssumption DEF Permitted
  <2>3. Service!Ask("flow")
    BY <2>1, <2>2 DEF Service!Ask
  <2> QED
    BY <2>3
<1>2. CASE ReadOk
  <2>1. Service!Grant("flow")
    BY <1>2 DEF ReadOk, askVars, Service!Grant, SessionInv, ProtocolInv
  <2> QED
    BY <2>1
<1>3. CASE Leave
  <2>1. Service!End("flow")
    BY <1>3 DEF Leave, askVars, Service!End
  <2> QED
    BY <2>1
<1>4. CASE DialOk
  <2>1. PICK a \in todo : upstream' = a
    BY <1>4 DEF DialOk
  <2>2. UNCHANGED <<client, tokenOk, target>> /\ stage = "dial"
    BY <1>4 DEF DialOk, EndWith, askVars
  <2>3. /\ client \in {"asked", "gone"} /\ tokenOk /\ target # NoTarget
        /\ upstream = NoAddr /\ a \in Permitted(target)
    BY <2>1, <2>2, AddrsAssumption DEF SessionInv, SessionTypeOK, ProtocolInv, Setup
  <2>4. Service!Reach("flow")
    BY <2>1, <2>2, <2>3 DEF Service!Reach, Permitted
  <2> QED
    BY <2>4
<1>5. ASSUME UNCHANGED <<client, tokenOk, target, upstream>>
      PROVE  UNCHANGED Service!fsVars
  BY <1>5 DEF Permitted
<1>6. CASE \/ ReadRequest \/ RejectToken \/ RequestError \/ Resolved \/ ResolveRejected
           \/ DialError \/ BindError \/ DeadlinePassed \/ SetupTick \/ UdpEnd
           \/ UNCHANGED vars
  BY <1>5, <1>6
  DEF ReadRequest, RejectToken, RequestError, Resolved, ResolveRejected, DialError,
      BindError, DeadlinePassed, SetupTick, NextCandidate, EndWith, UdpEnd, askVars, vars
<1>7. CASE \/ UploadRead \/ UploadEof \/ UploadWrite \/ DownloadRead \/ DownloadWrite
           \/ RelayFails \/ RelayDone \/ TakePermit \/ TimerFires \/ TimePasses
  BY <1>5, <1>7, RelayingStep DEF SessionInv, askVars
<1> QED
  BY <1>1, <1>2, <1>3, <1>4, <1>6, <1>7 DEF Next, SessionSetup, SessionRelay

\* Session and client implement the abstract service for every policy,
\* resolution and deadline (handle_request, serve_tcp, serve_udp).
THEOREM SessionImplementsService == Spec => IsFlowService
<1>1. Init => Service!FsInit
  BY DEF Init, Service!FsInit, OutcomeOf
<1>2. SessionInv /\ RelayInv /\ [Next]_vars =>
          [\E f \in {"flow"} : Service!FsStep(f)]_(Service!fsVars)
  BY StepServes
<1>3. Spec => Service!FsInit /\ [][\E f \in {"flow"} : Service!FsStep(f)]_(Service!fsVars)
  BY <1>1, <1>2, SessionAndRelay, PTL DEF Spec
<1> QED
  BY <1>3 DEF IsFlowService, Service!FsSpec

-----------------------------------------------------------------------------
(* The setup's budget *)

PerCandidate == ConnectTimeout + Lag
BeforeDial == RequestTimeout + DnsTimeout + 2 * Lag

\* The candidates still to come have their share of the budget left.
SpentInv ==
    /\ spent \in Nat
    /\ stage = "request" => spent <= age
    /\ stage = "resolve" => spent <= RequestTimeout + Lag + age
    /\ stage = "dial" => spent + Cardinality(todo) * PerCandidate
                            <= BeforeDial + Cardinality(Addrs) * PerCandidate + age

LEMMA Products ==
    ASSUME NEW c \in Nat, NEW n \in Nat, NEW k \in Nat
    PROVE  /\ c * k \in Nat
           /\ c <= n => c * k <= n * k
           /\ c # 0 => (c - 1) * k = c * k - k /\ k <= c * k
  BY Z3

LEMMA BudgetNat ==
    /\ PerCandidate \in Nat /\ BeforeDial \in Nat /\ Cardinality(Addrs) \in Nat
    /\ Cardinality(Addrs) * PerCandidate \in Nat
    /\ Budget = BeforeDial + Cardinality(Addrs) * PerCandidate
<1>1. Cardinality(Addrs) \in Nat
  BY FiniteAssumption, FS_CardinalityType
<1>2. PerCandidate \in Nat /\ BeforeDial \in Nat
  BY TimeoutAssumption, LagAssumption DEF PerCandidate, BeforeDial
<1>3. Cardinality(Addrs) * PerCandidate \in Nat
  BY <1>1, <1>2, Products
<1> QED
  BY <1>1, <1>2, <1>3 DEF Budget, PerCandidate, BeforeDial

\* While it sets up, a session is within its budget.
LEMMA WithinBudget ==
    ASSUME SessionInv, SpentInv
    PROVE  stage \in Setup => spent <= Budget
<1> USE TimeoutAssumption, LagAssumption, BudgetNat
<1>1. CASE stage = "request"
  BY <1>1 DEF SpentInv, SessionInv, SessionTypeOK, Setup, Deadline, BeforeDial
<1>2. CASE stage = "resolve"
  BY <1>2 DEF SpentInv, SessionInv, SessionTypeOK, Setup, Deadline, BeforeDial
<1>3. CASE stage = "dial"
  <2>1. IsFiniteSet(todo) /\ Cardinality(todo) \in Nat /\ Cardinality(todo) # 0
    BY <1>3, FiniteAssumption, FS_Subset, FS_CardinalityType, FS_EmptySet
    DEF SessionInv, SessionTypeOK
  <2>2. PerCandidate <= Cardinality(todo) * PerCandidate
        /\ Cardinality(todo) * PerCandidate \in Nat
    BY <2>1, Products
  <2>3. age <= PerCandidate /\ age \in Nat
    BY <1>3 DEF SessionInv, SessionTypeOK, Setup, Deadline, PerCandidate
  <2> QED
    BY <1>3, <2>2, <2>3 DEF SpentInv
<1> QED
  BY <1>1, <1>2, <1>3 DEF Setup

LEMMA SpentPreserved ==
    ASSUME SessionInv, SpentInv, [Next]_vars
    PROVE  SpentInv'
<1> USE TimeoutAssumption, LagAssumption, BudgetNat
<1>1. CASE \/ UploadRead \/ UploadEof \/ UploadWrite \/ DownloadRead \/ DownloadWrite
           \/ RelayFails \/ RelayDone \/ TakePermit \/ TimerFires \/ TimePasses
  BY <1>1, RelayingStep DEF SessionInv, SpentInv
<1>2. CASE UdpEnd
  BY <1>2 DEF UdpEnd, SpentInv
<1>3. CASE Ask \/ ReadOk \/ Leave \/ UNCHANGED vars
  BY <1>3 DEF Ask, ReadOk, Leave, vars, SpentInv
<1>4. ASSUME NEW a, EndWith(a) PROVE SpentInv'
  BY <1>4 DEF EndWith, Enter, SpentInv
<1>5. CASE ReadRequest
  <2>1. stage = "request" /\ stage' = "resolve" /\ age' = 0 /\ spent' = spent
    BY <1>5 DEF ReadRequest, Enter
  <2> QED
    BY <2>1 DEF SpentInv, SessionInv, SessionTypeOK, Setup, Deadline
<1>6. CASE RejectToken \/ RequestError \/ ResolveRejected \/ BindError
  BY <1>4, <1>6 DEF RejectToken, RequestError, ResolveRejected, BindError
<1>7. CASE Resolved
  <2>1. /\ stage = "resolve" /\ stage' = "dial" /\ age' = 0 /\ spent' = spent
        /\ todo' \subseteq Permitted(target)
    BY <1>7 DEF Resolved, Enter
  <2>2. todo' \subseteq Addrs
    BY <2>1, ResolveAssumption DEF SessionInv, ProtocolInv, Permitted
  <2>3. Cardinality(todo') \in Nat /\ Cardinality(todo') <= Cardinality(Addrs)
    BY <2>2, FiniteAssumption, FS_Subset, FS_CardinalityType
  <2>4. /\ Cardinality(todo') * PerCandidate \in Nat
        /\ Cardinality(todo') * PerCandidate <= Cardinality(Addrs) * PerCandidate
    BY <2>3, Products
  <2>5. spent <= BeforeDial
    BY <2>1 DEF SpentInv, SessionInv, SessionTypeOK, Setup, Deadline, BeforeDial
  <2> QED
    BY <2>1, <2>4, <2>5 DEF SpentInv
<1>8. CASE DialOk
  BY <1>4, <1>8 DEF DialOk, Enter, SpentInv
<1>9. ASSUME NextCandidate, stage = "dial" PROVE SpentInv'
  <2>1. PICK a \in todo :
          \/ /\ todo # {a} /\ todo' = todo \ {a} /\ age' = 0
             /\ UNCHANGED <<stage, spent>>
          \/ todo = {a} /\ EndWith("unreachable")
    BY <1>9 DEF NextCandidate
  <2>2. CASE EndWith("unreachable")
    BY <1>4, <2>2
  <2>3. CASE /\ todo' = todo \ {a} /\ age' = 0 /\ UNCHANGED <<stage, spent>>
    \* Each candidate given up frees the share that its timer used up at most.
    <3>1. IsFiniteSet(todo)
      BY FiniteAssumption, FS_Subset DEF SessionInv, SessionTypeOK
    <3>2. /\ Cardinality(todo) \in Nat /\ Cardinality(todo) # 0
          /\ Cardinality(todo') = Cardinality(todo) - 1
      BY <2>1, <2>3, <3>1, FS_RemoveElement, FS_CardinalityType, FS_EmptySet
    <3>3. /\ Cardinality(todo') * PerCandidate = Cardinality(todo) * PerCandidate - PerCandidate
          /\ Cardinality(todo) * PerCandidate \in Nat
      BY <3>2, Products
    <3>4. age <= PerCandidate /\ age \in Nat
      BY <1>9 DEF SessionInv, SessionTypeOK, Setup, Deadline, PerCandidate
    <3> QED
      BY <1>9, <2>3, <3>3, <3>4 DEF SpentInv
  <2> QED
    BY <2>1, <2>2, <2>3
<1>10. CASE DialError
  BY <1>9, <1>10 DEF DialError
<1>11. CASE DeadlinePassed
  BY <1>4, <1>9, <1>11 DEF DeadlinePassed
<1>12. CASE SetupTick
  <2>1. /\ age' = age + 1 /\ spent' = spent + 1 /\ UNCHANGED <<stage, todo>>
    BY <1>12, WithinBudget DEF SetupTick, SpentInv
  <2>2. spent \in Nat /\ age \in Nat /\ stage \in Setup
    BY <1>12 DEF SetupTick, SpentInv, SessionInv, SessionTypeOK
  <2>3. stage = "dial" => Cardinality(todo) \in Nat
    BY FiniteAssumption, FS_Subset, FS_CardinalityType DEF SessionInv, SessionTypeOK
  <2>4. stage = "dial" => Cardinality(todo) * PerCandidate \in Nat
    BY <2>3, Products
  <2> QED
    BY <2>1, <2>2, <2>4 DEF SpentInv, Setup
<1> QED
  BY <1>1, <1>2, <1>3, <1>5, <1>6, <1>7, <1>8, <1>10, <1>11, <1>12
  DEF Next, SessionSetup, SessionRelay

LEMMA AllInvHolds == Spec => [](SessionInv /\ RelayInv /\ SpentInv)
<1>1. Init => SpentInv
  BY DEF Init, SpentInv
<1>2. SessionInv /\ RelayInv /\ SpentInv /\ [Next]_vars => SpentInv'
  BY SpentPreserved
<1> QED
  BY <1>1, <1>2, SessionAndRelay, PTL DEF Spec

\* A session is relaying or over once its deadlines have passed once each, for
\* any number of candidates (handle_stream, handle_request, serve_tcp).
THEOREM SetupWithinBudget == Spec => []SetupBounded
<1>1. SessionInv /\ RelayInv /\ SpentInv => SetupBounded
  BY WithinBudget DEF SetupBounded
<1> QED
  BY <1>1, AllInvHolds, PTL

SpentTypeOK == spent \in 0 .. Budget + 1

\* Every reachable state is well typed: no timer of the setup or the relay runs
\* more than Lag past its deadline.
THEOREM TypeCorrect == Spec => []TypeOK
<1>1. Init => SpentTypeOK
  BY BudgetNat DEF Init, SpentTypeOK
<1>2. SpentTypeOK /\ [Next]_vars => SpentTypeOK'
  <2> SUFFICES ASSUME SpentTypeOK, [Next]_vars PROVE SpentTypeOK'
    OBVIOUS
  <2>1. CASE SessionRelay
    BY <2>1 DEF SessionRelay, UploadRead, UploadEof, UploadWrite, DownloadRead,
                DownloadWrite, RelayFails, RelayDone, TakePermit, TimerFires, TimePasses,
                Relaying, UdpEnd, SpentTypeOK
  <2>2. CASE SetupTick
    BY <2>2, BudgetNat DEF SetupTick, SpentTypeOK
  <2>3. spent' = spent \/ spent' = 0 \/ SessionRelay \/ SetupTick
    BY DEF Next, Ask, ReadOk, Leave, SessionSetup, ReadRequest, RejectToken, RequestError,
           Resolved, ResolveRejected, DialOk, DialError, BindError, DeadlinePassed,
           NextCandidate, EndWith, vars
  <2> QED
    BY <2>1, <2>2, <2>3, BudgetNat DEF SpentTypeOK
<1>3. SessionInv /\ RelayInv /\ SpentTypeOK => TypeOK
  BY DEF SessionInv, SessionTypeOK, RelayInv, SpentTypeOK, TypeOK
<1> QED
  BY <1>1, <1>2, <1>3, SessionAndRelay, PTL DEF Spec
=============================================================================
