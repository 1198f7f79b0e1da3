---------------------------- MODULE BridgeProofs ----------------------------
(***************************************************************************)
(* Proofs about Bridge, for any number of flows, addresses and crashes and *)
(* for every resolution and policy, and about the DNS forwarder on top of  *)
(* it: every step of the forwarder is one of Bridge or leaves its state    *)
(* alone, so what is shown of Bridge holds of the two together.            *)
(* The agent's UDP sessions (UdpIdle) come last.                           *)
(***************************************************************************)
EXTENDS DnsForwarder, UdpIdle, TLAPS

\* What the host's task knows: a flow without a tunnel connection has no
\* session, and a relayed one was granted by an agent that had connected it.
HostInv ==
    \A f \in Flows :
        /\ host[f] \in {"new", "dial", "sleep"} => session[f] = "none"
        /\ host[f] # "new" => target[f] \in Targets
        /\ host[f] = "new" => session[f] = "none"
        /\ host[f] = "relay" => upstream[f] # NoAddr

\* What the agent's session knows as it goes from step to step.
SessionInv ==
    \A f \in Flows :
        /\ session[f] \in {"none", "request", "resolve", "dial"} =>
              upstream[f] = NoAddr /\ reply[f] = "none"
        /\ session[f] \in {"resolve", "dial"} => tokenOk
        /\ session[f] = "dial" =>
              \A a \in todo[f] : a \in Resolve[target[f]] /\ Permits(a)

\* What an answer says, while it is under way and after it arrived.
ReplyInv ==
    \A f \in Flows :
        /\ reply[f] = "ok" => upstream[f] # NoAddr
        /\ reply[f] \in Refusals => upstream[f] = NoAddr

BridgeInv == TypeOK /\ HostInv /\ SessionInv /\ ReplyInv /\ DialPermitted

\* Steps of the host's task and of the application leave the agent alone.
LEMMA HostStepInv ==
    ASSUME BridgeInv, NEW f \in Flows,
           Capture(f) \/ AppEnd(f) \/ HostStep(f)
    PROVE  BridgeInv'
<1> USE AddrsAssumption
    DEF BridgeInv, TypeOK, HostInv, SessionInv, ReplyInv, DialPermitted,
        Refusals, Permits, vmVars, envVars
<1>1. CASE Capture(f)
  BY <1>1 DEF Capture
<1>2. CASE AppEnd(f)
  BY <1>2 DEF AppEnd
<1>3. CASE Connect(f)
  BY <1>3 DEF Connect
<1>4. CASE ConnectError(f)
  BY <1>4 DEF ConnectError
<1>5. CASE Retry(f)
  BY <1>5 DEF Retry
<1>6. CASE Granted(f)
  BY <1>6 DEF Granted
<1>7. ASSUME host[f] = "handshake", SetupFailed(f) PROVE BridgeInv'
  BY <1>7 DEF SetupFailed
<1>8. CASE HostUplinkEnd(f)
  BY <1>8 DEF HostUplinkEnd, HostRelaying
<1>9. CASE HostDownlinkEnd(f)
  BY <1>9 DEF HostDownlinkEnd, HostRelaying
<1>10. CASE HostRelayDone(f)
  BY <1>10 DEF HostRelayDone, HostRelaying
<1>11. CASE HostRelayError(f)
  BY <1>11 DEF HostRelayError, HostRelaying
<1>12. CASE HostUdpEnd(f)
  BY <1>12 DEF HostUdpEnd, HostRelaying
<1> QED
  BY <1>1, <1>2, <1>3, <1>4, <1>5, <1>6, <1>7, <1>8, <1>9, <1>10, <1>11, <1>12
  DEF HostStep, Refused, HandshakeTimeout, HandshakeBroken

\* Steps of the agent's session before it relays.
LEMMA SetupStepInv ==
    ASSUME BridgeInv, NEW f \in Flows, SetupStep(f)
    PROVE  BridgeInv'
<1> USE AddrsAssumption, ResolveAssumption
    DEF BridgeInv, TypeOK, HostInv, SessionInv, ReplyInv, DialPermitted,
        Refusals, Permits, Reject, hostVars, envVars
<1>1. CASE ReadRequest(f)
  BY <1>1 DEF ReadRequest
<1>2. CASE RequestError(f)
  BY <1>2 DEF RequestError
<1>3. CASE ResolveTarget(f)
  <2>1. Resolve[target[f]] \subseteq Addrs
    <3>1. host[f] # "new"
      BY <1>3 DEF ResolveTarget
    <3> QED
      BY <3>1
  <2> DEFINE allowed == {a \in Resolve[target[f]] : Permits(a)}
             Dialling(some) == /\ some # {}
                               /\ todo' = [todo EXCEPT ![f] = some]
                               /\ session' = [session EXCEPT ![f] = "dial"]
                               /\ UNCHANGED <<reply, vmEnd>>
  <2>2. /\ session[f] = "resolve"
        /\ UNCHANGED <<upstream, upEnd, server, cmd, target, host, app, toApp,
                      hostEnd, tokenOk, agentUp, crashes>>
    BY <1>3 DEF ResolveTarget
  <2>3. ASSUME NEW status \in Refusals, Reject(f, status), UNCHANGED todo
        PROVE  BridgeInv'
    BY <2>2, <2>3
  <2>4. ASSUME NEW some \in SUBSET allowed, Dialling(some)
        PROVE  BridgeInv'
    <3>1. TypeOK'
      BY <2>1, <2>2, <2>4
    <3>2. SessionInv'
      BY <2>2, <2>4
    <3> QED
      BY <2>2, <2>4, <3>1, <3>2
  <2>5. ASSUME NEW a \in allowed, Dialling({a})
        PROVE  BridgeInv'
    <3>1. {a} \in SUBSET allowed
      BY <2>5
    <3> QED
      BY <2>4, <2>5, <3>1
  <2>6. \/ \E status \in Refusals : Reject(f, status) /\ UNCHANGED todo
        \/ Dialling(allowed)
        \/ \E a \in allowed : Dialling({a})
    <3> HIDE DEF Reject
    <3> QED
      BY <1>3, Zenon DEF ResolveTarget
  <2>7. allowed \in SUBSET allowed
    OBVIOUS
  <2> QED
    BY <2>3, <2>4, <2>5, <2>6, <2>7, Zenon
<1>4. CASE ResolveError(f)
  BY <1>4 DEF ResolveError
<1>5. CASE DialOk(f)
  BY <1>5 DEF DialOk
<1>6. CASE DialError(f)
  BY <1>6 DEF DialError
<1>7. CASE BindError(f)
  BY <1>7 DEF BindError
<1> QED
  BY <1>1, <1>2, <1>3, <1>4, <1>5, <1>6, <1>7 DEF SetupStep

\* Steps of a relaying session and of the upstream server.
LEMMA RelayStepInv ==
    ASSUME BridgeInv, NEW f \in Flows,
           \/ VmUplinkEnd(f) \/ VmDownlinkEnd(f) \/ VmRelayDone(f)
           \/ VmRelayError(f) \/ VmUdpEnd(f) \/ ServerShut(f)
    PROVE  BridgeInv'
<1> USE AddrsAssumption
    DEF BridgeInv, TypeOK, HostInv, SessionInv, ReplyInv, DialPermitted,
        Refusals, Permits, VmRelaying, hostVars, envVars
<1>1. CASE VmUplinkEnd(f)
  BY <1>1 DEF VmUplinkEnd
<1>2. CASE VmDownlinkEnd(f)
  BY <1>2 DEF VmDownlinkEnd
<1>3. CASE VmRelayDone(f)
  BY <1>3 DEF VmRelayDone
<1>4. CASE VmRelayError(f)
  BY <1>4 DEF VmRelayError
<1>5. CASE VmUdpEnd(f)
  BY <1>5 DEF VmUdpEnd
<1>6. CASE ServerShut(f)
  BY <1>6 DEF ServerShut
<1> QED
  BY <1>1, <1>2, <1>3, <1>4, <1>5, <1>6

\* A crash takes every session, and any answers under way, with it.
LEMMA ProcessStepInv ==
    ASSUME BridgeInv, AgentCrash \/ AgentStart
    PROVE  BridgeInv'
<1> USE AddrsAssumption, MaxCrashesAssumption
    DEF BridgeInv, TypeOK, HostInv, SessionInv, ReplyInv, DialPermitted,
        Refusals, Permits, Alive, hostVars, vmVars
<1>1. CASE AgentCrash
  <2>1. crashes' \in 0..MaxCrashes
    BY <1>1 DEF AgentCrash
  <2>7. agentUp' \in BOOLEAN
    BY <1>1, Zenon DEF AgentCrash
  <2>2. PICK e \in [Flows -> {"open", "shut", "reset"}] :
              vmEnd' = [f \in Flows |-> IF Alive(f) THEN e[f] ELSE vmEnd[f]]
    BY <1>1 DEF AgentCrash
  <2>3. PICK lost \in SUBSET Flows :
              reply' = [f \in Flows |-> IF f \in lost THEN "none" ELSE reply[f]]
    BY <1>1 DEF AgentCrash
  <2>4. /\ session' = [f \in Flows |-> IF Alive(f) THEN "ended" ELSE session[f]]
        /\ todo' = [f \in Flows |-> {}]
        /\ upEnd' = [f \in Flows |-> IF upEnd[f] = "none" THEN "none" ELSE "closed"]
        /\ UNCHANGED <<tokenOk, upstream, server, cmd, target, host, app, toApp, hostEnd>>
    BY <1>1 DEF AgentCrash
  <2>5. TypeOK'
    BY <2>1, <2>2, <2>3, <2>4, <2>7
  <2>6. (HostInv /\ SessionInv /\ ReplyInv /\ DialPermitted)'
    BY <2>3, <2>4
  <2> QED
    BY <2>5, <2>6
<1>2. CASE AgentStart
  BY <1>2 DEF AgentStart
<1> QED
  BY <1>1, <1>2

\* The inductive invariant holds in every reachable state.
LEMMA BridgeInvHolds == Spec => []BridgeInv
<1>1. Init => BridgeInv
  BY AddrsAssumption, MaxCrashesAssumption
  DEF Init, BridgeInv, TypeOK, HostInv, SessionInv, ReplyInv, DialPermitted, Refusals
<1>2. BridgeInv /\ [Next]_vars => BridgeInv'
  <2> SUFFICES ASSUME BridgeInv, [Next]_vars PROVE BridgeInv'
    OBVIOUS
  <2>1. CASE Next
    BY <2>1, HostStepInv, SetupStepInv, RelayStepInv, ProcessStepInv
    DEF Next, VmStep
  <2>2. CASE UNCHANGED vars
    BY <2>2
    DEF vars, hostVars, vmVars, envVars, BridgeInv, TypeOK, HostInv, SessionInv,
        ReplyInv, DialPermitted, Refusals, Permits
  <2> QED
    BY <2>1, <2>2
<1> QED
  BY <1>1, <1>2, PTL DEF Spec

\* Every reachable state is well typed; in particular a dialling session always
\* has a candidate left, so serve_tcp ends by an answer and not by running dry.
THEOREM TypeCorrect == Spec => []TypeOK
<1>1. BridgeInv => TypeOK
  BY DEF BridgeInv
<1> QED
  BY <1>1, BridgeInvHolds, PTL

\* The agent reaches only addresses its policy permits, of the target asked
\* for, and only for clients with its token, whatever the interleaving.
THEOREM OnlyPermittedDialled == Spec => []DialPermitted
<1>1. BridgeInv => DialPermitted
  BY DEF BridgeInv
<1> QED
  BY <1>1, BridgeInvHolds, PTL

\* Host and agent agree on the outcome of every handshake, through handshake
\* timeouts, lost answers and crashes.
THEOREM OutcomeAgreed == Spec => []AgreeOnOutcome
<1>1. BridgeInv => AgreeOnOutcome
  BY DEF BridgeInv, HostInv, ReplyInv, AgreeOnOutcome
<1> QED
  BY <1>1, BridgeInvHolds, PTL

-----------------------------------------------------------------------------
(* Bridge implements FlowService *)

\* Moving the host's task of one flow moves the abstract outcome of that flow.
LEMMA OutcomeMoves ==
    ASSUME BridgeInv, NEW f \in Flows, NEW h, host' = [host EXCEPT ![f] = h]
    PROVE  [g \in Flows |-> OutcomeOf(host[g])]'
               = [[g \in Flows |-> OutcomeOf(host[g])] EXCEPT ![f] = OutcomeOf(h)]
BY DEF BridgeInv, TypeOK

\* Every step of the host's task is a step of the service or a stutter.
LEMMA HostStepServes ==
    ASSUME BridgeInv, NEW f \in Flows, Capture(f) \/ AppEnd(f) \/ HostStep(f)
    PROVE  [\E g \in Flows : Service!FsStep(g)]_(Service!fsVars)
<1> DEFINE outcomes == [g \in Flows |-> OutcomeOf(host[g])]
           mays == [g \in Flows |-> MayReach(target[g])]
<1> USE DEF Service!fsVars, Service!FsStep
<1>1. CASE Capture(f)
  <2>1. PICK t \in Targets : target' = [target EXCEPT ![f] = t]
    BY <1>1 DEF Capture
  <2>2. /\ host[f] = "new" /\ host' = [host EXCEPT ![f] = "dial"]
        /\ UNCHANGED <<tokenOk, upstream>>
    BY <1>1 DEF Capture, vmVars, envVars
  <2>3. outcomes' = [outcomes EXCEPT ![f] = OutcomeOf("dial")]
    BY <2>2, OutcomeMoves
  <2>4. mays' = [mays EXCEPT ![f] = MayReach(t)]
    BY <2>1, <2>2 DEF MayReach, Permits, BridgeInv, TypeOK
  <2>5. MayReach(t) \in SUBSET Addrs
    BY ResolveAssumption, AddrsAssumption DEF MayReach
  <2>6. outcomes[f] = "none" /\ OutcomeOf("dial") = "asked"
    BY <2>2 DEF OutcomeOf
  <2>7. Service!Ask(f)
    BY <2>2, <2>3, <2>4, <2>5, <2>6 DEF Service!Ask
  <2> QED
    BY <2>7
<1>2. ASSUME UNCHANGED <<tokenOk, target, upstream>>, NEW h,
             host' = [host EXCEPT ![f] = h], OutcomeOf(host[f]) = OutcomeOf(h)
      PROVE  UNCHANGED Service!fsVars
  <2>1. outcomes' = [outcomes EXCEPT ![f] = OutcomeOf(h)]
    BY <1>2, OutcomeMoves
  <2>2. mays' = mays
    BY <1>2 DEF MayReach, Permits
  <2> QED
    BY <1>2, <2>1, <2>2
<1>3. ASSUME host[f] \in {"handshake", "relay"}, host' = [host EXCEPT ![f] = "ended"],
             UNCHANGED <<tokenOk, target, upstream>>
      PROVE  Service!End(f)
  <2>1. outcomes' = [outcomes EXCEPT ![f] = OutcomeOf("ended")]
    BY <1>3, OutcomeMoves
  <2>2. mays' = mays
    BY <1>3 DEF MayReach, Permits
  <2>3. outcomes[f] \in {"asked", "relay"} /\ OutcomeOf("ended") = "ended"
    BY <1>3 DEF OutcomeOf
  <2> QED
    BY <1>3, <2>1, <2>2, <2>3 DEF Service!End
<1>4. CASE Granted(f)
  <2>1. /\ host[f] = "handshake" /\ host' = [host EXCEPT ![f] = "relay"]
        /\ UNCHANGED <<tokenOk, target, upstream>>
    BY <1>4 DEF Granted, vmVars, envVars
  <2>2. upstream[f] # NoAddr
    BY <1>4 DEF Granted, BridgeInv, ReplyInv
  <2>3. outcomes' = [outcomes EXCEPT ![f] = OutcomeOf("relay")]
    BY <2>1, OutcomeMoves
  <2>4. mays' = mays
    BY <2>1 DEF MayReach, Permits
  <2>5. outcomes[f] = "asked" /\ OutcomeOf("relay") = "relay"
    BY <2>1 DEF OutcomeOf
  <2>6. Service!Grant(f)
    BY <2>1, <2>2, <2>3, <2>4, <2>5 DEF Service!Grant
  <2> QED
    BY <2>6
<1>5. CASE Connect(f) \/ ConnectError(f) \/ Retry(f)
  <2>1. /\ UNCHANGED <<tokenOk, target, upstream>>
        /\ \E h \in {"dial", "sleep", "handshake"} : host' = [host EXCEPT ![f] = h]
        /\ host[f] \in {"dial", "sleep"}
    BY <1>5 DEF Connect, ConnectError, Retry, vmVars, envVars
  <2> QED
    BY <2>1, <1>2 DEF OutcomeOf
<1>6. CASE Refused(f) \/ HandshakeTimeout(f) \/ HandshakeBroken(f)
  BY <1>6, <1>3 DEF Refused, HandshakeTimeout, HandshakeBroken, SetupFailed,
                    vmVars, envVars
<1>7. CASE HostRelayDone(f) \/ HostRelayError(f) \/ HostUdpEnd(f)
  BY <1>7, <1>3 DEF HostRelayDone, HostRelayError, HostUdpEnd, HostRelaying,
                    vmVars, envVars
<1>8. CASE AppEnd(f) \/ HostUplinkEnd(f) \/ HostDownlinkEnd(f)
  <2>1. UNCHANGED <<tokenOk, target, upstream, host>>
    BY <1>8 DEF AppEnd, HostUplinkEnd, HostDownlinkEnd, vmVars, envVars
  <2> QED
    BY <2>1 DEF OutcomeOf, MayReach, Permits
<1> QED
  BY <1>1, <1>3, <1>4, <1>5, <1>6, <1>7, <1>8 DEF HostStep

\* The agent's steps reach an address or leave the service alone.
LEMMA AgentStepServes ==
    ASSUME BridgeInv,
           \/ \E f \in Flows : VmStep(f) \/ ServerShut(f)
           \/ AgentCrash \/ AgentStart
    PROVE  [\E g \in Flows : Service!FsStep(g)]_(Service!fsVars)
<1> USE DEF Service!fsVars, Service!FsStep
<1>1. ASSUME UNCHANGED <<tokenOk, target, upstream, host>>
      PROVE  UNCHANGED Service!fsVars
  BY <1>1 DEF OutcomeOf, MayReach, Permits
<1>2. ASSUME NEW f \in Flows, DialOk(f) PROVE Service!Reach(f)
  <2>1. PICK a \in todo[f] : upstream' = [upstream EXCEPT ![f] = a]
    BY <1>2 DEF DialOk
  <2>2. /\ session[f] = "dial" /\ UNCHANGED <<tokenOk, target, host>>
    BY <1>2 DEF DialOk, hostVars, envVars
  <2>3. upstream[f] = NoAddr /\ tokenOk /\ host[f] \in {"handshake", "ended"}
    BY <2>2 DEF BridgeInv, HostInv, SessionInv, TypeOK
  <2>4. a \in MayReach(target[f])
    BY <2>1, <2>2, <2>3, AddrsAssumption
    DEF BridgeInv, SessionInv, HostInv, MayReach
  <2>5. OutcomeOf(host[f]) \in {"asked", "ended"}
    BY <2>3 DEF OutcomeOf
  <2>6. /\ [g \in Flows |-> OutcomeOf(host[g])]' = [g \in Flows |-> OutcomeOf(host[g])]
        /\ [g \in Flows |-> MayReach(target[g])]' = [g \in Flows |-> MayReach(target[g])]
    BY <2>2 DEF OutcomeOf, MayReach, Permits
  <2> QED
    BY <2>1, <2>3, <2>4, <2>5, <2>6 DEF Service!Reach
<1>3. ASSUME NEW f \in Flows,
             \/ ReadRequest(f) \/ RequestError(f) \/ ResolveTarget(f)
             \/ ResolveError(f) \/ DialError(f) \/ BindError(f)
      PROVE  UNCHANGED <<tokenOk, target, upstream, host>>
  BY <1>3 DEF ReadRequest, RequestError, ResolveTarget, ResolveError, DialError,
              BindError, hostVars, envVars
<1>4. ASSUME NEW f \in Flows,
             \/ VmUplinkEnd(f) \/ VmDownlinkEnd(f) \/ VmRelayDone(f)
             \/ VmRelayError(f) \/ VmUdpEnd(f) \/ ServerShut(f)
      PROVE  UNCHANGED <<tokenOk, target, upstream, host>>
  BY <1>4 DEF VmUplinkEnd, VmDownlinkEnd, VmRelayDone, VmRelayError, VmUdpEnd,
              ServerShut, hostVars, envVars
<1>5. CASE AgentCrash \/ AgentStart
  <2>1. UNCHANGED <<tokenOk, target, upstream, host>>
    BY <1>5 DEF AgentCrash, AgentStart, hostVars, vmVars
  <2> QED
    BY <2>1, <1>1
<1> QED
  BY <1>1, <1>2, <1>3, <1>4, <1>5 DEF VmStep, SetupStep

\* The two ends of the bridge together implement the abstract service: a flow
\* is granted, refused or lost once, and relayed only if the agent reached a
\* permitted address, for any number of flows and crashes.
THEOREM BridgeImplementsService == Spec => IsFlowService
<1>1. Init => Service!FsInit
  BY DEF Init, Service!FsInit, OutcomeOf, MayReach
<1>2. BridgeInv /\ [Next]_vars =>
          [\E f \in Flows : Service!FsStep(f)]_(Service!fsVars)
  <2> SUFFICES ASSUME BridgeInv, [Next]_vars
               PROVE  [\E f \in Flows : Service!FsStep(f)]_(Service!fsVars)
    OBVIOUS
  <2>1. CASE Next
    BY <2>1, HostStepServes, AgentStepServes DEF Next
  <2>2. CASE UNCHANGED vars
    <3>1. UNCHANGED <<tokenOk, target, upstream, host>>
      BY <2>2 DEF vars, hostVars, vmVars, envVars
    <3> QED
      BY <3>1 DEF Service!fsVars, OutcomeOf, MayReach, Permits
  <2> QED
    BY <2>1, <2>2
<1>3. Spec => Service!FsInit /\ [][\E f \in Flows : Service!FsStep(f)]_(Service!fsVars)
  BY <1>1, <1>2, BridgeInvHolds, PTL DEF Spec
<1> QED
  BY <1>3 DEF IsFlowService, Service!FsSpec

-----------------------------------------------------------------------------
(* The DNS forwarder *)

\* The upstream that is asked, or will be next, is one of the configured ones.
LEMMA UpstreamInRange ==
  ASSUME DnsTypeOK, NEW i \in 1 .. Len(upstreams)
  PROVE  upstreams[i] \in Flows /\ upstreams[i] \in QueryFlows
  <1>1. upstreams \in Seq(Flows)
    BY UpstreamsAssumption DEF DnsTypeOK
  <1> QED
    BY <1>1 DEF QueryFlows

LEMMA QueryFlowsAreFlows ==
  ASSUME DnsTypeOK
  PROVE  QueryFlows \subseteq Flows
  <1>1. upstreams \in Seq(Flows)
    BY UpstreamsAssumption DEF DnsTypeOK
  <1> QED
    BY <1>1 DEF QueryFlows

LEMMA DnsTypeInv == DnsTypeOK /\ [DnsNext]_allVars => DnsTypeOK'
  <1> SUFFICES ASSUME DnsTypeOK, [DnsNext]_allVars PROVE DnsTypeOK'
    OBVIOUS
  <1> USE DEF DnsTypeOK, dnsVars
  <1>1. Len(upstreams) \in Nat
    BY UpstreamsAssumption
  <1>2. CASE AskUpstream
    <2>1. try \in 0 .. Len(upstreams) /\ try < Len(upstreams) /\ try' = try + 1
          /\ upstreams' = upstreams /\ verdict' = verdict
      BY <1>2 DEF AskUpstream
    <2> QED
      BY <1>1, <2>1
  <1>3. CASE QueryFails
    BY <1>3 DEF QueryFails
  <1>4. ASSUME NEW f \in Flows, Answered(f) \/ NoAnswer(f) PROVE DnsTypeOK'
    BY <1>4 DEF Answered, NoAnswer, Asking
  <1>5. CASE BridgeStep
    BY <1>5 DEF BridgeStep
  <1>6. CASE UNCHANGED allVars
    BY <1>6 DEF allVars
  <1> QED
    BY <1>2, <1>3, <1>4, <1>5, <1>6 DEF DnsNext

LEMMA StepIsBridgeStep == DnsTypeOK /\ [DnsNext]_allVars => [Next]_vars
  <1> SUFFICES ASSUME DnsTypeOK, [DnsNext]_allVars PROVE [Next]_vars
    OBVIOUS
  <1>1. CASE AskUpstream
    <2>1. try + 1 \in 1 .. Len(upstreams)
      BY <1>1, UpstreamsAssumption DEF AskUpstream, DnsTypeOK
    <2>2. Capture(upstreams[try + 1])
      BY <1>1 DEF AskUpstream
    <2>3. upstreams[try + 1] \in Flows
      BY <2>1, UpstreamInRange
    <2> QED
      BY <2>2, <2>3 DEF Next
  <1>2. CASE QueryFails
    BY <1>2 DEF QueryFails
  <1>3. ASSUME NEW f \in Flows, Answered(f) \/ NoAnswer(f) PROVE Next
    BY <1>3 DEF Answered, NoAnswer, Next, HostStep
  <1>4. CASE BridgeStep
    <2>1. ASSUME NEW f \in Flows, Capture(f) \/ AppEnd(f) \/ HostStep(f)
          PROVE  Next
      BY <2>1 DEF Next
    <2>2. ASSUME NEW f \in Flows, OpenStep(f) PROVE Next
      BY <2>2 DEF Next, HostStep, OpenStep
    <2>3. ASSUME NEW f \in Flows, VmStep(f) \/ ServerShut(f) PROVE Next
      BY <2>3 DEF Next
    <2>4. CASE AgentCrash \/ AgentStart
      BY <2>4 DEF Next
    <2> QED
      BY <1>4, <2>1, <2>2, <2>3, <2>4, QueryFlowsAreFlows, UpstreamsAssumption
         DEF BridgeStep
  <1>5. CASE UNCHANGED allVars
    BY <1>5 DEF allVars
  <1> QED
    BY <1>1, <1>2, <1>3, <1>4, <1>5 DEF DnsNext

\* The forwarder asks only configured resolvers, and decides about a query only
\* after it asked one (serve, resolve).
THEOREM DnsTypeCorrect == DnsSpec => []DnsTypeOK
  <1>1. DnsInit => DnsTypeOK
    <2> SUFFICES ASSUME DnsInit PROVE DnsTypeOK
      OBVIOUS
    <2>1. Len(upstreams) \in Nat
      BY UpstreamsAssumption DEF DnsInit
    <2> QED
      BY <2>1 DEF DnsInit, DnsTypeOK
  <1> QED
    BY <1>1, DnsTypeInv, PTL DEF DnsSpec

\* A bridge that serves DNS queries as well is a bridge: the forwarder's flows
\* are opened, refused, timed out and given up like any other (query_one).
THEOREM ForwarderIsBridge == DnsSpec => Spec
  <1>1. DnsInit => Init
    BY DEF DnsInit
  <1> QED
    BY <1>1, StepIsBridgeStep, DnsTypeCorrect, PTL DEF DnsSpec, Spec

\* So host and agent agree on the outcome of a resolver's flow, too, and the
\* agent reaches only what its policy permits for it.
THEOREM ForwarderSafe == DnsSpec => [](DialPermitted /\ AgreeOnOutcome)
  BY ForwarderIsBridge, OnlyPermittedDialled, OutcomeAgreed, PTL

\* Host, forwarder and agent together are a FlowService.
THEOREM ForwarderIsService == DnsSpec => IsFlowService
  BY ForwarderIsBridge, BridgeImplementsService

-----------------------------------------------------------------------------
(* The agent's UDP sessions: neither NoEarlyClose nor BoundedLinger is      *)
(* inductive.  What makes them true is how the silence relates to the armed *)
(* timer, which depends on whether the downlink has already noticed the     *)
(* uplink's last datagram.                                                  *)

\* While `activity` is ahead of `seen` the last datagram moved under the
\* current timer; once the two agree it moved under this timer's arming or
\* during the one before.
TimerTracksSilence ==
    phase = "open" /\ downPc = "recv" =>
        IF activity # seen
        THEN silence <= timer
        ELSE timer <= silence /\ silence <= timer + Overdue

IdleInv ==
    /\ UdpTypeOK
    /\ upPc = "send" => activity < MaxDatagrams
    /\ seen <= activity
    /\ phase = "open" => reason = "none"
    /\ TimerTracksSilence
    /\ NoEarlyClose

\* The inductive invariant holds initially, every step of udp_uplink,
\* udp_downlink and the clock preserves it.
LEMMA IdleInvHolds == UdpSpec => []IdleInv
<1> USE IdleAssumption, LagAssumption, MaxDatagramsAssumption
    DEF UdpTypeOK, Overdue, SilenceCap
<1>1. UdpInit => IdleInv
  BY DEF UdpInit, IdleInv, TimerTracksSilence, NoEarlyClose
<1>2. IdleInv /\ [UdpNext]_udpVars => IdleInv'
  <2> SUFFICES ASSUME IdleInv, [UdpNext]_udpVars PROVE IdleInv'
    OBVIOUS
  <2> USE DEF IdleInv, TimerTracksSilence, NoEarlyClose
  <2>1. CASE UplinkRead
    BY <2>1 DEF UplinkRead
  <2>2. CASE UplinkEof \/ UplinkSendError \/ DownlinkError
    BY <2>2 DEF UplinkEof, UplinkSendError, DownlinkError, Close
  <2>3. CASE UplinkSend
    BY <2>3 DEF UplinkSend
  <2>4. CASE DownlinkRecv
    BY <2>4 DEF DownlinkRecv
  <2>5. CASE DownlinkWrite
    BY <2>5 DEF DownlinkWrite
  <2>6. CASE DownlinkIdle
    \* activity = seen, so the silence is at least the elapsed timer.
    BY <2>6 DEF DownlinkIdle, Close
  <2>7. CASE DownlinkRearm
    \* activity # seen, so the silence is at most the elapsed timer.
    BY <2>7 DEF DownlinkRearm
  <2>8. CASE Tick
    <3>1. CASE downPc = "recv"
      <4>1. silence < SilenceCap
        BY <2>8, <3>1 DEF Tick
      <4>2. silence' = silence + 1 /\ timer' = timer + 1
        BY <2>8, <3>1, <4>1 DEF Tick
      <4> QED
        BY <2>8, <3>1, <4>2 DEF Tick
    <3>2. CASE downPc = "write"
      BY <2>8, <3>2 DEF Tick
    <3> QED
      BY <3>1, <3>2
  <2>9. CASE UNCHANGED udpVars
    BY <2>9 DEF udpVars
  <2> QED
    BY <2>1, <2>2, <2>3, <2>4, <2>5, <2>6, <2>7, <2>8, <2>9 DEF UdpNext
<1> QED
  BY <1>1, <1>2, PTL DEF UdpSpec

\* Every reachable state is well typed; in particular no armed timer runs past
\* Idle + Lag (udp_downlink re-arms on every turn of its loop).
THEOREM UdpTypeCorrect == UdpSpec => []UdpTypeOK
<1>1. IdleInv => UdpTypeOK
  BY DEF IdleInv
<1> QED
  BY <1>1, IdleInvHolds, PTL

\* The idle timer never closes a session that moved a datagram, either way,
\* less than Idle ago.
THEOREM NeverEarly == UdpSpec => []NoEarlyClose
<1>1. IdleInv => NoEarlyClose
  BY DEF IdleInv
<1> QED
  BY <1>1, IdleInvHolds, PTL

\* A session whose downlink waits under its timer has been silent for at most
\* two timeouts.
THEOREM LingerBounded == UdpSpec => []BoundedLinger
<1>1. IdleInv => BoundedLinger
  BY IdleAssumption, LagAssumption, MaxDatagramsAssumption
  DEF IdleInv, TimerTracksSilence, BoundedLinger, UdpTypeOK, Overdue, SilenceCap
<1> QED
  BY <1>1, IdleInvHolds, PTL
=============================================================================
