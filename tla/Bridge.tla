------------------------------- MODULE Bridge -------------------------------
(***************************************************************************)
(* One hop of the bridge: vpnbridge-host turns every flow its TUN captures *)
(* into a tunnel connection of its own (crates/host/src/main.rs dispatch,  *)
(* tunnel.rs) and vpnbridge-vm serves it (crates/vm/src/server.rs): check  *)
(* the token, resolve, filter by policy, dial, answer, relay.  The two run *)
(* concurrently, each under its own timeouts, and the agent may crash and  *)
(* come back.                                                              *)
(*                                                                         *)
(* Payloads are abstracted: of a relay only the half-closes are modelled.  *)
(* A target stands for the set of addresses it resolves to in the VM; the  *)
(* order in which the resolver lists them is left open.                    *)
(***************************************************************************)
EXTENDS Integers, FiniteSets

CONSTANTS
    Flows,          \* flows the TUN captures
    Addrs,          \* addresses the VM can dial
    Targets,        \* destinations a request can name
    Resolve,        \* [Targets -> SUBSET Addrs]
    Allow, Deny,    \* VmConfig.allow and deny; an empty Allow means all
    NoAddr, NoTarget,
    MaxCrashes      \* bound: crashes of the agent

ASSUME AddrsAssumption == NoAddr \notin Addrs /\ NoTarget \notin Targets
ASSUME ResolveAssumption == Resolve \in [Targets -> SUBSET Addrs]
ASSUME PolicyAssumption == Allow \subseteq Addrs /\ Deny \subseteq Addrs
ASSUME MaxCrashesAssumption == MaxCrashes \in Nat

VARIABLES
    tokenOk,    \* both ends are configured with the same token
    agentUp,    \* the agent runs and is reachable
    crashes,
    cmd,        \* "tcp" or "udp"
    target,     \* the destination of each flow
    host,       \* where the host's task for the flow stands
    app,        \* the local application's direction, or its reset
    toApp,      \* the other one: "open", "fin", or "dropped" without a FIN
    hostEnd,    \* the tunnel connection as the host leaves it
    session,    \* where the agent's task for the flow stands
    todo,       \* addresses the agent may still dial
    reply,      \* the Response on its way
    vmEnd,      \* the tunnel connection as the agent leaves it
    upstream,   \* history: the address the agent reached
    upEnd,      \* the agent's upstream socket
    server      \* the upstream server's direction: "open" or "shut"

hostVars == <<cmd, target, host, app, toApp, hostEnd>>
vmVars   == <<session, todo, reply, vmEnd, upstream, upEnd, server>>
envVars  == <<tokenOk, agentUp, crashes>>
vars == <<envVars, hostVars, vmVars>>

Refusals == {"AuthFailed", "Unreachable", "Forbidden", "ServerError"}

TypeOK ==
    /\ tokenOk \in BOOLEAN /\ agentUp \in BOOLEAN /\ crashes \in 0..MaxCrashes
    /\ cmd \in [Flows -> {"tcp", "udp"}]
    /\ target \in [Flows -> Targets \cup {NoTarget}]
    /\ host \in [Flows -> {"new", "dial", "sleep", "handshake", "relay", "ended"}]
    /\ app \in [Flows -> {"open", "shut", "reset"}]
    /\ toApp \in [Flows -> {"open", "fin", "dropped"}]
    /\ hostEnd \in [Flows -> {"none", "open", "shut", "reset"}]
    /\ session \in [Flows -> {"none", "request", "resolve", "dial", "relay", "ended"}]
    /\ todo \in [Flows -> SUBSET Addrs]
    /\ \A f \in Flows : session[f] = "dial" => todo[f] # {}
    /\ reply \in [Flows -> {"none", "ok"} \cup Refusals]
    /\ vmEnd \in [Flows -> {"none", "open", "shut", "reset"}]
    /\ upstream \in [Flows -> Addrs \cup {NoAddr}]
    /\ upEnd \in [Flows -> {"none", "open", "shut", "closed"}]
    /\ server \in [Flows -> {"open", "shut"}]

\* VmConfig::permits: deny wins, an empty allow list permits the rest.
Permits(a) == a \notin Deny /\ (Allow = {} \/ a \in Allow)

Init ==
    /\ tokenOk \in BOOLEAN /\ agentUp \in BOOLEAN /\ crashes = 0
    /\ cmd = [f \in Flows |-> "tcp"]
    /\ target = [f \in Flows |-> NoTarget]
    /\ host = [f \in Flows |-> "new"]
    /\ app = [f \in Flows |-> "open"]
    /\ toApp = [f \in Flows |-> "open"]
    /\ hostEnd = [f \in Flows |-> "none"]
    /\ session = [f \in Flows |-> "none"]
    /\ todo = [f \in Flows |-> {}]
    /\ reply = [f \in Flows |-> "none"]
    /\ vmEnd = [f \in Flows |-> "none"]
    /\ upstream = [f \in Flows |-> NoAddr]
    /\ upEnd = [f \in Flows |-> "none"]
    /\ server = [f \in Flows |-> "open"]

-----------------------------------------------------------------------------
(* Host: dispatch and Client::open *)

\* The userspace stack completed a flow's handshake; dispatch spawns its task.
Capture(f) ==
    /\ host[f] = "new"
    /\ \E c \in {"tcp", "udp"}, t \in Targets :
          /\ cmd' = [cmd EXCEPT ![f] = c]
          /\ target' = [target EXCEPT ![f] = t]
    /\ host' = [host EXCEPT ![f] = "dial"]
    /\ UNCHANGED <<app, toApp, hostEnd, vmVars, envVars>>

\* Connect and write the request; the agent spawns a session.
Connect(f) ==
    /\ host[f] = "dial" /\ agentUp
    /\ host' = [host EXCEPT ![f] = "handshake"]
    /\ hostEnd' = [hostEnd EXCEPT ![f] = "open"]
    /\ session' = [session EXCEPT ![f] = "request"]
    /\ vmEnd' = [vmEnd EXCEPT ![f] = "open"]
    /\ UNCHANGED <<cmd, target, app, toApp, todo, reply, upstream, upEnd, server, envVars>>

\* Refused or timed out: sleep reconnect_interval, then try again, for ever.
ConnectError(f) ==
    /\ host[f] = "dial" /\ ~agentUp
    /\ host' = [host EXCEPT ![f] = "sleep"]
    /\ UNCHANGED <<cmd, target, app, toApp, hostEnd, vmVars, envVars>>

Retry(f) ==
    /\ host[f] = "sleep"
    /\ host' = [host EXCEPT ![f] = "dial"]
    /\ UNCHANGED <<cmd, target, app, toApp, hostEnd, vmVars, envVars>>

\* open() failed after connecting: it is not retried.  The tunnel connection
\* is dropped, with a FIN or, over unread data, a reset; a TCP application is
\* sent a FIN, a UDP one hears nothing.
SetupFailed(f) ==
    /\ host' = [host EXCEPT ![f] = "ended"]
    /\ \E e \in {"shut", "reset"} : hostEnd' = [hostEnd EXCEPT ![f] = e]
    /\ toApp' = [toApp EXCEPT ![f] = IF cmd[f] = "tcp" THEN "fin" ELSE "dropped"]
    /\ UNCHANGED <<cmd, target, app, vmVars, envVars>>

Granted(f) ==
    /\ host[f] = "handshake" /\ reply[f] = "ok"
    /\ host' = [host EXCEPT ![f] = "relay"]
    /\ UNCHANGED <<cmd, target, app, toApp, hostEnd, vmVars, envVars>>

Refused(f) == host[f] = "handshake" /\ reply[f] \in Refusals /\ SetupFailed(f)

\* Fault: the handshake is not under a timeout.
HandshakeTimeoutMissing(f) ==
    host[f] = "handshake" /\ reply[f] \in Refusals /\ SetupFailed(f)

\* Fault: a handshake that timed out is retried like a failed connect.
HandshakeTimeoutRetried(f) ==
    /\ host[f] = "handshake"
    /\ host' = [host EXCEPT ![f] = "sleep"]
    /\ UNCHANGED <<cmd, target, app, toApp, hostEnd, vmVars, envVars>>

\* The answer may be under way, or the agent still dialling.
HandshakeTimeout(f) == host[f] = "handshake" /\ SetupFailed(f)

HandshakeBroken(f) ==
    /\ host[f] = "handshake" /\ reply[f] = "none" /\ vmEnd[f] \in {"shut", "reset"}
    /\ SetupFailed(f)

-----------------------------------------------------------------------------
(* Host: relay_tcp and relay_udp *)

\* The application finished sending, or aborted the connection.
AppEnd(f) ==
    /\ host[f] \notin {"new", "ended"} /\ cmd[f] = "tcp" /\ app[f] # "reset"
    /\ \E e \in {"shut", "reset"} \ {app[f]} : app' = [app EXCEPT ![f] = e]
    /\ UNCHANGED <<cmd, target, host, toApp, hostEnd, vmVars, envVars>>

HostRelaying(f, c) == host[f] = "relay" /\ cmd[f] = c

\* copy_bidirectional passes the application's end on to the tunnel ...
HostUplinkEnd(f) ==
    /\ HostRelaying(f, "tcp") /\ app[f] = "shut" /\ hostEnd[f] = "open"
    /\ hostEnd' = [hostEnd EXCEPT ![f] = "shut"]
    /\ UNCHANGED <<cmd, target, host, app, toApp, vmVars, envVars>>

\* ... and the tunnel's end on to the application.
HostDownlinkEnd(f) ==
    /\ HostRelaying(f, "tcp") /\ vmEnd[f] = "shut" /\ toApp[f] = "open"
    /\ toApp' = [toApp EXCEPT ![f] = "fin"]
    /\ UNCHANGED <<cmd, target, host, app, hostEnd, vmVars, envVars>>

HostRelayDone(f) ==
    /\ HostRelaying(f, "tcp") /\ hostEnd[f] = "shut" /\ toApp[f] = "fin"
    /\ host' = [host EXCEPT ![f] = "ended"]
    /\ UNCHANGED <<cmd, target, app, toApp, hostEnd, vmVars, envVars>>

\* Reading or writing the tunnel or the application's stream failed:
\* copy_bidirectional returns the error and both are dropped as they are.
HostRelayError(f) ==
    /\ HostRelaying(f, "tcp")
    /\ \/ vmEnd[f] = "reset"
       \/ session[f] = "ended" /\ hostEnd[f] = "open"
       \/ app[f] = "reset"
    /\ host' = [host EXCEPT ![f] = "ended"]
    /\ hostEnd' = [hostEnd EXCEPT ![f] = "reset"]
    /\ toApp' = [toApp EXCEPT ![f] = IF @ = "fin" THEN @ ELSE "dropped"]
    /\ UNCHANGED <<cmd, target, app, vmVars, envVars>>

\* The flow idled out in the userspace stack, or the tunnel closed.
HostUdpEnd(f) ==
    /\ HostRelaying(f, "udp")
    /\ host' = [host EXCEPT ![f] = "ended"]
    /\ hostEnd' = [hostEnd EXCEPT ![f] = "shut"]
    /\ toApp' = [toApp EXCEPT ![f] = "dropped"]
    /\ UNCHANGED <<cmd, target, app, vmVars, envVars>>

-----------------------------------------------------------------------------
(* Agent: handle *)

\* The session writes its refusal and drops the connection.
Reject(f, status) ==
    /\ session' = [session EXCEPT ![f] = "ended"]
    /\ reply' = [reply EXCEPT ![f] = status]
    /\ vmEnd' = [vmEnd EXCEPT ![f] = "shut"]

ReadRequest(f) ==
    /\ session[f] = "request"
    /\ IF tokenOk
       THEN session' = [session EXCEPT ![f] = "resolve"] /\ UNCHANGED <<reply, vmEnd>>
       ELSE Reject(f, "AuthFailed")
    /\ UNCHANGED <<todo, upstream, upEnd, server, hostVars, envVars>>

\* HANDSHAKE_TIMEOUT, or the host left before its request arrived.
RequestError(f) ==
    /\ session[f] = "request"
    /\ session' = [session EXCEPT ![f] = "ended"]
    /\ vmEnd' = [vmEnd EXCEPT ![f] = "shut"]
    /\ UNCHANGED <<todo, reply, upstream, upEnd, server, hostVars, envVars>>

\* Fault: the policy decides about the first address only.
ResolveTargetUnfiltered(f) ==
    /\ session[f] = "resolve"
    /\ \E a \in Resolve[target[f]] :
          /\ Permits(a)
          /\ todo' = [todo EXCEPT ![f] = Resolve[target[f]]]
          /\ session' = [session EXCEPT ![f] = "dial"]
          /\ UNCHANGED <<reply, vmEnd>>
    /\ UNCHANGED <<upstream, upEnd, server, hostVars, envVars>>

\* Keep the permitted candidates: all of them for TCP, the first for UDP.
ResolveTarget(f) ==
    /\ session[f] = "resolve"
    /\ LET allowed == {a \in Resolve[target[f]] : Permits(a)}
       IN  \/ /\ Resolve[target[f]] = {}
              /\ Reject(f, "Unreachable") /\ UNCHANGED todo
           \/ /\ Resolve[target[f]] # {} /\ allowed = {}
              /\ Reject(f, "Forbidden") /\ UNCHANGED todo
           \/ /\ allowed # {}
              /\ IF cmd[f] = "tcp"
                 THEN todo' = [todo EXCEPT ![f] = allowed]
                 ELSE \E a \in allowed : todo' = [todo EXCEPT ![f] = {a}]
              /\ session' = [session EXCEPT ![f] = "dial"]
              /\ UNCHANGED <<reply, vmEnd>>
    /\ UNCHANGED <<upstream, upEnd, server, hostVars, envVars>>

ResolveError(f) ==
    /\ session[f] = "resolve"
    /\ Reject(f, "Unreachable")
    /\ UNCHANGED <<todo, upstream, upEnd, server, hostVars, envVars>>

-----------------------------------------------------------------------------
(* Agent: serve_tcp and serve_udp *)

\* A candidate answered: reply Ok and relay.
DialOk(f) ==
    /\ session[f] = "dial"
    /\ \E a \in todo[f] : upstream' = [upstream EXCEPT ![f] = a]
    /\ upEnd' = [upEnd EXCEPT ![f] = "open"]
    /\ session' = [session EXCEPT ![f] = "relay"]
    /\ todo' = [todo EXCEPT ![f] = {}]
    /\ reply' = [reply EXCEPT ![f] = "ok"]
    /\ UNCHANGED <<vmEnd, server, hostVars, envVars>>

\* Fault: the last candidate is taken for granted.
DialErrorOptimistic(f) ==
    /\ session[f] = "dial"
    /\ \E a \in todo[f] :
          /\ todo' = [todo EXCEPT ![f] = @ \ {a}]
          /\ IF todo[f] = {a}
             THEN Reject(f, "ok")
             ELSE UNCHANGED <<session, reply, vmEnd>>
    /\ UNCHANGED <<upstream, upEnd, server, hostVars, envVars>>

\* A candidate failed or timed out; after the last one, refuse.
DialError(f) ==
    /\ session[f] = "dial"
    /\ \E a \in todo[f] :
          /\ todo' = [todo EXCEPT ![f] = @ \ {a}]
          /\ IF todo[f] = {a}
             THEN Reject(f, "Unreachable")
             ELSE UNCHANGED <<session, reply, vmEnd>>
    /\ UNCHANGED <<upstream, upEnd, server, hostVars, envVars>>

\* serve_udp could not bind its socket.
BindError(f) ==
    /\ session[f] = "dial" /\ cmd[f] = "udp"
    /\ Reject(f, "ServerError")
    /\ todo' = [todo EXCEPT ![f] = {}]
    /\ UNCHANGED <<upstream, upEnd, server, hostVars, envVars>>

\* The upstream server finished sending.
ServerShut(f) ==
    /\ session[f] = "relay" /\ cmd[f] = "tcp" /\ server[f] = "open"
    /\ server' = [server EXCEPT ![f] = "shut"]
    /\ UNCHANGED <<session, todo, reply, vmEnd, upstream, upEnd, hostVars, envVars>>

VmRelaying(f, c) == session[f] = "relay" /\ cmd[f] = c

\* Fault: the host's end is read but not passed on.
VmUplinkEndKept(f) ==
    /\ VmRelaying(f, "tcp") /\ hostEnd[f] = "shut" /\ upEnd[f] = "open"
    /\ server[f] = "shut"
    /\ upEnd' = [upEnd EXCEPT ![f] = "shut"]
    /\ UNCHANGED <<session, todo, reply, vmEnd, upstream, server, hostVars, envVars>>

VmUplinkEnd(f) ==
    /\ VmRelaying(f, "tcp") /\ hostEnd[f] = "shut" /\ upEnd[f] = "open"
    /\ upEnd' = [upEnd EXCEPT ![f] = "shut"]
    /\ UNCHANGED <<session, todo, reply, vmEnd, upstream, server, hostVars, envVars>>

VmDownlinkEnd(f) ==
    /\ VmRelaying(f, "tcp") /\ server[f] = "shut" /\ vmEnd[f] = "open"
    /\ vmEnd' = [vmEnd EXCEPT ![f] = "shut"]
    /\ UNCHANGED <<session, todo, reply, upstream, upEnd, server, hostVars, envVars>>

VmRelayDone(f) ==
    /\ VmRelaying(f, "tcp") /\ upEnd[f] = "shut" /\ vmEnd[f] = "shut"
    /\ session' = [session EXCEPT ![f] = "ended"]
    /\ upEnd' = [upEnd EXCEPT ![f] = "closed"]
    /\ UNCHANGED <<todo, reply, vmEnd, upstream, server, hostVars, envVars>>

\* The tunnel or the upstream failed, or the Ok could not be written: both
\* connections are dropped, the tunnel with a FIN or a reset.
VmRelayError(f) ==
    /\ VmRelaying(f, "tcp")
    /\ session' = [session EXCEPT ![f] = "ended"]
    /\ upEnd' = [upEnd EXCEPT ![f] = "closed"]
    /\ \E e \in {"shut", "reset"} : vmEnd' = [vmEnd EXCEPT ![f] = e]
    /\ UNCHANGED <<todo, reply, upstream, server, hostVars, envVars>>

\* relay_udp ended: idle, or the tunnel closed (module UdpIdle).
VmUdpEnd(f) ==
    /\ VmRelaying(f, "udp")
    /\ session' = [session EXCEPT ![f] = "ended"]
    /\ upEnd' = [upEnd EXCEPT ![f] = "closed"]
    /\ vmEnd' = [vmEnd EXCEPT ![f] = "shut"]
    /\ UNCHANGED <<todo, reply, upstream, server, hostVars, envVars>>

-----------------------------------------------------------------------------
(* The agent's process *)

Alive(f) == session[f] \notin {"none", "ended"}

\* Every session is gone.  The host learns of it by a FIN, by a reset, or,
\* when the whole machine went, not at all; answers under way may be lost.
AgentCrash ==
    /\ agentUp /\ crashes < MaxCrashes
    /\ agentUp' = FALSE /\ crashes' = crashes + 1
    /\ session' = [f \in Flows |-> IF Alive(f) THEN "ended" ELSE session[f]]
    /\ todo' = [f \in Flows |-> {}]
    /\ upEnd' = [f \in Flows |-> IF upEnd[f] = "none" THEN "none" ELSE "closed"]
    /\ \E e \in [Flows -> {"open", "shut", "reset"}] :
          vmEnd' = [f \in Flows |-> IF Alive(f) THEN e[f] ELSE vmEnd[f]]
    /\ \E lost \in SUBSET Flows :
          reply' = [f \in Flows |-> IF f \in lost THEN "none" ELSE reply[f]]
    /\ UNCHANGED <<tokenOk, upstream, server, hostVars>>

AgentStart ==
    /\ ~agentUp
    /\ agentUp' = TRUE
    /\ UNCHANGED <<tokenOk, crashes, hostVars, vmVars>>

HostStep(f) ==
    \/ Connect(f) \/ ConnectError(f) \/ Retry(f)
    \/ Granted(f) \/ Refused(f) \/ HandshakeTimeout(f) \/ HandshakeBroken(f)
    \/ HostUplinkEnd(f) \/ HostDownlinkEnd(f) \/ HostRelayDone(f)
    \/ HostRelayError(f) \/ HostUdpEnd(f)

SetupStep(f) ==
    \/ ReadRequest(f) \/ RequestError(f) \/ ResolveTarget(f) \/ ResolveError(f)
    \/ DialOk(f) \/ DialError(f) \/ BindError(f)

VmStep(f) ==
    \/ SetupStep(f)
    \/ VmUplinkEnd(f) \/ VmDownlinkEnd(f) \/ VmRelayDone(f)
    \/ VmRelayError(f) \/ VmUdpEnd(f)

Next ==
    \/ \E f \in Flows :
          Capture(f) \/ AppEnd(f) \/ HostStep(f) \/ VmStep(f) \/ ServerShut(f)
    \/ AgentCrash \/ AgentStart

Spec == Init /\ [][Next]_vars

\* Tasks run and timeouts fire; a passed-on end is passed on.  A server whose
\* client is done eventually finishes too: the agent has no idle timeout for
\* TCP, so it depends on that.  The application never has to finish, nor the
\* agent to crash or restart.
Fairness ==
    \A f \in Flows :
        /\ WF_vars(Connect(f) \/ ConnectError(f)) /\ WF_vars(Retry(f))
        /\ WF_vars(Granted(f) \/ Refused(f) \/ HandshakeTimeout(f) \/ HandshakeBroken(f))
        /\ WF_vars(HostUplinkEnd(f)) /\ WF_vars(HostDownlinkEnd(f))
        /\ WF_vars(HostRelayDone(f))
        /\ WF_vars(SetupStep(f))
        /\ WF_vars(VmUplinkEnd(f)) /\ WF_vars(VmDownlinkEnd(f)) /\ WF_vars(VmRelayDone(f))
        /\ WF_vars(hostEnd[f] = "reset" /\ VmRelayError(f))
        /\ WF_vars(hostEnd[f] # "open" /\ VmUdpEnd(f))
        /\ WF_vars(upEnd[f] = "shut" /\ ServerShut(f))

FairSpec == Spec /\ Fairness

-----------------------------------------------------------------------------
(* The abstract service *)

OutcomeOf(h) ==
    IF h = "new" THEN "none"
    ELSE IF h \in {"dial", "sleep", "handshake"} THEN "asked" ELSE h

MayReach(t) ==
    IF tokenOk /\ t # NoTarget THEN {a \in Resolve[t] : Permits(a)} ELSE {}

Service == INSTANCE FlowService WITH
    outcome <- [f \in Flows |-> OutcomeOf(host[f])],
    may <- [f \in Flows |-> MayReach(target[f])],
    reached <- upstream

-----------------------------------------------------------------------------
(* Properties *)

\* Host and agent together are a FlowService: through timeouts, lost answers
\* and crashes of the agent a flow is asked for once, reaches at most one
\* address, is relayed only if that was reached, and never comes back once it
\* ended (Client::open, dispatch, handle).
IsFlowService == Service!FsSpec

\* Whatever the interleaving with timeouts and crashes, the agent only ever
\* reaches addresses its policy permits, of the target the flow asked for,
\* and only for clients with the right token (handle, serve_tcp, serve_udp).
DialPermitted ==
    \A f \in Flows :
        upstream[f] # NoAddr =>
            /\ tokenOk
            /\ target[f] \in Targets /\ upstream[f] \in Resolve[target[f]]
            /\ Permits(upstream[f])

\* Host and agent agree on the outcome: the host relays only flows the agent
\* connected, and a refused flow left no upstream connection behind (open,
\* serve_tcp, serve_udp).
AgreeOnOutcome ==
    \A f \in Flows :
        /\ host[f] = "relay" => upstream[f] # NoAddr
        /\ reply[f] \in Refusals => upstream[f] = NoAddr

\* If the agent is up for good from some point on, every captured flow is
\* relayed or given up: the retry loop and the handshake timeout leave no flow
\* in between, even when the agent died without a word (Client::open).
FlowDecided ==
    <>[]agentUp =>
        \A f \in Flows : host[f] = "dial" ~> host[f] \in {"relay", "ended"}

\* Once the host is done with a flow, the agent's upstream connection goes
\* too, also when the host gave up while the agent was still dialling
\* (HandshakeTimeout against serve_tcp, copy_bidirectional, relay_udp).
UpstreamReleased ==
    \A f \in Flows :
        host[f] = "ended" ~>
            session[f] \in {"none", "ended"} /\ upEnd[f] \in {"none", "closed"}

\* The comment in dispatch: a TCP application that did not abort the flow itself
\* gets a FIN instead of a stream that is just dropped, because otherwise it
\* hangs until its own timeout.
AppNeverLeftHanging ==
    \A f \in Flows :
        host[f] = "ended" /\ cmd[f] = "tcp" /\ app[f] # "reset" => toApp[f] = "fin"
=============================================================================
