---------------------------- MODULE ProxySession ----------------------------
(***************************************************************************)
(* One session of the proxy server (crates/proxy-server/src/server.rs,     *)
(* handle_stream and handle_request, and what grpc.rs does instead of      *)
(* handle_stream) from the open stream to its end, against a client that   *)
(* may leave at any time.  Setting a session up waits three times, each    *)
(* under a deadline of its own: for the request, for the name, for every   *)
(* candidate.  Then TcpRelay runs; a UDP relay is one step (its timer is   *)
(* that of UdpIdle).                                                       *)
(*                                                                         *)
(* How the server learns that the client left depends on the transport.    *)
(* quinn finishes the dropped send stream, so the upload ends, and stops   *)
(* the other direction, so writes fail.  Over gRPC the upload just falls   *)
(* silent (grpc.rs: an error of the request stream ends the pump without a *)
(* shutdown) and writes fail once the response pump has failed to send.    *)
(***************************************************************************)
EXTENDS TcpRelay, FiniteSets

CONSTANTS
    Addrs, Targets, NoAddr, NoTarget,
    Resolve,            \* the addresses of each target; {} if it has none
    Allow, Deny,        \* addresses in cfg.allow and cfg.deny
    RequestTimeout, DnsTimeout, ConnectTimeout,     \* in ticks
    InFlight            \* chunks that still pass after the client left

ASSUME AddrsAssumption   == NoAddr \notin Addrs /\ NoTarget \notin Targets
ASSUME ResolveAssumption == Resolve \in [Targets -> SUBSET Addrs]
ASSUME FiniteAssumption  == IsFiniteSet(Addrs)
ASSUME InFlightAssumption == InFlight \in Nat
\* ServerConfig::validate rejects 0.
ASSUME TimeoutAssumption ==
    /\ RequestTimeout \in Nat \ {0}
    /\ DnsTimeout \in Nat \ {0}
    /\ ConnectTimeout \in Nat \ {0}

VARIABLES
    client,     \* "idle", "asked", "relay" once it read Ok, "gone"
    transport,  \* "quic" or "grpc"
    cmd, target, tokenOk,       \* its request
    stage,      \* of the session
    todo,       \* candidates not tried yet
    answer,     \* the response written, "none" before
    upstream,   \* the address reached
    age,        \* ticks since the stage's timer was armed
    spent,      \* history: ticks the setup has taken so far, 0 once it is over
    late        \* chunks still passing between the session and a gone client

askVars == <<transport, cmd, target, tokenOk>>
vars == <<client, askVars, stage, todo, answer, upstream, age, spent, late, tcpVars>>

Setup == {"request", "resolve", "dial"}
Deadline == [request |-> RequestTimeout, resolve |-> DnsTimeout, dial |-> ConnectTimeout]
Budget == RequestTimeout + DnsTimeout + 2 * Lag
              + Cardinality(Addrs) * (ConnectTimeout + Lag)

\* ServerConfig::permits: deny wins, and an empty allow list allows all.
Permits(a) == a \notin Deny /\ (Allow = {} \/ a \in Allow)
Permitted(t) == {a \in Resolve[t] : Permits(a)}

TypeOK ==
    /\ RelayTypeOK
    /\ client \in {"idle", "asked", "relay", "gone"}
    /\ transport \in {"quic", "grpc"} /\ cmd \in {"tcp", "udp"}
    /\ target \in Targets \cup {NoTarget} /\ tokenOk \in BOOLEAN
    /\ stage \in Setup \cup {"relay", "ended"}
    /\ todo \in SUBSET Addrs /\ (stage = "dial" => todo # {})
    /\ answer \in {"none", "ok", "auth", "unreachable", "forbidden", "server"}
    /\ upstream \in Addrs \cup {NoAddr}
    /\ age \in Nat /\ (stage \in Setup => age <= Deadline[stage] + Lag)
    /\ spent \in 0 .. Budget + 1 /\ late \in 0..InFlight

Init ==
    /\ RelayInit
    /\ client = "idle" /\ stage = "request"
    /\ transport \in {"quic", "grpc"} /\ cmd \in {"tcp", "udp"}
    /\ target = NoTarget /\ tokenOk \in BOOLEAN
    /\ todo = {} /\ answer = "none" /\ upstream = NoAddr
    /\ age = 0 /\ spent = 0 /\ late = 0

-----------------------------------------------------------------------------
(* The client: Transport has its side of the setup *)

Ask ==
    /\ client = "idle"
    /\ client' = "asked"
    /\ target' \in Targets
    /\ UNCHANGED <<transport, cmd, tokenOk, stage, todo, answer, upstream, age,
                   spent, late, tcpVars>>

ReadOk ==
    /\ client = "asked" /\ answer = "ok"
    /\ client' = "relay"
    /\ UNCHANGED <<askVars, stage, todo, answer, upstream, age, spent, late, tcpVars>>

\* Refused, at its own timeout, at the end of the flow, or killed.
Leave ==
    /\ client \in {"asked", "relay"}
    /\ client' = "gone"
    /\ late' \in (IF client = "relay" THEN 0..InFlight ELSE {0})
    /\ UNCHANGED <<askVars, stage, todo, answer, upstream, age, spent, tcpVars>>

-----------------------------------------------------------------------------
(* Setting the session up *)

\* The stage changes and its successor's timer is armed.
Enter(s) == stage' = s /\ age' = 0

\* The session ends, after the answer a if it wrote one.
EndWith(a) ==
    /\ Enter("ended")
    /\ answer' = a
    /\ todo' = {} /\ spent' = 0
    /\ UNCHANGED <<client, askVars, late, tcpVars>>

ReadRequest ==
    /\ stage = "request" /\ client # "idle" /\ tokenOk
    /\ Enter("resolve")
    /\ UNCHANGED <<client, askVars, todo, answer, upstream, spent, late, tcpVars>>

RejectToken ==
    /\ stage = "request" /\ client # "idle" /\ ~tokenOk
    /\ EndWith("auth") /\ UNCHANGED upstream

\* The request is malformed or its stream fails.
RequestError ==
    /\ stage = "request"
    /\ EndWith("none") /\ UNCHANGED upstream

\* Fault: the policy is asked only whether some address is permitted.
ResolvedUnfiltered ==
    /\ stage = "resolve" /\ Permitted(target) # {}
    /\ Enter("dial")
    /\ todo' = Resolve[target]
    /\ UNCHANGED <<client, askVars, answer, upstream, spent, late, tcpVars>>

\* A UDP session uses the first permitted address only.
Resolved ==
    /\ stage = "resolve" /\ Permitted(target) # {}
    /\ Enter("dial")
    /\ IF cmd = "tcp" THEN todo' = Permitted(target)
                      ELSE \E a \in Permitted(target) : todo' = {a}
    /\ UNCHANGED <<client, askVars, answer, upstream, spent, late, tcpVars>>

ResolveRejected ==
    /\ stage = "resolve"
    /\ \/ EndWith("unreachable")                    \* an error, or no address
       \/ Resolve[target] # {} /\ Permitted(target) = {} /\ EndWith("forbidden")
    /\ UNCHANGED upstream

\* An address is reached.  Response::ok() cannot be written to a client that
\* left, and may or may not reach it before that shows.
DialOk ==
    /\ stage = "dial"
    /\ \E a \in todo : upstream' = a
    /\ \/ Enter("relay") /\ answer' = "ok" /\ todo' = {} /\ spent' = 0
          /\ UNCHANGED <<client, askVars, late, tcpVars>>
       \/ client = "gone" /\ EndWith("none")

\* Fault: the loop tries the candidate once more.
NextCandidateSame ==
    /\ age' = 0
    /\ UNCHANGED <<client, askVars, stage, todo, answer, upstream, spent, late, tcpVars>>

\* serve_tcp goes on with the next candidate, and gives up after the last;
\* serve_udp has no other.
NextCandidate ==
    \E a \in todo :
        \/ /\ todo # {a}
           /\ todo' = todo \ {a} /\ age' = 0
           /\ UNCHANGED <<client, askVars, stage, answer, upstream, spent, late, tcpVars>>
        \/ todo = {a} /\ EndWith("unreachable") /\ UNCHANGED upstream

DialError == stage = "dial" /\ NextCandidate

BindError == stage = "dial" /\ cmd = "udp" /\ EndWith("server") /\ UNCHANGED upstream

\* Fault: a connect that hangs is left to the operating system.
DeadlinePassedNoDial ==
    /\ stage \in {"request", "resolve"} /\ age >= Deadline[stage]
    /\ \/ stage = "request" /\ EndWith("none") /\ UNCHANGED upstream
       \/ stage = "resolve" /\ EndWith("unreachable") /\ UNCHANGED upstream

\* The deadline of the stage passes (a UDP socket is connected without one).
DeadlinePassed ==
    /\ stage \in Setup /\ age >= Deadline[stage]
    /\ \/ stage = "request" /\ EndWith("none") /\ UNCHANGED upstream
       \/ stage = "resolve" /\ EndWith("unreachable") /\ UNCHANGED upstream
       \/ stage = "dial" /\ cmd = "tcp" /\ NextCandidate

\* Time passes.  Binding and connecting a UDP socket does not wait.
SetupTick ==
    /\ stage \in Setup /\ age < Deadline[stage] + Lag
    /\ ~(stage = "dial" /\ cmd = "udp")
    /\ age' = age + 1
    /\ spent' = IF spent > Budget THEN spent ELSE spent + 1
    /\ UNCHANGED <<client, askVars, stage, todo, answer, upstream, late, tcpVars>>

SessionSetup ==
    \/ ReadRequest \/ RejectToken \/ RequestError
    \/ Resolved \/ ResolveRejected
    \/ DialOk \/ DialError \/ BindError
    \/ DeadlinePassed \/ SetupTick

-----------------------------------------------------------------------------
(* Relaying *)

\* What is in flight still passes after the client left.
Passing ==
    \/ client # "gone" /\ UNCHANGED late
    \/ client = "gone" /\ late > 0 /\ late' = late - 1

\* A step of relay_tcp; the session ends with it.
Relaying(step) ==
    /\ stage = "relay" /\ cmd = "tcp" /\ step
    /\ stage' = IF relay' = "running" THEN "relay" ELSE "ended"
    /\ UNCHANGED <<client, askVars, todo, answer, upstream, age, spent>>

\* The client sends nothing before it read Ok.
UploadRead == Relaying(Read("upload") /\ client # "asked" /\ Passing)
UploadEof ==
    Relaying(/\ ReadEof("upload") /\ UNCHANGED late
             /\ client = "relay" \/ (client = "gone" /\ transport = "quic"))
UploadWrite == Relaying((WriteSome("upload") \/ WriteRest("upload")) /\ UNCHANGED late)
DownloadRead == Relaying((Read("download") \/ ReadEof("download")) /\ UNCHANGED late)
DownloadWrite == Relaying(\/ WriteSome("download") /\ UNCHANGED late
                          \/ WriteRest("download") /\ Passing)
RelayFails == Relaying(UNCHANGED late /\ \E d \in Ways : CopyError(d))
RelayDone == Relaying(BothDone /\ UNCHANGED late)
TakePermit == Relaying(Rearm /\ UNCHANGED late)
TimerFires == Relaying(IdleFires /\ UNCHANGED late)
TimePasses == Relaying(RelayTick /\ UNCHANGED late)

\* A UDP relay ends with an error of either direction or at its idle timer.
UdpEnd ==
    /\ stage = "relay" /\ cmd = "udp"
    /\ stage' = "ended"
    /\ UNCHANGED <<client, askVars, todo, answer, upstream, age, spent, late, tcpVars>>

SessionRelay ==
    \/ UploadRead \/ UploadEof \/ UploadWrite \/ DownloadRead \/ DownloadWrite
    \/ RelayFails \/ RelayDone \/ TakePermit \/ TimerFires \/ TimePasses \/ UdpEnd

Next == Ask \/ ReadOk \/ Leave \/ SessionSetup \/ SessionRelay

Spec == Init /\ [][Next]_vars

\* The clock advances, a task whose timer or Notify fired is polled, a UDP
\* socket is bound and connected without waiting, and a UDP relay without a
\* client ends (UdpIdle).  The client and the upstream server owe nothing.
FairSpec ==
    /\ Spec
    /\ WF_vars(SetupTick) /\ WF_vars(DeadlinePassed)
    /\ WF_vars(cmd = "udp" /\ (DialOk \/ DialError \/ BindError))
    /\ WF_vars(TimePasses) /\ WF_vars(TakePermit) /\ WF_vars(TimerFires)
    /\ WF_vars(RelayDone)
    /\ WF_vars(client = "gone" /\ UdpEnd)

-----------------------------------------------------------------------------
(* The abstract service: the one flow of this session *)

OutcomeOf == [idle |-> "none", asked |-> "asked", relay |-> "relay", gone |-> "ended"]

Service == INSTANCE FlowService WITH
    Flows <- {"flow"},
    outcome <- [f \in {"flow"} |-> OutcomeOf[client]],
    may <- [f \in {"flow"} |-> IF target = NoTarget \/ ~tokenOk THEN {} ELSE Permitted(target)],
    reached <- [f \in {"flow"} |-> upstream]

-----------------------------------------------------------------------------
(* Properties *)

\* Session and client together are a FlowService: the server reaches at most
\* one address, only a permitted one of the target asked for with the right
\* token, and the client relays only after that, whichever deadline passes and
\* whenever the client leaves (handle_request, serve_tcp, serve_udp).
IsFlowService == Service!FsSpec

\* However its waits end, a session is relaying or over when its deadlines have
\* passed once each, the connect timeout once per candidate (handle_stream,
\* handle_request, serve_tcp): no wait is repeated, and none starts over.
SetupBounded == stage \in Setup => spent <= Budget

\* A session whose client left ends and lets go of its upstream connection, in
\* whatever stage it is and although a gRPC tunnel does not tell it
\* (handle_request, wait_for_idle, grpc.rs).
SessionReleased == client = "gone" ~> stage = "ended"

\* A session in which no chunk completes any more ends, whatever state its two
\* directions were left in: the deadlines and the idle timer are all that
\* reclaims one whose peers neither close nor fail (serve_tcp, relay_tcp).
QuietSessionEnds ==
    <>[][\A d \in Ways : ~WriteRest(d)]_vars =>
        <>(stage = "ended" \/ (stage = "relay" /\ cmd = "udp"))
=============================================================================
