---------------------------- MODULE DnsForwarder ----------------------------
(***************************************************************************)
(* The host's DNS forwarder (crates/host/src/dns.rs) over the bridge: a    *)
(* query asks the configured resolvers one after the other, each through a *)
(* UDP flow of its own, opened like any other, and waits for the answer    *)
(* under a deadline that does not cover the opening.                       *)
(*                                                                         *)
(* One query is followed, which an application may or may not send; the    *)
(* other flows are those of Bridge.                                        *)
(***************************************************************************)
EXTENDS Bridge, Sequences

CONSTANTS
    Upstreams,      \* what dns.upstream may be: for each resolver, in order, the
                    \* flow a query uses to ask it; <<>> without a forwarder
    Resolvers,      \* what dns.upstream may name: addresses, not names
    AppFlows        \* the flows that applications may open

ASSUME UpstreamsAssumption == Upstreams \subseteq Seq(Flows) /\ AppFlows \subseteq Flows
ASSUME ResolversAssumption == \A t \in Resolvers : Cardinality(Resolve[t]) = 1

VARIABLES
    upstreams,      \* the configured ones
    try,            \* the one that is being asked, 0 before the query
    verdict         \* "none" until the query is "answered" or has "failed"

dnsVars == <<upstreams, try, verdict>>
allVars == <<vars, dnsVars>>

QueryFlows == {upstreams[i] : i \in DOMAIN upstreams}
Asking(f) == try > 0 /\ f = upstreams[try]

DnsTypeOK ==
    /\ upstreams \in Upstreams /\ try \in 0 .. Len(upstreams)
    /\ verdict \in {"none", "answered", "failed"}
    /\ verdict # "none" => try > 0

DnsInit == Init /\ upstreams \in Upstreams /\ try = 0 /\ verdict = "none"

\* resolve: the first upstream, and the next one when query_one failed.
AskUpstream ==
    /\ verdict = "none" /\ try < Len(upstreams)
    /\ try > 0 => host[upstreams[try]] = "ended"
    /\ try' = try + 1
    /\ Capture(upstreams[try'])
    /\ cmd'[upstreams[try']] = "udp" /\ target'[upstreams[try']] \in Resolvers
    /\ UNCHANGED <<upstreams, verdict>>

\* The answer came before the deadline; the tunnel is dropped.
Answered(f) ==
    /\ Asking(f) /\ upstream[f] # NoAddr /\ HostUdpEnd(f)
    /\ verdict' = "answered" /\ UNCHANGED <<upstreams, try>>

\* Fault: the answer is read without a deadline.
NoAnswerUntilClosed(f) ==
    Asking(f) /\ vmEnd[f] # "open" /\ HostUdpEnd(f) /\ UNCHANGED dnsVars

\* The deadline passed, or the tunnel closed.
NoAnswer(f) == Asking(f) /\ HostUdpEnd(f) /\ UNCHANGED dnsVars

\* No upstream is left; the application is told nothing.  (With none at all
\* serve() does not start.)
QueryFails ==
    /\ verdict = "none" /\ try > 0 /\ try = Len(upstreams)
    /\ host[upstreams[try]] = "ended"
    /\ verdict' = "failed"
    /\ UNCHANGED <<vars, upstreams, try>>

OpenStep(f) ==
    \/ Connect(f) \/ ConnectError(f) \/ Retry(f)
    \/ Granted(f) \/ Refused(f) \/ HandshakeTimeout(f) \/ HandshakeBroken(f)

BridgeStep ==
    /\ \/ \E f \in AppFlows \ QueryFlows : Capture(f) \/ AppEnd(f) \/ HostStep(f)
       \/ \E f \in QueryFlows : OpenStep(f)
       \/ \E f \in Flows : VmStep(f) \/ ServerShut(f)
       \/ AgentCrash \/ AgentStart
    /\ UNCHANGED dnsVars

DnsNext ==
    \/ AskUpstream \/ QueryFails
    \/ \E f \in Flows : Answered(f) \/ NoAnswer(f)
    \/ BridgeStep

DnsSpec == DnsInit /\ [][DnsNext]_allVars

\* The tasks of Bridge run, the forwarder's task runs, and its deadline fires
\* if nothing ends the wait before.  Nobody has to send a query, and no
\* resolver has to answer.
FairDnsSpec ==
    /\ DnsSpec /\ Fairness
    /\ WF_allVars(try > 0 /\ AskUpstream) /\ WF_allVars(QueryFails)
    /\ \A f \in Flows : WF_allVars(NoAnswer(f))

\* A query is answered or given up once the agent stays up, whichever of the
\* resolvers is refused, unreachable or silent, and whatever crash it met: no
\* attempt hangs, and the attempts come to an end (resolve, query_one,
\* Client::open).
QueryEnds == <>[]agentUp => (try > 0 ~> verdict # "none")
=============================================================================
