-------------------------- MODULE TransportHistory --------------------------
(***************************************************************************)
(* Transport with two history variables that remember, for each flow's     *)
(* current or last open(), whether a transport was impaired at any moment  *)
(* of it: what TransportClient::open promises depends on that past.        *)
(***************************************************************************)
EXTENDS Transport

VARIABLES
    quicBad,    \* flows during whose open QUIC was down or lost a connection
    grpcBad     \* flows during whose open gRPC was down

hvars == <<vars, quicBad, grpcBad>>

HInit == Init /\ quicBad = {} /\ grpcBad = {}

Started(f) == pc[f] = "idle" /\ pc'[f] # "idle"

\* Follows every step of Transport and records impairments.
Record ==
    /\ quicBad' = {f \in Flows : \/ f \in quicBad /\ ~Started(f)
                                 \/ ~quicUp'
                                 \/ ~(closed' \subseteq closed)}
    /\ grpcBad' = {f \in Flows : (f \in grpcBad /\ ~Started(f)) \/ ~grpcUp'}

HNext == Next /\ Record

HSpec == HInit /\ [][HNext]_hvars

FairHSpec == HSpec /\ Fairness

\* open() fails for a target the server grants promptly only if every enabled
\* transport was impaired at some moment of that open: other flows' slow
\* targets, their fallback window and their invalidations of the shared
\* connection never cost a flow its connectivity (transport.rs, quic.rs).
AvailableIfEither ==
    \A f \in Flows :
        result[f] = "error" /\ verdict[f] = "grant" =>
            /\ QuicEnabled => f \in quicBad
            /\ GrpcEnabled => f \in grpcBad
=============================================================================
