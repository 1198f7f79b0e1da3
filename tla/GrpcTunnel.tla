----------------------------- MODULE GrpcTunnel -----------------------------
(***************************************************************************)
(* One flow over the gRPC fallback.  At each end open() makes an in-memory *)
(* duplex pipe and spawns two pumps: one reads the pipe and sends frames   *)
(* into a bounded channel, the other writes the frames it receives into    *)
(* the pipe (proxy-client/src/grpc.rs, proxy-server/src/grpc.rs).  A       *)
(* direction is the chain                                                  *)
(*                                                                         *)
(*   writer - near pipe - pump - channel and HTTP/2 - pump - far pipe - reader *)
(*                                                                         *)
(* A piece of data is what travels as one frame; pieces are counted, and   *)
(* each counter says how many have passed one point of the chain.  The     *)
(* request and its answer at the head of the streams are left out.         *)
(***************************************************************************)
EXTENDS Naturals

CONSTANTS
    PipeCap,    \* PIPE_CAPACITY / FRAME_SIZE
    ChanCap,    \* frames an mpsc channel and HTTP/2's window hold
    MaxUp, MaxDown  \* bounds: pieces written per direction

ASSUME CapAssumption == PipeCap \in Nat \ {0} /\ ChanCap \in Nat \ {0}
ASSUME BoundAssumption == MaxUp \in Nat /\ MaxDown \in Nat

Dirs == {"up", "down"}
Ends == {"client", "server"}

Writer(d) == IF d = "up" THEN "client" ELSE "server"
Reader(d) == IF d = "up" THEN "server" ELSE "client"
MaxPieces(d) == IF d = "up" THEN MaxUp ELSE MaxDown

VARIABLES
    flow,       \* per end: none, open, or dropped (both halves of the pipe)
    rpc,        \* the call: up or failed
    outs,       \* directions whose sending pump runs
    ins,        \* directions whose receiving pump runs
    shut,       \* directions whose writer has shut down or dropped its half
    farShut,    \* directions whose receiving pump has shut the far pipe down
    eof,        \* directions whose reader has seen the end
    wrote, taken, sent, got, stored, read

pumpVars == <<outs, ins, farShut>>
counters == <<wrote, taken, sent, got, stored, read>>
vars == <<flow, rpc, pumpVars, shut, eof, counters>>

TypeOK ==
    /\ flow \in [Ends -> {"none", "open", "dropped"}]
    /\ rpc \in {"up", "failed"}
    /\ outs \subseteq Dirs /\ ins \subseteq Dirs /\ farShut \subseteq Dirs
    /\ shut \subseteq Dirs /\ eof \subseteq Dirs
    /\ \A c \in {wrote, taken, sent, got, stored, read} : c \in [Dirs -> Nat]
    /\ \A d \in Dirs :
          /\ wrote[d] \in taken[d]..(taken[d] + PipeCap)
          /\ taken[d] \in sent[d]..(sent[d] + 1)
          /\ sent[d] \in got[d]..(got[d] + ChanCap)
          /\ got[d] \in stored[d]..(stored[d] + 1)
          /\ stored[d] \in read[d]..(read[d] + PipeCap)

Init ==
    /\ flow = [e \in Ends |-> "none"] /\ rpc = "up"
    /\ outs = {} /\ ins = {} /\ farShut = {} /\ shut = {} /\ eof = {}
    /\ wrote = [d \in Dirs |-> 0] /\ taken = wrote /\ sent = wrote
    /\ got = wrote /\ stored = wrote /\ read = wrote

Passes(c, d) == c' = [c EXCEPT ![d] = @ + 1]
SentBy(e) == {d \in Dirs : Writer(d) = e}
ReadBy(e) == {d \in Dirs : Reader(d) = e}

\* Both pumps of an end are gone, and with them their side of its pipe.
BridgeDropped(e) ==
    flow[e] # "none" /\ SentBy(e) \cap outs = {} /\ ReadBy(e) \cap ins = {}

\* The pipe hands out what it holds before it reports the end.
FarClosed(d) == d \in farShut \/ BridgeDropped(Reader(d))

-----------------------------------------------------------------------------
(* open() at both ends *)

Spawn(e) ==
    /\ flow' = [flow EXCEPT ![e] = "open"]
    /\ outs' = outs \cup SentBy(e) /\ ins' = ins \cup ReadBy(e)
    /\ UNCHANGED <<rpc, farShut, shut, eof, counters>>

\* The server has read the request and answers with its response stream.
ServerOpen == flow["server"] = "none" /\ rpc = "up" /\ Spawn("server")

ClientOpen ==
    flow["client"] = "none" /\ flow["server"] # "none" /\ rpc = "up" /\ Spawn("client")

\* A timeout, an invalid request or a lost connection before there are pumps, at
\* the client (no response stream) or at the server (no first frame).
OpenFails(e) ==
    /\ flow[e] = "none"
    /\ flow' = [flow EXCEPT ![e] = "dropped"] /\ rpc' = "failed"
    /\ shut' = shut \cup SentBy(e)
    /\ UNCHANGED <<pumpVars, eof, counters>>

-----------------------------------------------------------------------------
(* The relays at both ends *)

Write(d) ==
    /\ flow[Writer(d)] = "open" /\ d \notin shut /\ wrote[d] < MaxPieces(d)
    /\ ~BridgeDropped(Writer(d)) /\ wrote[d] - taken[d] < PipeCap
    /\ Passes(wrote, d)
    /\ UNCHANGED <<flow, rpc, pumpVars, shut, eof, taken, sent, got, stored, read>>

Shutdown(d) ==
    /\ flow[Writer(d)] = "open" /\ d \notin shut
    /\ shut' = shut \cup {d}
    /\ UNCHANGED <<flow, rpc, pumpVars, eof, counters>>

Read(d) ==
    /\ flow[Reader(d)] = "open" /\ read[d] < stored[d]
    /\ Passes(read, d)
    /\ UNCHANGED <<flow, rpc, pumpVars, shut, eof, wrote, taken, sent, got, stored>>

ReadEof(d) ==
    /\ flow[Reader(d)] = "open" /\ d \notin eof
    /\ FarClosed(d) /\ read[d] = stored[d]
    /\ eof' = eof \cup {d}
    /\ UNCHANGED <<flow, rpc, pumpVars, shut, counters>>

\* The relay returned: it is done, a timeout struck, or either side failed.
Drop(e) ==
    /\ flow[e] = "open"
    /\ flow' = [flow EXCEPT ![e] = "dropped"]
    /\ shut' = shut \cup SentBy(e)
    /\ UNCHANGED <<rpc, pumpVars, eof, counters>>

Done(e) == SentBy(e) \subseteq shut /\ ReadBy(e) \subseteq eof

-----------------------------------------------------------------------------
(* The sending pumps *)

TakeFrame(d) ==
    /\ d \in outs /\ taken[d] = sent[d] /\ taken[d] < wrote[d]
    /\ Passes(taken, d)
    /\ UNCHANGED <<flow, rpc, pumpVars, shut, eof, wrote, sent, got, stored, read>>

SendFrame(d) ==
    /\ d \in outs /\ sent[d] < taken[d] /\ sent[d] - got[d] < ChanCap
    /\ Passes(sent, d)
    /\ UNCHANGED <<flow, rpc, pumpVars, shut, eof, wrote, taken, got, stored, read>>

StopSending(d) ==
    /\ outs' = outs \ {d}
    /\ UNCHANGED <<flow, rpc, ins, farShut, shut, eof, counters>>

\* Fault: only a failed call is noticed, not a receiver that is gone.
SendErrorUnnoticed(d) ==
    d \in outs /\ sent[d] < taken[d] /\ rpc = "failed" /\ StopSending(d)

\* Nobody receives any more.
SendError(d) ==
    /\ d \in outs /\ sent[d] < taken[d]
    /\ rpc = "failed" \/ (flow[Reader(d)] # "none" /\ d \notin ins)
    /\ StopSending(d)

\* Fault: the writer's end overtakes what is still in the pipe.
TakeEndEarly(d) == d \in outs /\ d \in shut /\ taken[d] = sent[d] /\ StopSending(d)

\* Ok(0): the pipe is empty and its writer gone.
TakeEnd(d) ==
    /\ d \in outs /\ d \in shut /\ taken[d] = sent[d] /\ taken[d] = wrote[d]
    /\ StopSending(d)

-----------------------------------------------------------------------------
(* The receiving pumps *)

RecvFrame(d) ==
    /\ d \in ins /\ got[d] = stored[d] /\ got[d] < sent[d]
    /\ Passes(got, d)
    /\ UNCHANGED <<flow, rpc, pumpVars, shut, eof, wrote, taken, sent, stored, read>>

\* Fault: the last frame is held back until another one comes (no flush).
StoreFrameBatched(d) ==
    /\ d \in ins /\ stored[d] < got[d] /\ flow[Reader(d)] = "open"
    /\ stored[d] - read[d] < PipeCap
    /\ got[d] < sent[d] \/ d \notin outs
    /\ Passes(stored, d)
    /\ UNCHANGED <<flow, rpc, pumpVars, shut, eof, wrote, taken, sent, got, read>>

StoreFrame(d) ==
    /\ d \in ins /\ stored[d] < got[d] /\ flow[Reader(d)] = "open"
    /\ stored[d] - read[d] < PipeCap
    /\ Passes(stored, d)
    /\ UNCHANGED <<flow, rpc, pumpVars, shut, eof, wrote, taken, sent, got, read>>

StopReceiving(d, close) ==
    /\ ins' = ins \ {d}
    /\ farShut' = IF close THEN farShut \cup {d} ELSE farShut
    /\ UNCHANGED <<flow, rpc, outs, shut, eof, counters>>

\* write_all fails: the relay dropped its end of the pipe.
StoreError(d) ==
    /\ d \in ins /\ stored[d] < got[d] /\ flow[Reader(d)] = "dropped"
    /\ StopReceiving(d, FALSE)

StreamEnded(d) ==
    /\ d \in ins /\ got[d] = stored[d]
    /\ flow[Writer(d)] # "none" /\ d \notin outs /\ got[d] = sent[d]

\* Fault: the pipe is not shut down.
RecvEndSilent(d) == StreamEnded(d) /\ StopReceiving(d, FALSE)

\* Ok(None): all frames were received and the sender is gone.
RecvEnd(d) == StreamEnded(d) /\ StopReceiving(d, TRUE)

\* Err: the client reports an end of stream, the server nothing.
RecvError(d) ==
    /\ d \in ins /\ got[d] = stored[d] /\ rpc = "failed"
    /\ StopReceiving(d, Reader(d) = "client")

-----------------------------------------------------------------------------

\* The connection is lost, or the peer resets the stream.
RpcFails ==
    /\ rpc = "up" /\ rpc' = "failed"
    /\ UNCHANGED <<flow, pumpVars, shut, eof, counters>>

Send(d) == TakeFrame(d) \/ SendFrame(d) \/ SendError(d) \/ TakeEnd(d)
Receive(d) ==
    RecvFrame(d) \/ StoreFrame(d) \/ StoreError(d) \/ RecvEnd(d) \/ RecvError(d)

Next ==
    \/ ServerOpen \/ ClientOpen \/ RpcFails
    \/ \E e \in Ends : OpenFails(e) \/ Drop(e)
    \/ \E d \in Dirs : Write(d) \/ Shutdown(d) \/ Read(d) \/ ReadEof(d)
                       \/ Send(d) \/ Receive(d)

Spec == Init /\ [][Next]_vars

\* Pumps run; readers read, and a relay that is done returns.  Nobody has to
\* write, to finish or to fail.
Fairness ==
    /\ WF_vars(ServerOpen \/ OpenFails("server")) /\ WF_vars(ClientOpen \/ OpenFails("client"))
    /\ \A d \in Dirs : /\ WF_vars(Send(d)) /\ WF_vars(Receive(d))
                       /\ WF_vars(Read(d)) /\ WF_vars(ReadEof(d))
    /\ \A e \in Ends : WF_vars(Done(e) /\ Drop(e))

FairSpec == Spec /\ Fairness

-----------------------------------------------------------------------------
(* Properties *)

Link == INSTANCE TunnelLink WITH broken <- rpc = "failed"

\* Seen from its ends the tunnel is a link that loses nothing and reports an
\* end only after everything before it, whichever of the pumps, pipes and
\* ends goes first, unless the call fails (both grpc.rs).
IsLink == Link!Spec

Excused(d) == rpc = "failed" \/ flow[Reader(d)] = "dropped"

\* What was written reaches a reader that goes on reading, however full both
\* directions are, and also when the writer has dropped its end meanwhile: a
\* refusal is read although the session is over (the pumps are independent
\* tasks; the pipe hands out what it holds).
PiecesArrive == \A d \in Dirs : read[d] < wrote[d] ~> read[d] = wrote[d] \/ Excused(d)

\* An end of stream reaches the other end, whether or not the opposite
\* direction stays open (shutdown() on Ok(None)).
EndArrives == \A d \in Dirs : d \in shut ~> d \in eof \/ Excused(d)

\* No pump outlives its flow: once both relays returned, all of them end.
PumpsEnd ==
    (\A e \in Ends : flow[e] = "dropped") ~> outs = {} /\ ins = {}
=============================================================================
