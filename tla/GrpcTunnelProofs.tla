-------------------------- MODULE GrpcTunnelProofs --------------------------
(* Proofs about GrpcTunnel, for every capacity and every bound.            *)
EXTENDS GrpcTunnel, TLAPS

\* What a stopped pump says about the chain of its direction.
ChainInv ==
    \A d \in Dirs :
        /\ d \in ins => flow[Reader(d)] # "none"
        /\ d \in farShut => d \notin ins /\ flow[Reader(d)] # "none"
        /\ d \in eof => d \notin ins /\ flow[Reader(d)] # "none" /\ read[d] = stored[d]
        /\ rpc = "up" /\ flow[Writer(d)] # "none" /\ d \notin outs
              => \/ d \in shut /\ sent[d] = wrote[d]
                 \/ flow[Reader(d)] # "none" /\ d \notin ins
        /\ rpc = "up" /\ flow[Reader(d)] = "open" /\ d \notin ins
              => d \in shut /\ stored[d] = wrote[d]

Inv == TypeOK /\ ChainInv

LEMMA DirFacts ==
    /\ \A d \in Dirs : Writer(d) \in Ends /\ Reader(d) \in Ends
    /\ \A d \in Dirs, e \in Ends : /\ d \in SentBy(e) <=> Writer(d) = e
                                   /\ d \in ReadBy(e) <=> Reader(d) = e
    /\ \A e \in Ends : SentBy(e) \subseteq Dirs /\ ReadBy(e) \subseteq Dirs
BY DEF Dirs, Ends, Writer, Reader, SentBy, ReadBy

LEMMA InitInv == Init => Inv
BY CapAssumption, DirFacts DEF Init, Inv, TypeOK, ChainInv, Dirs, Ends

\* Every state the code can reach has the pumps, pipes and channels within
\* their capacities (PIPE_CAPACITY, mpsc::channel in both grpc.rs).
LEMMA TypeStep == TypeOK /\ [Next]_vars => TypeOK'
<1> USE CapAssumption, DirFacts
<1> SUFFICES ASSUME TypeOK, [Next]_vars PROVE TypeOK'
    OBVIOUS
<1>1. CASE ServerOpen \/ ClientOpen
    BY <1>1 DEF ServerOpen, ClientOpen, Spawn, TypeOK, counters, Ends
<1>2. ASSUME NEW e \in Ends, OpenFails(e) \/ Drop(e) PROVE TypeOK'
    BY <1>2 DEF OpenFails, Drop, TypeOK, pumpVars, counters
<1>3. CASE RpcFails
    BY <1>3 DEF RpcFails, TypeOK, pumpVars, counters
<1>4. ASSUME NEW d \in Dirs, Shutdown(d) \/ ReadEof(d) PROVE TypeOK'
    BY <1>4 DEF Shutdown, ReadEof, TypeOK, pumpVars, counters
<1>5. ASSUME NEW d \in Dirs, Write(d) PROVE TypeOK'
    BY <1>5 DEF Write, Passes, TypeOK, pumpVars
<1>6. ASSUME NEW d \in Dirs, Read(d) PROVE TypeOK'
    BY <1>6 DEF Read, Passes, TypeOK, pumpVars
<1>7. ASSUME NEW d \in Dirs, Send(d) PROVE TypeOK'
  <2>1. CASE TakeFrame(d)
    BY <2>1 DEF TakeFrame, Passes, TypeOK, pumpVars
  <2>2. CASE SendFrame(d)
    BY <2>2 DEF SendFrame, Passes, TypeOK, pumpVars
  <2>3. CASE SendError(d) \/ TakeEnd(d)
    BY <2>3 DEF SendError, TakeEnd, StopSending, TypeOK, counters
  <2> QED BY <1>7, <2>1, <2>2, <2>3 DEF Send
<1>8. ASSUME NEW d \in Dirs, Receive(d) PROVE TypeOK'
  <2>1. CASE RecvFrame(d)
    BY <2>1 DEF RecvFrame, Passes, TypeOK, pumpVars
  <2>2. CASE StoreFrame(d)
    BY <2>2 DEF StoreFrame, Passes, TypeOK, pumpVars
  <2>3. CASE StoreError(d) \/ RecvEnd(d) \/ RecvError(d)
    BY <2>3 DEF StoreError, RecvEnd, RecvError, StopReceiving, TypeOK, counters
  <2> QED BY <1>8, <2>1, <2>2, <2>3 DEF Receive
<1>9. CASE UNCHANGED vars
    BY <1>9 DEF vars, TypeOK, pumpVars, counters
<1> QED BY <1>1, <1>2, <1>3, <1>4, <1>5, <1>6, <1>7, <1>8, <1>9 DEF Next

LEMMA ChainStep == Inv /\ TypeOK' /\ [Next]_vars => ChainInv'
<1> USE DirFacts
<1> SUFFICES ASSUME Inv, TypeOK', [Next]_vars PROVE ChainInv'
    OBVIOUS
<1>1. CASE ServerOpen \/ ClientOpen
  <2>1. PICK e \in Ends : flow[e] = "none" /\ Spawn(e)
    BY <1>1 DEF ServerOpen, ClientOpen, Ends
  <2>2. /\ outs' = outs \cup SentBy(e) /\ ins' = ins \cup ReadBy(e)
        /\ UNCHANGED <<rpc, farShut, shut, eof, wrote, sent, stored, read>>
    BY <2>1 DEF Spawn, counters
  <2>3. \A x \in Ends : flow'[x] = IF x = e THEN "open" ELSE flow[x]
    BY <2>1 DEF Spawn, Inv, TypeOK
  <2> SUFFICES ASSUME NEW d \in Dirs PROVE ChainInv!(d)'
    BY DEF ChainInv
  <2>4. d \in outs' <=> d \in outs \/ Writer(d) = e
    BY <2>2
  <2>5. d \in ins' <=> d \in ins \/ Reader(d) = e
    BY <2>2
  <2> QED BY <2>1, <2>2, <2>3, <2>4, <2>5 DEF Inv, ChainInv
<1>2. ASSUME NEW e \in Ends, OpenFails(e) \/ Drop(e) PROVE ChainInv'
    BY <1>2 DEF OpenFails, Drop, Inv, TypeOK, ChainInv, pumpVars, counters
<1>3. CASE RpcFails
    BY <1>3 DEF RpcFails, Inv, TypeOK, ChainInv, pumpVars, counters
<1>4. ASSUME NEW d \in Dirs, Shutdown(d) PROVE ChainInv'
    BY <1>4 DEF Shutdown, Inv, TypeOK, ChainInv, pumpVars, counters
<1>5. ASSUME NEW d \in Dirs, ReadEof(d) PROVE ChainInv'
  <2>1. d \notin ins
    BY <1>5 DEF ReadEof, FarClosed, BridgeDropped, Inv, ChainInv
  <2> QED
    BY <1>5, <2>1 DEF ReadEof, Inv, TypeOK, ChainInv, pumpVars, counters
<1>6. ASSUME NEW d \in Dirs, Write(d) PROVE ChainInv'
    BY <1>6 DEF Write, Passes, Inv, TypeOK, ChainInv, pumpVars
<1>7. ASSUME NEW d \in Dirs, Read(d) PROVE ChainInv'
    BY <1>7 DEF Read, Passes, Inv, TypeOK, ChainInv, pumpVars
<1>8. ASSUME NEW d \in Dirs, Send(d) PROVE ChainInv'
  <2>1. CASE TakeFrame(d)
    BY <2>1 DEF TakeFrame, Passes, Inv, TypeOK, ChainInv, pumpVars
  <2>2. CASE SendFrame(d)
    BY <2>2 DEF SendFrame, Passes, Inv, TypeOK, ChainInv, pumpVars
  <2>3. CASE SendError(d)
    BY <2>3 DEF SendError, StopSending, Inv, TypeOK, ChainInv, counters
  <2>4. CASE TakeEnd(d)
    BY <2>4 DEF TakeEnd, StopSending, Inv, TypeOK, ChainInv, counters
  <2> QED BY <1>8, <2>1, <2>2, <2>3, <2>4 DEF Send
<1>9. ASSUME NEW d \in Dirs, Receive(d) PROVE ChainInv'
  <2>1. CASE RecvFrame(d)
    BY <2>1 DEF RecvFrame, Passes, Inv, TypeOK, ChainInv, pumpVars
  <2>2. CASE StoreFrame(d)
    BY <2>2 DEF StoreFrame, Passes, Inv, TypeOK, ChainInv, pumpVars
  <2>3. CASE StoreError(d) \/ RecvError(d)
    <3>1. /\ ins' = ins \ {d} /\ farShut' \in {farShut, farShut \cup {d}}
          /\ UNCHANGED <<flow, rpc, outs, shut, eof, wrote, sent, stored, read>>
        BY <2>3 DEF StoreError, RecvError, StopReceiving, counters
    <3>2. d \in ins /\ (flow[Reader(d)] = "dropped" \/ rpc = "failed")
        BY <2>3 DEF StoreError, RecvError
    <3>3. flow[Reader(d)] # "none"
        BY <3>2 DEF Inv, ChainInv
    <3> QED BY <3>1, <3>2, <3>3 DEF Inv, ChainInv
  <2>4. CASE RecvEnd(d)
    <3>1. /\ ins' = ins \ {d} /\ farShut' = farShut \cup {d}
          /\ UNCHANGED <<flow, rpc, outs, shut, eof, wrote, sent, stored, read>>
        BY <2>4 DEF RecvEnd, StopReceiving, counters
    <3>2. /\ d \in ins /\ got[d] = stored[d] /\ got[d] = sent[d]
          /\ d \notin outs /\ flow[Writer(d)] # "none"
        BY <2>4 DEF RecvEnd, StreamEnded
    <3>3. rpc = "up" => d \in shut /\ stored[d] = wrote[d] /\ sent[d] = wrote[d]
        BY <3>2 DEF Inv, ChainInv
    <3> QED BY <3>1, <3>2, <3>3 DEF Inv, ChainInv
  <2> QED BY <1>9, <2>1, <2>2, <2>3, <2>4 DEF Receive
<1>10. CASE UNCHANGED vars
    BY <1>10 DEF vars, Inv, TypeOK, ChainInv, pumpVars, counters
<1> QED
    BY <1>1, <1>2, <1>3, <1>4, <1>5, <1>6, <1>7, <1>8, <1>9, <1>10 DEF Next

LEMMA Invariance == Spec => []Inv
<1>1. Inv /\ [Next]_vars => Inv'
    BY TypeStep, ChainStep DEF Inv
<1> QED BY InitInv, <1>1, PTL DEF Spec

\* The chain of pipes, pumps and channels never holds more than it has room
\* for, and no piece is counted twice (both grpc.rs).
THEOREM TypeCorrect == Spec => []TypeOK
BY Invariance, PTL DEF Inv
\* The step simulation: every step of the code is a step of the abstract link
\* or leaves it alone.
LEMMA LinkStep == Inv /\ TypeOK' /\ [Next]_vars => [Link!Next]_(Link!vars)
<1> USE DirFacts DEF Link!Next, Link!vars
<1> SUFFICES ASSUME Inv, TypeOK', [Next]_vars PROVE [Link!Next]_(Link!vars)
    OBVIOUS
<1>1. CASE ServerOpen \/ ClientOpen
    BY <1>1 DEF ServerOpen, ClientOpen, Spawn, counters
<1>2. ASSUME NEW e \in Ends, OpenFails(e) PROVE Link!End
    BY <1>2 DEF OpenFails, Link!End, Inv, TypeOK, counters
<1>3. ASSUME NEW e \in Ends, Drop(e) PROVE Link!End
    BY <1>3 DEF Drop, Link!End, Inv, TypeOK, counters
<1>4. CASE RpcFails
  <2>1. Link!End
    BY <1>4 DEF RpcFails, Link!End, Inv, TypeOK, counters
  <2> QED BY <2>1
<1>5. ASSUME NEW d \in Dirs, Shutdown(d) PROVE Link!End
    BY <1>5 DEF Shutdown, Link!End, Inv, TypeOK, counters
<1>6. ASSUME NEW d \in Dirs, Write(d) PROVE Link!Write(d)
    BY <1>6 DEF Write, Passes, Link!Write
<1>7. ASSUME NEW d \in Dirs, Read(d) PROVE Link!Read(d)
  <2>1. read[d] < stored[d] /\ stored[d] <= wrote[d] /\ read[d] # stored[d]
    BY <1>7 DEF Read, Inv, TypeOK
  <2>2. d \notin eof
    BY <2>1 DEF Inv, ChainInv
  <2> QED BY <1>7, <2>1, <2>2 DEF Read, Passes, Link!Read, Inv, TypeOK
<1>8. ASSUME NEW d \in Dirs, ReadEof(d) PROVE Link!ReadEof(d)
  <2>1. d \notin ins
    BY <1>8 DEF ReadEof, FarClosed, BridgeDropped, Inv, ChainInv
  <2>2. rpc = "failed" \/ (d \in shut /\ stored[d] = wrote[d])
    BY <1>8, <2>1 DEF ReadEof, Inv, TypeOK, ChainInv
  <2> QED BY <1>8, <2>2 DEF ReadEof, Link!ReadEof, counters
<1>9. ASSUME NEW d \in Dirs, Send(d) \/ Receive(d) PROVE UNCHANGED Link!vars
    BY <1>9 DEF Send, TakeFrame, SendFrame, SendError, TakeEnd, StopSending,
                Receive, RecvFrame, StoreFrame, StoreError, RecvEnd, RecvError,
                StopReceiving, Passes, pumpVars, counters
<1>10. CASE UNCHANGED vars
    BY <1>10 DEF vars, pumpVars, counters
<1> QED
    BY <1>1, <1>2, <1>3, <1>4, <1>5, <1>6, <1>7, <1>8, <1>9, <1>10 DEF Next

LEMMA LinkInit == Init => Link!Init
BY DEF Init, Link!Init, Dirs

\* The two pumps at each end, their channel and their pipes implement the
\* link: nothing is lost or overtaken, and no reader is told of an end before
\* it read everything, unless the call failed (both grpc.rs).
THEOREM TunnelImplementsLink == Spec => IsLink
<1>1. Inv /\ Inv' /\ [Next]_vars => [Link!Next]_(Link!vars)
    BY LinkStep DEF Inv
<1> QED BY LinkInit, Invariance, <1>1, PTL DEF Spec, IsLink, Link!Spec
=============================================================================
