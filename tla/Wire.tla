-------------------------------- MODULE Wire --------------------------------
(***************************************************************************)
(* The protocol of crates/proto/src/lib.rs and the token comparison of the *)
(* two agents: what a writer puts on the wire for a request, a response or *)
(* datagrams, and a reader that takes it apart field by field and leaves   *)
(* the rest to whoever reads next.  A request or response may arrive as it *)
(* was written, cut off anywhere, or with a wrong byte.  Datagrams are     *)
(* written while the reader reads, until the stream ends, and the end may  *)
(* cut off what the reader has not yet taken.                              *)
(*                                                                         *)
(* The code is scaled down: a byte is one of 0..Base-1 and a length byte   *)
(* counts to Base-1, the magic number and an IPv6 address take two bytes,  *)
(* an IPv4 address one.  Text is a sequence of bytes in which Lead and     *)
(* Cont only occur as the pair that makes up one longer character.         *)
(***************************************************************************)
EXTENDS Integers, SequencesExt

CONSTANTS
    Base,
    Requests,       \* [cmd, token, target], as a client asks
    Responses,      \* [status, message]
    Payloads,       \* of datagrams
    MaxSent,        \* bound: datagrams written in one behaviour
    Expected        \* the agent's token

Byte == 0 .. Base - 1
MaxLen == Base - 1              \* what a length byte holds (255)
MaxDatagram == Base * Base - 1  \* what two bytes hold (65535)
Lead == Base - 2
Cont == Base - 1
Replacement == Base             \* U+FFFD

Magic == <<5, 2>>
VERSION == 1
Cmds == {1, 2}                  \* ConnectTcp, BindUdp
Statuses == 0..6
ATYP_IPV4 == 1
ATYP_DOMAIN == 3
ATYP_IPV6 == 4

VARIABLES
    kind,   \* what the stream carries: "request", "response", "datagrams"
    sent,   \* what the writer was given: a message, or the payloads so far
    wire,   \* the bytes that have arrived, or will before anything else does
    open,   \* the writer may still write a datagram
    intact, \* nothing was cut off or altered
    pos,    \* how many of them the reader has taken
    at,     \* the field it reads next, "done", or the error it returned
    got     \* what it has read

vars == <<kind, sent, wire, open, intact, pos, at, got>>

-----------------------------------------------------------------------------
(* Writers *)

Text == Seq(Byte)

\* A byte that is not part of a character.
Stray(s, i) ==
    \/ s[i] = Lead /\ (i = Len(s) \/ s[i + 1] # Cont)
    \/ s[i] = Cont /\ (i = 1 \/ s[i - 1] # Lead)

Utf8(s) == \A i \in DOMAIN s : ~Stray(s, i)

Atyps == {ATYP_IPV4, ATYP_DOMAIN, ATYP_IPV6}
AddressLen(atyp) == IF atyp = ATYP_IPV6 THEN 2 ELSE 1

ASSUME BaseAssumption == Base \in Nat /\ Base >= 8
\* A Request: its token is a String, its target an Address.
ASSUME RequestsAssumption ==
    \A m \in Requests :
        /\ m \in [cmd : Cmds, token : Text,
                  target : [atyp : Atyps, host : Text, port : 0..MaxDatagram]]
        /\ Utf8(m.token)
        /\ m.target.atyp # ATYP_DOMAIN => Len(m.target.host) = AddressLen(m.target.atyp)
ASSUME ResponsesAssumption == Responses \subseteq [status : Statuses, message : Text]
ASSUME PayloadsAssumption == Payloads \subseteq Seq(Byte) /\ MaxSent \in Nat
\* Both validate()s.
ASSUME ExpectedAssumption == Expected \in Text /\ Len(Expected) <= MaxLen

\* from_utf8_lossy.
Lossy(s) == [i \in DOMAIN s |-> IF Stray(s, i) THEN Replacement ELSE s[i]]

U16(n) == <<(n \div Base) % Base, n % Base>>   \* as u16

\* Fault: 256 instead of 255.
TruncateLong(s) == SubSeq(s, 1, Min({Len(s), MaxLen + 1}))

\* The bytes of a text that a length byte can count; a character may be cut.
Truncate(s) == SubSeq(s, 1, Min({Len(s), MaxLen}))

LengthByte(s) == <<Len(s) % Base>>      \* as u8

EncodeAddress(a) ==
    IF a.atyp = ATYP_DOMAIN
    THEN <<ATYP_DOMAIN>> \o LengthByte(Truncate(a.host)) \o Truncate(a.host) \o U16(a.port)
    ELSE <<a.atyp>> \o a.host \o U16(a.port)

\* A token that is too long is an error before anything is written.
EncodeRequest(m) ==
    IF Len(m.token) > MaxLen THEN <<>>
    ELSE Magic \o <<VERSION, m.cmd>> \o LengthByte(m.token) \o m.token
               \o EncodeAddress(m.target)

EncodeResponse(m) ==
    Magic \o <<VERSION, m.status>> \o LengthByte(Truncate(m.message)) \o Truncate(m.message)

Encode(k, m) == IF k = "request" THEN EncodeRequest(m) ELSE EncodeResponse(m)

\* Fault: the length is taken for a byte.
EncodeDatagramShort(p) == U16(Len(p) % Base) \o p

EncodeDatagram(p) == U16(Len(p)) \o p

\* write_datagram: one that is too large is an error, and nothing is written.
WriteDatagram(p) ==
    /\ open /\ Len(sent) < MaxSent
    /\ Len(p) <= MaxDatagram
    /\ sent' = Append(sent, p)
    /\ wire' = wire \o EncodeDatagram(p)
    /\ UNCHANGED <<kind, open, intact, pos, at, got>>

\* The writer is gone, in the middle of a datagram or after one.
EndStream ==
    /\ open /\ open' = FALSE
    /\ \E n \in pos .. Len(wire) :
          /\ wire' = SubSeq(wire, 1, n)
          /\ intact' = (n = Len(wire))
    /\ UNCHANGED <<kind, sent, pos, at, got>>

-----------------------------------------------------------------------------
(* Readers *)

\* read_exact of n bytes.
Bytes(n) == SubSeq(wire, pos + 1, pos + n)

Take(f, n) ==
    /\ at = f /\ pos + n <= Len(wire)
    /\ pos' = pos + n
    /\ UNCHANGED <<kind, sent, wire, open, intact>>

\* The read goes on with field f if ok holds, and returns an error otherwise.
Then(ok, f) == at' = IF ok THEN f ELSE "invalid"

Store(field, value) == got' = [got EXCEPT ![field] = value]

ReadMagic ==
    /\ Take("magic", 2) /\ Then(Bytes(2) = Magic, "version")
    /\ UNCHANGED got

ReadVersion ==
    /\ Take("version", 1)
    /\ Then(Bytes(1) = <<VERSION>>, IF kind = "request" THEN "cmd" ELSE "status")
    /\ UNCHANGED got

ReadCmd ==
    Take("cmd", 1) /\ Then(Bytes(1)[1] \in Cmds, "tokenLen") /\ Store("cmd", Bytes(1)[1])

ReadTokenLen ==
    Take("tokenLen", 1) /\ at' = "token" /\ Store("len", Bytes(1)[1])

ReadToken ==
    /\ Take("token", got.len) /\ Then(Utf8(Bytes(got.len)), "atyp")
    /\ Store("token", Bytes(got.len))

ReadAtyp ==
    /\ Take("atyp", 1)
    /\ LET a == Bytes(1)[1]
       IN  /\ Then(a \in Atyps,
                   IF a = ATYP_DOMAIN THEN "hostLen" ELSE "host")
           /\ got' = [got EXCEPT !.atyp = a, !.len = AddressLen(a)]

ReadHostLen ==
    Take("hostLen", 1) /\ at' = "host" /\ Store("len", Bytes(1)[1])

ReadHost ==
    Take("host", got.len) /\ at' = "port" /\ Store("host", Bytes(got.len))

\* Fault: what is no text is made into some.
ReadPortLossy ==
    /\ Take("port", 2) /\ at' = "done"
    /\ got' = [got EXCEPT !.port = Bytes(2)[1] * Base + Bytes(2)[2],
                          !.host = SelectSeq(@, LAMBDA b : b < Lead)]

\* The name is only looked at once the port has been read.
ReadPort ==
    /\ Take("port", 2) /\ Then(got.atyp = ATYP_DOMAIN => Utf8(got.host), "done")
    /\ Store("port", Bytes(2)[1] * Base + Bytes(2)[2])

ReadStatus ==
    Take("status", 1) /\ Then(Bytes(1)[1] \in Statuses, "msgLen") /\ Store("status", Bytes(1)[1])

ReadMsgLen ==
    Take("msgLen", 1) /\ at' = "msg" /\ Store("len", Bytes(1)[1])

\* from_utf8_lossy: a message is never refused.
ReadMsg ==
    Take("msg", got.len) /\ at' = "done" /\ Store("message", Lossy(Bytes(got.len)))

ReadDatagramLen ==
    /\ Take("datagramLen", 2) /\ at' = "datagram"
    /\ Store("len", Bytes(2)[1] * Base + Bytes(2)[2])

ReadDatagram ==
    /\ Take("datagram", got.len) /\ at' = "datagramLen"
    /\ Store("payloads", Append(got.payloads, Bytes(got.len)))

Width == [f \in {"magic", "version", "cmd", "tokenLen", "token", "atyp", "hostLen", "host",
                 "port", "status", "msgLen", "msg", "datagramLen", "datagram"} |->
    IF f \in {"magic", "port", "datagramLen"} THEN 2
    ELSE IF f \in {"token", "host", "msg", "datagram"} THEN got.len ELSE 1]

\* UnexpectedEof, also between two datagrams: that is how a session ends.
ReadEof ==
    /\ ~open /\ at \in DOMAIN Width /\ pos + Width[at] > Len(wire)
    /\ at' = "eof"
    /\ UNCHANGED <<kind, sent, wire, open, intact, pos, got>>

-----------------------------------------------------------------------------
(* token_matches *)

Padded(t, i) == IF i <= Len(t) THEN t[i] ELSE 0

\* Fault: the lengths do not take part.
SameBytes(a, b) == \A i \in 1 .. Max({Len(a), Len(b)}) : Padded(a, i) = Padded(b, i)

TokenMatches(a, b) ==
    /\ Len(a) % Base = Len(b) % Base    \* the u8 of their XOR is zero
    /\ \A i \in 1 .. Max({Len(a), Len(b)}) : Padded(a, i) = Padded(b, i)

-----------------------------------------------------------------------------

\* A request or a response is followed by the first byte of what comes next.
Stream(k, m) == Encode(k, m) \o <<3>>

\* All of a message is on its way when the reader starts.
MessageInit ==
    /\ \/ kind = "request" /\ sent \in Requests
       \/ kind = "response" /\ sent \in Responses
    /\ open = FALSE /\ at = "magic"
    /\ \/ wire = Stream(kind, sent) /\ intact = TRUE
       \/ /\ intact = FALSE
          /\ \E i \in 1 .. Len(Stream(kind, sent)) :
                \/ wire = SubSeq(Stream(kind, sent), 1, i - 1)
                \/ \E b \in Byte : wire = [Stream(kind, sent) EXCEPT ![i] = b]

DatagramsInit ==
    /\ kind = "datagrams" /\ sent = <<>> /\ open = TRUE /\ at = "datagramLen"
    /\ wire = <<>> /\ intact = TRUE

Init ==
    /\ MessageInit \/ DatagramsInit
    /\ pos = 0
    /\ got = [cmd |-> 0, len |-> 0, token |-> <<>>, atyp |-> 0, host |-> <<>>,
              port |-> 0, status |-> 0, message |-> <<>>, payloads |-> <<>>]

Next ==
    \/ ReadMagic \/ ReadVersion
    \/ ReadCmd \/ ReadTokenLen \/ ReadToken
    \/ ReadAtyp \/ ReadHostLen \/ ReadHost \/ ReadPort
    \/ ReadStatus \/ ReadMsgLen \/ ReadMsg
    \/ (\E p \in Payloads : WriteDatagram(p)) \/ EndStream
    \/ ReadDatagramLen \/ ReadDatagram
    \/ ReadEof

Spec == Init /\ [][Next]_vars

-----------------------------------------------------------------------------
(* Properties *)

\* The reader never takes more than arrived, and what it returns is bytes and
\* lengths that a stream can hold (read_exact, read_u8, read_u16).
TypeOK ==
    /\ kind \in {"request", "response", "datagrams"}
    /\ open \in BOOLEAN /\ intact \in BOOLEAN
    /\ wire \in Seq(Byte) /\ pos \in 0 .. Len(wire)
    /\ at \in DOMAIN Width \cup {"done", "invalid", "eof"}
    /\ got \in [cmd : Byte, len : 0..MaxDatagram, token : Text, atyp : Byte, host : Text,
               port : 0..MaxDatagram, status : Byte,
               message : Seq(Byte \cup {Replacement}), payloads : Seq(Seq(Byte))]

Target(g) == [atyp |-> g.atyp, host |-> g.host, port |-> g.port]

\* The request or response the reader returned.
Returned ==
    IF kind = "request" THEN [cmd |-> got.cmd, token |-> got.token, target |-> Target(got)]
                        ELSE [status |-> got.status, message |-> got.message]

Readable ==
    kind = "request" =>
        /\ Len(sent.token) <= MaxLen
        /\ sent.target.atyp = ATYP_DOMAIN => Utf8(Truncate(sent.target.host))

\* What was written and arrived is read back, up to the truncation of a long
\* name or message, and exactly its bytes are taken: the stream that follows
\* starts where the reader stopped (write_to, encode, read_from).
ReadBack ==
    intact /\ kind # "datagrams" =>
        /\ at = "done" =>
            /\ Readable /\ pos = Len(wire) - 1
            /\ Returned = IF kind = "request"
                          THEN [sent EXCEPT !.target.host = Truncate(@)]
                          ELSE [sent EXCEPT !.message = Lossy(Truncate(@))]
        /\ at \in {"invalid", "eof"} => ~Readable

\* Whatever arrives, a request or response that is accepted is the one that
\* the bytes taken for it encode: none is read past its end or short of it,
\* and no two texts are taken for one, except where a message is made readable
\* (read_from).
OnlyOneReading ==
    at = "done" /\ Replacement \notin ToSet(got.message) =>
        SubSeq(wire, 1, pos) = Encode(kind, Returned)

\* Datagrams arrive whole, in order and with their boundaries, up to where the
\* stream was cut (write_datagram, read_datagram).
DatagramsWhole ==
    kind = "datagrams" =>
        /\ \E n \in 0 .. Len(sent) : got.payloads = SubSeq(sent, 1, n)
        /\ at = "eof" /\ intact => got.payloads = sent

\* Of the tokens a request can carry, token_matches accepts the agent's own and
\* no other, also one that only zero bytes tell from it.
OnlyTheToken ==
    at = "done" /\ kind = "request" =>
        (TokenMatches(Expected, got.token) <=> got.token = Expected)
=============================================================================
