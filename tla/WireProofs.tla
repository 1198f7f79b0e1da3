----------------------------- MODULE WireProofs -----------------------------
(***************************************************************************)
(* Proofs about Wire, for every base, every token and every request,       *)
(* response and datagram within the assumptions on the constants.  The     *)
(* reader is followed from both sides: SoFar says what the bytes it has    *)
(* taken encode, Coming what the bytes it has not taken are.               *)
(***************************************************************************)
EXTENDS Wire, SequenceTheorems, TLAPS

-----------------------------------------------------------------------------
(* Bytes, numbers and pieces of the wire *)

\* Two bytes, big endian, are one number, and that number those two bytes
\* (to_be_bytes, read_u16).
LEMMA TwoBytes ==
    ASSUME NEW a \in Byte, NEW b \in Byte
    PROVE  /\ a * Base + b \in 0..MaxDatagram
           /\ U16(a * Base + b) = <<a, b>>
<1> USE BaseAssumption DEF Byte, MaxDatagram
<1>1. a * Base + b \in 0 .. Base * Base - 1
  <2>1. a * Base <= (Base - 1) * Base /\ a * Base \in Nat
    BY Z3
  <2>2. (Base - 1) * Base = Base * Base - Base /\ Base * Base \in Nat
    BY Z3
  <2> QED
    BY <2>1, <2>2
<1>2. (a * Base + b) \div Base = a
  BY Z3
<1>3. (a * Base + b) % Base = b
  BY Z3
<1>4. a % Base = a
  BY Z3
<1> QED
  BY <1>1, <1>2, <1>3, <1>4 DEF U16

\* A length that fits two bytes is written as the two bytes it is read from.
LEMMA NumberBytes ==
    ASSUME NEW n \in 0..MaxDatagram
    PROVE  /\ U16(n) \in Seq(Byte) /\ Len(U16(n)) = 2
           /\ U16(n)[1] * Base + U16(n)[2] = n
<1> USE BaseAssumption DEF Byte, MaxDatagram
<1>1. n \in Nat /\ n < Base * Base
  BY Z3
<1>2. n % Base \in 0 .. Base - 1 /\ n = (n \div Base) * Base + (n % Base) /\ n \div Base \in Nat
  BY <1>1, Z3
<1>3. n \div Base < Base
  BY <1>1, <1>2, Z3
<1>4. (n \div Base) % Base = n \div Base
  BY <1>2, <1>3, Z3
<1>5. U16(n) = <<n \div Base, n % Base>>
  BY <1>4 DEF U16
<1> QED
  BY <1>2, <1>3, <1>5

\* The shorter and the longer of two lengths.
LEMMA MinMax ==
    ASSUME NEW i \in Nat, NEW j \in Nat
    PROVE  /\ Min({i, j}) = IF i <= j THEN i ELSE j
           /\ Max({i, j}) = IF i <= j THEN j ELSE i
  BY DEF Min, Max

\* What read_exact returns, and what has been taken once it has.
LEMMA ReadExact ==
    ASSUME TypeOK, NEW n \in Nat, pos + n <= Len(wire)
    PROVE  /\ Bytes(n) \in Seq(Byte) /\ Len(Bytes(n)) = n
           /\ SubSeq(wire, 1, pos + n) = SubSeq(wire, 1, pos) \o Bytes(n)
<1>1. wire \in Seq(Byte) /\ pos \in 0 .. Len(wire) /\ Len(wire) \in Nat
  BY DEF TypeOK
<1>2. \A i \in pos + 1 .. pos + n : wire[i] \in Byte
  <2>1. \A i \in pos + 1 .. pos + n : i \in 1 .. Len(wire)
    BY <1>1
  <2> QED
    BY <1>1, <2>1, ElementOfSeq
<1>3. Bytes(n) \in Seq(Byte) /\ Len(Bytes(n)) = n
  BY <1>1, <1>2, SubSeqProperties DEF Bytes
<1>4. SubSeq(wire, 1, pos) \o SubSeq(wire, pos + 1, pos + n) = SubSeq(wire, 1, pos + n)
  <2>1. 1 \in 1 .. Len(wire) + 1 /\ pos \in 1 - 1 .. Len(wire) /\ pos + n \in pos .. Len(wire)
    BY <1>1
  <2> QED
    BY <1>1, <2>1, ConcatAdjacentSubSeq
<1> QED
  BY <1>3, <1>4 DEF Bytes

\* read_u8 and read_u16.
LEMMA ReadNumber ==
    ASSUME TypeOK
    PROVE  /\ pos + 1 <= Len(wire) =>
                 Bytes(1)[1] \in Byte /\ Bytes(1) = <<Bytes(1)[1]>>
           /\ pos + 2 <= Len(wire) =>
                 LET n == Bytes(2)[1] * Base + Bytes(2)[2]
                 IN  n \in 0..MaxDatagram /\ Bytes(2) = U16(n)
<1>1. ASSUME pos + 1 <= Len(wire)
      PROVE  Bytes(1)[1] \in Byte /\ Bytes(1) = <<Bytes(1)[1]>>
  <2>1. Bytes(1) \in Seq(Byte) /\ Len(Bytes(1)) = 1
    BY <1>1, ReadExact
  <2> HIDE DEF Bytes
  <2>2. Bytes(1)[1] \in Byte
    BY <2>1, ElementOfSeq
  <2> QED
    BY <2>1, <2>2
<1>2. ASSUME pos + 2 <= Len(wire)
      PROVE  /\ Bytes(2)[1] * Base + Bytes(2)[2] \in 0..MaxDatagram
             /\ Bytes(2) = U16(Bytes(2)[1] * Base + Bytes(2)[2])
  <2>1. Bytes(2) \in Seq(Byte) /\ Len(Bytes(2)) = 2
    BY <1>2, ReadExact
  <2>2. Bytes(2)[1] \in Byte /\ Bytes(2)[2] \in Byte
    BY <2>1, ElementOfSeq
  <2>3. Bytes(2) = <<Bytes(2)[1], Bytes(2)[2]>>
    BY <2>1, <2>2
  <2> QED
    BY <2>2, <2>3, TwoBytes
<1> QED
  BY <1>1, <1>2

\* What is left when a field has been read off the front of what was coming.
LEMMA TakeField ==
    ASSUME TypeOK, NEW f \in Seq(Byte), NEW r \in Seq(Byte),
           SubSeq(wire, pos + 1, Len(wire)) = f \o r
    PROVE  /\ pos + Len(f) <= Len(wire)
           /\ Bytes(Len(f)) = f
           /\ SubSeq(wire, pos + Len(f) + 1, Len(wire)) = r
<1> DEFINE rest == SubSeq(wire, pos + 1, Len(wire))
           n == Len(f)
<1>1. wire \in Seq(Byte) /\ pos \in 0 .. Len(wire) /\ Len(wire) \in Nat /\ n \in Nat
  BY DEF TypeOK
<1>2. \A i \in 1 .. Len(wire) : wire[i] \in Byte
  BY <1>1, ElementOfSeq
<1>3. /\ Len(rest) = Len(wire) - pos
      /\ \A i \in 1 .. Len(wire) - pos : rest[i] = wire[pos + i]
  <2>1. \A i \in pos + 1 .. Len(wire) : wire[i] \in Byte
    BY <1>1, <1>2
  <2> QED
    BY <1>1, <2>1, SubSeqProperties
<1>4. /\ Len(rest) = n + Len(r) /\ Len(r) \in Nat
      /\ \A i \in 1 .. n + Len(r) : rest[i] = IF i <= n THEN f[i] ELSE r[i - n]
  <2>1. rest = f \o r
    OBVIOUS
  <2> HIDE DEF rest
  <2> QED
    BY <2>1, ConcatProperties
<1>5. pos + n <= Len(wire)
  BY <1>1, <1>3, <1>4
<1>6. Bytes(n) = f
  <2>1. Bytes(n) \in Seq(Byte) /\ Len(Bytes(n)) = n
    BY <1>1, <1>5, ReadExact
  <2>2. \A i \in 1 .. n : Bytes(n)[i] = wire[pos + i]
    <3>1. \A i \in pos + 1 .. pos + n : wire[i] \in Byte
      BY <1>1, <1>2, <1>5
    <3> QED
      BY <1>1, <3>1, SubSeqProperties DEF Bytes
  <2> HIDE DEF rest
  <2>3. \A i \in 1 .. n : Bytes(n)[i] = f[i]
    <3> TAKE i \in 1 .. n
    <3>1. i \in 1 .. Len(wire) - pos /\ i \in 1 .. n + Len(r) /\ i <= n
      BY <1>1, <1>4, <1>5
    <3>2. rest[i] = wire[pos + i] /\ rest[i] = f[i]
      BY <1>3, <1>4, <3>1
    <3> QED
      BY <2>2, <3>2
  <2> QED
    BY <2>1, <2>3, SeqEqual
<1>7. SubSeq(wire, pos + n + 1, Len(wire)) = r
  <2> DEFINE tail == SubSeq(wire, pos + n + 1, Len(wire))
  <2>1. /\ tail \in Seq(Byte)
        /\ Len(tail) = Len(wire) - (pos + n)
        /\ \A i \in 1 .. Len(wire) - (pos + n) : tail[i] = wire[pos + n + i]
    <3>1. \A i \in pos + n + 1 .. Len(wire) : wire[i] \in Byte
      BY <1>1, <1>2
    <3> QED
      BY <1>1, <1>5, <3>1, SubSeqProperties
  <2> HIDE DEF tail, rest
  <2>2. \A i \in 1 .. Len(r) : tail[i] = r[i]
    <3> TAKE i \in 1 .. Len(r)
    <3>1. tail[i] = wire[pos + (n + i)]
      BY <1>1, <1>3, <1>4, <2>1
    <3>2. /\ n + i \in 1 .. Len(wire) - pos /\ n + i \in 1 .. n + Len(r)
          /\ ~(n + i <= n) /\ (n + i) - n = i
      BY <1>1, <1>3, <1>4
    <3>3. rest[n + i] = wire[pos + (n + i)] /\ rest[n + i] = r[i]
      BY <1>3, <1>4, <3>2
    <3> QED
      BY <3>1, <3>3
  <2>3. Len(tail) = Len(r)
    BY <1>1, <1>3, <1>4, <2>1
  <2>4. tail = r
    BY <2>1, <2>2, <2>3, SeqEqual
  <2> QED
    BY <2>4 DEF tail
<1> QED
  BY <1>5, <1>6, <1>7

-----------------------------------------------------------------------------
(* What writers put together *)

\* Concatenation and a single byte under names of their own, so that the
\* provers need not look into them.
Cat(s, t) == s \o t
One(b) == <<b>>

LEMMA CatBytes == \A s, t \in Seq(Byte) : Cat(s, t) \in Seq(Byte)
  BY ConcatProperties DEF Cat

LEMMA CatAssoc ==
    \A s, t, u \in Seq(Byte) : Cat(Cat(s, t), u) = Cat(s, Cat(t, u))
  BY ConcatAssociative DEF Cat

LEMMA OneBytes == \A b \in Byte : One(b) \in Seq(Byte) /\ Len(One(b)) = 1
  BY DEF One

\* A text is cut to what its length byte counts, and only if it is longer.
LEMMA Truncated ==
    ASSUME NEW s \in Text
    PROVE  /\ Truncate(s) \in Text /\ Len(Truncate(s)) \in 0..MaxLen
           /\ Len(s) <= MaxLen => Truncate(s) = s
<1> USE BaseAssumption DEF MaxLen, Text
<1>1. Len(s) \in Nat /\ MaxLen \in Nat
  OBVIOUS
<1>2. Min({Len(s), MaxLen}) = IF Len(s) <= MaxLen THEN Len(s) ELSE MaxLen
  BY <1>1, MinMax
<1>3. CASE Len(s) <= MaxLen
  <2>1. Truncate(s) = s
    BY <1>2, <1>3, SubSeqFull DEF Truncate
  <2> QED
    BY <1>1, <1>3, <2>1
<1>4. CASE ~(Len(s) <= MaxLen)
  <2>1. Truncate(s) = SubSeq(s, 1, MaxLen)
    BY <1>2, <1>4 DEF Truncate
  <2>2. \A i \in 1 .. MaxLen : s[i] \in Byte
    BY <1>1, <1>4, ElementOfSeq
  <2>3. Truncate(s) \in Seq(Byte) /\ Len(Truncate(s)) = MaxLen
    BY <1>1, <2>1, <2>2, SubSeqProperties
  <2> QED
    BY <1>1, <1>4, <2>3
<1> QED
  BY <1>3, <1>4

\* The length byte of a text that is not too long is its length.
LEMMA LengthBytes ==
    ASSUME NEW s \in Text, Len(s) <= MaxLen
    PROVE  Len(s) \in Byte /\ LengthByte(s) = One(Len(s)) /\ One(Len(s)) \in Seq(Byte)
<1> USE BaseAssumption DEF MaxLen, Text, Byte
<1>1. Len(s) \in 0 .. Base - 1
  OBVIOUS
<1>2. Len(s) % Base = Len(s)
  BY <1>1, Z3
<1> QED
  BY <1>1, <1>2, OneBytes DEF LengthByte, One

\* Four and five pieces, from the left and from the right.
LEMMA CatFour ==
    ASSUME NEW s \in Seq(Byte), NEW t \in Seq(Byte), NEW u \in Seq(Byte), NEW v \in Seq(Byte)
    PROVE  /\ Cat(Cat(Cat(s, t), u), v) = Cat(s, Cat(t, Cat(u, v)))
           /\ Cat(Cat(Cat(s, t), u), v) \in Seq(Byte)
<1>1. Cat(s, t) \in Seq(Byte) /\ Cat(u, v) \in Seq(Byte)
  BY CatBytes
<1>2. Cat(Cat(s, t), u) \in Seq(Byte)
  BY <1>1, CatBytes
<1>3. Cat(Cat(Cat(s, t), u), v) = Cat(Cat(s, t), Cat(u, v))
  BY <1>1, CatAssoc
<1>4. Cat(Cat(s, t), Cat(u, v)) = Cat(s, Cat(t, Cat(u, v)))
  BY <1>1, CatAssoc
<1> QED
  BY <1>2, <1>3, <1>4, CatBytes

LEMMA CatFive ==
    ASSUME NEW s \in Seq(Byte), NEW t \in Seq(Byte), NEW u \in Seq(Byte), NEW v \in Seq(Byte),
           NEW w \in Seq(Byte)
    PROVE  Cat(Cat(Cat(Cat(s, t), u), v), w) = Cat(s, Cat(t, Cat(u, Cat(v, w))))
<1>1. Cat(Cat(s, t), u) \in Seq(Byte)
  <2>1. Cat(s, t) \in Seq(Byte)
    BY CatBytes
  <2> QED
    BY <2>1, CatBytes
<1>2. Cat(v, w) \in Seq(Byte)
  BY CatBytes
<1>3. Cat(Cat(Cat(Cat(s, t), u), v), w) = Cat(Cat(Cat(s, t), u), Cat(v, w))
  BY <1>1, CatAssoc
<1>4. Cat(Cat(Cat(s, t), u), Cat(v, w)) = Cat(s, Cat(t, Cat(u, Cat(v, w))))
  BY <1>2, CatFour
<1> QED
  BY <1>3, <1>4

LEMMA CatRegroup ==
    ASSUME NEW w \in Seq(Byte), NEW s \in Seq(Byte), NEW t \in Seq(Byte), NEW u \in Seq(Byte),
           NEW v \in Seq(Byte)
    PROVE  Cat(w, Cat(Cat(Cat(s, t), u), v)) = Cat(Cat(Cat(Cat(w, s), t), u), v)
  BY CatFour, CatFive

\* The constants of the protocol are bytes.
LEMMA ProtocolBytes ==
    /\ Magic \in Seq(Byte) /\ Len(Magic) = 2
    /\ One(VERSION) \in Seq(Byte) /\ One(3) \in Seq(Byte)
    /\ Cmds \subseteq Byte /\ Statuses \subseteq Byte /\ Atyps \subseteq Byte
  BY BaseAssumption
  DEF Magic, VERSION, One, Byte, Cmds, Statuses, Atyps, ATYP_IPV4, ATYP_DOMAIN, ATYP_IPV6

\* What Request::read_from and Response::read_from have taken, field by field.
Opening(c) == Cat(Cat(Magic, One(VERSION)), One(c))
WithText(c, t) == Cat(Cat(Opening(c), One(Len(t))), t)
WithAtyp(c, t, a) == Cat(WithText(c, t), One(a))
HostLen(a, n) == IF a = ATYP_DOMAIN THEN One(n) ELSE <<>>
WithHost(c, t, a, h) == Cat(Cat(WithAtyp(c, t, a), HostLen(a, Len(h))), h)

\* Those are the pieces of an encoded response ...
LEMMA ResponseEncoded ==
    ASSUME NEW c \in Byte, NEW t \in Text, Len(t) <= MaxLen
    PROVE  EncodeResponse([status |-> c, message |-> t]) = WithText(c, t)
<1>1. Truncate(t) = t /\ LengthByte(t) = One(Len(t))
  BY Truncated, LengthBytes
<1>2. Magic \o <<VERSION, c>> = Opening(c)
  BY DEF Magic, Opening, Cat, One
<1> QED
  BY <1>1, <1>2 DEF EncodeResponse, WithText, Cat

\* ... and of an encoded request, up to its port.
LEMMA RequestEncoded ==
    ASSUME NEW c \in Byte, NEW t \in Text, Len(t) <= MaxLen,
           NEW a \in Byte, NEW h \in Text, Len(h) <= MaxLen, NEW n \in 0..MaxDatagram
    PROVE  EncodeRequest([cmd |-> c, token |-> t,
                          target |-> [atyp |-> a, host |-> h, port |-> n]])
             = Cat(WithHost(c, t, a, h), U16(n))
<1> DEFINE u == U16(n)
           L == HostLen(a, Len(h))
           adr == Cat(Cat(Cat(One(a), L), h), u)
<1>1. Truncate(h) = h /\ LengthByte(h) = One(Len(h)) /\ Len(h) \in Byte
  BY Truncated, LengthBytes
<1>2. LengthByte(t) = One(Len(t)) /\ Len(t) \in Byte
  BY LengthBytes
<1>3. u \in Seq(Byte)
  BY NumberBytes
<1>4. EncodeAddress([atyp |-> a, host |-> h, port |-> n]) = adr
  <2>1. One(a) \o <<>> = One(a)
    BY DEF One
  <2> QED
    BY <1>1, <2>1 DEF EncodeAddress, HostLen, Cat, One
<1>5. Magic \o <<VERSION, c>> = Opening(c)
  BY DEF Magic, Opening, Cat, One
<1>6. EncodeRequest([cmd |-> c, token |-> t, target |-> [atyp |-> a, host |-> h, port |-> n]])
        = Cat(WithText(c, t), adr)
  <2>1. ~(Len(t) > MaxLen)
    BY <1>2, BaseAssumption DEF MaxLen, Byte
  <2> HIDE DEF adr
  <2> QED
    BY <2>1, <1>2, <1>4, <1>5 DEF EncodeRequest, WithText, Cat
<1>7. L \in Seq(Byte) /\ One(a) \in Seq(Byte) /\ h \in Seq(Byte) /\ t \in Seq(Byte)
      /\ One(Len(t)) \in Seq(Byte) /\ One(c) \in Seq(Byte)
  BY <1>1, <1>2, OneBytes DEF Text, HostLen
<1>8. WithText(c, t) \in Seq(Byte)
  BY <1>7, ProtocolBytes, CatBytes DEF WithText, Opening
<1>9. Cat(WithText(c, t), adr) = Cat(Cat(Cat(Cat(WithText(c, t), One(a)), L), h), u)
  <2> HIDE DEF L, u
  <2> QED
    BY <1>3, <1>7, <1>8, CatRegroup
<1> QED
  BY <1>6, <1>9 DEF WithHost, WithAtyp

\* What is still to come of a request, of which field it begins with, and of the
\* byte behind it.
Behind == One(3)
FromPort(m) == Cat(U16(m.target.port), Behind)
FromHost(m) == Cat(Truncate(m.target.host), FromPort(m))
FromHostLen(m) == Cat(One(Len(Truncate(m.target.host))), FromHost(m))
FromAtyp(m) ==
    Cat(One(m.target.atyp), IF m.target.atyp = ATYP_DOMAIN THEN FromHostLen(m) ELSE FromHost(m))
FromToken(m) == Cat(m.token, FromAtyp(m))
FromTokenLen(m) == Cat(One(Len(m.token)), FromToken(m))
FromCmd(m) == Cat(One(m.cmd), FromTokenLen(m))

\* ... and of a response.
FromMsg(m) == Cat(Truncate(m.message), Behind)
FromMsgLen(m) == Cat(One(Len(Truncate(m.message))), FromMsg(m))
FromStatus(m) == Cat(One(m.status), FromMsgLen(m))

FromVersion(rest) == Cat(One(VERSION), rest)
FromMagic(rest) == Cat(Magic, FromVersion(rest))

\* The host of an address that is no name is as long as its family says, and
\* is not truncated.
LEMMA HostLength ==
    ASSUME NEW m \in Requests
    PROVE  /\ m.target.host \in Text /\ m.target.atyp \in Byte
           /\ m.target.atyp # ATYP_DOMAIN =>
                 /\ Truncate(m.target.host) = m.target.host
                 /\ Len(m.target.host) = AddressLen(m.target.atyp)
<1>1. m.target.host \in Text /\ m.target.atyp \in Atyps
  BY RequestsAssumption
<1>2. ASSUME m.target.atyp # ATYP_DOMAIN
      PROVE  Len(m.target.host) = AddressLen(m.target.atyp)
  BY <1>2, RequestsAssumption
<1>3. AddressLen(m.target.atyp) <= MaxLen
  BY BaseAssumption DEF AddressLen, MaxLen
<1> QED
  BY <1>1, <1>2, <1>3, Truncated, ProtocolBytes

\* Every field a request is made of is a sequence of bytes.
LEMMA RequestFields ==
    ASSUME NEW m \in Requests, Len(m.token) <= MaxLen
    PROVE  /\ One(m.cmd) \in Seq(Byte) /\ m.token \in Seq(Byte) /\ One(Len(m.token)) \in Seq(Byte)
           /\ One(m.target.atyp) \in Seq(Byte) /\ Truncate(m.target.host) \in Seq(Byte)
           /\ One(Len(Truncate(m.target.host))) \in Seq(Byte)
           /\ U16(m.target.port) \in Seq(Byte) /\ Behind \in Seq(Byte)
           /\ FromPort(m) \in Seq(Byte) /\ FromHost(m) \in Seq(Byte)
           /\ FromHostLen(m) \in Seq(Byte) /\ FromAtyp(m) \in Seq(Byte)
           /\ FromToken(m) \in Seq(Byte) /\ FromTokenLen(m) \in Seq(Byte)
           /\ FromCmd(m) \in Seq(Byte) /\ FromVersion(FromCmd(m)) \in Seq(Byte)
<1>1. m.cmd \in Cmds /\ m.token \in Text /\ m.target.port \in 0..MaxDatagram
  BY RequestsAssumption
<1>2. One(m.cmd) \in Seq(Byte)
  BY <1>1, ProtocolBytes, OneBytes
<1>3. m.token \in Seq(Byte) /\ One(Len(m.token)) \in Seq(Byte)
  BY <1>1, LengthBytes DEF Text
<1>4. One(m.target.atyp) \in Seq(Byte)
  BY HostLength, OneBytes
<1>5. Truncate(m.target.host) \in Seq(Byte) /\ One(Len(Truncate(m.target.host))) \in Seq(Byte)
  BY HostLength, Truncated, OneBytes, BaseAssumption DEF Text, MaxLen, Byte
<1>6. U16(m.target.port) \in Seq(Byte) /\ Behind \in Seq(Byte)
  BY <1>1, NumberBytes, ProtocolBytes DEF Behind
<1>7. FromPort(m) \in Seq(Byte)
  BY <1>6, CatBytes DEF FromPort
<1>8. FromHost(m) \in Seq(Byte)
  BY <1>5, <1>7, CatBytes DEF FromHost
<1>9. FromHostLen(m) \in Seq(Byte)
  BY <1>5, <1>8, CatBytes DEF FromHostLen
<1>10. FromAtyp(m) \in Seq(Byte)
  BY <1>4, <1>8, <1>9, CatBytes DEF FromAtyp
<1>11. FromToken(m) \in Seq(Byte)
  BY <1>3, <1>10, CatBytes DEF FromToken
<1>12. FromTokenLen(m) \in Seq(Byte)
  BY <1>3, <1>11, CatBytes DEF FromTokenLen
<1>13. FromCmd(m) \in Seq(Byte)
  BY <1>2, <1>12, CatBytes DEF FromCmd
<1>14. FromVersion(FromCmd(m)) \in Seq(Byte)
  BY <1>13, ProtocolBytes, CatBytes DEF FromVersion
<1> QED
  BY <1>2, <1>3, <1>4, <1>5, <1>6, <1>7, <1>8, <1>9, <1>10, <1>11, <1>12, <1>13, <1>14

\* A request on the wire is its fields in the order they are read.
LEMMA RequestStream ==
    ASSUME NEW m \in Requests, Len(m.token) <= MaxLen
    PROVE  Stream("request", m) = FromMagic(FromCmd(m))
<1> DEFINE T == m.token
           h == Truncate(m.target.host)
           u == U16(m.target.port)
           adr == EncodeAddress(m.target)
           vc == <<VERSION, m.cmd>>
<1>1. m.token \in Text /\ m.target.host \in Text
  BY RequestsAssumption
<1>2. LengthByte(T) = One(Len(T))
  BY <1>1, LengthBytes
<1>3. LengthByte(h) = One(Len(h))
  BY <1>1, Truncated, LengthBytes
<1>4. Cat(adr, Behind) = FromAtyp(m) /\ adr \in Seq(Byte)
  <2>1. One(m.target.atyp) \in Seq(Byte) /\ h \in Seq(Byte) /\ u \in Seq(Byte)
        /\ One(Len(h)) \in Seq(Byte) /\ Behind \in Seq(Byte)
    BY RequestFields
  <2>2. CASE m.target.atyp = ATYP_DOMAIN
    <3>1. adr = Cat(Cat(Cat(One(m.target.atyp), One(Len(h))), h), u)
      BY <1>3, <2>2 DEF EncodeAddress, Cat, One
    <3>2. FromAtyp(m) = Cat(One(m.target.atyp), Cat(One(Len(h)), Cat(h, Cat(u, Behind))))
      BY <2>2 DEF FromAtyp, FromHostLen, FromHost, FromPort
    <3> HIDE DEF adr, h, u
    <3>3. Cat(adr, Behind) = FromAtyp(m)
      BY <2>1, <3>1, <3>2, CatFive
    <3>4. adr \in Seq(Byte)
      BY <2>1, <3>1, CatFour
    <3> QED
      BY <3>3, <3>4
  <2>3. CASE m.target.atyp # ATYP_DOMAIN
    <3>1. adr = Cat(Cat(One(m.target.atyp), h), u)
      BY <2>3, HostLength DEF EncodeAddress, Cat, One
    <3>2. FromAtyp(m) = Cat(One(m.target.atyp), Cat(h, Cat(u, Behind)))
      BY <2>3 DEF FromAtyp, FromHost, FromPort
    <3> HIDE DEF adr, h, u
    <3>3. Cat(adr, Behind) = FromAtyp(m)
      BY <2>1, <3>1, <3>2, CatFour
    <3>4. Cat(One(m.target.atyp), h) \in Seq(Byte)
      BY <2>1, CatBytes
    <3>5. adr \in Seq(Byte)
      BY <2>1, <3>1, <3>4, CatBytes
    <3> QED
      BY <3>3, <3>5
  <2> QED
    BY <2>2, <2>3
<1> HIDE DEF T, adr, vc
<1>5. T \in Seq(Byte) /\ One(Len(T)) \in Seq(Byte) /\ Behind \in Seq(Byte)
      /\ One(m.cmd) \in Seq(Byte) /\ FromAtyp(m) \in Seq(Byte)
      /\ FromTokenLen(m) \in Seq(Byte)
  BY RequestFields DEF T
<1>6. vc \in Seq(Byte) /\ vc = Cat(One(VERSION), One(m.cmd))
  <2>1. vc = Cat(One(VERSION), One(m.cmd))
    BY DEF vc, Cat, One
  <2> QED
    BY <1>5, <2>1, ProtocolBytes, CatBytes
<1>7. Stream("request", m) = Cat(Cat(Cat(Cat(Cat(Magic, vc), One(Len(T))), T), adr), Behind)
  <2>1. ~(Len(m.token) > MaxLen)
    BY <1>1, BaseAssumption DEF Text, MaxLen
  <2> QED
    BY <1>2, <2>1 DEF Stream, Encode, EncodeRequest, Behind, T, adr, vc, Cat, One
<1>8. Stream("request", m) = Cat(Magic, Cat(vc, Cat(One(Len(T)), Cat(T, Cat(adr, Behind)))))
  <2>1. Magic \in Seq(Byte)
    BY ProtocolBytes
  <2>2. Cat(Cat(Cat(Magic, vc), One(Len(T))), T) \in Seq(Byte)
    BY <1>5, <1>6, <2>1, CatFour
  <2>3. Stream("request", m) = Cat(Cat(Cat(Cat(Magic, vc), One(Len(T))), T), Cat(adr, Behind))
    BY <1>4, <1>5, <1>7, <2>2, CatAssoc
  <2> QED
    BY <1>4, <1>5, <1>6, <2>1, <2>3, CatFive
<1>9. Cat(One(Len(T)), Cat(T, FromAtyp(m))) = FromTokenLen(m)
  BY DEF T, FromTokenLen, FromToken
<1>10. Cat(vc, FromTokenLen(m)) = Cat(One(VERSION), Cat(One(m.cmd), FromTokenLen(m)))
  BY <1>5, <1>6, ProtocolBytes, CatAssoc
<1> QED
  BY <1>4, <1>8, <1>9, <1>10 DEF FromMagic, FromVersion, FromCmd

\* The same for a response, whose message may have been cut.
LEMMA ResponseFields ==
    ASSUME NEW m \in Responses
    PROVE  /\ m.status \in Statuses /\ m.message \in Text
           /\ One(m.status) \in Seq(Byte) /\ Truncate(m.message) \in Seq(Byte)
           /\ One(Len(Truncate(m.message))) \in Seq(Byte) /\ Behind \in Seq(Byte)
           /\ FromMsg(m) \in Seq(Byte) /\ FromMsgLen(m) \in Seq(Byte)
           /\ FromStatus(m) \in Seq(Byte) /\ FromVersion(FromStatus(m)) \in Seq(Byte)
<1>1. m.status \in Statuses /\ m.message \in Text
  BY ResponsesAssumption
<1>2. One(m.status) \in Seq(Byte) /\ Behind \in Seq(Byte) /\ One(VERSION) \in Seq(Byte)
  BY <1>1, ProtocolBytes, OneBytes DEF Behind
<1>3. Truncate(m.message) \in Seq(Byte) /\ One(Len(Truncate(m.message))) \in Seq(Byte)
  BY <1>1, Truncated, OneBytes, BaseAssumption DEF Text, MaxLen, Byte
<1>4. FromMsg(m) \in Seq(Byte)
  BY <1>2, <1>3, CatBytes DEF FromMsg
<1>5. FromMsgLen(m) \in Seq(Byte)
  BY <1>3, <1>4, CatBytes DEF FromMsgLen
<1>6. FromStatus(m) \in Seq(Byte)
  BY <1>2, <1>5, CatBytes DEF FromStatus
<1>7. FromVersion(FromStatus(m)) \in Seq(Byte)
  BY <1>2, <1>6, CatBytes DEF FromVersion
<1> QED
  BY <1>1, <1>2, <1>3, <1>4, <1>5, <1>6, <1>7

LEMMA ResponseStream ==
    ASSUME NEW m \in Responses
    PROVE  Stream("response", m) = FromMagic(FromStatus(m))
<1> DEFINE t == Truncate(m.message)
           vs == <<VERSION, m.status>>
<1>1. LengthByte(t) = One(Len(t))
  BY ResponseFields, Truncated, LengthBytes
<1> HIDE DEF t, vs
<1>2. t \in Seq(Byte) /\ One(Len(t)) \in Seq(Byte) /\ Behind \in Seq(Byte)
      /\ One(m.status) \in Seq(Byte) /\ One(VERSION) \in Seq(Byte) /\ Magic \in Seq(Byte)
      /\ FromMsgLen(m) \in Seq(Byte)
  BY ResponseFields, ProtocolBytes DEF t
<1>3. vs = Cat(One(VERSION), One(m.status))
  BY DEF vs, Cat, One
<1>4. vs \in Seq(Byte)
  BY <1>2, <1>3, CatBytes
<1>5. Stream("response", m) = Cat(Cat(Cat(Cat(Magic, vs), One(Len(t))), t), Behind)
  BY <1>1 DEF Stream, Encode, EncodeResponse, Behind, t, vs, Cat, One
<1>6. Stream("response", m) = Cat(Magic, Cat(vs, Cat(One(Len(t)), Cat(t, Behind))))
  BY <1>2, <1>4, <1>5, CatFive
<1>7. Cat(One(Len(t)), Cat(t, Behind)) = FromMsgLen(m)
  BY DEF t, FromMsgLen, FromMsg
<1>8. Cat(vs, FromMsgLen(m)) = Cat(One(VERSION), Cat(One(m.status), FromMsgLen(m)))
  BY <1>2, <1>3, CatAssoc
<1> QED
  BY <1>6, <1>7, <1>8 DEF FromMagic, FromVersion, FromStatus

\* A token that is too long keeps the request off the wire.
LEMMA RequestTooLong ==
    ASSUME NEW m \in Requests, ~(Len(m.token) <= MaxLen)
    PROVE  Stream("request", m) = Behind
<1>1. m.token \in Text
  BY RequestsAssumption
<1>2. Len(m.token) > MaxLen
  BY <1>1, BaseAssumption DEF Text, MaxLen
<1>3. EncodeRequest(m) = <<>>
  BY <1>2 DEF EncodeRequest
<1>4. <<>> \o <<3>> = <<3>>
  OBVIOUS
<1> QED
  BY <1>3, <1>4 DEF Stream, Encode, Behind, One

\* Whatever is written is bytes.
LEMMA StreamBytes ==
    /\ \A m \in Requests : Stream("request", m) \in Seq(Byte)
    /\ \A m \in Responses : Stream("response", m) \in Seq(Byte)
<1>1. ASSUME NEW m \in Requests PROVE Stream("request", m) \in Seq(Byte)
  <2>1. CASE Len(m.token) <= MaxLen
    BY <2>1, RequestFields, RequestStream, ProtocolBytes, CatBytes DEF FromMagic
  <2>2. CASE ~(Len(m.token) <= MaxLen)
    BY <2>2, RequestTooLong, ProtocolBytes DEF Behind
  <2> QED
    BY <2>1, <2>2
<1>2. ASSUME NEW m \in Responses PROVE Stream("response", m) \in Seq(Byte)
  BY ResponseFields, ResponseStream, ProtocolBytes, CatBytes DEF FromMagic
<1> QED
  BY <1>1, <1>2

-----------------------------------------------------------------------------
(* Types *)

LEMMA TypeInit == Init => TypeOK
<1> SUFFICES ASSUME Init PROVE TypeOK
  OBVIOUS
<1>1. wire \in Seq(Byte)
  <2>1. ASSUME NEW s \in Seq(Byte), NEW i \in 1 .. Len(s)
        PROVE  SubSeq(s, 1, i - 1) \in Seq(Byte)
    <3>1. \A j \in 1 .. i - 1 : s[j] \in Byte
      BY ElementOfSeq
    <3> QED
      BY <3>1, SubSeqProperties
  <2>2. ASSUME NEW s \in Seq(Byte), NEW i \in 1 .. Len(s), NEW b \in Byte
        PROVE  [s EXCEPT ![i] = b] \in Seq(Byte)
    BY ExceptSeq
  <2>3. CASE MessageInit
    <3>1. Stream(kind, sent) \in Seq(Byte)
      BY <2>3, StreamBytes DEF MessageInit
    <3> QED
      BY <2>1, <2>2, <2>3, <3>1 DEF MessageInit
  <2>4. CASE DatagramsInit
    BY <2>4 DEF DatagramsInit
  <2> QED
    BY <2>3, <2>4 DEF Init
<1>2. pos \in 0 .. Len(wire)
  BY <1>1 DEF Init
<1>3. /\ kind \in {"request", "response", "datagrams"}
      /\ open \in BOOLEAN /\ intact \in BOOLEAN
      /\ at \in {"magic", "datagramLen"}
  BY DEF Init, MessageInit, DatagramsInit
<1>4. at \in DOMAIN Width
  BY <1>3 DEF Width
<1>5. 0 \in Byte /\ 0 \in 0..MaxDatagram
  <2>1. Base * Base \in Nat /\ Base * Base >= 1
    BY BaseAssumption, Z3
  <2> QED
    BY <2>1, BaseAssumption DEF Byte, MaxDatagram
<1>6. /\ <<>> \in Text /\ <<>> \in Seq(Byte \cup {Replacement})
      /\ <<>> \in Seq(Seq(Byte))
  BY DEF Text
<1>7. got \in [cmd : Byte, len : 0..MaxDatagram, token : Text, atyp : Byte, host : Text,
               port : 0..MaxDatagram, status : Byte,
               message : Seq(Byte \cup {Replacement}), payloads : Seq(Seq(Byte))]
  BY <1>5, <1>6 DEF Init
<1> QED
  BY <1>1, <1>2, <1>3, <1>4, <1>7 DEF TypeOK

\* What the reader has read so far.
GotType ==
    [cmd : Byte, len : 0..MaxDatagram, token : Text, atyp : Byte, host : Text,
     port : 0..MaxDatagram, status : Byte,
     message : Seq(Byte \cup {Replacement}), payloads : Seq(Seq(Byte))]

\* A byte is also a length.
LEMMA ByteLengths == Byte \subseteq 0..MaxDatagram
<1>1. Base * Base >= Base
  BY BaseAssumption, Z3
<1> QED
  BY <1>1, BaseAssumption, Z3 DEF Byte, MaxDatagram

\* from_utf8_lossy keeps the length, and puts nothing but U+FFFD into a text.
LEMMA LossyText ==
    ASSUME NEW s \in Text
    PROVE  Lossy(s) \in Seq(Byte \cup {Replacement})
<1>1. Lossy(s) = [i \in 1 .. Len(s) |-> IF Stray(s, i) THEN Replacement ELSE s[i]]
  BY LenProperties DEF Lossy, Text
<1>2. \A i \in 1 .. Len(s) : (IF Stray(s, i) THEN Replacement ELSE s[i]) \in Byte \cup {Replacement}
  BY ElementOfSeq DEF Text
<1>3. Len(s) \in Nat
  BY DEF Text
<1> QED
  BY <1>1, <1>2, <1>3

\* Every read leaves the stream alone and takes no more than it holds; what it
\* stores has the width of its field.
LEMMA TypeStep == TypeOK /\ [Next]_vars => TypeOK'
<1> SUFFICES ASSUME TypeOK, [Next]_vars PROVE TypeOK'
  OBVIOUS
<1> DEFINE stays == kind' = kind /\ open' = open /\ intact' = intact /\ wire' = wire
<1>1. /\ got \in GotType /\ wire \in Seq(Byte) /\ pos \in 0 .. Len(wire) /\ Len(wire) \in Nat
      /\ at \in DOMAIN Width \cup {"done", "invalid", "eof"}
      /\ got.len \in Nat /\ DOMAIN Width' = DOMAIN Width
  <2>1. got \in GotType
    BY DEF TypeOK, GotType
  <2>2. got.len \in Nat
    BY <2>1, BaseAssumption DEF GotType, MaxDatagram
  <2> QED
    BY <2>1, <2>2 DEF TypeOK, Width
<1>2. ASSUME got' \in GotType, wire' \in Seq(Byte), pos' \in 0 .. Len(wire'),
             at' \in DOMAIN Width \cup {"done", "invalid", "eof"},
             kind' = kind, open' \in BOOLEAN, intact' \in BOOLEAN
      PROVE  TypeOK'
  BY <1>1, <1>2 DEF TypeOK, GotType
<1>3. ASSUME NEW f, NEW n \in Nat, Take(f, n), got' \in GotType,
             at' \in DOMAIN Width \cup {"done", "invalid", "eof"}
      PROVE  TypeOK'
  <2>1. stays /\ pos' = pos + n /\ pos + n <= Len(wire)
    BY <1>3 DEF Take
  <2>2. pos' \in 0 .. Len(wire')
    BY <1>1, <2>1
  <2>3. wire' \in Seq(Byte) /\ kind' = kind /\ open' \in BOOLEAN /\ intact' \in BOOLEAN
    BY <2>1 DEF TypeOK
  <2> QED
    BY <1>2, <1>3, <2>2, <2>3
<1>4. ASSUME NEW f, NEW n \in Nat, Take(f, n)
      PROVE  /\ Bytes(n) \in Text
             /\ n = 1 => Bytes(1)[1] \in Byte /\ Bytes(1)[1] \in 0..MaxDatagram
             /\ n = 2 => Bytes(2)[1] * Base + Bytes(2)[2] \in 0..MaxDatagram
  <2>1. pos + n <= Len(wire)
    BY <1>4 DEF Take
  <2> QED
    BY <2>1, ReadExact, ReadNumber, ByteLengths DEF Text
<1>6. {"magic", "version", "cmd", "tokenLen", "token", "atyp", "hostLen", "host",
       "port", "status", "msgLen", "msg", "datagramLen", "datagram"} = DOMAIN Width
  BY DEF Width
<1> HIDE DEF stays
<1>7. CASE ReadMagic
  <2>1. Take("magic", 2) /\ got' = got
    BY <1>7 DEF ReadMagic
  <2>2. at' \in {"version", "invalid"}
    BY <1>7 DEF ReadMagic, Then
  <2> QED
    BY <1>1, <1>3, <1>6, <2>1, <2>2
<1>8. CASE ReadVersion
  <2>1. Take("version", 1) /\ got' = got
    BY <1>8 DEF ReadVersion
  <2>2. at' \in {"cmd", "status", "invalid"}
    BY <1>8 DEF ReadVersion, Then
  <2> QED
    BY <1>1, <1>3, <1>6, <2>1, <2>2
<1>9. CASE ReadCmd
  <2>1. Take("cmd", 1) /\ got' = [got EXCEPT !.cmd = Bytes(1)[1]]
    BY <1>9 DEF ReadCmd, Store
  <2>2. at' \in {"tokenLen", "invalid"}
    BY <1>9 DEF ReadCmd, Then
  <2>3. got' \in GotType
    BY <1>1, <1>4, <2>1 DEF GotType
  <2> QED
    BY <1>3, <1>6, <2>1, <2>2, <2>3
<1>10. CASE ReadTokenLen \/ ReadHostLen \/ ReadMsgLen
  <2>1. PICK f \in {"tokenLen", "hostLen", "msgLen"} :
           /\ Take(f, 1) /\ got' = [got EXCEPT !.len = Bytes(1)[1]]
           /\ at' \in {"token", "host", "msg"}
    BY <1>10 DEF ReadTokenLen, ReadHostLen, ReadMsgLen, Store
  <2>2. got' \in GotType
    BY <1>1, <1>4, <2>1 DEF GotType
  <2> QED
    BY <1>3, <1>6, <2>1, <2>2
<1>11. CASE ReadToken
  <2>1. Take("token", got.len) /\ got' = [got EXCEPT !.token = Bytes(got.len)]
    BY <1>11 DEF ReadToken, Store
  <2>2. at' \in {"atyp", "invalid"}
    BY <1>11 DEF ReadToken, Then
  <2>3. got' \in GotType
    BY <1>1, <1>4, <2>1 DEF GotType
  <2> QED
    BY <1>1, <1>3, <1>6, <2>1, <2>2, <2>3
<1>12. CASE ReadAtyp
  <2>1. /\ Take("atyp", 1)
        /\ got' = [got EXCEPT !.atyp = Bytes(1)[1], !.len = AddressLen(Bytes(1)[1])]
    BY <1>12 DEF ReadAtyp
  <2>2. at' \in {"hostLen", "host", "invalid"}
    BY <1>12 DEF ReadAtyp, Then
  <2>3. AddressLen(Bytes(1)[1]) \in 0..MaxDatagram
    <3>1. 1 \in Byte /\ 2 \in Byte
      BY BaseAssumption DEF Byte
    <3> QED
      BY <3>1, ByteLengths DEF AddressLen
  <2>4. got' \in GotType
    BY <1>1, <1>4, <2>1, <2>3 DEF GotType
  <2> QED
    BY <1>3, <1>6, <2>1, <2>2, <2>4
<1>13. CASE ReadHost
  <2>1. /\ Take("host", got.len) /\ got' = [got EXCEPT !.host = Bytes(got.len)]
        /\ at' = "port"
    BY <1>13 DEF ReadHost, Store
  <2>2. got' \in GotType
    BY <1>1, <1>4, <2>1 DEF GotType
  <2> QED
    BY <1>1, <1>3, <1>6, <2>1, <2>2
<1>14. CASE ReadPort
  <2>1. Take("port", 2) /\ got' = [got EXCEPT !.port = Bytes(2)[1] * Base + Bytes(2)[2]]
    BY <1>14 DEF ReadPort, Store
  <2>2. at' \in {"done", "invalid"}
    BY <1>14 DEF ReadPort, Then
  <2>3. got' \in GotType
    BY <1>1, <1>4, <2>1 DEF GotType
  <2> QED
    BY <1>3, <1>6, <2>1, <2>2, <2>3
<1>15. CASE ReadStatus
  <2>1. Take("status", 1) /\ got' = [got EXCEPT !.status = Bytes(1)[1]]
    BY <1>15 DEF ReadStatus, Store
  <2>2. at' \in {"msgLen", "invalid"}
    BY <1>15 DEF ReadStatus, Then
  <2>3. got' \in GotType
    BY <1>1, <1>4, <2>1 DEF GotType
  <2> QED
    BY <1>3, <1>6, <2>1, <2>2, <2>3
<1>16. CASE ReadMsg
  <2>1. /\ Take("msg", got.len) /\ got' = [got EXCEPT !.message = Lossy(Bytes(got.len))]
        /\ at' = "done"
    BY <1>16 DEF ReadMsg, Store
  <2>2. Lossy(Bytes(got.len)) \in Seq(Byte \cup {Replacement})
    BY <1>1, <1>4, <2>1, LossyText
  <2>3. got' \in GotType
    BY <1>1, <2>1, <2>2 DEF GotType
  <2> QED
    BY <1>1, <1>3, <2>1, <2>3
<1>17. CASE \E p \in Payloads : WriteDatagram(p)
  <2>1. PICK p \in Payloads : WriteDatagram(p)
    BY <1>17
  <2>2. p \in Seq(Byte) /\ Len(p) \in 0..MaxDatagram
    <3>1. p \in Seq(Byte) /\ Len(p) <= MaxDatagram
      BY <2>1, PayloadsAssumption DEF WriteDatagram
    <3> QED
      BY <3>1, LenProperties, BaseAssumption DEF MaxDatagram
  <2>3. EncodeDatagram(p) \in Seq(Byte)
    BY <2>2, NumberBytes, ConcatProperties DEF EncodeDatagram
  <2> HIDE DEF EncodeDatagram
  <2>4. wire' \in Seq(Byte) /\ Len(wire') = Len(wire) + Len(EncodeDatagram(p))
    BY <1>1, <2>1, <2>3, ConcatProperties DEF WriteDatagram
  <2>5. pos' \in 0 .. Len(wire')
    <3>1. Len(EncodeDatagram(p)) \in Nat /\ pos' = pos
      BY <2>1, <2>3 DEF WriteDatagram
    <3> QED
      BY <1>1, <2>4, <3>1
  <2>6. got' = got /\ at' = at /\ kind' = kind /\ open' \in BOOLEAN /\ intact' \in BOOLEAN
    BY <2>1 DEF WriteDatagram, TypeOK
  <2> QED
    BY <1>1, <1>2, <2>4, <2>5, <2>6
<1>18. CASE EndStream
  <2>1. PICK n \in pos .. Len(wire) : wire' = SubSeq(wire, 1, n) /\ intact' = (n = Len(wire))
    BY <1>18 DEF EndStream
  <2>2. wire' \in Seq(Byte) /\ Len(wire') = n
    <3>1. n \in Nat /\ n <= Len(wire)
      BY <1>1
    <3>2. \A i \in 1 .. n : wire[i] \in Byte
      BY <1>1, <3>1, ElementOfSeq
    <3> QED
      BY <2>1, <3>1, <3>2, SubSeqProperties
  <2>3. got' = got /\ at' = at /\ kind' = kind /\ open' = FALSE /\ pos' = pos
    BY <1>18 DEF EndStream
  <2>4. pos' \in 0 .. Len(wire')
    BY <1>1, <2>2, <2>3
  <2>5. open' \in BOOLEAN /\ intact' \in BOOLEAN
    BY <2>1, <2>3
  <2> QED
    BY <1>1, <1>2, <2>2, <2>3, <2>4, <2>5
<1>19. CASE ReadDatagramLen
  <2>1. /\ Take("datagramLen", 2)
        /\ got' = [got EXCEPT !.len = Bytes(2)[1] * Base + Bytes(2)[2]] /\ at' = "datagram"
    BY <1>19 DEF ReadDatagramLen, Store
  <2>2. got' \in GotType
    BY <1>1, <1>4, <2>1 DEF GotType
  <2> QED
    BY <1>3, <1>6, <2>1, <2>2
<1>20. CASE ReadDatagram
  <2>1. /\ Take("datagram", got.len)
        /\ got' = [got EXCEPT !.payloads = Append(got.payloads, Bytes(got.len))]
        /\ at' = "datagramLen"
    BY <1>20 DEF ReadDatagram, Store
  <2>2. Append(got.payloads, Bytes(got.len)) \in Seq(Seq(Byte))
    <3>1. got.payloads \in Seq(Seq(Byte)) /\ Bytes(got.len) \in Seq(Byte)
      BY <1>1, <1>4, <2>1 DEF GotType, Text
    <3> HIDE DEF Bytes
    <3> QED
      BY <3>1, AppendProperties
  <2>3. got' \in GotType
    BY <1>1, <2>1, <2>2 DEF GotType
  <2> QED
    BY <1>1, <1>3, <1>6, <2>1, <2>3
<1>21. CASE ReadEof
  <2>1. /\ got' = got /\ wire' = wire /\ pos' = pos /\ at' = "eof" /\ kind' = kind
        /\ open' = open /\ intact' = intact
    BY <1>21 DEF ReadEof
  <2> QED
    BY <1>1, <1>2, <2>1 DEF TypeOK
<1>22. CASE UNCHANGED vars
  BY <1>1, <1>22 DEF TypeOK, vars
<1> QED
  BY <1>7, <1>8, <1>9, <1>10, <1>11, <1>12, <1>13, <1>14, <1>15, <1>16, <1>17, <1>18, <1>19,
     <1>20, <1>21, <1>22 DEF Next

\* Every reachable state is well typed: the reader takes nothing that has not
\* arrived, and every length and number it reads fits its field (read_exact,
\* read_u8, read_u16).
THEOREM TypeCorrect == Spec => []TypeOK
  BY TypeInit, TypeStep, PTL DEF Spec

-----------------------------------------------------------------------------
(* What has been taken encodes what has been read *)

Taken == SubSeq(wire, 1, pos)

OpeningSoFar ==
    /\ at = "magic" => Taken = <<>>
    /\ at = "version" => Taken = Magic
    /\ at \in {"cmd", "status"} => Taken = Cat(Magic, One(VERSION))

RequestSoFar ==
    /\ at \in {"magic", "version", "cmd", "tokenLen", "token", "atyp", "hostLen", "host", "port",
               "done", "invalid", "eof"}
    /\ at = "tokenLen" => Taken = Opening(got.cmd)
    /\ at = "token" => got.len \in Byte /\ Taken = Cat(Opening(got.cmd), One(got.len))
    /\ at \in {"atyp", "hostLen", "host", "port", "done"} => Len(got.token) <= MaxLen
    /\ at = "atyp" => Taken = WithText(got.cmd, got.token)
    /\ at = "hostLen" =>
          got.atyp = ATYP_DOMAIN /\ Taken = WithAtyp(got.cmd, got.token, got.atyp)
    /\ at = "host" =>
          /\ got.len \in Byte
          /\ Taken = Cat(WithAtyp(got.cmd, got.token, got.atyp), HostLen(got.atyp, got.len))
    /\ at \in {"port", "done"} => Len(got.host) <= MaxLen
    /\ at = "port" => Taken = WithHost(got.cmd, got.token, got.atyp, got.host)
    /\ at = "done" =>
          Taken = Cat(WithHost(got.cmd, got.token, got.atyp, got.host), U16(got.port))

\* A message that has been made readable is no longer the one that was taken.
ResponseSoFar ==
    /\ at \in {"magic", "version", "status", "msgLen", "msg", "done", "invalid", "eof"}
    /\ at = "msgLen" => Taken = Opening(got.status)
    /\ at = "msg" => got.len \in Byte /\ Taken = Cat(Opening(got.status), One(got.len))
    /\ at = "done" /\ Replacement \notin ToSet(got.message) =>
          /\ got.message \in Text /\ Len(got.message) <= MaxLen
          /\ Taken = WithText(got.status, got.message)

SoFar ==
    /\ kind # "datagrams" => ~open /\ OpeningSoFar
    /\ kind = "request" => RequestSoFar
    /\ kind = "response" => ResponseSoFar
    /\ kind = "datagrams" => at \in {"datagramLen", "datagram", "eof"}

\* A read adds its bytes to what has been taken.
LEMMA TakenStep ==
    ASSUME TypeOK, NEW f, NEW n \in Nat, Take(f, n)
    PROVE  /\ Taken \in Seq(Byte) /\ Bytes(n) \in Text /\ Len(Bytes(n)) = n
           /\ Taken' = Cat(Taken, Bytes(n))
           /\ n = 1 => Bytes(1)[1] \in Byte /\ Bytes(1) = One(Bytes(1)[1])
           /\ n = 2 => Bytes(2) = U16(Bytes(2)[1] * Base + Bytes(2)[2])
           /\ kind' = kind /\ open' = open /\ at = f
<1>1. pos + n <= Len(wire) /\ wire' = wire /\ pos' = pos + n /\ kind' = kind /\ open' = open /\ at = f
  BY DEF Take
<1>2. Bytes(n) \in Text /\ Len(Bytes(n)) = n
      /\ SubSeq(wire, 1, pos + n) = SubSeq(wire, 1, pos) \o Bytes(n)
  BY <1>1, ReadExact DEF Text
<1>3. Taken' = Cat(Taken, Bytes(n))
  BY <1>1, <1>2 DEF Taken, Cat
<1>4. Taken \in Seq(Byte)
  <2>1. wire \in Seq(Byte) /\ pos \in 0 .. Len(wire) /\ Len(wire) \in Nat
    BY DEF TypeOK
  <2>2. \A i \in 1 .. pos : wire[i] \in Byte
    BY <2>1, ElementOfSeq
  <2> QED
    BY <2>1, <2>2, SubSeqProperties DEF Taken
<1> QED
  BY <1>1, <1>2, <1>3, <1>4, ReadNumber DEF One

LEMMA CatEmpty == \A s \in Seq(Byte) : Cat(s, <<>>) = s /\ Cat(<<>>, s) = s
  BY ConcatEmptySeq DEF Cat

\* What from_utf8_lossy leaves alone it returns.
LEMMA LossyKeeps ==
    ASSUME NEW s \in Text, Replacement \notin ToSet(Lossy(s))
    PROVE  Lossy(s) = s
<1>1. /\ DOMAIN s = 1 .. Len(s) /\ s = [i \in 1 .. Len(s) |-> s[i]]
      /\ Lossy(s) = [i \in 1 .. Len(s) |-> IF Stray(s, i) THEN Replacement ELSE s[i]]
  BY LenProperties DEF Lossy, Text
<1>2. \A i \in 1 .. Len(s) : ~Stray(s, i)
  <2> SUFFICES ASSUME NEW i \in 1 .. Len(s), Stray(s, i) PROVE FALSE
    OBVIOUS
  <2>1. Lossy(s)[i] = Replacement /\ i \in DOMAIN Lossy(s)
    BY <1>1
  <2> QED
    BY <2>1 DEF ToSet
<1> QED
  BY <1>1, <1>2

LEMMA SoFarStep == TypeOK /\ SoFar /\ [Next]_vars => SoFar'
<1> SUFFICES ASSUME TypeOK, SoFar, [Next]_vars PROVE SoFar'
  OBVIOUS
<1>1. got \in GotType /\ kind \in {"request", "response", "datagrams"} /\ got.len \in Nat
  <2>1. got \in GotType
    BY DEF TypeOK, GotType
  <2> QED
    BY <2>1, BaseAssumption DEF TypeOK, GotType, MaxDatagram
<1>2. \A b \in Byte : b \in Nat /\ b <= MaxLen
  BY BaseAssumption DEF Byte, MaxLen
<1>3. CASE ReadMagic
  <2>1. Take("magic", 2) /\ at' = IF Bytes(2) = Magic THEN "version" ELSE "invalid"
    BY <1>3 DEF ReadMagic, Then
  <2>2. /\ Taken' = Cat(Taken, Bytes(2)) /\ Bytes(2) \in Seq(Byte) /\ kind' = kind /\ open' = open
        /\ at = "magic"
    BY <2>1, TakenStep DEF Text
  <2>3. CASE at' = "version" /\ kind # "datagrams"
    <3>1. Taken = <<>> /\ Bytes(2) = Magic
      BY <2>1, <2>2, <2>3 DEF SoFar, OpeningSoFar
    <3>2. Taken' = Magic
      BY <2>2, <3>1, CatEmpty
    <3> QED
      BY <2>2, <2>3, <3>2 DEF SoFar, OpeningSoFar, RequestSoFar, ResponseSoFar
  <2>4. CASE at' = "invalid" \/ kind = "datagrams"
    BY <1>1, <2>2, <2>4 DEF SoFar, OpeningSoFar, RequestSoFar, ResponseSoFar
  <2> QED
    BY <2>1, <2>3, <2>4
<1>4. CASE ReadVersion
  <2>1. /\ Take("version", 1)
        /\ at' = IF Bytes(1) = <<VERSION>>
                 THEN IF kind = "request" THEN "cmd" ELSE "status" ELSE "invalid"
    BY <1>4 DEF ReadVersion, Then
  <2>2. Taken' = Cat(Taken, Bytes(1)) /\ kind' = kind /\ open' = open /\ at = "version"
    BY <2>1, TakenStep
  <2>3. CASE at' # "invalid" /\ kind # "datagrams"
    <3>1. Taken = Magic /\ Bytes(1) = One(VERSION)
      BY <2>1, <2>2, <2>3 DEF SoFar, OpeningSoFar, One
    <3>2. Taken' = Cat(Magic, One(VERSION))
      BY <2>2, <3>1
    <3> QED
      BY <1>1, <2>1, <2>2, <2>3, <3>2 DEF SoFar, OpeningSoFar, RequestSoFar, ResponseSoFar
  <2>4. CASE at' = "invalid" \/ kind = "datagrams"
    BY <1>1, <2>2, <2>4 DEF SoFar, OpeningSoFar, RequestSoFar, ResponseSoFar
  <2> QED
    BY <2>3, <2>4
<1>5. CASE ReadCmd
  <2>1. /\ Take("cmd", 1) /\ at' \in {"tokenLen", "invalid"}
        /\ got' = [got EXCEPT !.cmd = Bytes(1)[1]]
    BY <1>5 DEF ReadCmd, Then, Store
  <2>2. Taken' = Cat(Taken, Bytes(1)) /\ Bytes(1) = One(Bytes(1)[1]) /\ kind' = kind /\ open' = open /\ at = "cmd"
    BY <2>1, TakenStep
  <2>3. got'.cmd = Bytes(1)[1]
    BY <1>1, <2>1 DEF GotType
  <2>4. kind = "request" => Taken' = Opening(got'.cmd)
    BY <2>2, <2>3 DEF SoFar, OpeningSoFar, Opening
  <2> QED
    BY <1>1, <2>1, <2>2, <2>4 DEF SoFar, OpeningSoFar, RequestSoFar, ResponseSoFar
<1>6. CASE ReadTokenLen
  <2>1. /\ Take("tokenLen", 1) /\ at' = "token" /\ got' = [got EXCEPT !.len = Bytes(1)[1]]
    BY <1>6 DEF ReadTokenLen, Store
  <2>2. /\ Taken' = Cat(Taken, Bytes(1)) /\ Bytes(1) = One(Bytes(1)[1]) /\ Bytes(1)[1] \in Byte
        /\ kind' = kind /\ open' = open /\ at = "tokenLen"
    BY <2>1, TakenStep
  <2>3. got'.len = Bytes(1)[1] /\ got'.cmd = got.cmd
    BY <1>1, <2>1 DEF GotType
  <2>4. kind = "request" => Taken' = Cat(Opening(got'.cmd), One(got'.len))
    BY <2>2, <2>3 DEF SoFar, RequestSoFar
  <2> QED
    BY <1>1, <2>1, <2>2, <2>3, <2>4 DEF SoFar, OpeningSoFar, RequestSoFar, ResponseSoFar
<1>7. CASE ReadToken
  <2>1. /\ Take("token", got.len) /\ at' \in {"atyp", "invalid"}
        /\ got' = [got EXCEPT !.token = Bytes(got.len)]
    BY <1>7 DEF ReadToken, Then, Store
  <2>2. /\ Taken' = Cat(Taken, Bytes(got.len)) /\ Len(Bytes(got.len)) = got.len
        /\ kind' = kind /\ open' = open /\ at = "token"
    BY <1>1, <2>1, TakenStep
  <2>3. got'.token = Bytes(got.len) /\ got'.cmd = got.cmd
    BY <1>1, <2>1 DEF GotType
  <2>4. kind = "request" =>
           Len(got'.token) <= MaxLen /\ Taken' = WithText(got'.cmd, got'.token)
    BY <1>2, <2>2, <2>3 DEF SoFar, RequestSoFar, WithText
  <2> QED
    BY <1>1, <2>1, <2>2, <2>4 DEF SoFar, OpeningSoFar, RequestSoFar, ResponseSoFar
<1>8. CASE ReadAtyp
  <2> DEFINE a == Bytes(1)[1]
  <2>1. /\ Take("atyp", 1) /\ at' \in {"hostLen", "host", "invalid"}
        /\ at' = "hostLen" => a = ATYP_DOMAIN
        /\ at' = "host" => a # ATYP_DOMAIN
        /\ got' = [got EXCEPT !.atyp = a, !.len = AddressLen(a)]
    BY <1>8 DEF ReadAtyp, Then
  <2>2. /\ Taken' = Cat(Taken, Bytes(1)) /\ Bytes(1) = One(a)
        /\ Taken \in Seq(Byte) /\ Bytes(1) \in Seq(Byte)
        /\ kind' = kind /\ open' = open /\ at = "atyp"
    BY <2>1, TakenStep DEF Text
  <2> HIDE DEF a
  <2>3. got'.atyp = a /\ got'.len = AddressLen(a) /\ got'.cmd = got.cmd /\ got'.token = got.token
    BY <1>1, <2>1 DEF GotType
  <2>4. got'.len \in Byte
    BY <2>3, BaseAssumption DEF AddressLen, Byte
  <2>5. kind = "request" =>
           /\ Len(got'.token) <= MaxLen
           /\ Taken' = WithAtyp(got'.cmd, got'.token, got'.atyp)
    BY <2>2, <2>3 DEF SoFar, RequestSoFar, WithAtyp
  <2>6. at' = "host" => Cat(Taken', HostLen(got'.atyp, got'.len)) = Taken'
    BY <2>1, <2>2, <2>3, CatBytes, CatEmpty DEF HostLen
  <2> QED
    BY <1>1, <2>1, <2>2, <2>3, <2>4, <2>5, <2>6
    DEF SoFar, OpeningSoFar, RequestSoFar, ResponseSoFar
<1>9. CASE ReadHostLen
  <2>1. /\ Take("hostLen", 1) /\ at' = "host" /\ got' = [got EXCEPT !.len = Bytes(1)[1]]
    BY <1>9 DEF ReadHostLen, Store
  <2>2. /\ Taken' = Cat(Taken, Bytes(1)) /\ Bytes(1) = One(Bytes(1)[1]) /\ Bytes(1)[1] \in Byte
        /\ kind' = kind /\ open' = open /\ at = "hostLen"
    BY <2>1, TakenStep
  <2>3. got'.len = Bytes(1)[1] /\ got'.cmd = got.cmd /\ got'.token = got.token
        /\ got'.atyp = got.atyp
    BY <1>1, <2>1 DEF GotType
  <2>4. kind = "request" =>
           /\ Len(got'.token) <= MaxLen
           /\ Taken' = Cat(WithAtyp(got'.cmd, got'.token, got'.atyp),
                           HostLen(got'.atyp, got'.len))
    BY <2>2, <2>3 DEF SoFar, RequestSoFar, HostLen
  <2> QED
    BY <1>1, <2>1, <2>2, <2>3, <2>4 DEF SoFar, OpeningSoFar, RequestSoFar, ResponseSoFar
<1>10. CASE ReadHost
  <2>1. /\ Take("host", got.len) /\ at' = "port" /\ got' = [got EXCEPT !.host = Bytes(got.len)]
    BY <1>10 DEF ReadHost, Store
  <2>2. /\ Taken' = Cat(Taken, Bytes(got.len)) /\ Len(Bytes(got.len)) = got.len
        /\ kind' = kind /\ open' = open /\ at = "host"
    BY <1>1, <2>1, TakenStep
  <2>3. /\ got'.host = Bytes(got.len) /\ got'.cmd = got.cmd /\ got'.token = got.token
        /\ got'.atyp = got.atyp
    BY <1>1, <2>1 DEF GotType
  <2>4. kind = "request" =>
           /\ Len(got'.token) <= MaxLen /\ Len(got'.host) <= MaxLen
           /\ Taken' = WithHost(got'.cmd, got'.token, got'.atyp, got'.host)
    BY <1>2, <2>2, <2>3 DEF SoFar, RequestSoFar, WithHost
  <2> QED
    BY <1>1, <2>1, <2>2, <2>4 DEF SoFar, OpeningSoFar, RequestSoFar, ResponseSoFar
<1>11. CASE ReadPort
  <2> DEFINE n == Bytes(2)[1] * Base + Bytes(2)[2]
  <2>1. /\ Take("port", 2) /\ at' \in {"done", "invalid"} /\ got' = [got EXCEPT !.port = n]
    BY <1>11 DEF ReadPort, Then, Store
  <2>2. Taken' = Cat(Taken, Bytes(2)) /\ Bytes(2) = U16(n) /\ kind' = kind /\ open' = open /\ at = "port"
    BY <2>1, TakenStep
  <2> HIDE DEF n
  <2>3. /\ got'.port = n /\ got'.host = got.host /\ got'.cmd = got.cmd
        /\ got'.token = got.token /\ got'.atyp = got.atyp
    BY <1>1, <2>1 DEF GotType
  <2>4. kind = "request" =>
           /\ Len(got'.token) <= MaxLen /\ Len(got'.host) <= MaxLen
           /\ Taken' = Cat(WithHost(got'.cmd, got'.token, got'.atyp, got'.host), U16(got'.port))
    BY <2>2, <2>3 DEF SoFar, RequestSoFar
  <2> QED
    BY <1>1, <2>1, <2>2, <2>4 DEF SoFar, OpeningSoFar, RequestSoFar, ResponseSoFar
<1>12. CASE ReadStatus
  <2>1. /\ Take("status", 1) /\ at' \in {"msgLen", "invalid"}
        /\ got' = [got EXCEPT !.status = Bytes(1)[1]]
    BY <1>12 DEF ReadStatus, Then, Store
  <2>2. /\ Taken' = Cat(Taken, Bytes(1)) /\ Bytes(1) = One(Bytes(1)[1])
        /\ kind' = kind /\ open' = open /\ at = "status"
    BY <2>1, TakenStep
  <2>3. got'.status = Bytes(1)[1]
    BY <1>1, <2>1 DEF GotType
  <2>4. kind = "response" => Taken' = Opening(got'.status)
    BY <2>2, <2>3 DEF SoFar, OpeningSoFar, Opening
  <2> QED
    BY <1>1, <2>1, <2>2, <2>4 DEF SoFar, OpeningSoFar, RequestSoFar, ResponseSoFar
<1>13. CASE ReadMsgLen
  <2>1. /\ Take("msgLen", 1) /\ at' = "msg" /\ got' = [got EXCEPT !.len = Bytes(1)[1]]
    BY <1>13 DEF ReadMsgLen, Store
  <2>2. /\ Taken' = Cat(Taken, Bytes(1)) /\ Bytes(1) = One(Bytes(1)[1]) /\ Bytes(1)[1] \in Byte
        /\ kind' = kind /\ open' = open /\ at = "msgLen"
    BY <2>1, TakenStep
  <2>3. got'.len = Bytes(1)[1] /\ got'.status = got.status
    BY <1>1, <2>1 DEF GotType
  <2>4. kind = "response" => Taken' = Cat(Opening(got'.status), One(got'.len))
    BY <2>2, <2>3 DEF SoFar, ResponseSoFar
  <2> QED
    BY <1>1, <2>1, <2>2, <2>3, <2>4 DEF SoFar, OpeningSoFar, RequestSoFar, ResponseSoFar
<1>14. CASE ReadMsg
  <2>1. /\ Take("msg", got.len) /\ at' = "done"
        /\ got' = [got EXCEPT !.message = Lossy(Bytes(got.len))]
    BY <1>14 DEF ReadMsg, Store
  <2>2. /\ Taken' = Cat(Taken, Bytes(got.len)) /\ Len(Bytes(got.len)) = got.len
        /\ Bytes(got.len) \in Text /\ kind' = kind /\ open' = open /\ at = "msg"
    BY <1>1, <2>1, TakenStep
  <2>3. got'.message = Lossy(Bytes(got.len)) /\ got'.status = got.status
    BY <1>1, <2>1 DEF GotType
  <2>4. ASSUME kind = "response", Replacement \notin ToSet(got'.message)
        PROVE  /\ got'.message \in Text /\ Len(got'.message) <= MaxLen
               /\ Taken' = WithText(got'.status, got'.message)
    <3>1. got'.message = Bytes(got.len)
      BY <2>2, <2>3, <2>4, LossyKeeps
    <3> QED
      BY <1>2, <2>2, <2>3, <2>4, <3>1 DEF SoFar, ResponseSoFar, WithText
  <2> QED
    BY <1>1, <2>1, <2>2, <2>4 DEF SoFar, OpeningSoFar, RequestSoFar, ResponseSoFar
<1>15. CASE \/ \E p \in Payloads : WriteDatagram(p)
            \/ EndStream \/ ReadDatagramLen \/ ReadDatagram
  <2>1. kind' = kind
    BY <1>15 DEF WriteDatagram, EndStream, ReadDatagramLen, ReadDatagram, Take
  <2>2. CASE kind = "datagrams"
    <3>1. at' \in {at, "datagramLen", "datagram"}
      BY <1>15 DEF WriteDatagram, EndStream, ReadDatagramLen, ReadDatagram
    <3> QED
      BY <2>1, <2>2, <3>1 DEF SoFar
  <2>3. CASE kind # "datagrams"
    <3>1. at \notin {"datagramLen", "datagram"}
      BY <1>1, <2>3 DEF SoFar, RequestSoFar, ResponseSoFar
    <3>2. open
      BY <1>15, <3>1 DEF WriteDatagram, EndStream, ReadDatagramLen, ReadDatagram, Take
    <3> QED
      BY <2>3, <3>2 DEF SoFar
  <2> QED
    BY <2>2, <2>3
<1>16. CASE ReadEof
  <2>1. kind' = kind /\ open' = open /\ at' = "eof"
    BY <1>16 DEF ReadEof
  <2> QED
    BY <1>1, <2>1 DEF SoFar, OpeningSoFar, RequestSoFar, ResponseSoFar
<1>17. CASE UNCHANGED vars
  <2>1. kind' = kind /\ open' = open /\ at' = at /\ got' = got /\ Taken' = Taken
    BY <1>17 DEF vars, Taken
  <2> QED
    BY <2>1 DEF SoFar, OpeningSoFar, RequestSoFar, ResponseSoFar
<1> QED
  BY <1>3, <1>4, <1>5, <1>6, <1>7, <1>8, <1>9, <1>10, <1>11, <1>12, <1>13, <1>14, <1>15, <1>16,
     <1>17 DEF Next

LEMMA SoFarInit == Init => SoFar
<1> SUFFICES ASSUME Init PROVE SoFar
  OBVIOUS
<1>1. Taken = <<>>
  <2>1. pos = 0
    BY DEF Init
  <2> QED
    BY <2>1, SubSeqEmpty DEF Taken
<1>2. /\ kind # "datagrams" => open = FALSE /\ at = "magic"
      /\ kind = "datagrams" => at = "datagramLen"
  BY DEF Init, MessageInit, DatagramsInit
<1> QED
  BY <1>1, <1>2 DEF SoFar, OpeningSoFar, RequestSoFar, ResponseSoFar

LEMMA SoFarHolds == Spec => [](TypeOK /\ SoFar)
<1>1. Init => TypeOK /\ SoFar
  BY TypeInit, SoFarInit
<1>2. TypeOK /\ SoFar /\ [Next]_vars => (TypeOK /\ SoFar)'
  BY TypeStep, SoFarStep
<1> QED
  BY <1>1, <1>2, PTL DEF Spec

\* A request or response that is accepted is, byte for byte, what the writer
\* would have put on the wire for it: nothing else is accepted, nothing is read
\* past its end, and two requests are never taken for one another (read_from
\* against write_to).
THEOREM AcceptedIsEncoded == Spec => []OnlyOneReading
<1>1. TypeOK /\ SoFar => OnlyOneReading
  <2> SUFFICES ASSUME TypeOK, SoFar, at = "done", Replacement \notin ToSet(got.message)
               PROVE  Taken = Encode(kind, Returned)
    BY DEF OnlyOneReading, Taken
  <2>1. got \in GotType /\ kind \in {"request", "response", "datagrams"}
    BY DEF TypeOK, GotType
  <2>2. CASE kind = "request"
    <3>1. /\ got.cmd \in Byte /\ got.token \in Text /\ got.atyp \in Byte /\ got.host \in Text
          /\ got.port \in 0..MaxDatagram
      BY <2>1 DEF GotType
    <3>2. /\ Len(got.token) <= MaxLen /\ Len(got.host) <= MaxLen
          /\ Taken = Cat(WithHost(got.cmd, got.token, got.atyp, got.host), U16(got.port))
      BY <2>2 DEF SoFar, RequestSoFar
    <3>3. Encode(kind, Returned)
            = EncodeRequest([cmd |-> got.cmd, token |-> got.token,
                             target |-> [atyp |-> got.atyp, host |-> got.host,
                                         port |-> got.port]])
      BY <2>2 DEF Encode, Returned, Target
    <3> QED
      BY <3>1, <3>2, <3>3, RequestEncoded
  <2>3. CASE kind = "response"
    <3>1. got.status \in Byte
      BY <2>1 DEF GotType
    <3>2. /\ got.message \in Text /\ Len(got.message) <= MaxLen
          /\ Taken = WithText(got.status, got.message)
      BY <2>3 DEF SoFar, ResponseSoFar
    <3>3. Encode(kind, Returned) = EncodeResponse([status |-> got.status,
                                                   message |-> got.message])
      BY <2>3 DEF Encode, Returned
    <3> QED
      BY <3>1, <3>2, <3>3, ResponseEncoded
  <2>4. CASE kind = "datagrams"
    BY <2>4 DEF SoFar
  <2> QED
    BY <2>1, <2>2, <2>3, <2>4
<1> QED
  BY <1>1, SoFarHolds, PTL

\* token_matches compares the low byte of the lengths only, and pads the shorter
\* text with zeros; for texts whose length a byte holds that is equality.
LEMMA MatchingIsEquality ==
    ASSUME NEW s \in Text, NEW t \in Text, Len(s) <= MaxLen, Len(t) <= MaxLen
    PROVE  TokenMatches(s, t) <=> t = s
<1>1. /\ Len(s) \in Byte /\ Len(t) \in Byte /\ Len(s) \in Nat /\ Len(t) \in Nat
  BY LengthBytes, BaseAssumption DEF Byte
<1>2. Len(s) % Base = Len(s) /\ Len(t) % Base = Len(t)
  <2>1. \A n \in Byte : n % Base = n
    BY BaseAssumption, Z3 DEF Byte
  <2> QED
    BY <1>1, <2>1
<1>3. ASSUME TokenMatches(s, t) PROVE t = s
  <2>1. Len(s) = Len(t)
    BY <1>2, <1>3 DEF TokenMatches
  <2>2. Max({Len(s), Len(t)}) = Len(s)
    BY <1>1, <2>1, MinMax
  <2>3. \A i \in 1 .. Len(s) : Padded(s, i) = Padded(t, i)
    BY <1>3, <2>2 DEF TokenMatches
  <2>4. \A i \in 1 .. Len(s) : s[i] = t[i]
    BY <1>1, <2>1, <2>3 DEF Padded
  <2> QED
    BY <2>1, <2>4, SeqEqual DEF Text
<1>4. ASSUME t = s PROVE TokenMatches(s, t)
  BY <1>4 DEF TokenMatches
<1> QED
  BY <1>3, <1>4

\* Of all the tokens a request can carry an agent accepts its own and no other:
\* a length byte cannot carry the lengths that token_matches confuses.
THEOREM TokenDecides == Spec => []OnlyTheToken
<1>1. TypeOK /\ SoFar => OnlyTheToken
  <2> SUFFICES ASSUME TypeOK, SoFar, at = "done", kind = "request"
               PROVE  TokenMatches(Expected, got.token) <=> got.token = Expected
    BY DEF OnlyTheToken
  <2>1. got.token \in Text /\ Len(got.token) <= MaxLen
    BY DEF TypeOK, SoFar, RequestSoFar
  <2> QED
    BY <2>1, ExpectedAssumption, MatchingIsEquality
<1> QED
  BY <1>1, SoFarHolds, PTL

-----------------------------------------------------------------------------
(* What has not been taken encodes what has not been read *)

Remaining == SubSeq(wire, pos + 1, Len(wire))

Name == Truncate(sent.target.host)
Message == Truncate(sent.message)

RequestComing ==
    /\ at = "magic" => Remaining = FromMagic(FromCmd(sent))
    /\ at = "version" => Remaining = FromVersion(FromCmd(sent))
    /\ at = "cmd" => Remaining = FromCmd(sent)
    /\ at \in {"tokenLen", "token", "atyp", "hostLen", "host", "port", "done"} =>
          got.cmd = sent.cmd
    /\ at = "tokenLen" => Remaining = FromTokenLen(sent)
    /\ at = "token" => Remaining = FromToken(sent) /\ got.len = Len(sent.token)
    /\ at \in {"atyp", "hostLen", "host", "port", "done"} => got.token = sent.token
    /\ at = "atyp" => Remaining = FromAtyp(sent)
    /\ at \in {"hostLen", "host", "port", "done"} => got.atyp = sent.target.atyp
    /\ at = "hostLen" => Remaining = FromHostLen(sent)
    /\ at = "host" => Remaining = FromHost(sent) /\ got.len = Len(Name)
    /\ at \in {"port", "done"} => got.host = Name
    /\ at = "port" => Remaining = FromPort(sent)
    /\ at = "done" => Remaining = Behind /\ got.port = sent.target.port /\ Readable
    /\ at = "invalid" => ~Readable
    /\ at # "eof"

ResponseComing ==
    /\ at = "magic" => Remaining = FromMagic(FromStatus(sent))
    /\ at = "version" => Remaining = FromVersion(FromStatus(sent))
    /\ at = "status" => Remaining = FromStatus(sent)
    /\ at \in {"msgLen", "msg", "done"} => got.status = sent.status
    /\ at = "msgLen" => Remaining = FromMsgLen(sent)
    /\ at = "msg" => Remaining = FromMsg(sent) /\ got.len = Len(Message)
    /\ at = "done" => Remaining = Behind /\ got.message = Lossy(Message)
    /\ at \notin {"invalid", "eof"}

\* Of a request with too long a token nothing is on the wire but what follows it.
NothingComing ==
    /\ at \in {"magic", "eof"}
    /\ at = "magic" => pos = 0 /\ Len(wire) = 1

Coming ==
    /\ kind = "request" => sent \in Requests
    /\ kind = "response" => sent \in Responses
    /\ intact =>
        /\ kind = "request" =>
              IF Len(sent.token) <= MaxLen THEN RequestComing ELSE NothingComing
        /\ kind = "response" => ResponseComing

\* A read takes the first of the fields that are coming.
LEMMA FieldRead ==
    ASSUME TypeOK, NEW g, NEW n \in Nat, Take(g, n),
           NEW f \in Seq(Byte), NEW r \in Seq(Byte), Remaining = Cat(f, r), Len(f) = n
    PROVE  /\ Bytes(n) = f /\ Remaining' = r
           /\ kind' = kind /\ sent' = sent /\ intact' = intact /\ at = g
<1>1. SubSeq(wire, pos + 1, Len(wire)) = f \o r
  BY DEF Remaining, Cat
<1>2. Bytes(Len(f)) = f /\ SubSeq(wire, pos + Len(f) + 1, Len(wire)) = r
  BY <1>1, TakeField
<1>3. wire' = wire /\ pos' = pos + n /\ kind' = kind /\ sent' = sent /\ intact' = intact /\ at = g
  BY DEF Take
<1>4. Remaining' = SubSeq(wire, pos + n + 1, Len(wire))
  BY <1>3 DEF Remaining
<1> QED
  BY <1>2, <1>3, <1>4

\* While a field is coming the stream has not ended.
LEMMA FieldComes ==
    ASSUME TypeOK, NEW f \in Seq(Byte), NEW r \in Seq(Byte), Remaining = Cat(f, r)
    PROVE  pos + Len(f) <= Len(wire)
<1>1. SubSeq(wire, pos + 1, Len(wire)) = f \o r
  BY DEF Remaining, Cat
<1> QED
  BY <1>1, TakeField

LEMMA ComingInit == Init => Coming
<1> SUFFICES ASSUME Init PROVE Coming
  OBVIOUS
<1>1. pos = 0 /\ wire \in Seq(Byte)
  BY TypeInit DEF Init, TypeOK
<1>2. Remaining = wire
  BY <1>1, SubSeqFull DEF Remaining
<1>3. kind = "request" => sent \in Requests
  BY DEF Init, MessageInit, DatagramsInit
<1>4. kind = "response" => sent \in Responses
  BY DEF Init, MessageInit, DatagramsInit
<1>5. ASSUME intact, kind # "datagrams"
      PROVE  wire = Stream(kind, sent) /\ at = "magic"
  BY <1>5 DEF Init, MessageInit, DatagramsInit
<1>6. ASSUME intact, kind = "request", Len(sent.token) <= MaxLen PROVE RequestComing
  BY <1>2, <1>3, <1>5, <1>6, RequestStream DEF RequestComing
<1>7. ASSUME intact, kind = "request", ~(Len(sent.token) <= MaxLen) PROVE NothingComing
  <2>1. wire = Behind /\ at = "magic"
    BY <1>3, <1>5, <1>7, RequestTooLong
  <2> QED
    BY <1>1, <2>1 DEF NothingComing, Behind, One
<1>8. ASSUME intact, kind = "response" PROVE ResponseComing
  BY <1>2, <1>4, <1>5, <1>8, ResponseStream DEF ResponseComing
<1> QED
  BY <1>3, <1>4, <1>6, <1>7, <1>8 DEF Coming

\* A request that can be written is read back field by field, and nothing but a
\* name cut in the middle of a character is refused.
LEMMA RequestComingStep ==
    ASSUME TypeOK, kind = "request", ~open, RequestSoFar,
           sent \in Requests, Len(sent.token) <= MaxLen, RequestComing, [Next]_vars
    PROVE  RequestComing'
<1>1. got \in GotType /\ got.len \in Nat
  <2>1. got \in GotType
    BY DEF TypeOK, GotType
  <2> QED
    BY <2>1, BaseAssumption DEF GotType, MaxDatagram
<1>2. /\ FromPort(sent) \in Seq(Byte) /\ FromHost(sent) \in Seq(Byte)
      /\ FromHostLen(sent) \in Seq(Byte) /\ FromAtyp(sent) \in Seq(Byte)
      /\ FromToken(sent) \in Seq(Byte) /\ FromTokenLen(sent) \in Seq(Byte)
      /\ FromCmd(sent) \in Seq(Byte) /\ FromVersion(FromCmd(sent)) \in Seq(Byte)
      /\ Behind \in Seq(Byte)
  BY RequestFields
<1>3. /\ Magic \in Seq(Byte) /\ Len(Magic) = 2
      /\ One(VERSION) \in Seq(Byte) /\ Len(One(VERSION)) = 1
  BY ProtocolBytes, OneBytes, BaseAssumption DEF VERSION, Byte
<1>4. /\ sent.cmd \in Cmds /\ sent.token \in Seq(Byte) /\ Utf8(sent.token)
      /\ sent.target.atyp \in Atyps /\ sent.target.port \in 0..MaxDatagram
  BY RequestsAssumption DEF Text
<1>5. /\ Name \in Seq(Byte) /\ Len(Name) \in Byte
      /\ sent.target.atyp # ATYP_DOMAIN => Len(Name) = AddressLen(sent.target.atyp)
  BY HostLength, Truncated, BaseAssumption DEF Name, Text, MaxLen, Byte
<1>6. \A b : One(b)[1] = b /\ Len(One(b)) = 1
  BY DEF One
<1>7. /\ One(sent.cmd) \in Seq(Byte) /\ One(Len(sent.token)) \in Seq(Byte)
      /\ One(sent.target.atyp) \in Seq(Byte) /\ One(Len(Name)) \in Seq(Byte)
      /\ U16(sent.target.port) \in Seq(Byte)
  BY RequestFields DEF Name
<1> HIDE DEF Name
<1>8. CASE ReadMagic
  <2>1. Take("magic", 2) /\ at' = IF Bytes(2) = Magic THEN "version" ELSE "invalid"
    BY <1>8 DEF ReadMagic, Then
  <2>2. Remaining = Cat(Magic, FromVersion(FromCmd(sent)))
    BY <2>1 DEF RequestComing, Take, FromMagic
  <2>3. Bytes(2) = Magic /\ Remaining' = FromVersion(FromCmd(sent)) /\ sent' = sent
    BY <1>2, <1>3, <2>1, <2>2, FieldRead
  <2> QED
    BY <2>1, <2>3 DEF RequestComing
<1>9. CASE ReadVersion
  <2>1. Take("version", 1) /\ at' = IF Bytes(1) = One(VERSION) THEN "cmd" ELSE "invalid"
    BY <1>9 DEF ReadVersion, Then, One
  <2>2. Remaining = Cat(One(VERSION), FromCmd(sent))
    BY <2>1 DEF RequestComing, Take, FromVersion
  <2>3. Bytes(1) = One(VERSION) /\ Remaining' = FromCmd(sent) /\ sent' = sent
    BY <1>2, <1>3, <2>1, <2>2, FieldRead
  <2> QED
    BY <2>1, <2>3 DEF RequestComing
<1>10. CASE ReadCmd
  <2>1. /\ Take("cmd", 1) /\ at' = IF Bytes(1)[1] \in Cmds THEN "tokenLen" ELSE "invalid"
        /\ got' = [got EXCEPT !.cmd = Bytes(1)[1]]
    BY <1>10 DEF ReadCmd, Then, Store
  <2>2. Remaining = Cat(One(sent.cmd), FromTokenLen(sent))
    BY <2>1 DEF RequestComing, Take, FromCmd
  <2>3. Bytes(1) = One(sent.cmd) /\ Remaining' = FromTokenLen(sent) /\ sent' = sent
    BY <1>2, <1>6, <1>7, <2>1, <2>2, FieldRead
  <2>4. Bytes(1)[1] = sent.cmd
    BY <1>6, <2>3
  <2>5. got'.cmd = sent.cmd
    BY <1>1, <2>1, <2>4 DEF GotType
  <2> QED
    BY <1>4, <2>1, <2>3, <2>4, <2>5 DEF RequestComing
<1>11. CASE ReadTokenLen
  <2>1. /\ Take("tokenLen", 1) /\ at' = "token" /\ got' = [got EXCEPT !.len = Bytes(1)[1]]
    BY <1>11 DEF ReadTokenLen, Store
  <2>2. Remaining = Cat(One(Len(sent.token)), FromToken(sent)) /\ got.cmd = sent.cmd
    BY <2>1 DEF RequestComing, Take, FromTokenLen
  <2>3. Bytes(1) = One(Len(sent.token)) /\ Remaining' = FromToken(sent) /\ sent' = sent
    <3> DEFINE f == One(Len(sent.token))
    <3>1. f \in Seq(Byte) /\ Len(f) = 1 /\ Remaining = Cat(f, FromToken(sent))
      BY <1>6, <1>7, <2>2
    <3> HIDE DEF f
    <3>2. Bytes(1) = f /\ Remaining' = FromToken(sent) /\ sent' = sent
      BY <1>2, <2>1, <3>1, FieldRead
    <3> QED
      BY <3>2 DEF f
  <2>4. Bytes(1)[1] = Len(sent.token)
    BY <1>6, <2>3
  <2>5. got'.len = Len(sent.token) /\ got'.cmd = got.cmd
    BY <1>1, <2>1, <2>4 DEF GotType
  <2> QED
    BY <2>1, <2>2, <2>3, <2>5 DEF RequestComing
<1>12. CASE ReadToken
  <2>1. /\ Take("token", got.len) /\ got' = [got EXCEPT !.token = Bytes(got.len)]
        /\ at' = IF Utf8(Bytes(got.len)) THEN "atyp" ELSE "invalid"
    BY <1>12 DEF ReadToken, Then, Store
  <2>2. /\ Remaining = Cat(sent.token, FromAtyp(sent)) /\ got.cmd = sent.cmd
        /\ got.len = Len(sent.token)
    BY <2>1 DEF RequestComing, Take, FromToken
  <2>3. Bytes(got.len) = sent.token /\ Remaining' = FromAtyp(sent) /\ sent' = sent
    BY <1>1, <1>2, <1>4, <2>1, <2>2, FieldRead
  <2>4. got'.token = sent.token /\ got'.cmd = got.cmd
    BY <1>1, <2>1, <2>3 DEF GotType
  <2>5. at' = "atyp"
    BY <1>4, <2>1, <2>3, Zenon
  <2> QED
    BY <2>2, <2>3, <2>4, <2>5 DEF RequestComing
<1>13. CASE ReadAtyp
  <2> DEFINE a == Bytes(1)[1]
             rest == IF sent.target.atyp = ATYP_DOMAIN THEN FromHostLen(sent) ELSE FromHost(sent)
  <2>1. /\ Take("atyp", 1)
        /\ at' = IF a \in Atyps THEN IF a = ATYP_DOMAIN THEN "hostLen" ELSE "host"
                 ELSE "invalid"
        /\ got' = [got EXCEPT !.atyp = a, !.len = AddressLen(a)]
    BY <1>13 DEF ReadAtyp, Then
  <2>2. Remaining = Cat(One(sent.target.atyp), rest) /\ got.cmd = sent.cmd
        /\ got.token = sent.token
    BY <2>1 DEF RequestComing, Take, FromAtyp
  <2>3. rest \in Seq(Byte)
    BY <1>2
  <2> HIDE DEF rest
  <2>4. Bytes(1) = One(sent.target.atyp) /\ Remaining' = rest /\ sent' = sent
    BY <1>6, <1>7, <2>1, <2>2, <2>3, FieldRead
  <2>5. a = sent.target.atyp
    BY <1>6, <2>4
  <2> HIDE DEF a
  <2>6. /\ got'.atyp = sent.target.atyp /\ got'.len = AddressLen(sent.target.atyp)
        /\ got'.cmd = sent.cmd /\ got'.token = sent.token
    BY <1>1, <2>1, <2>2, <2>5 DEF GotType
  <2>7. Name' = Name
    BY <2>4 DEF Name
  <2>8. CASE sent.target.atyp = ATYP_DOMAIN
    <3>1. at' = "hostLen" /\ rest = FromHostLen(sent)
      BY <1>4, <2>1, <2>5, <2>8 DEF rest
    <3> QED
      BY <2>4, <2>6, <3>1 DEF RequestComing
  <2>9. CASE sent.target.atyp # ATYP_DOMAIN
    <3>1. at' = "host" /\ rest = FromHost(sent)
      BY <1>4, <2>1, <2>5, <2>9 DEF rest
    <3> QED
      BY <1>5, <2>4, <2>6, <2>7, <2>9, <3>1 DEF RequestComing
  <2> QED
    BY <2>8, <2>9
<1>14. CASE ReadHostLen
  <2>1. /\ Take("hostLen", 1) /\ at' = "host" /\ got' = [got EXCEPT !.len = Bytes(1)[1]]
    BY <1>14 DEF ReadHostLen, Store
  <2>2. /\ Remaining = Cat(One(Len(Name)), FromHost(sent)) /\ got.cmd = sent.cmd
        /\ got.token = sent.token /\ got.atyp = sent.target.atyp
    BY <2>1 DEF RequestComing, Take, FromHostLen, Name
  <2>3. Bytes(1) = One(Len(Name)) /\ Remaining' = FromHost(sent) /\ sent' = sent
    <3> DEFINE f == One(Len(Name))
    <3>1. f \in Seq(Byte) /\ Len(f) = 1 /\ Remaining = Cat(f, FromHost(sent))
      BY <1>6, <1>7, <2>2
    <3> HIDE DEF f
    <3>2. Bytes(1) = f /\ Remaining' = FromHost(sent) /\ sent' = sent
      BY <1>2, <2>1, <3>1, FieldRead
    <3> QED
      BY <3>2 DEF f
  <2>4. Bytes(1)[1] = Len(Name) /\ Name' = Name
    BY <1>6, <2>3 DEF Name
  <2>5. /\ got'.len = Len(Name) /\ got'.cmd = got.cmd /\ got'.token = got.token
        /\ got'.atyp = got.atyp
    BY <1>1, <2>1, <2>4 DEF GotType
  <2> QED
    BY <2>1, <2>2, <2>3, <2>4, <2>5 DEF RequestComing
<1>15. CASE ReadHost
  <2>1. /\ Take("host", got.len) /\ at' = "port" /\ got' = [got EXCEPT !.host = Bytes(got.len)]
    BY <1>15 DEF ReadHost, Store
  <2>2. /\ Remaining = Cat(Name, FromPort(sent)) /\ got.cmd = sent.cmd
        /\ got.token = sent.token /\ got.atyp = sent.target.atyp /\ got.len = Len(Name)
    BY <2>1 DEF RequestComing, Take, FromHost, Name
  <2>3. Bytes(got.len) = Name /\ Remaining' = FromPort(sent) /\ sent' = sent
    BY <1>1, <1>2, <1>5, <2>1, <2>2, FieldRead
  <2>4. /\ got'.host = Name /\ got'.cmd = got.cmd /\ got'.token = got.token
        /\ got'.atyp = got.atyp /\ Name' = Name
    BY <1>1, <2>1, <2>3 DEF GotType, Name
  <2> QED
    BY <2>1, <2>2, <2>3, <2>4 DEF RequestComing
<1>16. CASE ReadPort
  <2> DEFINE n == Bytes(2)[1] * Base + Bytes(2)[2]
             fine == got.atyp = ATYP_DOMAIN => Utf8(got.host)
  <2>1. /\ Take("port", 2) /\ got' = [got EXCEPT !.port = n]
        /\ at' = IF fine THEN "done" ELSE "invalid"
    BY <1>16 DEF ReadPort, Then, Store
  <2>2. /\ Remaining = Cat(U16(sent.target.port), Behind) /\ got.cmd = sent.cmd
        /\ got.token = sent.token /\ got.atyp = sent.target.atyp /\ got.host = Name
    BY <2>1 DEF RequestComing, Take, FromPort
  <2>3. Len(U16(sent.target.port)) = 2
        /\ U16(sent.target.port)[1] * Base + U16(sent.target.port)[2] = sent.target.port
    BY <1>4, NumberBytes
  <2>4. /\ Bytes(2) = U16(sent.target.port) /\ Remaining' = Behind /\ sent' = sent
        /\ kind' = kind
    BY <1>2, <1>7, <2>1, <2>2, <2>3, FieldRead
  <2>5. n = sent.target.port
    BY <2>3, <2>4
  <2> HIDE DEF n
  <2>6. /\ got'.port = sent.target.port /\ got'.cmd = got.cmd /\ got'.token = got.token
        /\ got'.atyp = got.atyp /\ got'.host = got.host /\ Name' = Name
    BY <1>1, <2>1, <2>4, <2>5 DEF GotType, Name
  <2>7. Readable' <=> fine
    BY <2>2, <2>4 DEF Readable, Name
  <2>8. CASE fine
    <3>1. at' = "done" /\ Readable'
      BY <2>1, <2>7, <2>8
    <3> QED
      BY <2>2, <2>4, <2>6, <3>1 DEF RequestComing
  <2>9. CASE ~fine
    <3>1. at' = "invalid" /\ ~Readable'
      BY <2>1, <2>7, <2>9
    <3> QED
      BY <3>1 DEF RequestComing
  <2> QED
    BY <2>8, <2>9
<1>17. CASE ReadEof
  <2>1. at \in DOMAIN Width /\ pos + Width[at] > Len(wire)
    BY <1>17 DEF ReadEof
  <2>2. PICK f \in Seq(Byte), r \in Seq(Byte) : Remaining = Cat(f, r) /\ Len(f) = Width[at]
    <3>1. CASE at \in {"magic", "version", "cmd"}
      BY <1>2, <1>3, <1>6, <1>7, <3>1
      DEF RequestComing, Width, FromMagic, FromVersion, FromCmd
    <3>2. CASE at \in {"tokenLen", "token"}
      BY <1>2, <1>4, <1>6, <1>7, <3>2 DEF RequestComing, Width, FromTokenLen, FromToken
    <3>3. CASE at = "atyp"
      <4>1. (IF sent.target.atyp = ATYP_DOMAIN THEN FromHostLen(sent) ELSE FromHost(sent))
              \in Seq(Byte)
        BY <1>2
      <4> QED
        BY <1>6, <1>7, <3>3, <4>1 DEF RequestComing, Width, FromAtyp
    <3>4. CASE at \in {"hostLen", "host"}
      BY <1>2, <1>5, <1>6, <1>7, <3>4 DEF RequestComing, Width, FromHostLen, FromHost, Name
    <3>5. CASE at = "port"
      BY <1>2, <1>4, <1>7, <3>5, NumberBytes DEF RequestComing, Width, FromPort
    <3> QED
      BY <2>1, <3>1, <3>2, <3>3, <3>4, <3>5 DEF RequestSoFar, Width
  <2>3. pos + Width[at] <= Len(wire)
    BY <2>2, FieldComes
  <2>4. Width[at] \in Nat /\ pos \in Nat /\ Len(wire) \in Nat
    BY <1>1, <2>1 DEF Width, TypeOK
  <2> QED
    BY <2>1, <2>3, <2>4
<1>18. CASE \/ ReadStatus \/ ReadMsgLen \/ ReadMsg \/ ReadDatagramLen \/ ReadDatagram
            \/ EndStream \/ \E p \in Payloads : WriteDatagram(p)
  BY <1>18 DEF RequestSoFar, Take, ReadStatus, ReadMsgLen, ReadMsg, ReadDatagramLen,
               ReadDatagram, EndStream, WriteDatagram
<1>19. CASE UNCHANGED vars
  <2>1. /\ at' = at /\ got' = got /\ sent' = sent /\ kind' = kind /\ Remaining' = Remaining
        /\ Name' = Name /\ Readable' = Readable
    BY <1>19 DEF vars, Remaining, Name, Readable
  <2> QED
    BY <2>1 DEF RequestComing
<1> QED
  BY <1>8, <1>9, <1>10, <1>11, <1>12, <1>13, <1>14, <1>15, <1>16, <1>17, <1>18, <1>19 DEF Next

\* A response is always read back, with what is left of its message.
LEMMA ResponseComingStep ==
    ASSUME TypeOK, kind = "response", ~open, ResponseSoFar,
           sent \in Responses, ResponseComing, [Next]_vars
    PROVE  ResponseComing'
<1>1. got \in GotType /\ got.len \in Nat
  <2>1. got \in GotType
    BY DEF TypeOK, GotType
  <2> QED
    BY <2>1, BaseAssumption DEF GotType, MaxDatagram
<1>2. /\ FromMsg(sent) \in Seq(Byte) /\ FromMsgLen(sent) \in Seq(Byte)
      /\ FromStatus(sent) \in Seq(Byte) /\ FromVersion(FromStatus(sent)) \in Seq(Byte)
      /\ Behind \in Seq(Byte) /\ sent.status \in Statuses
      /\ One(sent.status) \in Seq(Byte) /\ One(Len(Message)) \in Seq(Byte)
      /\ Message \in Seq(Byte)
  BY ResponseFields DEF Message
<1>3. /\ Magic \in Seq(Byte) /\ Len(Magic) = 2
      /\ One(VERSION) \in Seq(Byte) /\ Len(One(VERSION)) = 1
  BY ProtocolBytes, OneBytes, BaseAssumption DEF VERSION, Byte
<1>4. \A b : One(b)[1] = b /\ Len(One(b)) = 1
  BY DEF One
<1> HIDE DEF Message
<1>5. CASE ReadMagic
  <2>1. Take("magic", 2) /\ at' = IF Bytes(2) = Magic THEN "version" ELSE "invalid"
    BY <1>5 DEF ReadMagic, Then
  <2>2. Remaining = Cat(Magic, FromVersion(FromStatus(sent)))
    BY <2>1 DEF ResponseComing, Take, FromMagic
  <2>3. Bytes(2) = Magic /\ Remaining' = FromVersion(FromStatus(sent)) /\ sent' = sent
    BY <1>2, <1>3, <2>1, <2>2, FieldRead
  <2> QED
    BY <2>1, <2>3 DEF ResponseComing
<1>6. CASE ReadVersion
  <2>1. Take("version", 1) /\ at' = IF Bytes(1) = One(VERSION) THEN "status" ELSE "invalid"
    BY <1>6 DEF ReadVersion, Then, One
  <2>2. Remaining = Cat(One(VERSION), FromStatus(sent))
    BY <2>1 DEF ResponseComing, Take, FromVersion
  <2>3. Bytes(1) = One(VERSION) /\ Remaining' = FromStatus(sent) /\ sent' = sent
    BY <1>2, <1>3, <2>1, <2>2, FieldRead
  <2> QED
    BY <2>1, <2>3 DEF ResponseComing
<1>7. CASE ReadStatus
  <2>1. /\ Take("status", 1) /\ at' = IF Bytes(1)[1] \in Statuses THEN "msgLen" ELSE "invalid"
        /\ got' = [got EXCEPT !.status = Bytes(1)[1]]
    BY <1>7 DEF ReadStatus, Then, Store
  <2>2. Remaining = Cat(One(sent.status), FromMsgLen(sent))
    BY <2>1 DEF ResponseComing, Take, FromStatus
  <2>3. Bytes(1) = One(sent.status) /\ Remaining' = FromMsgLen(sent) /\ sent' = sent
    BY <1>2, <1>4, <2>1, <2>2, FieldRead
  <2>4. Bytes(1)[1] = sent.status
    BY <1>4, <2>3
  <2>5. got'.status = sent.status
    BY <1>1, <2>1, <2>4 DEF GotType
  <2> QED
    BY <1>2, <2>1, <2>3, <2>4, <2>5 DEF ResponseComing
<1>8. CASE ReadMsgLen
  <2> DEFINE f == One(Len(Message))
  <2>1. /\ Take("msgLen", 1) /\ at' = "msg" /\ got' = [got EXCEPT !.len = Bytes(1)[1]]
    BY <1>8 DEF ReadMsgLen, Store
  <2>2. /\ Remaining = Cat(f, FromMsg(sent)) /\ got.status = sent.status
        /\ f \in Seq(Byte) /\ Len(f) = 1
    BY <1>2, <1>4, <2>1 DEF ResponseComing, Take, FromMsgLen, Message
  <2> HIDE DEF f
  <2>3. Bytes(1) = f /\ Remaining' = FromMsg(sent) /\ sent' = sent
    BY <1>2, <2>1, <2>2, FieldRead
  <2>4. Bytes(1)[1] = Len(Message) /\ Message' = Message
    BY <1>4, <2>3 DEF Message, f
  <2>5. got'.len = Len(Message) /\ got'.status = got.status
    BY <1>1, <2>1, <2>4 DEF GotType
  <2> QED
    BY <2>1, <2>2, <2>3, <2>4, <2>5 DEF ResponseComing
<1>9. CASE ReadMsg
  <2>1. /\ Take("msg", got.len) /\ at' = "done"
        /\ got' = [got EXCEPT !.message = Lossy(Bytes(got.len))]
    BY <1>9 DEF ReadMsg, Store
  <2>2. /\ Remaining = Cat(Message, Behind) /\ got.status = sent.status
        /\ got.len = Len(Message)
    BY <2>1 DEF ResponseComing, Take, FromMsg, Message
  <2>3. Bytes(got.len) = Message /\ Remaining' = Behind /\ sent' = sent
    BY <1>1, <1>2, <2>1, <2>2, FieldRead
  <2>4. got'.message = Lossy(Message) /\ got'.status = got.status /\ Message' = Message
    BY <1>1, <2>1, <2>3 DEF GotType, Message
  <2> QED
    BY <2>1, <2>2, <2>3, <2>4 DEF ResponseComing
<1>10. CASE ReadEof
  <2>1. at \in DOMAIN Width /\ pos + Width[at] > Len(wire)
    BY <1>10 DEF ReadEof
  <2>2. PICK f \in Seq(Byte), r \in Seq(Byte) : Remaining = Cat(f, r) /\ Len(f) = Width[at]
    <3>1. CASE at \in {"magic", "version", "status"}
      BY <1>2, <1>3, <1>4, <3>1
      DEF ResponseComing, Width, FromMagic, FromVersion, FromStatus
    <3>2. CASE at \in {"msgLen", "msg"}
      BY <1>2, <1>4, <3>2 DEF ResponseComing, Width, FromMsgLen, FromMsg, Message
    <3> QED
      BY <2>1, <3>1, <3>2 DEF ResponseSoFar, Width
  <2>3. pos + Width[at] <= Len(wire)
    BY <2>2, FieldComes
  <2>4. Width[at] \in Nat /\ pos \in Nat /\ Len(wire) \in Nat
    BY <1>1, <2>1 DEF Width, TypeOK
  <2> QED
    BY <2>1, <2>3, <2>4
<1>11. CASE \/ ReadCmd \/ ReadTokenLen \/ ReadToken \/ ReadAtyp \/ ReadHostLen \/ ReadHost
            \/ ReadPort \/ ReadDatagramLen \/ ReadDatagram
            \/ EndStream \/ \E p \in Payloads : WriteDatagram(p)
  BY <1>11 DEF ResponseSoFar, Take, ReadCmd, ReadTokenLen, ReadToken, ReadAtyp, ReadHostLen,
               ReadHost, ReadPort, ReadDatagramLen, ReadDatagram, EndStream, WriteDatagram
<1>12. CASE UNCHANGED vars
  <2>1. /\ at' = at /\ got' = got /\ sent' = sent /\ Remaining' = Remaining
        /\ Message' = Message
    BY <1>12 DEF vars, Remaining, Message
  <2> QED
    BY <2>1 DEF ResponseComing
<1> QED
  BY <1>5, <1>6, <1>7, <1>8, <1>9, <1>10, <1>11, <1>12 DEF Next

LEMMA ComingStep == TypeOK /\ SoFar /\ Coming /\ [Next]_vars => Coming'
<1> SUFFICES ASSUME TypeOK, SoFar, Coming, [Next]_vars PROVE Coming'
  OBVIOUS
<1>1. kind' = kind
  BY DEF Next, vars, Take, ReadMagic, ReadVersion, ReadCmd, ReadTokenLen, ReadToken, ReadAtyp,
         ReadHostLen, ReadHost, ReadPort, ReadStatus, ReadMsgLen, ReadMsg, ReadDatagramLen,
         ReadDatagram, ReadEof, EndStream, WriteDatagram
<1>2. CASE kind = "datagrams"
  BY <1>1, <1>2 DEF Coming
<1>3. CASE kind # "datagrams"
  <2>1. ~open
    BY <1>3 DEF SoFar
  <2>2. sent' = sent /\ intact' = intact
    BY <2>1 DEF Next, vars, Take, ReadMagic, ReadVersion, ReadCmd, ReadTokenLen, ReadToken,
           ReadAtyp, ReadHostLen, ReadHost, ReadPort, ReadStatus, ReadMsgLen, ReadMsg,
           ReadDatagramLen, ReadDatagram, ReadEof, EndStream, WriteDatagram
  <2>3. ASSUME kind = "request", intact, Len(sent.token) <= MaxLen
        PROVE  RequestComing'
    BY <2>1, <2>3, RequestComingStep DEF Coming, SoFar
  <2>4. ASSUME kind = "request", intact, ~(Len(sent.token) <= MaxLen)
        PROVE  NothingComing'
    <3>1. NothingComing
      BY <2>4 DEF Coming
    <3>2. at \in {"magic", "eof"} /\ (at = "magic" => pos = 0 /\ Len(wire) = 1)
      BY <3>1 DEF NothingComing
    <3>3. ~ReadMagic
      <4>1. ReadMagic => at = "magic" /\ pos + 2 <= Len(wire)
        BY DEF ReadMagic, Take
      <4>2. ~(0 + 2 <= 1)
        OBVIOUS
      <4> QED
        BY <3>2, <4>1, <4>2
    <3>4. ~(\/ ReadVersion \/ ReadCmd \/ ReadTokenLen \/ ReadToken
            \/ ReadAtyp \/ ReadHostLen \/ ReadHost \/ ReadPort
            \/ ReadStatus \/ ReadMsgLen \/ ReadMsg
            \/ ReadDatagramLen \/ ReadDatagram)
      BY <3>2 DEF Take, ReadVersion, ReadCmd, ReadTokenLen, ReadToken, ReadAtyp, ReadHostLen,
           ReadHost, ReadPort, ReadStatus, ReadMsgLen, ReadMsg, ReadDatagramLen, ReadDatagram
    <3>5. ~EndStream /\ \A p \in Payloads : ~WriteDatagram(p)
      BY <2>1 DEF EndStream, WriteDatagram
    <3>6. ReadEof \/ UNCHANGED vars
      BY <3>3, <3>4, <3>5 DEF Next
    <3>7. at' \in {"eof", at} /\ pos' = pos /\ wire' = wire
      BY <3>6 DEF ReadEof, vars
    <3> QED
      BY <3>1, <3>7 DEF NothingComing
  <2>5. ASSUME kind = "response", intact PROVE ResponseComing'
    BY <2>1, <2>5, ResponseComingStep DEF Coming, SoFar
  <2> QED
    BY <1>1, <2>2, <2>3, <2>4, <2>5 DEF Coming
<1> QED
  BY <1>2, <1>3

LEMMA ComingHolds == Spec => [](TypeOK /\ SoFar /\ Coming)
<1>1. Init => TypeOK /\ SoFar /\ Coming
  BY TypeInit, SoFarInit, ComingInit
<1>2. TypeOK /\ SoFar /\ Coming /\ [Next]_vars => (TypeOK /\ SoFar /\ Coming)'
  BY TypeStep, SoFarStep, ComingStep
<1> QED
  BY <1>1, <1>2, PTL DEF Spec

\* When only what follows the message is left, the reader is one byte from the
\* end.
LEMMA OneLeft ==
    ASSUME TypeOK, Remaining = Behind
    PROVE  pos = Len(wire) - 1
<1>1. wire \in Seq(Byte) /\ pos \in 0 .. Len(wire) /\ Len(wire) \in Nat
  BY DEF TypeOK
<1>2. \A i \in pos + 1 .. Len(wire) : wire[i] \in Byte
  <2>1. \A i \in 1 .. Len(wire) : wire[i] \in Byte
    BY <1>1, ElementOfSeq
  <2> QED
    BY <1>1, <2>1
<1>3. Len(Remaining) = IF pos + 1 <= Len(wire) THEN Len(wire) - (pos + 1) + 1 ELSE 0
  BY <1>1, <1>2, SubSeqProperties DEF Remaining
<1>4. Len(Behind) = 1
  BY DEF Behind, One
<1>5. Len(Remaining) = 1
  BY <1>4
<1>6. \A p, n \in Nat : (1 = IF p + 1 <= n THEN n - (p + 1) + 1 ELSE 0) => p = n - 1
  OBVIOUS
<1>7. 1 = IF pos + 1 <= Len(wire) THEN Len(wire) - (pos + 1) + 1 ELSE 0
  BY <1>3, <1>5, Zenon
<1>8. pos \in Nat
  BY <1>1
<1> QED
  BY <1>1, <1>6, <1>7, <1>8

\* Every request and response that arrives as it was written is read back, up to
\* the truncation of a long name or message, and the reader stops at its last
\* byte; only a request that cannot be written, or whose name is cut inside a
\* character, is refused (write_to, encode, read_from).
THEOREM WrittenIsReadBack == Spec => []ReadBack
<1>1. TypeOK /\ SoFar /\ Coming => ReadBack
  <2> SUFFICES ASSUME TypeOK, SoFar, Coming, intact, kind # "datagrams" PROVE
               /\ at = "done" =>
                  /\ Readable /\ pos = Len(wire) - 1
                  /\ Returned = IF kind = "request"
                                THEN [sent EXCEPT !.target.host = Truncate(@)]
                                ELSE [sent EXCEPT !.message = Lossy(Truncate(@))]
               /\ at \in {"invalid", "eof"} => ~Readable
    BY DEF ReadBack
  <2>1. CASE kind = "request"
    <3>1. CASE Len(sent.token) <= MaxLen
      <4>1. RequestComing /\ sent \in Requests
        BY <2>1, <3>1 DEF Coming
      <4>2. at \in {"invalid", "eof"} => ~Readable
        BY <4>1 DEF RequestComing
      <4>3. ASSUME at = "done"
            PROVE  Returned = [sent EXCEPT !.target.host = Truncate(@)]
        <5>1. /\ got.cmd = sent.cmd /\ got.token = sent.token
              /\ got.atyp = sent.target.atyp /\ got.host = Truncate(sent.target.host)
              /\ got.port = sent.target.port
          BY <4>1, <4>3 DEF RequestComing, Name
        <5>2. sent \in [cmd : Cmds, token : Text,
                        target : [atyp : Atyps, host : Text, port : 0..MaxDatagram]]
          BY <4>1, RequestsAssumption
        <5>3. Returned = [cmd |-> sent.cmd, token |-> sent.token,
                          target |-> [atyp |-> sent.target.atyp,
                                      host |-> Truncate(sent.target.host),
                                      port |-> sent.target.port]]
          BY <2>1, <5>1 DEF Returned, Target
        <5> HIDE DEF Truncate
        <5> QED
          BY <5>2, <5>3
      <4>4. at = "done" => Readable /\ pos = Len(wire) - 1
        BY <4>1, OneLeft DEF RequestComing
      <4> QED
        BY <2>1, <4>2, <4>3, <4>4
    <3>2. CASE ~(Len(sent.token) <= MaxLen)
      BY <2>1, <3>2 DEF Coming, NothingComing, Readable
    <3> QED
      BY <3>1, <3>2
  <2>2. CASE kind = "response"
    <3>1. ResponseComing /\ sent \in Responses
      BY <2>2 DEF Coming
    <3>2. at \notin {"invalid", "eof"}
      BY <3>1 DEF ResponseComing
    <3>3. ASSUME at = "done"
          PROVE  Returned = [sent EXCEPT !.message = Lossy(Truncate(@))]
      <4>1. got.status = sent.status /\ got.message = Lossy(Truncate(sent.message))
        BY <3>1, <3>3 DEF ResponseComing, Message
      <4>2. sent \in [status : Statuses, message : Text]
        BY <3>1, ResponsesAssumption
      <4>3. Returned = [status |-> sent.status, message |-> Lossy(Truncate(sent.message))]
        BY <2>2, <4>1 DEF Returned
      <4> HIDE DEF Truncate, Lossy
      <4> QED
        BY <4>2, <4>3
    <3>4. at = "done" => Readable /\ pos = Len(wire) - 1
      BY <2>2, <3>1, OneLeft DEF ResponseComing, Readable
    <3> QED
      BY <2>2, <3>2, <3>3, <3>4
  <2> QED
    BY <2>1, <2>2 DEF TypeOK
<1> QED
  BY <1>1, ComingHolds, PTL

-----------------------------------------------------------------------------
(* Datagrams *)

Datagram == {p \in Seq(Byte) : Len(p) <= MaxDatagram}

\* Datagram i starts after the first b[i] bytes: the wire is the datagrams the
\* writer was given, one behind the other, cut off at its end.
Laid(b) ==
    /\ b \in [1 .. Len(sent) + 1 -> Nat] /\ b[1] = 0
    /\ \A i \in 1 .. Len(sent) : b[i + 1] = b[i] + 2 + Len(sent[i])
    /\ \A i \in 1 .. Len(sent) : \A j \in 1 .. 2 + Len(sent[i]) :
          b[i] + j <= Len(wire) => wire[b[i] + j] = EncodeDatagram(sent[i])[j]
    /\ Len(wire) <= b[Len(sent) + 1]
    /\ intact => \A i \in 1 .. Len(sent) + 1 : b[i] <= Len(wire)

\* The reader is at the start of a datagram, or behind its length.
Between(b) ==
    LET k == Len(got.payloads)
    IN  /\ k <= Len(sent) /\ got.payloads = SubSeq(sent, 1, k)
        /\ at = "datagramLen" => pos = b[k + 1]
        /\ at = "datagram" =>
              k < Len(sent) /\ pos = b[k + 1] + 2 /\ got.len = Len(sent[k + 1])
        /\ at = "eof" => ~open /\ (intact => k = Len(sent))

Arriving ==
    kind = "datagrams" =>
        /\ at \in {"datagramLen", "datagram", "eof"}
        /\ sent \in Seq(Datagram)
        /\ open => intact
        /\ \E b : Laid(b) /\ Between(b)

\* What stands where in two pieces, one behind the other.
LEMMA CatElements ==
    ASSUME NEW f \in Seq(Byte), NEW g \in Seq(Byte)
    PROVE  /\ Len(Cat(f, g)) = Len(f) + Len(g)
           /\ \A i \in 1 .. Len(f) : Cat(f, g)[i] = f[i]
           /\ \A i \in 1 .. Len(g) : Cat(f, g)[Len(f) + i] = g[i]
<1> DEFINE c == Cat(f, g)
<1>1. c = f \o g
  BY DEF Cat
<1>2. Len(f) \in Nat /\ Len(g) \in Nat
  BY LenProperties
<1> HIDE DEF c
<1>3. /\ Len(c) = Len(f) + Len(g)
      /\ \A i \in 1 .. Len(f) + Len(g) : c[i] = IF i <= Len(f) THEN f[i] ELSE g[i - Len(f)]
  BY <1>1, ConcatProperties
<1>4. \A i \in 1 .. Len(g) : /\ Len(f) + i \in 1 .. Len(f) + Len(g)
                            /\ ~(Len(f) + i <= Len(f))
                            /\ (Len(f) + i) - Len(f) = i
  BY <1>2
<1>5. \A i \in 1 .. Len(f) : i \in 1 .. Len(f) + Len(g) /\ i <= Len(f)
  BY <1>2
<1>6. \A i \in 1 .. Len(g) : c[Len(f) + i] = g[i]
  BY <1>3, <1>4
<1>7. \A i \in 1 .. Len(f) : c[i] = f[i]
  BY <1>3, <1>5
<1> QED
  BY <1>3, <1>6, <1>7 DEF c

\* A datagram on the wire: two bytes of length, then the payload.
LEMMA DatagramEncoded ==
    ASSUME NEW p \in Datagram
    PROVE  LET e == EncodeDatagram(p)
           IN  /\ e \in Seq(Byte) /\ Len(e) = 2 + Len(p)
               /\ e[1] * Base + e[2] = Len(p)
               /\ \A i \in 1 .. Len(p) : e[2 + i] = p[i]
<1> DEFINE u == U16(Len(p))
           e == EncodeDatagram(p)
<1>1. p \in Seq(Byte) /\ Len(p) \in 0..MaxDatagram /\ Len(p) \in Nat
  BY LenProperties DEF Datagram
<1>2. u \in Seq(Byte) /\ Len(u) = 2 /\ u[1] * Base + u[2] = Len(p)
  BY <1>1, NumberBytes
<1>3. e = Cat(u, p)
  BY DEF EncodeDatagram, Cat
<1> HIDE DEF u, e
<1>4. /\ e \in Seq(Byte) /\ Len(e) = 2 + Len(p)
      /\ \A i \in 1 .. 2 : e[i] = u[i]
      /\ \A i \in 1 .. Len(p) : e[2 + i] = p[i]
  <2>1. /\ Len(Cat(u, p)) = Len(u) + Len(p)
        /\ \A i \in 1 .. Len(u) : Cat(u, p)[i] = u[i]
        /\ \A i \in 1 .. Len(p) : Cat(u, p)[Len(u) + i] = p[i]
    BY <1>1, <1>2, CatElements
  <2>2. Cat(u, p) \in Seq(Byte)
    BY <1>1, <1>2, CatBytes
  <2> QED
    BY <1>2, <1>3, <2>1, <2>2
<1> QED
  BY <1>2, <1>4 DEF e

LEMMA ArrivingInit == Init => Arriving
<1> SUFFICES ASSUME Init, kind = "datagrams" PROVE
             /\ at \in {"datagramLen", "datagram", "eof"}
             /\ sent \in Seq(Datagram)
             /\ open => intact
             /\ \E b : Laid(b) /\ Between(b)
  BY DEF Arriving
<1>1. sent = <<>> /\ open /\ at = "datagramLen" /\ wire = <<>> /\ intact /\ pos = 0
      /\ got.payloads = <<>>
  BY DEF Init, MessageInit, DatagramsInit
<1>2. PICK b : b = [i \in 1 .. 1 |-> 0]
  OBVIOUS
<1>3. Laid(b)
  BY <1>1, <1>2 DEF Laid
<1>4. Between(b)
  BY <1>1, <1>2 DEF Between
<1> QED
  BY <1>1, <1>3, <1>4

\* A datagram is written behind the others.
LEMMA WriteLays ==
    ASSUME TypeOK, sent \in Seq(Datagram), open, intact, NEW b, Laid(b), Between(b),
           NEW p \in Payloads, WriteDatagram(p)
    PROVE  /\ sent' \in Seq(Datagram)
           /\ \E c : Laid(c)' /\ Between(c)'
<1> DEFINE n == Len(sent)
           e == EncodeDatagram(p)
           q == Len(p)
           k == Len(got.payloads)
<1>1. p \in Datagram /\ sent' = Append(sent, p) /\ wire' = wire \o e
      /\ open' = open /\ intact' = intact /\ pos' = pos /\ at' = at /\ got' = got
  BY PayloadsAssumption DEF WriteDatagram, Datagram
<1>2. e \in Seq(Byte) /\ Len(e) = 2 + q /\ q \in Nat
  BY <1>1, DatagramEncoded DEF Datagram
<1>3. n \in Nat /\ sent' \in Seq(Datagram) /\ Len(sent') = n + 1
      /\ (\A i \in 1 .. n : sent'[i] = sent[i]) /\ sent'[n + 1] = p
  BY <1>1, AppendProperties
<1>4. wire \in Seq(Byte) /\ Len(wire) \in Nat
  BY DEF TypeOK
<1>5. Len(wire') = Len(wire) + 2 + q
      /\ (\A i \in 1 .. Len(wire) : wire'[i] = wire[i])
      /\ (\A j \in 1 .. 2 + q : wire'[Len(wire) + j] = e[j])
  <2>1. wire' = Cat(wire, e)
    BY <1>1 DEF Cat
  <2> HIDE DEF e
  <2> QED
    BY <1>2, <1>4, <2>1, CatElements
<1>6. /\ b \in [1 .. n + 1 -> Nat] /\ b[1] = 0
      /\ \A i \in 1 .. n : b[i + 1] = b[i] + 2 + Len(sent[i])
      /\ \A i \in 1 .. n : \A j \in 1 .. 2 + Len(sent[i]) :
            b[i] + j <= Len(wire) => wire[b[i] + j] = EncodeDatagram(sent[i])[j]
      /\ b[n + 1] = Len(wire)
      /\ \A i \in 1 .. n + 1 : b[i] \in Nat /\ b[i] <= Len(wire)
  <2>1. /\ b \in [1 .. n + 1 -> Nat] /\ b[1] = 0
        /\ \A i \in 1 .. n : b[i + 1] = b[i] + 2 + Len(sent[i])
        /\ \A i \in 1 .. n : \A j \in 1 .. 2 + Len(sent[i]) :
              b[i] + j <= Len(wire) => wire[b[i] + j] = EncodeDatagram(sent[i])[j]
    BY DEF Laid
  <2>2. Len(wire) <= b[n + 1] /\ \A i \in 1 .. n + 1 : b[i] <= Len(wire)
    BY DEF Laid
  <2>3. n + 1 \in 1 .. n + 1
    BY <1>3
  <2> HIDE DEF n
  <2>4. \A i \in 1 .. n + 1 : b[i] \in Nat
    BY <2>1
  <2>5. b[n + 1] = Len(wire)
    BY <1>4, <2>2, <2>3, <2>4
  <2> QED
    BY <2>1, <2>2, <2>4, <2>5
<1>7. PICK c : c = [i \in 1 .. n + 2 |-> IF i <= n + 1 THEN b[i] ELSE Len(wire) + 2 + q]
  OBVIOUS
<1>8. c \in [1 .. (n + 1) + 1 -> Nat] /\ (\A i \in 1 .. n + 1 : c[i] = b[i])
      /\ c[n + 2] = Len(wire) + 2 + q
  BY <1>2, <1>3, <1>4, <1>6, <1>7
<1>9. \A i \in 1 .. n : Len(sent[i]) \in Nat
  BY <1>3, ElementOfSeq DEF Datagram
<1> HIDE DEF n, e, q, k
<1>10. \A i \in 1 .. n + 1 : c[i + 1] = c[i] + 2 + Len(sent'[i])
  <2> TAKE i \in 1 .. n + 1
  <2>1. CASE i = n + 1
    <3>1. i + 1 = n + 2
      BY <1>3, <2>1
    <3>2. c[i] = Len(wire) /\ Len(sent'[i]) = q
      BY <1>3, <1>6, <1>8, <2>1 DEF q
    <3> QED
      BY <1>8, <3>1, <3>2
  <2>2. CASE i \in 1 .. n
    <3>1. i + 1 \in 1 .. n + 1 /\ i \in 1 .. n + 1
      BY <1>3, <2>2
    <3> QED
      BY <1>3, <1>6, <1>8, <2>2, <3>1
  <2> QED
    BY <1>3, <2>1, <2>2
<1>11. \A i \in 1 .. n + 1 : \A j \in 1 .. 2 + Len(sent'[i]) :
          c[i] + j <= Len(wire') => wire'[c[i] + j] = EncodeDatagram(sent'[i])[j]
  <2> TAKE i \in 1 .. n + 1
  <2> TAKE j \in 1 .. 2 + Len(sent'[i])
  <2>1. CASE i = n + 1
    <3>1. sent'[i] = p /\ c[i] = Len(wire) /\ j \in 1 .. 2 + q
      BY <1>3, <1>6, <1>8, <2>1 DEF q
    <3> QED
      BY <1>5, <3>1 DEF e
  <2>2. CASE i \in 1 .. n
    <3>1. sent'[i] = sent[i] /\ c[i] = b[i] /\ b[i] \in Nat /\ j \in 1 .. 2 + Len(sent[i])
      BY <1>3, <1>6, <1>8, <2>2
    <3>2. b[i + 1] = b[i] + 2 + Len(sent[i]) /\ b[i + 1] <= Len(wire) /\ Len(sent[i]) \in Nat
      BY <1>3, <1>6, <1>9, <2>2
    <3>3. b[i] + j \in 1 .. Len(wire)
      BY <1>4, <3>1, <3>2
    <3>4. wire[b[i] + j] = EncodeDatagram(sent[i])[j]
      BY <1>4, <1>6, <2>2, <3>1, <3>3
    <3> QED
      BY <1>5, <3>1, <3>3, <3>4
  <2> QED
    BY <1>3, <2>1, <2>2
<1>12. \A i \in 1 .. (n + 1) + 1 : c[i] <= Len(wire')
  BY <1>2, <1>3, <1>4, <1>5, <1>6, <1>8
<1>13. Laid(c)'
  <2>1. Len(wire') <= c[(n + 1) + 1]
    BY <1>2, <1>3, <1>4, <1>5, <1>8
  <2>2. c[1] = 0
    BY <1>3, <1>6, <1>8
  <2> QED
    BY <1>3, <1>8, <1>10, <1>11, <1>12, <2>1, <2>2 DEF Laid
<1>14. Between(c)'
  <2>1. k \in Nat /\ k <= n /\ got.payloads = SubSeq(sent, 1, k)
        /\ (at = "datagramLen" => pos = b[k + 1])
        /\ (at = "datagram" =>
              k < n /\ pos = b[k + 1] + 2 /\ got.len = Len(sent[k + 1]))
        /\ at # "eof"
    BY DEF Between, TypeOK, k, n
  <2>2. SubSeq(sent', 1, k) = SubSeq(sent, 1, k)
    <3>1. SubSeq(Append(sent, p), 1, k) = SubSeq(sent, 1, k)
      BY <1>1, <1>3, <2>1 DEF n
    <3> QED
      BY <1>1, <3>1
  <2>3. k + 1 \in 1 .. n + 1 /\ (k < n => k + 1 \in 1 .. n)
    BY <1>3, <2>1
  <2>4. c[k + 1] = b[k + 1] /\ (k < n => sent'[k + 1] = sent[k + 1])
    BY <1>3, <1>8, <2>3
  <2>5. k <= n + 1 /\ (k < n => k < n + 1)
    BY <1>3, <2>1
  <2> QED
    BY <1>1, <1>3, <2>1, <2>2, <2>4, <2>5 DEF Between, k
<1> QED
  BY <1>3, <1>13, <1>14

\* What the bytes of a datagram that has begun to arrive stand for.
LEMMA LaidBytes ==
    ASSUME TypeOK, sent \in Seq(Datagram), NEW b, Laid(b), NEW i \in 1 .. Len(sent)
    PROVE  /\ b[i] \in Nat /\ b[i + 1] = b[i] + 2 + Len(sent[i]) /\ sent[i] \in Datagram
           /\ Len(sent[i]) \in Nat
           /\ \A j \in 1 .. 2 + Len(sent[i]) :
                 b[i] + j <= Len(wire) => wire[b[i] + j] = EncodeDatagram(sent[i])[j]
<1>1. Len(sent) \in Nat /\ sent[i] \in Datagram
  BY LenProperties, ElementOfSeq
<1>2. i \in 1 .. Len(sent) + 1
  BY <1>1
<1>3. b[i] \in Nat
  BY <1>2 DEF Laid
<1>4. Len(sent[i]) \in Nat
  BY <1>1, LenProperties DEF Datagram
<1> QED
  BY <1>1, <1>3, <1>4 DEF Laid

\* A reader between two datagrams knows the boundary it is at.
LEMMA Boundary ==
    ASSUME TypeOK, sent \in Seq(Datagram), NEW b, Laid(b), Between(b)
    PROVE  LET k == Len(got.payloads)
           IN  /\ k \in Nat /\ Len(sent) \in Nat /\ k <= Len(sent)
               /\ b[k + 1] \in Nat
               /\ k < Len(sent) => k + 1 \in 1 .. Len(sent)
               /\ k = Len(sent) => Len(wire) <= b[k + 1]
               /\ intact /\ k < Len(sent) => b[(k + 1) + 1] <= Len(wire)
<1> DEFINE k == Len(got.payloads)
           n == Len(sent)
<1>1. k \in Nat /\ n \in Nat /\ k <= n
  BY LenProperties DEF TypeOK, Between
<1>2. /\ b \in [1 .. n + 1 -> Nat] /\ Len(wire) <= b[n + 1]
      /\ intact => \A i \in 1 .. n + 1 : b[i] <= Len(wire)
  BY DEF Laid
<1> HIDE DEF k, n
<1>3. k + 1 \in 1 .. n + 1 /\ (k < n => k + 1 \in 1 .. n /\ (k + 1) + 1 \in 1 .. n + 1)
  BY <1>1
<1>4. b[k + 1] \in Nat
  BY <1>2, <1>3
<1> QED
  BY <1>1, <1>2, <1>3, <1>4 DEF k, n

\* The length the reader takes is that of the datagram that comes next.
LEMMA LengthComes ==
    ASSUME TypeOK, sent \in Seq(Datagram), NEW b, Laid(b), Between(b), ReadDatagramLen
    PROVE  Laid(b)' /\ Between(b)'
<1> DEFINE k == Len(got.payloads)
           e == EncodeDatagram(sent[k + 1])
<1>1. /\ at = "datagramLen" /\ at' = "datagram" /\ pos + 2 <= Len(wire) /\ pos' = pos + 2
      /\ kind' = kind /\ sent' = sent /\ wire' = wire /\ open' = open /\ intact' = intact
      /\ got' = [got EXCEPT !.len = Bytes(2)[1] * Base + Bytes(2)[2]]
  BY DEF ReadDatagramLen, Take, Store
<1>2. wire \in Seq(Byte) /\ Len(wire) \in Nat /\ pos \in Nat
  BY DEF TypeOK
<1>3. /\ k \in Nat /\ Len(sent) \in Nat /\ k <= Len(sent) /\ b[k + 1] \in Nat
      /\ k = Len(sent) => Len(wire) <= b[k + 1]
  BY Boundary
<1>4. pos = b[k + 1] /\ got.payloads = SubSeq(sent, 1, k)
  BY <1>1 DEF Between
<1> HIDE DEF k
<1>5. k + 1 \in 1 .. Len(sent) /\ k < Len(sent)
  BY <1>1, <1>2, <1>3, <1>4
<1>6. /\ sent[k + 1] \in Datagram /\ Len(sent[k + 1]) \in Nat
      /\ \A j \in 1 .. 2 + Len(sent[k + 1]) :
            b[k + 1] + j <= Len(wire) => wire[b[k + 1] + j] = e[j]
  BY <1>5, LaidBytes
<1>7. e[1] * Base + e[2] = Len(sent[k + 1])
  BY <1>6, DatagramEncoded
<1> HIDE DEF e
<1>8. wire[pos + 1] = e[1] /\ wire[pos + 2] = e[2]
  <2>1. 1 \in 1 .. 2 + Len(sent[k + 1]) /\ 2 \in 1 .. 2 + Len(sent[k + 1])
        /\ pos + 1 <= Len(wire)
    BY <1>1, <1>2, <1>6
  <2> QED
    BY <1>1, <1>4, <1>6, <2>1
<1>9. Bytes(2)[1] = wire[pos + 1] /\ Bytes(2)[2] = wire[pos + 2]
  <2>1. \A i \in pos + 1 .. pos + 2 : wire[i] \in Byte
    <3>1. \A i \in pos + 1 .. pos + 2 : i \in 1 .. Len(wire)
      BY <1>1, <1>2
    <3> QED
      BY <1>2, <3>1, ElementOfSeq
  <2>2. \A i \in 1 .. (pos + 2) - (pos + 1) + 1 : Bytes(2)[i] = wire[pos + 1 + i - 1]
    BY <1>2, <2>1, SubSeqProperties DEF Bytes
  <2>3. /\ 1 \in 1 .. (pos + 2) - (pos + 1) + 1 /\ 2 \in 1 .. (pos + 2) - (pos + 1) + 1
        /\ pos + 1 + 1 - 1 = pos + 1 /\ pos + 1 + 2 - 1 = pos + 2
    BY <1>2
  <2> QED
    BY <2>2, <2>3
<1>10. got'.len = Len(sent[k + 1]) /\ got'.payloads = got.payloads
  BY <1>1, <1>7, <1>8, <1>9 DEF TypeOK
<1>11. Laid(b)'
  BY <1>1 DEF Laid
<1> QED
  BY <1>1, <1>3, <1>4, <1>5, <1>10, <1>11 DEF Between, k

\* The payload the reader takes is the one the writer was given.
LEMMA PayloadComes ==
    ASSUME TypeOK, sent \in Seq(Datagram), NEW b, Laid(b), Between(b), ReadDatagram
    PROVE  Laid(b)' /\ Between(b)'
<1> DEFINE k == Len(got.payloads)
           p == sent[k + 1]
           e == EncodeDatagram(p)
           q == Bytes(got.len)
<1>1. /\ at = "datagram" /\ at' = "datagramLen" /\ pos + got.len <= Len(wire)
      /\ pos' = pos + got.len
      /\ kind' = kind /\ sent' = sent /\ wire' = wire /\ open' = open /\ intact' = intact
      /\ got' = [got EXCEPT !.payloads = Append(got.payloads, q)]
  BY DEF ReadDatagram, Take, Store
<1>2. wire \in Seq(Byte) /\ Len(wire) \in Nat /\ pos \in Nat
  BY DEF TypeOK
<1>3. /\ k \in Nat /\ Len(sent) \in Nat /\ b[k + 1] \in Nat
      /\ k < Len(sent) => k + 1 \in 1 .. Len(sent)
  BY Boundary
<1>4. /\ k < Len(sent) /\ pos = b[k + 1] + 2 /\ got.len = Len(p)
      /\ got.payloads = SubSeq(sent, 1, k)
  BY <1>1 DEF Between
<1> HIDE DEF k
<1>5. /\ p \in Datagram /\ Len(p) \in Nat /\ b[(k + 1) + 1] = b[k + 1] + 2 + Len(p)
      /\ \A j \in 1 .. 2 + Len(p) :
            b[k + 1] + j <= Len(wire) => wire[b[k + 1] + j] = e[j]
  BY <1>3, <1>4, LaidBytes
<1>6. \A i \in 1 .. Len(p) : e[2 + i] = p[i]
  BY <1>5, DatagramEncoded
<1>7. q \in Seq(Byte) /\ Len(q) = Len(p)
  BY <1>1, <1>4, <1>5, ReadExact
<1>8. \A i \in 1 .. Len(p) : q[i] = wire[pos + i]
  <2>1. \A i \in pos + 1 .. pos + Len(p) : wire[i] \in Byte
    <3>1. \A i \in pos + 1 .. pos + Len(p) : i \in 1 .. Len(wire)
      BY <1>1, <1>2, <1>4, <1>5
    <3> QED
      BY <1>2, <3>1, ElementOfSeq
  <2>4. q = SubSeq(wire, pos + 1, pos + Len(p))
    BY <1>4 DEF Bytes
  <2> HIDE DEF p, q
  <2>5. pos + 1 \in Int /\ pos + Len(p) \in Int
    BY <1>2, <1>5
  <2>2. \A i \in 1 .. (pos + Len(p)) - (pos + 1) + 1 : q[i] = wire[pos + 1 + i - 1]
    BY <2>1, <2>4, <2>5, SubSeqProperties
  <2>3. \A i \in 1 .. Len(p) : i \in 1 .. (pos + Len(p)) - (pos + 1) + 1 /\ pos + 1 + i - 1 = pos + i
    BY <1>2, <1>5
  <2> QED
    BY <2>2, <2>3
<1> HIDE DEF p, e, q
<1>9. \A i \in 1 .. Len(p) : wire[pos + i] = e[2 + i]
  <2> TAKE i \in 1 .. Len(p)
  <2>1. 2 + i \in 1 .. 2 + Len(p) /\ b[k + 1] + (2 + i) <= Len(wire)
        /\ b[k + 1] + (2 + i) = pos + i
    <3>1. b[k + 1] \in Nat /\ Len(p) \in Nat /\ pos = b[k + 1] + 2 /\ pos + Len(p) <= Len(wire)
      BY <1>1, <1>3, <1>4, <1>5
    <3> DEFINE x == b[k + 1]
               n == Len(p)
    <3>2. /\ x \in Nat /\ n \in Nat /\ pos = x + 2 /\ pos + n <= Len(wire) /\ i \in 1 .. n
          /\ Len(wire) \in Nat
      BY <1>2, <3>1
    <3> HIDE DEF x, n
    <3>3. 2 + i \in 1 .. 2 + n /\ x + (2 + i) <= Len(wire) /\ x + (2 + i) = pos + i
      BY <3>2
    <3> QED
      BY <3>3 DEF x, n
  <2> QED
    BY <1>5, <2>1
<1>10. q = p
  <2>1. \A i \in 1 .. Len(p) : q[i] = p[i]
    BY <1>6, <1>8, <1>9
  <2>2. p \in Seq(Byte)
    BY <1>5 DEF Datagram
  <2> QED
    BY <1>7, <2>1, <2>2, SeqEqual
<1>11. got'.payloads = SubSeq(sent, 1, k + 1) /\ Len(got'.payloads) = k + 1
  <2>1. got'.payloads = Append(got.payloads, p)
    BY <1>1, <1>10 DEF TypeOK
  <2>2. Len(got'.payloads) = k + 1
    BY <1>7, <1>10, <2>1, AppendProperties DEF TypeOK, k
  <2>3. SubSeq(sent, 1, k + 1) = SubSeq(sent, 1, k) \o <<p>>
    <3>1. 1 \in 1 .. Len(sent) /\ k + 1 \in 1 .. Len(sent) /\ (k + 1) - 1 = k
      BY <1>3, <1>4
    <3> QED
      BY <3>1, SubSeqRecursiveSecond DEF p
  <2>4. Append(got.payloads, p) = got.payloads \o <<p>>
    BY <1>7, <1>10, AppendIsConcat DEF TypeOK
  <2> QED
    BY <1>4, <2>1, <2>2, <2>3, <2>4
<1>12. pos' = b[(k + 1) + 1] /\ k + 1 <= Len(sent)
  BY <1>1, <1>2, <1>3, <1>4, <1>5
<1>13. Laid(b)'
  BY <1>1 DEF Laid
<1> QED
  BY <1>1, <1>11, <1>12, <1>13 DEF Between

\* The end of the stream cuts nothing that has been taken, and leaves every
\* byte that arrives where it was.
LEMMA EndCuts ==
    ASSUME TypeOK, sent \in Seq(Datagram), open, intact, NEW b, Laid(b), Between(b), EndStream
    PROVE  Laid(b)' /\ Between(b)'
<1>1. PICK n \in pos .. Len(wire) :
          wire' = SubSeq(wire, 1, n) /\ intact' = (n = Len(wire))
  BY DEF EndStream
<1>2. /\ kind' = kind /\ sent' = sent /\ pos' = pos /\ at' = at /\ got' = got
      /\ open' = FALSE
  BY DEF EndStream
<1>3. wire \in Seq(Byte) /\ Len(wire) \in Nat /\ pos \in Nat /\ n \in Nat /\ n <= Len(wire)
  BY <1>1, LenProperties DEF TypeOK
<1>4. Len(wire') = n /\ \A i \in 1 .. n : wire'[i] = wire[i]
  <2>1. \A i \in 1 .. n : wire[i] \in Byte
    BY <1>3, ElementOfSeq
  <2>2. /\ Len(SubSeq(wire, 1, n)) = IF 1 <= n THEN n - 1 + 1 ELSE 0
        /\ \A i \in 1 .. n - 1 + 1 : SubSeq(wire, 1, n)[i] = wire[1 + i - 1]
    BY <1>3, <2>1, SubSeqProperties
  <2>3. n - 1 + 1 = n /\ (~(1 <= n) => n = 0) /\ \A i \in 1 .. n : 1 + i - 1 = i
    BY <1>3
  <2> QED
    BY <1>1, <2>2, <2>3
<1>5. /\ b \in [1 .. Len(sent) + 1 -> Nat] /\ b[1] = 0
      /\ \A i \in 1 .. Len(sent) : b[i + 1] = b[i] + 2 + Len(sent[i])
      /\ Len(wire) <= b[Len(sent) + 1]
      /\ \A i \in 1 .. Len(sent) + 1 : b[i] <= Len(wire)
  BY DEF Laid
<1>6. \A i \in 1 .. Len(sent) : \A j \in 1 .. 2 + Len(sent[i]) :
          b[i] + j <= Len(wire') => wire'[b[i] + j] = EncodeDatagram(sent[i])[j]
  <2> TAKE i \in 1 .. Len(sent)
  <2> TAKE j \in 1 .. 2 + Len(sent[i])
  <2> HAVE b[i] + j <= Len(wire')
  <2>1. /\ b[i] \in Nat /\ Len(sent[i]) \in Nat
        /\ b[i] + j <= Len(wire) => wire[b[i] + j] = EncodeDatagram(sent[i])[j]
    BY LaidBytes
  <2>2. b[i] + j \in 1 .. n /\ b[i] + j <= Len(wire)
    <3> DEFINE x == b[i]
               m == Len(sent[i])
    <3>1. x \in Nat /\ m \in Nat /\ j \in 1 .. 2 + m /\ x + j <= n
      BY <1>4, <2>1
    <3> HIDE DEF x, m
    <3>2. x + j \in 1 .. n /\ x + j <= Len(wire)
      BY <1>3, <3>1
    <3> QED
      BY <3>2 DEF x
  <2> QED
    BY <1>4, <2>1, <2>2
<1>7. Len(sent) \in Nat
  BY LenProperties
<1>8. Len(wire') <= b[Len(sent) + 1]
  <2> DEFINE x == b[Len(sent) + 1]
  <2>1. x \in Nat /\ Len(wire) <= x
    <3>1. Len(sent) + 1 \in 1 .. Len(sent) + 1
      BY <1>7
    <3> QED
      BY <1>5, <3>1
  <2> HIDE DEF x
  <2>2. Len(wire') <= x
    BY <1>3, <1>4, <2>1
  <2> QED
    BY <2>2 DEF x
<1>9. intact' => \A i \in 1 .. Len(sent) + 1 : b[i] <= Len(wire')
  BY <1>1, <1>4, <1>5
<1>10. Laid(b)'
  BY <1>2, <1>5, <1>6, <1>8, <1>9 DEF Laid
<1>11. Between(b)'
  BY <1>2 DEF Between
<1> QED
  BY <1>10, <1>11

\* Where nothing was cut off, the stream ends behind the last datagram.
LEMMA EofBehindLast ==
    ASSUME TypeOK, sent \in Seq(Datagram), at \in {"datagramLen", "datagram", "eof"},
           NEW b, Laid(b), Between(b), ReadEof
    PROVE  Laid(b)' /\ Between(b)'
<1> DEFINE k == Len(got.payloads)
<1>1. /\ ~open /\ at # "eof" /\ pos + Width[at] > Len(wire) /\ at' = "eof"
      /\ kind' = kind /\ sent' = sent /\ wire' = wire /\ open' = open /\ intact' = intact
      /\ pos' = pos /\ got' = got
  BY DEF ReadEof, Width
<1>2. wire \in Seq(Byte) /\ Len(wire) \in Nat /\ pos \in Nat
  BY DEF TypeOK
<1>3. /\ k \in Nat /\ Len(sent) \in Nat /\ k <= Len(sent) /\ b[k + 1] \in Nat
      /\ k < Len(sent) => k + 1 \in 1 .. Len(sent)
      /\ intact /\ k < Len(sent) => b[(k + 1) + 1] <= Len(wire)
  BY Boundary
<1>4. /\ at = "datagramLen" => pos = b[k + 1]
      /\ at = "datagram" => pos = b[k + 1] + 2 /\ got.len = Len(sent[k + 1])
      /\ got.payloads = SubSeq(sent, 1, k)
  BY DEF Between
<1> HIDE DEF k
<1>5. ASSUME intact, k < Len(sent) PROVE FALSE
  <2> DEFINE x == b[k + 1]
             n == Len(sent[k + 1])
  <2>1. x + 2 + n <= Len(wire) /\ x \in Nat /\ n \in Nat
    <3>1. b[(k + 1) + 1] = x + 2 + n /\ n \in Nat
      BY <1>3, <1>5, LaidBytes
    <3> QED
      BY <1>3, <1>5, <3>1
  <2>2. \/ pos = x /\ Width[at] = 2
        \/ pos = x + 2 /\ Width[at] = n
    BY <1>1, <1>4 DEF Width
  <2> HIDE DEF x, n
  <2> QED
    BY <1>1, <1>2, <2>1, <2>2
<1>6. intact => k = Len(sent)
  BY <1>3, <1>5
<1>7. Laid(b)'
  BY <1>1 DEF Laid
<1> QED
  BY <1>1, <1>3, <1>4, <1>6, <1>7 DEF Between, k

LEMMA ArrivingStep == TypeOK /\ Arriving /\ [Next]_vars => Arriving'
<1> SUFFICES ASSUME TypeOK, Arriving, [Next]_vars, kind' = "datagrams" PROVE
             /\ at' \in {"datagramLen", "datagram", "eof"}
             /\ sent' \in Seq(Datagram)
             /\ open' => intact'
             /\ \E b : Laid(b)' /\ Between(b)'
  BY DEF Arriving
<1>1. kind = "datagrams"
  BY DEF Next, vars, Take, ReadMagic, ReadVersion, ReadCmd, ReadTokenLen, ReadToken, ReadAtyp,
         ReadHostLen, ReadHost, ReadPort, ReadStatus, ReadMsgLen, ReadMsg, ReadDatagramLen,
         ReadDatagram, ReadEof, EndStream, WriteDatagram
<1>2. /\ at \in {"datagramLen", "datagram", "eof"} /\ sent \in Seq(Datagram)
      /\ open => intact
  BY <1>1 DEF Arriving
<1>3. PICK b : Laid(b) /\ Between(b)
  BY <1>1 DEF Arriving
<1>4. CASE ReadDatagramLen
  BY <1>2, <1>3, <1>4, LengthComes DEF ReadDatagramLen, Take
<1>5. CASE ReadDatagram
  BY <1>2, <1>3, <1>5, PayloadComes DEF ReadDatagram, Take
<1>6. ASSUME NEW p \in Payloads, WriteDatagram(p)
      PROVE  /\ at' \in {"datagramLen", "datagram", "eof"} /\ sent' \in Seq(Datagram)
             /\ open' => intact'
             /\ \E c : Laid(c)' /\ Between(c)'
  <2>1. open /\ at' = at /\ open' = open /\ intact' = intact
    BY <1>6 DEF WriteDatagram
  <2> QED
    BY <1>2, <1>3, <1>6, <2>1, WriteLays
<1>7. CASE EndStream
  <2>1. open /\ at' = at /\ open' = FALSE /\ sent' = sent
    BY <1>7 DEF EndStream
  <2> QED
    BY <1>2, <1>3, <1>7, <2>1, EndCuts
<1>8. CASE ReadEof
  <2>1. at' = "eof" /\ open' = open /\ intact' = intact /\ sent' = sent
    BY <1>8 DEF ReadEof
  <2> QED
    BY <1>2, <1>3, <1>8, <2>1, EofBehindLast
<1>9. CASE \/ ReadMagic \/ ReadVersion \/ ReadCmd \/ ReadTokenLen \/ ReadToken
           \/ ReadAtyp \/ ReadHostLen \/ ReadHost \/ ReadPort
           \/ ReadStatus \/ ReadMsgLen \/ ReadMsg
  BY <1>2, <1>9 DEF Take, ReadMagic, ReadVersion, ReadCmd, ReadTokenLen, ReadToken, ReadAtyp,
     ReadHostLen, ReadHost, ReadPort, ReadStatus, ReadMsgLen, ReadMsg
<1>10. CASE UNCHANGED vars
  <2>1. Laid(b)' /\ Between(b)'
    BY <1>3, <1>10 DEF vars, Laid, Between
  <2> QED
    BY <1>2, <1>10, <2>1 DEF vars
<1> QED
  BY <1>4, <1>5, <1>6, <1>7, <1>8, <1>9, <1>10 DEF Next

\* Datagrams are read whole, in the order in which they were written and with
\* their boundaries, and all of them where the stream was not cut: also an
\* empty one, and also when the writer is still writing (write_datagram,
\* read_datagram).
THEOREM DatagramsKeepBoundaries == Spec => []DatagramsWhole
<1>1. TypeOK /\ Arriving => DatagramsWhole
  <2> SUFFICES ASSUME TypeOK, Arriving, kind = "datagrams" PROVE
               /\ \E n \in 0 .. Len(sent) : got.payloads = SubSeq(sent, 1, n)
               /\ at = "eof" /\ intact => got.payloads = sent
    BY DEF DatagramsWhole
  <2> DEFINE k == Len(got.payloads)
  <2>1. PICK b : Between(b)
    BY DEF Arriving
  <2>2. sent \in Seq(Datagram) /\ k \in Nat /\ Len(sent) \in Nat
    BY LenProperties DEF Arriving, TypeOK
  <2>3. /\ k <= Len(sent) /\ got.payloads = SubSeq(sent, 1, k)
        /\ at = "eof" /\ intact => k = Len(sent)
    BY <2>1 DEF Between
  <2> HIDE DEF k
  <2>4. k \in 0 .. Len(sent)
    BY <2>2, <2>3
  <2>5. SubSeq(sent, 1, Len(sent)) = sent
    BY <2>2, SubSeqFull
  <2> QED
    BY <2>3, <2>4, <2>5
<1>2. TypeOK /\ Arriving /\ [Next]_vars => (TypeOK /\ Arriving)'
  BY TypeStep, ArrivingStep
<1> QED
  BY <1>1, <1>2, TypeInit, ArrivingInit, PTL DEF Spec
=============================================================================
