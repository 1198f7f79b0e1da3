------------------------------ MODULE MC_Wire -------------------------------
EXTENDS Wire

\* Texts that fit, that do not, and that lose half a character.
Long(n) == [i \in 1..n |-> 1]
CutInChar == Long(MaxLen - 1) \o <<Lead, Cont>>
Texts == {<<>>, <<Lead, Cont>>, Long(MaxLen), Long(MaxLen + 1), CutInChar}

MCExpected == <<1, 2>>
Tokens == {<<>>, MCExpected, <<1, 2, 0>>, Long(MaxLen), Long(MaxLen + 1)}
Target1 == {[atyp |-> ATYP_DOMAIN, host |-> h, port |-> 2 * Base + 1] : h \in Texts}
Target2 == {[atyp |-> ATYP_IPV4, host |-> <<Lead>>, port |-> 0],
            [atyp |-> ATYP_IPV6, host |-> <<Cont, 0>>, port |-> MaxDatagram]}

\* Every target with one token, every token with one target.
MCRequests ==
    {[cmd |-> 1, token |-> MCExpected, target |-> t] : t \in Target1 \cup Target2} \cup
    {[cmd |-> 2, token |-> k, target |-> t] : k \in Tokens, t \in Target2}

MCResponses == {[status |-> s, message |-> m] : s \in {0, 6}, m \in Texts}

MCPayloads == {<<>>} \cup {Long(n) : n \in {1, Base, MaxDatagram, MaxDatagram + 1}}
=============================================================================
