----------------------------- MODULE TunnelLink -----------------------------
(***************************************************************************)
(* What a flow over the gRPC fallback may rely on: in each direction the   *)
(* pieces written are read in order and without a gap, and an end of       *)
(* stream is read only after all of them, unless the call was broken off.  *)
(* A piece is known by its position, so counters stand for sequences.      *)
(***************************************************************************)
EXTENDS Naturals

CONSTANT Dirs

VARIABLES
    wrote,      \* pieces written, per direction
    read,       \* pieces read
    shut,       \* directions whose writer has ended
    eof,        \* directions whose reader was told so
    broken      \* the call was broken off

vars == <<wrote, read, shut, eof, broken>>

Init ==
    /\ wrote = [d \in Dirs |-> 0] /\ read = [d \in Dirs |-> 0]
    /\ shut = {} /\ eof = {} /\ broken = FALSE

Write(d) ==
    /\ d \notin shut
    /\ wrote' = [wrote EXCEPT ![d] = @ + 1]
    /\ UNCHANGED <<read, shut, eof, broken>>

Read(d) ==
    /\ read[d] < wrote[d] /\ d \notin eof
    /\ read' = [read EXCEPT ![d] = @ + 1]
    /\ UNCHANGED <<wrote, shut, eof, broken>>

\* Writers end, together with the call or not.
End ==
    /\ shut' \in SUBSET Dirs /\ shut \subseteq shut'
    /\ broken' \in BOOLEAN /\ (broken => broken')
    /\ UNCHANGED <<wrote, read, eof>>

ReadEof(d) ==
    /\ broken \/ (d \in shut /\ read[d] = wrote[d])
    /\ eof' = eof \cup {d}
    /\ UNCHANGED <<wrote, read, shut, broken>>

Next == End \/ \E d \in Dirs : Write(d) \/ Read(d) \/ ReadEof(d)

Spec == Init /\ [][Next]_vars
=============================================================================
