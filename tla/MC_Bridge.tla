----------------------------- MODULE MC_Bridge -----------------------------
(* Small instances of Bridge. *)
EXTENDS Bridge

\* A name with a permitted and a denied address, a denied host, and a name
\* that resolves to nothing.
MCTargets == {"name", "denied", "nowhere"}
MCAddrs == {1, 2, 3}
MCResolve == [t \in MCTargets |-> IF t = "name" THEN {1, 2, 3}
                                  ELSE IF t = "denied" THEN {3} ELSE {}]
=============================================================================
