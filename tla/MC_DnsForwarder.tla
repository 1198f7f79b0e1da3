-------------------------- MODULE MC_DnsForwarder ---------------------------
(* The bridge with an application's flow, or with a query to two resolvers. *)
EXTENDS DnsForwarder

CONSTANTS f1, f2

\* A name with a permitted and a denied address, a denied host, a name that
\* resolves to nothing, and a resolver.
MCTargets == {"name", "denied", "nowhere", "resolver"}
MCAddrs == {1, 2, 3}
MCResolve == [t \in MCTargets |-> IF t = "name" THEN {1, 2, 3}
                                  ELSE IF t = "denied" THEN {3}
                                  ELSE IF t = "resolver" THEN {1} ELSE {}]
MCUpstreams == {<<>>, <<f1, f2>>}
=============================================================================
