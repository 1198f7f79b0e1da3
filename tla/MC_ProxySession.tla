--------------------------- MODULE MC_ProxySession --------------------------
EXTENDS ProxySession, TLC

CONSTANTS a1, a2, a3, mixed, forbidden, nowhere

\* A name with two permitted addresses and a denied one, a name with only the
\* denied one, and one that has no address.
MCTargets == {mixed, forbidden, nowhere}
MCResolve == (mixed :> {a1, a2, a3}) @@ (forbidden :> {a3}) @@ (nowhere :> {})
=============================================================================
