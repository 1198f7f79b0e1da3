---------------------------- MODULE FlowService ----------------------------
(***************************************************************************)
(* What a bridge promises about a flow, whatever carries it: the flow asks *)
(* for a target once, the far side reaches at most one address, and only   *)
(* one that the target and the policy there allow, and the near side       *)
(* relays only what was reached.  A flow may end at any time, also before  *)
(* the far side reaches its address.                                       *)
(***************************************************************************)
CONSTANTS
    Flows,
    Addrs,          \* what the far side could reach
    NoAddr

VARIABLES
    outcome,    \* of each flow, at the near side
    may,        \* addresses the far side may reach for the flow
    reached     \* the address it reached

fsVars == <<outcome, may, reached>>

FsTypeOK ==
    /\ outcome \in [Flows -> {"none", "asked", "relay", "ended"}]
    /\ may \in [Flows -> SUBSET Addrs]
    /\ reached \in [Flows -> Addrs \cup {NoAddr}]

FsInit ==
    /\ outcome = [f \in Flows |-> "none"]
    /\ may = [f \in Flows |-> {}]
    /\ reached = [f \in Flows |-> NoAddr]

Ask(f) ==
    /\ outcome[f] = "none"
    /\ outcome' = [outcome EXCEPT ![f] = "asked"]
    /\ \E s \in SUBSET Addrs : may' = [may EXCEPT ![f] = s]
    /\ UNCHANGED reached

\* The far side does not learn at once that the near side gave up.
Reach(f) ==
    /\ outcome[f] \in {"asked", "ended"} /\ reached[f] = NoAddr
    /\ \E a \in may[f] : reached' = [reached EXCEPT ![f] = a]
    /\ UNCHANGED <<outcome, may>>

Grant(f) ==
    /\ outcome[f] = "asked" /\ reached[f] # NoAddr
    /\ outcome' = [outcome EXCEPT ![f] = "relay"]
    /\ UNCHANGED <<may, reached>>

End(f) ==
    /\ outcome[f] \in {"asked", "relay"}
    /\ outcome' = [outcome EXCEPT ![f] = "ended"]
    /\ UNCHANGED <<may, reached>>

FsStep(f) == Ask(f) \/ Reach(f) \/ Grant(f) \/ End(f)

FsSpec == FsInit /\ [][\E f \in Flows : FsStep(f)]_fsVars
=============================================================================
