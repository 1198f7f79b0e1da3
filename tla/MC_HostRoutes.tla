--------------------------- MODULE MC_HostRoutes ---------------------------
(* Small networks, tables and configurations for HostRoutes. *)
EXTENDS HostRoutes

MCAddrs == 1..4
MCServer == 1

\* Everything; the VM network with the agent's own /32; the corporate network
\* with one host in it.
All == 1..4
VmNet == {1, 2}
Agent == {1}
Corp == {3, 4}
CorpHost == {3}

MCNets == {All, VmNet, Agent, Corp, CorpHost}

\* A table that routes everything by default and some networks specially.
Table(f) == [n \in MCNets |-> IF n = All THEN "gw"
                              ELSE IF n \in DOMAIN f THEN f[n] ELSE "none"]

MCTables == { Table([n \in {} |-> "lan"]),
              Table([n \in {VmNet} |-> "lan"]),
              Table([n \in {Agent} |-> "lan"]),
              Table([n \in {CorpHost} |-> "lan"]),
              Table([n \in {Corp} |-> "lan"]),
              [n \in MCNets |-> "none"] }

Config(r, e) == [routes |-> r, exclude |-> e, autoRoute |-> TRUE]

MCConfigs == { Config(<<Corp, VmNet>>, << >>),
               Config(<<Corp>>, <<VmNet, CorpHost>>),
               Config(<<All>>, <<VmNet>>),
               Config(<<VmNet>>, <<CorpHost, CorpHost>>),
               Config(<<Agent>>, << >>),
               [Config(<<Corp>>, << >>) EXCEPT !.autoRoute = FALSE] }
=============================================================================
