---------------------------- MODULE ClientRoutes ----------------------------
(***************************************************************************)
(* The process of proxy-client (crates/proxy-client/src/main.rs, route.rs, *)
(* config.rs) on Linux: which configuration it takes and accepts, the TUN  *)
(* it creates, the routes it adds to the kernel's table and deletes again, *)
(* and how it ends.  Unlike the host (HostRoutes) it pins nothing: its     *)
(* servers stay reachable only because validate() keeps them out of the    *)
(* routes, and `ip route add` fails on a prefix that is routed already.    *)
(* The operator changes routes of his own at any time.                     *)
(*                                                                         *)
(* A network is the set of its addresses.                                  *)
(* Routes are those of the default metric, the only one the client uses.   *)
(***************************************************************************)
EXTENDS Naturals, Sequences, Functions

CONSTANTS
    Nets,           \* networks
    TunNet,         \* the network of the TUN's own address
    Absent,         \* no file, or no address
    Configs,        \* what a configuration file may say
    FileSets,       \* which files there may be, by place
    Tables,         \* the operator's routes at the start
    MaxChanges,     \* routes the operator changes while the client runs
    MaxSignals, MaxStarts

\* ClientConfig::enabled_servers.
Servers(c) ==
    LET Of(own) == IF own = Absent THEN c.server ELSE own
    IN  (IF c.quicEnabled THEN {Of(c.quicServer)} ELSE {}) \cup
        (IF c.grpcEnabled THEN {Of(c.grpcServer)} ELSE {})

Places == {"explicit", "current", "adjacent"}

ASSUME NetsAssumption ==
    /\ TunNet \in Nets
    /\ \A a \in UNION Nets :              \* prefixes of one address nest
          \A S \in SUBSET {n \in Nets : a \in n} :
             S # {} => \E n \in S : \A m \in S : n \subseteq m
ASSUME ConfigsAssumption ==
    /\ Absent \notin Configs
    /\ \A c \in Configs : c.routes \in Seq(Nets) /\ c.autoRoute \in BOOLEAN
ASSUME FilesAssumption == FileSets \subseteq [Places -> Configs \cup {Absent}]
ASSUME TablesAssumption == Tables \subseteq SUBSET Nets
ASSUME BoundsAssumption == MaxChanges \in Nat /\ MaxSignals \in Nat /\ MaxStarts \in Nat

VARIABLES
    table,      \* of each network: the operator's route, ours, or none
    foreign,    \* history: the networks the operator has a route for
    taken,      \* history: networks he changed since the client started
    files, explicit,    \* configuration files; --config was given
    cfg,        \* the configuration in use, Absent before
    stage,      \* of main
    next,       \* index in cfg.routes of the next route to add
    added,      \* RouteManager::added
    handler,    \* tokio's handler for Ctrl-C is installed
    notified,   \* the ctrl_c() of this turn saw a signal
    signals, starts, changes

envVars == <<foreign, taken, files, explicit, signals, starts, changes>>
loopVars == <<handler, notified>>
routeVars == <<table, cfg, next, added>>
vars == <<envVars, loopVars, routeVars, stage>>

Alive == {"load", "tun", "routes", "turn", "select", "dispatch", "cleanup"}

\* Longest-prefix match.
Lookup(a) ==
    LET covering == {n \in Nets : a \in n /\ table[n] # "none"}
    IN  IF covering = {} THEN "none"
        ELSE table[CHOOSE n \in covering : \A m \in covering : n \subseteq m]

\* Routes through a device vanish with it.
WithoutTun(t) == [n \in Nets |-> IF t[n] = "tun" THEN "none" ELSE t[n]]

\* Only a living process has routes to delete, and only a turn of the loop that
\* waits or handles a packet stream knows of a signal (main's select!).
TypeOK ==
    /\ table \in [Nets -> {"none", "tun", "operator"}]
    /\ foreign \subseteq Nets /\ taken \subseteq Nets
    /\ files \in [Places -> Configs \cup {Absent}] /\ explicit \in BOOLEAN
    /\ cfg \in Configs \cup {Absent}
    /\ stage \in Alive \cup {"ended"}
    /\ next \in Nat /\ (stage = "routes" => next \in 1 .. Len(cfg.routes) + 1)
    /\ added \in Seq(Nets) /\ (added # <<>> => stage \in Alive)
    /\ handler \in BOOLEAN /\ notified \in BOOLEAN /\ (notified => stage \in {"select", "dispatch"})
    /\ changes \in 0..MaxChanges /\ signals \in 0..MaxSignals /\ starts \in 0..MaxStarts

Init ==
    /\ foreign \in Tables
    /\ table = [n \in Nets |-> IF n \in foreign THEN "operator" ELSE "none"]
    /\ files \in FileSets /\ explicit \in BOOLEAN
    /\ cfg = Absent /\ stage = "load" /\ next = 1 /\ added = <<>>
    /\ handler = FALSE /\ notified = FALSE /\ taken = {}
    /\ changes = 0 /\ signals = 0 /\ starts = 0

\* A step that only moves main on.
Move(from, to) ==
    /\ stage = from /\ stage' = to
    /\ UNCHANGED <<envVars, loopVars, routeVars>>

-----------------------------------------------------------------------------
(* Configuration *)

\* Without --config the current directory comes before the executable's.
ConfigPath ==
    IF explicit THEN "explicit"
    ELSE IF files["current"] # Absent THEN "current" ELSE "adjacent"

\* Fault: only the server in use first is looked at.
ValidateFirst(c) ==
    /\ c.quicEnabled \/ c.grpcEnabled
    /\ c.sane /\ c.routes # <<>>
    /\ \A n \in Range(c.routes) :
          (IF c.quicServer = Absent THEN c.server ELSE c.quicServer) \notin n

\* "sane" stands for the checks of single values: the lengths of the token and
\* the server's name, IPv4 routes, the MTU, the interval.
Validate(c) ==
    /\ c.quicEnabled \/ c.grpcEnabled
    /\ c.sane /\ c.routes # <<>>
    /\ \A s \in Servers(c), n \in Range(c.routes) : s \notin n

\* TransportClient::new reads the certificate as well.
Load ==
    /\ stage = "load"
    /\ files[ConfigPath] # Absent /\ Validate(files[ConfigPath])
    /\ files[ConfigPath].certificate
    /\ cfg' = files[ConfigPath]
    /\ stage' = "tun"
    /\ UNCHANGED <<envVars, loopVars, table, next, added>>

\* No file, an invalid one, or --check, which ends after it.
LoadEnds == Move("load", "ended")

-----------------------------------------------------------------------------
(* Device and routes *)

\* The kernel routes the device's own network to it.
CreateTun ==
    /\ stage = "tun"
    /\ stage' = "routes"
    /\ table' = IF table[TunNet] = "none" THEN [table EXCEPT ![TunNet] = "tun"] ELSE table
    /\ next' = IF cfg.autoRoute THEN 1 ELSE Len(cfg.routes) + 1
    /\ UNCHANGED <<envVars, loopVars, cfg, added>>

CreateTunError == Move("tun", "ended")

\* Fault: a route that cannot be added is only reported.
AddRouteErrorIgnored ==
    /\ stage = "routes" /\ next <= Len(cfg.routes)
    /\ next' = next + 1
    /\ UNCHANGED <<envVars, loopVars, table, cfg, stage, added>>

\* `ip route add` creates a route only where the prefix has none.
AddRoute ==
    /\ stage = "routes" /\ next <= Len(cfg.routes)
    /\ table[cfg.routes[next]] = "none"
    /\ table' = [table EXCEPT ![cfg.routes[next]] = "tun"]
    /\ added' = Append(added, cfg.routes[next])
    /\ next' = next + 1
    /\ UNCHANGED <<envVars, loopVars, cfg, stage>>

\* A route cannot be added, or, after the last one, the IP stack refuses its
\* settings: main returns, and RouteManager is dropped before the device.
SetupError == Move("routes", "cleanup")

RoutesAdded ==
    /\ stage = "routes" /\ next > Len(cfg.routes)
    /\ Move("routes", "turn")

\* Fault: the route is deleted whatever device it leads to.
DeleteRouteAnyDevice ==
    /\ stage = "cleanup" /\ added # <<>>
    /\ added' = SubSeq(added, 1, Len(added) - 1)
    /\ table' = [table EXCEPT ![added[Len(added)]] = "none"]
    /\ UNCHANGED <<envVars, loopVars, cfg, stage, next>>

\* The last route added is deleted, if it still leads to the device; an error
\* is only reported.
DeleteRoute ==
    /\ stage = "cleanup" /\ added # <<>>
    /\ added' = SubSeq(added, 1, Len(added) - 1)
    /\ \/ /\ table[added[Len(added)]] = "tun"
          /\ table' = [table EXCEPT ![added[Len(added)]] = "none"]
       \/ UNCHANGED table
    /\ UNCHANGED <<envVars, loopVars, cfg, stage, next>>

\* The process ends, and its device with it.
End ==
    /\ stage' = "ended"
    /\ table' = WithoutTun(table)
    /\ added' = <<>> /\ notified' = FALSE
    /\ UNCHANGED <<foreign, taken, files, explicit, starts, changes, cfg, next, handler>>

CleanupDone == stage = "cleanup" /\ added = <<>> /\ End /\ UNCHANGED signals

-----------------------------------------------------------------------------
(* The main loop *)

\* Every turn makes a new ctrl_c(), which sees only later signals; the first
\* installs the handler.
Listen ==
    /\ stage = "turn"
    /\ stage' = "select" /\ handler' = TRUE /\ notified' = FALSE
    /\ UNCHANGED <<envVars, routeVars>>

Accept == Move("select", "dispatch")

\* Fault: the notice outlives the turn.
DispatchKeepsNotice == Move("dispatch", "turn")

\* relay::dispatch spawns a task and returns; the turn's ctrl_c() is dropped.
Dispatch ==
    /\ stage = "dispatch"
    /\ stage' = "turn" /\ notified' = FALSE
    /\ UNCHANGED <<envVars, routeVars, handler>>

\* main returns; the stack and its device are dropped before RouteManager.
StackError ==
    /\ stage = "select"
    /\ stage' = "cleanup" /\ notified' = FALSE
    /\ table' = WithoutTun(table)
    /\ UNCHANGED <<envVars, cfg, next, added, handler>>

\* Fault: the loop goes on after the signal.
ShutdownContinues ==
    /\ stage = "select" /\ notified
    /\ stage' = "turn" /\ notified' = FALSE
    /\ UNCHANGED <<envVars, routeVars, handler>>

Shutdown ==
    /\ stage = "select" /\ notified
    /\ stage' = "cleanup" /\ notified' = FALSE
    /\ UNCHANGED <<envVars, routeVars, handler>>

-----------------------------------------------------------------------------
(* The operator *)

\* Ctrl-C: fatal before the handler exists, seen by a ctrl_c() that waits,
\* lost in between.
CtrlC ==
    /\ stage \in Alive /\ signals < MaxSignals
    /\ signals' = signals + 1
    /\ \/ ~handler /\ End
       \/ /\ handler /\ notified' = (notified \/ stage = "select")
          /\ UNCHANGED <<foreign, taken, files, explicit, starts, changes, routeVars,
                         stage, handler>>

\* SIGTERM, which nothing handles, SIGKILL or a crash.
Kill == stage \in Alive /\ End /\ UNCHANGED signals

Start ==
    /\ stage = "ended" /\ starts < MaxStarts
    /\ starts' = starts + 1
    /\ stage' = "load" /\ next' = 1 /\ handler' = FALSE
    /\ taken' = {}
    /\ UNCHANGED <<foreign, files, explicit, changes, signals, table, cfg, added, notified>>

\* He adds, replaces or deletes a route, also one of ours.
OperatorChanges(n) ==
    /\ changes < MaxChanges /\ n # TunNet
    /\ changes' = changes + 1
    /\ \/ table' = [table EXCEPT ![n] = "operator"] /\ foreign' = foreign \cup {n}
       \/ table' = [table EXCEPT ![n] = "none"] /\ foreign' = foreign \ {n}
    /\ taken' = taken \cup {n}
    /\ UNCHANGED <<files, explicit, signals, starts, loopVars, cfg, next, added, stage>>

Main ==
    \/ Load \/ LoadEnds \/ CreateTun \/ CreateTunError
    \/ AddRoute \/ SetupError \/ RoutesAdded
    \/ Listen \/ Accept \/ Dispatch \/ StackError \/ Shutdown
    \/ DeleteRoute \/ CleanupDone

Next == Main \/ CtrlC \/ Kill \/ Start \/ (\E n \in Nets : OperatorChanges(n))

Spec == Init /\ [][Next]_vars

\* The process makes progress.  Which branch of select! wins is not assumed,
\* nor that packets or signals come.
FairSpec ==
    /\ Spec
    /\ WF_vars(Listen) /\ WF_vars(Dispatch) /\ WF_vars(Shutdown)
    /\ WF_vars(DeleteRoute) /\ WF_vars(CleanupDone)

-----------------------------------------------------------------------------
(* Properties *)

\* The table holds all the operator's routes and none that he deleted, also
\* those he changes while the client adds, holds or deletes its own of the same
\* prefix, through failures and kills (add_route, delete_route, cleanup).
OperatorRoutesIntact == {n \in Nets : table[n] = "operator"} = foreign

\* Connections to the servers in use never enter the tunnel they carry,
\* whatever routes come and go: nothing pins them (validate, enabled_servers).
\* A server in the TUN's own network is not among them: validate() does not
\* look at that network, and the kernel routes it to the device.
ServersNotCaptured ==
    cfg # Absent => \A s \in Servers(cfg) \ TunNet : Lookup(s) # "tun"

\* A client that serves has a route for every network it was configured with,
\* unless it was told to leave them alone or the operator changed one since
\* (main, RouteManager::add).
ServingIsRouted ==
    stage \in {"turn", "select", "dispatch"} /\ cfg.autoRoute =>
        \A n \in Range(cfg.routes) \ taken : table[n] = "tun"

\* A Ctrl-C that wakes the loop ends the process unless another packet stream is
\* accepted (main's select!, cleanup).
SignalStopsQuietClient ==
    []( notified /\ [](stage # "dispatch") => <>(stage = "ended") )
=============================================================================
