----------------------------- MODULE HostRoutes -----------------------------
(***************************************************************************)
(* What vpnbridge-host does to the kernel's routing table over its life:   *)
(* main (crates/host/src/main.rs) looks up next hops, creates the TUN,     *)
(* pins and installs routes through RouteManager (route.rs), serves until  *)
(* a signal, and cleans up.  Every `ip` call is a step of its own and may  *)
(* fail; the process may be killed between any two of them and started     *)
(* again.                                                                  *)
(*                                                                         *)
(* A network is the set of its addresses; a routing table maps a network   *)
(* to its next hop.  Text of `ip`'s output and interface details are       *)
(* abstracted away.                                                        *)
(***************************************************************************)
EXTENDS Integers, Sequences, Functions

CONSTANTS
    Addrs,          \* addresses, ordered as integers
    Nets,           \* networks
    Hops,           \* next hops outside the tunnel
    Tun, NoRoute,
    Server,         \* cfg.server.address.ip()
    Configs,        \* [routes, exclude : Seq(Nets), autoRoute : BOOLEAN]
    Tables,         \* routing tables the host may start from
    MaxSignals,     \* bound: Ctrl-C / SIGTERM sent to one process
    MaxRestarts     \* bound: starts after the first

ASSUME AddrsAssumption == Addrs \subseteq Int /\ Server \in Addrs
ASSUME NetsAssumption ==
    /\ Nets \subseteq SUBSET Addrs
    /\ {} \notin Nets /\ {Server} \in Nets
    /\ \A a \in Addrs :                  \* prefixes of one address nest
          \A S \in SUBSET {n \in Nets : a \in n} :
             S # {} => \E n \in S : \A m \in S : n \subseteq m
ASSUME HopsAssumption == Tun \notin Hops /\ NoRoute \notin Hops /\ Tun # NoRoute
ASSUME ConfigsAssumption ==
    \A c \in Configs : /\ c.routes \in Seq(Nets) /\ c.exclude \in Seq(Nets)
                       /\ c.routes # << >>         \* HostConfig::validate
                       /\ c.autoRoute \in BOOLEAN
ASSUME TablesAssumption == Tables \subseteq [Nets -> Hops \cup {NoRoute}]
ASSUME BoundsAssumption == MaxSignals \in Nat /\ MaxRestarts \in Nat

VARIABLES
    cfg,        \* the configuration file
    orig,       \* history: the routing table before the first start
    table,      \* the kernel's routing table
    pc,         \* where main stands
    todo,       \* routes still to set up, in order
    added,      \* RouteManager.added
    handler,    \* tokio's signal handler is installed in this process
    notified,   \* the pending shutdown_signal() has been woken
    signals,    \* history: signals sent to this process
    restarts,   \* starts after the first
    faults      \* history: what could excuse a route that was left behind

procVars == <<pc, todo, added, handler, notified>>
vars == <<cfg, orig, table, procVars, signals, restarts, faults>>

\* A route to set up.  The next hop of an exclusion may be unknown.
Entries == [kind : {"server"}, net : {{Server}}, hop : Hops]
     \cup [kind : {"exclude"}, net : Nets, hop : Hops \cup {NoRoute}]
     \cup [kind : {"route"}, net : Nets, hop : {Tun}]

Running == {"lookup", "tun", "setup", "serve", "listen", "dispatch", "cleanup"}

TypeOK ==
    /\ cfg \in Configs /\ orig \in Tables
    /\ table \in [Nets -> Hops \cup {Tun, NoRoute}]
    /\ pc \in Running \cup {"exited", "killed"}
    /\ todo \in Seq(Entries) /\ added \in Seq(Nets)
    /\ handler \in BOOLEAN /\ notified \in BOOLEAN
    /\ signals \in 0..MaxSignals /\ restarts \in 0..MaxRestarts
    /\ faults \subseteq {"kill", "early", "delete"}

-----------------------------------------------------------------------------
(* The kernel's table and the configuration *)

\* Longest-prefix match.
Lookup(t, a) ==
    LET covering == {n \in Nets : a \in n /\ t[n] # NoRoute}
    IN  IF covering = {} THEN NoRoute
        ELSE t[CHOOSE n \in covering : \A m \in covering : n \subseteq m]

\* IpNet::network(): the first address of a network.
Network(n) == CHOOSE a \in n : \A b \in n : a <= b

\* Routes through a device vanish with it when the process ends.
WithoutTun(t) == [n \in Nets |-> IF t[n] = Tun THEN NoRoute ELSE t[n]]

Captures(c, a) == \E n \in Range(c.routes) : a \in n
Excludes(c, a) == \E n \in Range(c.exclude) : a \in n

\* The VM agent gets a route of its own, unless the operator saw to it.
PinsServer(c) == Captures(c, Server) /\ ~Excludes(c, Server)

Pin(kind, n, a) == [kind |-> kind, net |-> n, hop |-> Lookup(table, a)]
Install(n) == [kind |-> "route", net |-> n, hop |-> Tun]

\* Fault: the agent is pinned to where everything else goes.
ServerPinDefault ==
    IF PinsServer(cfg)
    THEN <<[kind |-> "server", net |-> {Server}, hop |-> table[Addrs]]>> ELSE << >>

ServerPin == IF PinsServer(cfg) THEN <<Pin("server", {Server}, Server)>> ELSE << >>
ExcludePins ==
    [i \in 1..Len(cfg.exclude) |-> Pin("exclude", cfg.exclude[i], Network(cfg.exclude[i]))]
Installs == [i \in 1..Len(cfg.routes) |-> Install(cfg.routes[i])]

\* Fault: the tunnel routes go in before the pins.
SetupOrderSwapped == Installs \o ServerPin \o ExcludePins

\* What main sets up, in its order: the server's pin, the exclusions, the
\* tunnel routes; every next hop is looked up before any of it.
SetupOrder == ServerPin \o ExcludePins \o Installs

Init ==
    /\ cfg \in Configs /\ orig \in Tables /\ table = orig
    /\ pc = "lookup" /\ todo = << >> /\ added = << >>
    /\ handler = FALSE /\ notified = FALSE
    /\ signals = 0 /\ restarts = 0 /\ faults = {}

-----------------------------------------------------------------------------
(* Startup: main up to its loop *)

LookupHops ==
    /\ pc = "lookup"
    /\ PinsServer(cfg) => Lookup(table, Server) \in Hops
    /\ todo' = IF cfg.autoRoute THEN SetupOrder ELSE << >>
    /\ pc' = "tun"
    /\ UNCHANGED <<cfg, orig, table, added, handler, notified, signals, restarts, faults>>

\* No route to the agent, or no permission to create the TUN.
StartupError ==
    /\ \/ pc = "lookup" /\ PinsServer(cfg)
       \/ pc = "tun"
    /\ pc' = "exited"
    /\ todo' = << >>
    /\ UNCHANGED <<cfg, orig, table, added, handler, notified, signals, restarts, faults>>

CreateTun ==
    /\ pc = "tun"
    /\ pc' = "setup"
    /\ UNCHANGED <<cfg, orig, table, todo, added, handler, notified, signals,
                   restarts, faults>>

SetupNext(entryKinds) ==
    pc = "setup" /\ todo # << >> /\ Head(todo).kind \in entryKinds

SetRoute(n, hop) == table' = [table EXCEPT ![n] = hop]

\* Fault: `ip route replace` instead of leaving an existing route alone.
PinDirectReplaces ==
    /\ SetupNext({"server", "exclude"}) /\ Head(todo).hop # NoRoute
    /\ SetRoute(Head(todo).net, Head(todo).hop)
    /\ added' = Append(added, Head(todo).net)
    /\ todo' = Tail(todo)
    /\ UNCHANGED <<cfg, orig, pc, handler, notified, signals, restarts, faults>>

\* Fault: a pin is not remembered.
PinDirectForgets ==
    /\ SetupNext({"server", "exclude"}) /\ Head(todo).hop # NoRoute
    /\ IF table[Head(todo).net] # NoRoute
       THEN UNCHANGED table
       ELSE SetRoute(Head(todo).net, Head(todo).hop)
    /\ todo' = Tail(todo)
    /\ UNCHANGED <<cfg, orig, pc, added, handler, notified, signals, restarts, faults>>

\* pin_direct: an exact route that exists is left alone and not remembered.
PinDirect ==
    /\ SetupNext({"server", "exclude"}) /\ Head(todo).hop # NoRoute
    /\ IF table[Head(todo).net] # NoRoute
       THEN UNCHANGED <<table, added>>
       ELSE /\ SetRoute(Head(todo).net, Head(todo).hop)
            /\ added' = Append(added, Head(todo).net)
    /\ todo' = Tail(todo)
    /\ UNCHANGED <<cfg, orig, pc, handler, notified, signals, restarts, faults>>

\* Pinning an excluded network failed, or its lookup did: warn and go on.
PinExcludeError ==
    /\ SetupNext({"exclude"})
    /\ todo' = Tail(todo)
    /\ UNCHANGED <<cfg, orig, table, pc, added, handler, notified, signals,
                   restarts, faults>>

\* add_to_dev: `ip route replace` takes the prefix over.
AddToDev ==
    /\ SetupNext({"route"})
    /\ SetRoute(Head(todo).net, Tun)
    /\ added' = Append(added, Head(todo).net)
    /\ todo' = Tail(todo)
    /\ UNCHANGED <<cfg, orig, pc, handler, notified, signals, restarts, faults>>

\* Pinning the server or installing a route failed, or the IP stack refused its
\* settings after all routes: main returns the error and RouteManager's Drop
\* cleans up.
SetupError ==
    /\ SetupNext({"server", "route"}) \/ (pc = "setup" /\ todo = << >>)
    /\ pc' = "cleanup"
    /\ todo' = << >>
    /\ UNCHANGED <<cfg, orig, table, added, handler, notified, signals, restarts, faults>>

SetupDone ==
    /\ pc = "setup" /\ todo = << >>
    /\ pc' = "serve"
    /\ UNCHANGED <<cfg, orig, table, todo, added, handler, notified, signals,
                   restarts, faults>>

-----------------------------------------------------------------------------
(* The select! loop.  Each turn makes a new shutdown_signal(), which only   *)
(* sees signals that arrive after it was first polled.                      *)

Listen ==
    /\ pc = "serve"
    /\ pc' = "listen"
    /\ handler' = TRUE /\ notified' = FALSE
    /\ UNCHANGED <<cfg, orig, table, todo, added, signals, restarts, faults>>

\* stack.accept() won; select! polls its branches in random order, so it may
\* win before shutdown_signal() was polled and although it is already woken.
Accept ==
    /\ pc \in {"serve", "listen"}
    /\ pc' = "dispatch"
    /\ notified' = FALSE
    /\ UNCHANGED <<cfg, orig, table, todo, added, handler, signals, restarts, faults>>

Dispatch ==
    /\ pc = "dispatch"
    /\ pc' = "serve"
    /\ UNCHANGED <<cfg, orig, table, todo, added, handler, notified, signals,
                   restarts, faults>>

\* "ip stack stopped": main returns the error, Drop cleans up.
StackError ==
    /\ pc \in {"serve", "listen"}
    /\ pc' = "cleanup"
    /\ notified' = FALSE
    /\ UNCHANGED <<cfg, orig, table, todo, added, handler, signals, restarts, faults>>

\* Fault: the signal only ends this turn of the loop.
ShutdownContinues ==
    /\ pc = "listen" /\ notified
    /\ pc' = "serve"
    /\ notified' = FALSE
    /\ UNCHANGED <<cfg, orig, table, todo, added, handler, signals, restarts, faults>>

Shutdown ==
    /\ pc = "listen" /\ notified
    /\ pc' = "cleanup"
    /\ notified' = FALSE
    /\ UNCHANGED <<cfg, orig, table, todo, added, handler, signals, restarts, faults>>

-----------------------------------------------------------------------------
(* RouteManager::cleanup and the end of the process *)

\* `ip route del` of the route added last.
CleanupLast ==
    /\ pc = "cleanup" /\ added # << >>
    /\ SetRoute(added[Len(added)], NoRoute)
    /\ added' = SubSeq(added, 1, Len(added) - 1)
    /\ UNCHANGED <<cfg, orig, pc, todo, handler, notified, signals, restarts, faults>>

\* The deletion failed: ignored.
CleanupError ==
    /\ pc = "cleanup" /\ added # << >>
    /\ added' = SubSeq(added, 1, Len(added) - 1)
    /\ faults' = faults \cup {"delete"}
    /\ UNCHANGED <<cfg, orig, table, pc, todo, handler, notified, signals, restarts>>

CleanupDone ==
    /\ pc = "cleanup" /\ added = << >>
    /\ pc' = "exited"
    /\ table' = WithoutTun(table)
    /\ UNCHANGED <<cfg, orig, todo, added, handler, notified, signals, restarts, faults>>

\* The process ends where it stands; only the TUN goes with it.
Die(why) ==
    /\ pc \in Running
    /\ pc' = "killed"
    /\ table' = WithoutTun(table)
    /\ todo' = << >> /\ added' = << >> /\ handler' = FALSE /\ notified' = FALSE
    /\ faults' = faults \cup {why}
    /\ UNCHANGED <<cfg, orig, restarts>>

-----------------------------------------------------------------------------
(* The operator *)

\* Ctrl-C or SIGTERM: fatal before the handler exists, seen by a listening
\* shutdown_signal(), and otherwise lost.
Signal ==
    /\ pc \in Running /\ signals < MaxSignals
    /\ signals' = signals + 1
    /\ \/ ~handler /\ Die("early")
       \/ /\ handler /\ pc = "listen"
          /\ notified' = TRUE
          /\ UNCHANGED <<cfg, orig, table, pc, todo, added, handler, restarts, faults>>
       \/ /\ handler /\ pc # "listen"
          /\ UNCHANGED <<cfg, orig, table, procVars, restarts, faults>>

\* SIGKILL, a panic with abort, the OOM killer.
Kill == Die("kill") /\ UNCHANGED signals

Restart ==
    /\ pc \in {"exited", "killed"} /\ restarts < MaxRestarts
    /\ restarts' = restarts + 1
    /\ pc' = "lookup"
    /\ handler' = FALSE /\ signals' = 0
    /\ UNCHANGED <<cfg, orig, table, todo, added, notified, faults>>

Next ==
    \/ LookupHops \/ StartupError \/ CreateTun
    \/ PinDirect \/ PinExcludeError \/ AddToDev \/ SetupError \/ SetupDone
    \/ Listen \/ Accept \/ Dispatch \/ StackError \/ Shutdown
    \/ CleanupLast \/ CleanupError \/ CleanupDone
    \/ Signal \/ Kill \/ Restart

Spec == Init /\ [][Next]_vars

\* A running process makes progress.  Which branch of select! wins is not
\* assumed, nor that flows, signals or restarts come.
Fairness ==
    /\ WF_vars(LookupHops \/ StartupError) /\ WF_vars(CreateTun \/ StartupError)
    /\ WF_vars(PinDirect \/ PinExcludeError \/ AddToDev \/ SetupError)
    /\ WF_vars(SetupDone) /\ WF_vars(Listen) /\ WF_vars(Dispatch)
    /\ WF_vars(Shutdown)
    /\ WF_vars(CleanupLast \/ CleanupError) /\ WF_vars(CleanupDone)

FairSpec == Spec /\ Fairness

-----------------------------------------------------------------------------
(* Properties *)

\* Routes the host had before, other than those named in `routes`, survive
\* every start, failure, kill and shutdown (pin_direct, cleanup).
ForeignRoutesIntact ==
    \A n \in Nets \ Range(cfg.routes) : orig[n] # NoRoute => table[n] = orig[n]

\* Traffic to the VM agent never enters the tunnel, during setup and cleanup
\* either, unless the operator excluded its address or routed its very /32
\* into the tunnel, or cleanup could not delete a tunnel route and removes the
\* pin all the same (main, pin_direct, cleanup's reverse order).
ServerNotCaptured ==
    /\ "delete" \notin faults
    /\ ~Excludes(cfg, Server)
    /\ {Server} \notin Range(cfg.routes)
    => Lookup(table, Server) # Tun

\* After an orderly exit whose deletions worked the table is what it was
\* before the first start, leaving aside prefixes the operator had both
\* routed himself and listed in `routes` (RouteManager).
OrderlyExitRestores ==
    /\ pc = "exited" /\ faults = {}
    /\ \A n \in Range(cfg.routes) : orig[n] = NoRoute
    => table = orig

\* Whatever a host leaves behind that was killed, or whose routes could not all
\* be deleted, is harmless to the next start: pins of excluded networks and of
\* the VM agent where there was no route before, and traffic to the agent takes
\* the way it took before the first start, unless the operator excluded its
\* address or had routed a network around it that `routes` takes over (main's
\* lookups, pin_direct).
LeftoversHarmless ==
    pc \in {"exited", "killed"} =>
        /\ \A n \in Nets \ Range(cfg.routes) : table[n] # orig[n] =>
              /\ orig[n] = NoRoute /\ table[n] \in Hops
              /\ n \in Range(cfg.exclude) \cup {{Server}}
        /\ ~Excludes(cfg, Server)
           /\ (\A n \in Range(cfg.routes) : Server \in n => orig[n] = NoRoute)
           => Lookup(table, Server) = Lookup(orig, Server)

\* A signal that wakes the loop ends the process unless another flow is
\* accepted or the process is killed (main's select!, cleanup).
SignalStopsQuietHost ==
    []( notified /\ [](pc # "dispatch") => <>(pc \in {"exited", "killed"}) )

\* README: Ctrl-C or SIGTERM ends the host that it was sent to.
SignalStopsHost == signals > 0 ~> pc \in {"exited", "killed"}
=============================================================================
