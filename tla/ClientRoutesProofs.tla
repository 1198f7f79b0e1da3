------------------------- MODULE ClientRoutesProofs -------------------------
(***************************************************************************)
(* Proofs about ClientRoutes, for all networks, configurations and tables, *)
(* and any number of starts, signals and changes by the operator.  The     *)
(* invariant says which networks can lead into the tunnel: none while      *)
(* there is no device, and else the device's own and those of a validated  *)
(* configuration.                                                          *)
(***************************************************************************)
EXTENDS ClientRoutes, SequenceTheorems, TLAPS

\* There is a device, and a configuration it was made for.
DeviceStages == {"routes", "turn", "select", "dispatch", "cleanup"}

\* What main loaded passed validate().
ConfigValid ==
    /\ cfg # Absent => Validate(cfg)
    /\ stage \in DeviceStages \cup {"tun"} => cfg # Absent

\* What leads into the tunnel, and what cleanup() still owes.
TunnelRoutes ==
    /\ stage \notin DeviceStages => added = <<>> /\ \A n \in Nets : table[n] # "tun"
    /\ \A n \in Nets : table[n] = "tun" => n = TunNet \/ n \in Range(cfg.routes)

\* The routes added so far are there, as far as the operator left them alone.
RoutesSoFar ==
    stage = "routes" /\ cfg.autoRoute =>
        \A i \in 1 .. Len(cfg.routes) :
            i < next /\ cfg.routes[i] \notin taken => table[cfg.routes[i]] = "tun"

RouteInv ==
    /\ TypeOK /\ OperatorRoutesIntact
    /\ ConfigValid /\ TunnelRoutes
    /\ RoutesSoFar /\ ServingIsRouted

USE DEF Alive, DeviceStages

\* The client starts without a device or a configuration.
LEMMA RouteInit == Init => RouteInv
<1> SUFFICES ASSUME Init PROVE RouteInv
  OBVIOUS
<1>1. foreign \subseteq Nets
  BY TablesAssumption DEF Init
<1>2. files \in [Places -> Configs \cup {Absent}]
  BY FilesAssumption DEF Init
<1>3. /\ table \in [Nets -> {"none", "tun", "operator"}]
      /\ \A n \in Nets : table[n] # "tun" /\ (table[n] = "operator" <=> n \in foreign)
  BY DEF Init
<1>4. <<>> \in Seq(Nets)
  OBVIOUS
<1>5. TypeOK
  <2>1. next \in Nat /\ changes \in 0..MaxChanges /\ signals \in 0..MaxSignals
        /\ starts \in 0..MaxStarts
    BY BoundsAssumption DEF Init
  <2>2. /\ cfg \in Configs \cup {Absent} /\ stage = "load" /\ added = <<>> /\ taken = {}
        /\ explicit \in BOOLEAN /\ handler \in BOOLEAN /\ notified \in BOOLEAN /\ ~notified
    BY DEF Init
  <2> QED
    BY <1>1, <1>2, <1>3, <1>4, <2>1, <2>2 DEF TypeOK
<1>6. OperatorRoutesIntact
  BY <1>1, <1>3 DEF OperatorRoutesIntact
<1>7. ConfigValid /\ TunnelRoutes /\ RoutesSoFar /\ ServingIsRouted
  BY <1>3 DEF Init, ConfigValid, TunnelRoutes, RoutesSoFar, ServingIsRouted
<1> QED
  BY <1>5, <1>6, <1>7 DEF RouteInv

\* Main's steps that touch no route.
LEMMA QuietStep ==
    ASSUME RouteInv, UNCHANGED <<envVars, routeVars>>,
           stage' \in Alive \cup {"ended"},
           handler' \in BOOLEAN, notified' \in BOOLEAN,
           notified' => stage' \in {"select", "dispatch"},
           stage' \in DeviceStages \cup {"tun"} => stage \in DeviceStages \cup {"tun"},
           stage' \in DeviceStages <=> stage \in DeviceStages,
           stage' = "routes" => stage = "routes",
           stage' \in {"turn", "select", "dispatch"} =>
              stage \in {"turn", "select", "dispatch"}
    PROVE  RouteInv'
<1> USE DEF RouteInv, envVars, routeVars
<1>1. TypeOK'
  <2>1. stage' = "routes" => next' \in 1 .. Len(cfg'.routes) + 1
    BY DEF TypeOK
  <2>2. added' # <<>> => stage' \in Alive
    BY DEF TunnelRoutes
  <2> QED
    BY <2>1, <2>2 DEF TypeOK
<1>2. OperatorRoutesIntact' /\ ConfigValid'
  BY DEF OperatorRoutesIntact, ConfigValid, Validate
<1>3. TunnelRoutes' /\ RoutesSoFar' /\ ServingIsRouted'
  BY DEF TunnelRoutes, RoutesSoFar, ServingIsRouted
<1> QED
  BY <1>1, <1>2, <1>3

\* The end of the process takes all its routes with it, and no other.
LEMMA EndStep ==
    ASSUME RouteInv, End, signals' \in 0..MaxSignals
    PROVE  RouteInv'
<1> USE DEF RouteInv, End
<1>1. /\ table' \in [Nets -> {"none", "tun", "operator"}]
      /\ \A n \in Nets : table'[n] # "tun" /\ (table'[n] = "operator" <=> table[n] = "operator")
  BY DEF TypeOK, WithoutTun
<1>2. <<>> \in Seq(Nets)
  OBVIOUS
<1>3. TypeOK'
  BY <1>1, <1>2 DEF TypeOK
<1>4. OperatorRoutesIntact'
  BY <1>1 DEF OperatorRoutesIntact
<1>5. ConfigValid' /\ TunnelRoutes' /\ RoutesSoFar' /\ ServingIsRouted'
  BY <1>1 DEF ConfigValid, Validate, TunnelRoutes, RoutesSoFar, ServingIsRouted
<1> QED
  BY <1>3, <1>4, <1>5

\* main up to the device: the configuration is validated before there is one.
LEMMA StartupStep ==
    ASSUME RouteInv, Load \/ LoadEnds \/ CreateTun \/ CreateTunError
    PROVE  RouteInv'
<1>1. CASE Load
  <2>1. /\ stage = "load" /\ stage' = "tun" /\ cfg' = files[ConfigPath]
        /\ cfg' \in Configs /\ Validate(cfg')
        /\ UNCHANGED <<envVars, loopVars, table, next, added>>
    BY <1>1 DEF Load, RouteInv, TypeOK, ConfigPath, Places
  <2>2. TypeOK'
    BY <2>1 DEF RouteInv, TypeOK, envVars, loopVars
  <2>3. OperatorRoutesIntact'
    BY <2>1 DEF RouteInv, OperatorRoutesIntact, envVars
  <2>4. ConfigValid'
    BY <2>1, ConfigsAssumption DEF ConfigValid
  <2>5. TunnelRoutes' /\ RoutesSoFar' /\ ServingIsRouted'
    BY <2>1 DEF RouteInv, TunnelRoutes, RoutesSoFar, ServingIsRouted
  <2> QED
    BY <2>2, <2>3, <2>4, <2>5 DEF RouteInv
<1>2. CASE LoadEnds \/ CreateTunError
  <2>1. ~notified
    BY <1>2 DEF LoadEnds, CreateTunError, Move, RouteInv, TypeOK
  <2> QED
    BY <1>2, <2>1, QuietStep DEF LoadEnds, CreateTunError, Move, loopVars, RouteInv, TypeOK
<1>3. CASE CreateTun
  <2>1. /\ stage = "tun" /\ stage' = "routes"
        /\ table' = IF table[TunNet] = "none" THEN [table EXCEPT ![TunNet] = "tun"] ELSE table
        /\ next' = IF cfg.autoRoute THEN 1 ELSE Len(cfg.routes) + 1
        /\ UNCHANGED <<envVars, loopVars, cfg, added>>
    BY <1>3 DEF CreateTun
  <2>2. cfg \in Configs /\ cfg.routes \in Seq(Nets) /\ Len(cfg.routes) \in Nat
    BY <2>1, ConfigsAssumption DEF RouteInv, TypeOK, ConfigValid
  <2>3. next' \in 1 .. Len(cfg.routes) + 1 /\ (cfg.autoRoute => next' = 1)
    BY <2>1, <2>2
  <2>4. /\ table' \in [Nets -> {"none", "tun", "operator"}]
        /\ \A n \in Nets : table'[n] = "operator" <=> table[n] = "operator"
        /\ \A n \in Nets : table'[n] = "tun" => n = TunNet \/ table[n] = "tun"
    BY <2>1, NetsAssumption DEF RouteInv, TypeOK
  <2>5. TypeOK'
    BY <2>1, <2>3, <2>4 DEF RouteInv, TypeOK, envVars, loopVars
  <2>6. OperatorRoutesIntact'
    BY <2>1, <2>4 DEF RouteInv, OperatorRoutesIntact, envVars
  <2>7. ConfigValid' /\ TunnelRoutes' /\ ServingIsRouted'
    BY <2>1, <2>4 DEF RouteInv, ConfigValid, Validate, TunnelRoutes, ServingIsRouted
  <2>8. RoutesSoFar'
    BY <2>1, <2>2, <2>3 DEF RoutesSoFar
  <2> QED
    BY <2>5, <2>6, <2>7, <2>8 DEF RouteInv
<1> QED
  BY <1>1, <1>2, <1>3

\* RouteManager::add and what follows the last of them.
LEMMA AddStep ==
    ASSUME RouteInv, AddRoute \/ SetupError \/ RoutesAdded
    PROVE  RouteInv'
<1>1. CASE AddRoute
  <2> DEFINE n == cfg.routes[next]
  <2>1. /\ stage = "routes" /\ stage' = stage /\ next <= Len(cfg.routes)
        /\ table[n] = "none" /\ table' = [table EXCEPT ![n] = "tun"]
        /\ added' = Append(added, n) /\ next' = next + 1
        /\ UNCHANGED <<envVars, loopVars, cfg>>
    BY <1>1 DEF AddRoute
  <2>2. cfg \in Configs /\ cfg.routes \in Seq(Nets) /\ Len(cfg.routes) \in Nat
    BY <2>1, ConfigsAssumption DEF RouteInv, TypeOK, ConfigValid
  <2>3. next \in 1 .. Len(cfg.routes)
    BY <2>1, <2>2 DEF RouteInv, TypeOK
  <2>4. n \in Nets /\ n \in Range(cfg.routes)
    BY <2>2, <2>3 DEF Range
  <2>5. next' \in 1 .. Len(cfg.routes) + 1 /\ next' \in Nat
    BY <2>1, <2>2, <2>3
  <2> HIDE DEF n
  <2>6. added' \in Seq(Nets)
    BY <2>1, <2>4 DEF RouteInv, TypeOK
  <2>7. /\ table' \in [Nets -> {"none", "tun", "operator"}]
        /\ \A m \in Nets : table'[m] = IF m = n THEN "tun" ELSE table[m]
    BY <2>1, <2>4 DEF RouteInv, TypeOK
  <2>8. TypeOK'
    BY <2>1, <2>5, <2>6, <2>7 DEF RouteInv, TypeOK, envVars, loopVars
  <2>9. OperatorRoutesIntact'
    BY <2>1, <2>7 DEF RouteInv, OperatorRoutesIntact, envVars
  <2>10. ConfigValid' /\ TunnelRoutes' /\ ServingIsRouted'
    BY <2>1, <2>4, <2>7 DEF RouteInv, ConfigValid, Validate, TunnelRoutes, ServingIsRouted
  <2>11. RoutesSoFar'
    <3> SUFFICES ASSUME cfg.autoRoute, NEW i \in 1 .. Len(cfg.routes),
                        i < next', cfg.routes[i] \notin taken
                 PROVE  table'[cfg.routes[i]] = "tun"
      BY <2>1 DEF RoutesSoFar, envVars
    <3>1. cfg.routes[i] \in Nets
      BY <2>2
    <3>2. CASE i = next
      BY <2>7, <3>1, <3>2 DEF n
    <3>3. CASE i < next
      <4>1. table[cfg.routes[i]] = "tun"
        BY <2>1, <3>3 DEF RouteInv, RoutesSoFar
      <4> QED
        BY <2>7, <3>1, <4>1
    <3>4. i = next \/ i < next
      BY <2>1, <2>3
    <3> QED
      BY <3>2, <3>3, <3>4
  <2> QED
    BY <2>8, <2>9, <2>10, <2>11 DEF RouteInv
<1>2. CASE SetupError
  <2>1. ~notified
    BY <1>2 DEF SetupError, Move, RouteInv, TypeOK
  <2> QED
    BY <1>2, <2>1, QuietStep DEF SetupError, Move, loopVars, RouteInv, TypeOK
<1>3. CASE RoutesAdded
  <2>1. /\ stage = "routes" /\ stage' = "turn" /\ next > Len(cfg.routes)
        /\ UNCHANGED <<envVars, loopVars, routeVars>>
    BY <1>3 DEF RoutesAdded, Move
  <2>2. cfg \in Configs /\ cfg.routes \in Seq(Nets) /\ Len(cfg.routes) \in Nat
    BY <2>1, ConfigsAssumption DEF RouteInv, TypeOK, ConfigValid
  <2>3. TypeOK'
    BY <2>1 DEF RouteInv, TypeOK, envVars, loopVars, routeVars
  <2>4. OperatorRoutesIntact' /\ ConfigValid' /\ TunnelRoutes' /\ RoutesSoFar'
    BY <2>1 DEF RouteInv, OperatorRoutesIntact, ConfigValid, Validate, TunnelRoutes,
                RoutesSoFar, envVars, routeVars
  <2>5. ServingIsRouted'
    <3> SUFFICES ASSUME cfg.autoRoute, NEW n \in Range(cfg.routes) \ taken
                 PROVE  table[n] = "tun"
      BY <2>1 DEF ServingIsRouted, envVars, routeVars
    <3>1. PICK i \in 1 .. Len(cfg.routes) : cfg.routes[i] = n
      BY <2>2 DEF Range
    <3>2. i < next
      BY <2>1, <2>2 DEF RouteInv, TypeOK
    <3> QED
      BY <2>1, <3>1, <3>2 DEF RouteInv, RoutesSoFar
  <2> QED
    BY <2>3, <2>4, <2>5 DEF RouteInv
<1> QED
  BY <1>1, <1>2, <1>3

\* The last element off a sequence.
LEMMA FrontTyped ==
    ASSUME NEW S, NEW s \in Seq(S), s # <<>>
    PROVE  SubSeq(s, 1, Len(s) - 1) \in Seq(S) /\ s[Len(s)] \in S
<1>1. Len(s) \in Nat \ {0} /\ \A i \in 1 .. Len(s) : s[i] \in S
  OBVIOUS
<1> DEFINE n == Len(s) - 1
<1>2. n \in Int /\ 1 \in Int /\ \A i \in 1 .. n : s[i] \in S
  BY <1>1
<1>3. SubSeq(s, 1, n) \in Seq(S)
  <2> HIDE DEF n
  <2> QED
    BY <1>2, SubSeqProperties
<1> QED
  BY <1>1, <1>3

\* RouteManager::cleanup and the ends of main.
LEMMA CleanupStep ==
    ASSUME RouteInv, DeleteRoute \/ StackError \/ CleanupDone
    PROVE  RouteInv'
<1>1. CASE DeleteRoute
  <2> DEFINE n == added[Len(added)]
  <2>1. /\ stage = "cleanup" /\ stage' = stage /\ added # <<>>
        /\ added' = SubSeq(added, 1, Len(added) - 1)
        /\ \/ table[n] = "tun" /\ table' = [table EXCEPT ![n] = "none"]
           \/ UNCHANGED table
        /\ UNCHANGED <<envVars, loopVars, cfg, next>>
    BY <1>1 DEF DeleteRoute
  <2>2. added' \in Seq(Nets) /\ n \in Nets
    BY <2>1, FrontTyped DEF RouteInv, TypeOK
  <2> HIDE DEF n
  <2>3. /\ table' \in [Nets -> {"none", "tun", "operator"}]
        /\ \A m \in Nets : table'[m] = "operator" <=> table[m] = "operator"
        /\ \A m \in Nets : table'[m] = "tun" => table[m] = "tun"
    BY <2>1, <2>2 DEF RouteInv, TypeOK
  <2>4. TypeOK'
    BY <2>1, <2>2, <2>3 DEF RouteInv, TypeOK, envVars, loopVars
  <2>5. OperatorRoutesIntact'
    BY <2>1, <2>3 DEF RouteInv, OperatorRoutesIntact, envVars
  <2>6. ConfigValid' /\ TunnelRoutes' /\ RoutesSoFar' /\ ServingIsRouted'
    BY <2>1, <2>3 DEF RouteInv, ConfigValid, Validate, TunnelRoutes, RoutesSoFar, ServingIsRouted
  <2> QED
    BY <2>4, <2>5, <2>6 DEF RouteInv
<1>2. CASE StackError
  <2>1. /\ stage = "select" /\ stage' = "cleanup" /\ notified' = FALSE
        /\ table' = WithoutTun(table)
        /\ UNCHANGED <<envVars, cfg, next, added, handler>>
    BY <1>2 DEF StackError
  <2>2. /\ table' \in [Nets -> {"none", "tun", "operator"}]
        /\ \A m \in Nets : table'[m] = "operator" <=> table[m] = "operator"
        /\ \A m \in Nets : table'[m] # "tun"
    BY <2>1 DEF RouteInv, TypeOK, WithoutTun
  <2>3. TypeOK'
    BY <2>1, <2>2 DEF RouteInv, TypeOK, envVars
  <2>4. OperatorRoutesIntact'
    BY <2>1, <2>2 DEF RouteInv, OperatorRoutesIntact, envVars
  <2>5. ConfigValid' /\ TunnelRoutes' /\ RoutesSoFar' /\ ServingIsRouted'
    BY <2>1, <2>2 DEF RouteInv, ConfigValid, Validate, TunnelRoutes, RoutesSoFar, ServingIsRouted
  <2> QED
    BY <2>3, <2>4, <2>5 DEF RouteInv
<1>3. CASE CleanupDone
  BY <1>3, EndStep DEF CleanupDone, RouteInv, TypeOK
<1> QED
  BY <1>1, <1>2, <1>3

\* The turns of the loop.
LEMMA LoopStep ==
    ASSUME RouteInv, Listen \/ Accept \/ Dispatch \/ Shutdown
    PROVE  RouteInv'
<1>1. CASE Listen \/ Dispatch \/ Shutdown
  BY <1>1, QuietStep DEF Listen, Dispatch, Shutdown, RouteInv, TypeOK
<1>2. CASE Accept
  BY <1>2, QuietStep DEF Accept, Move, loopVars, RouteInv, TypeOK
<1> QED
  BY <1>1, <1>2

\* Signals, starts and the operator.  A prefix he changes is his from then on.
LEMMA OutsideStep ==
    ASSUME RouteInv, CtrlC \/ Kill \/ Start \/ (\E n \in Nets : OperatorChanges(n))
    PROVE  RouteInv'
<1>1. CASE CtrlC
  <2>1. signals' \in 0..MaxSignals
    BY <1>1, BoundsAssumption DEF CtrlC, RouteInv, TypeOK
  <2>2. CASE End
    BY <2>1, <2>2, EndStep
  <2>3. CASE handler /\ notified' = (notified \/ stage = "select")
             /\ UNCHANGED <<foreign, taken, files, explicit, starts, changes, routeVars,
                            stage, handler>>
    <3>1. notified' \in BOOLEAN /\ (notified' => stage \in {"select", "dispatch"})
      BY <2>3 DEF RouteInv, TypeOK
    <3>2. TypeOK'
      <4>1. UNCHANGED <<foreign, taken, files, explicit, starts, changes, table, cfg,
                        next, added, stage, handler>>
        BY <2>3 DEF routeVars
      <4>2. /\ table' \in [Nets -> {"none", "tun", "operator"}]
            /\ foreign' \subseteq Nets /\ taken' \subseteq Nets
            /\ files' \in [Places -> Configs \cup {Absent}] /\ explicit' \in BOOLEAN
            /\ cfg' \in Configs \cup {Absent} /\ stage' \in Alive \cup {"ended"}
            /\ next' \in Nat /\ (stage' = "routes" => next' \in 1 .. Len(cfg'.routes) + 1)
            /\ added' \in Seq(Nets) /\ (added' # <<>> => stage' \in Alive)
            /\ handler' \in BOOLEAN
            /\ changes' \in 0..MaxChanges /\ starts' \in 0..MaxStarts
        BY <4>1 DEF RouteInv, TypeOK
      <4> QED
        BY <2>1, <3>1, <4>1, <4>2 DEF TypeOK
    <3>3. OperatorRoutesIntact' /\ ConfigValid'
      BY <2>3 DEF RouteInv, OperatorRoutesIntact, ConfigValid, Validate, routeVars
    <3>4. TunnelRoutes' /\ RoutesSoFar' /\ ServingIsRouted'
      BY <2>3 DEF RouteInv, TunnelRoutes, RoutesSoFar, ServingIsRouted, routeVars
    <3> QED
      BY <3>2, <3>3, <3>4 DEF RouteInv
  <2> QED
    BY <1>1, <2>2, <2>3 DEF CtrlC
<1>2. CASE Kill
  BY <1>2, EndStep DEF Kill, RouteInv, TypeOK
<1>3. CASE Start
  <2>1. TypeOK'
    <3>1. starts' \in 0..MaxStarts
      BY <1>3, BoundsAssumption DEF Start, RouteInv, TypeOK
    <3>2. ~notified /\ added = <<>>
      BY <1>3 DEF Start, RouteInv, TypeOK
    <3>3. /\ stage' = "load" /\ next' = 1 /\ handler' = FALSE /\ taken' = {}
          /\ UNCHANGED <<foreign, files, explicit, changes, signals, table, cfg, added, notified>>
      BY <1>3 DEF Start
    <3>4. next' \in Nat
      BY <3>3
    <3> QED
      BY <3>1, <3>2, <3>3, <3>4 DEF RouteInv, TypeOK
  <2>2. OperatorRoutesIntact' /\ ConfigValid'
    BY <1>3 DEF Start, RouteInv, OperatorRoutesIntact, ConfigValid, Validate
  <2>3. TunnelRoutes' /\ RoutesSoFar' /\ ServingIsRouted'
    BY <1>3 DEF Start, RouteInv, TunnelRoutes, RoutesSoFar, ServingIsRouted
  <2> QED
    BY <2>1, <2>2, <2>3 DEF RouteInv
<1>4. ASSUME NEW n \in Nets, OperatorChanges(n) PROVE RouteInv'
  <2>1. /\ changes' = changes + 1 /\ changes < MaxChanges /\ taken' = taken \cup {n}
        /\ UNCHANGED <<files, explicit, signals, starts, loopVars, cfg, next, added, stage>>
    BY <1>4 DEF OperatorChanges
  <2>2. /\ table' \in [Nets -> {"none", "tun", "operator"}]
        /\ \A m \in Nets \ {n} : table'[m] = table[m]
        /\ table'[n] # "tun" /\ foreign' \subseteq Nets
        /\ \A m \in Nets \ {n} : m \in foreign' <=> m \in foreign
        /\ n \in foreign' <=> table'[n] = "operator"
    BY <1>4 DEF OperatorChanges, RouteInv, TypeOK
  <2>3. TypeOK'
    BY <2>1, <2>2, BoundsAssumption DEF RouteInv, TypeOK, loopVars
  <2>4. OperatorRoutesIntact'
    BY <2>2 DEF RouteInv, OperatorRoutesIntact
  <2>5. ConfigValid' /\ TunnelRoutes'
    BY <2>1, <2>2 DEF RouteInv, ConfigValid, Validate, TunnelRoutes
  <2>6. RoutesSoFar'
    <3> SUFFICES ASSUME stage = "routes", cfg.autoRoute, NEW i \in 1 .. Len(cfg.routes),
                        i < next, cfg.routes[i] \notin taken'
                 PROVE  table'[cfg.routes[i]] = "tun"
      BY <2>1 DEF RoutesSoFar
    <3>1. cfg.routes \in Seq(Nets)
      BY ConfigsAssumption DEF RouteInv, TypeOK, ConfigValid
    <3>2. cfg.routes[i] \in Nets \ {n}
      BY <2>1, <3>1
    <3>3. table[cfg.routes[i]] = "tun"
      BY <2>1 DEF RouteInv, RoutesSoFar
    <3> QED
      BY <2>2, <3>2, <3>3
  <2>7. ServingIsRouted'
    <3> SUFFICES ASSUME stage \in {"turn", "select", "dispatch"}, cfg.autoRoute,
                        NEW m \in Range(cfg.routes) \ taken'
                 PROVE  table'[m] = "tun"
      BY <2>1 DEF ServingIsRouted
    <3>1. cfg.routes \in Seq(Nets)
      BY ConfigsAssumption DEF RouteInv, TypeOK, ConfigValid
    <3>2. m \in Nets \ {n}
      BY <2>1, <3>1 DEF Range
    <3>3. table[m] = "tun"
      BY <2>1 DEF RouteInv, ServingIsRouted
    <3> QED
      BY <2>2, <3>2, <3>3
  <2> QED
    BY <2>3, <2>4, <2>5, <2>6, <2>7 DEF RouteInv
<1> QED
  BY <1>1, <1>2, <1>3, <1>4

LEMMA RouteStep == RouteInv /\ [Next]_vars => RouteInv'
<1> SUFFICES ASSUME RouteInv, [Next]_vars PROVE RouteInv'
  OBVIOUS
<1>1. CASE UNCHANGED vars
  BY <1>1, QuietStep DEF vars, loopVars, RouteInv, TypeOK
<1> QED
  BY <1>1, StartupStep, AddStep, CleanupStep, LoopStep, OutsideStep DEF Next, Main

\* The invariant holds in every reachable state.
LEMMA RouteInvHolds == Spec => []RouteInv
BY RouteInit, RouteStep, PTL DEF Spec

-----------------------------------------------------------------------------
\* Every reachable state is well typed: only a living process owes deletions,
\* and only a turn that waits or dispatches knows of a signal.
THEOREM TypeCorrect == Spec => []TypeOK
<1>1. RouteInv => TypeOK
  BY DEF RouteInv
<1> QED
  BY <1>1, RouteInvHolds, PTL

\* Whatever the operator changes while the client adds, holds and deletes
\* routes, and however it ends, his routes are the ones in the table.
THEOREM OperatorRoutesSurvive == Spec => []OperatorRoutesIntact
<1>1. RouteInv => OperatorRoutesIntact
  BY DEF RouteInv
<1> QED
  BY <1>1, RouteInvHolds, PTL

\* No route the client or the kernel makes ever captures an enabled server
\* outside the TUN's own network, for every configuration that validate() lets
\* through: there is nothing to pin.
THEOREM ServersReachable == Spec => []ServersNotCaptured
<1>1. RouteInv => ServersNotCaptured
  <2> SUFFICES ASSUME RouteInv, cfg # Absent, NEW s \in Servers(cfg) \ TunNet
               PROVE  Lookup(s) # "tun"
    BY DEF ServersNotCaptured
  <2> DEFINE covering == {n \in Nets : s \in n /\ table[n] # "none"}
             best == CHOOSE n \in covering : \A m \in covering : n \subseteq m
  <2>1. CASE covering = {}
    BY <2>1 DEF Lookup
  <2>2. CASE covering # {}
    <3>1. \E n \in covering : \A m \in covering : n \subseteq m
      <4>1. covering \in SUBSET {n \in Nets : s \in n} /\ s \in UNION Nets
        BY <2>2
      <4> HIDE DEF covering
      <4> QED
        BY <2>2, <4>1, NetsAssumption
    <3>2. best \in Nets /\ s \in best
      BY <3>1
    <3>3. Lookup(s) = table[best]
      BY <2>2 DEF Lookup
    <3> HIDE DEF best
    <3>4. s \notin TunNet
      OBVIOUS
    <3>5. \A n \in Range(cfg.routes) : s \notin n
      BY DEF RouteInv, ConfigValid, Validate
    <3> QED
      BY <3>2, <3>3, <3>4, <3>5 DEF RouteInv, TunnelRoutes
  <2> QED
    BY <2>1, <2>2
<1> QED
  BY <1>1, RouteInvHolds, PTL

\* A client that serves has all its routes: none was skipped, and none is lost
\* unless the operator took it.
THEOREM ServingMeansRouted == Spec => []ServingIsRouted
<1>1. RouteInv => ServingIsRouted
  BY DEF RouteInv
<1> QED
  BY <1>1, RouteInvHolds, PTL
=============================================================================
