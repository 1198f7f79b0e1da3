-------------------------- MODULE HostRoutesProofs --------------------------
(***************************************************************************)
(* Proofs about HostRoutes, for all networks, routing tables and           *)
(* configurations and any number of signals, kills and restarts.  Four     *)
(* invariants carry them: RouteInv, what is in the table and who put it    *)
(* there; PinInv, the order in which the agent's pin and the tunnel's      *)
(* routes come and go; ChangesRemembered, what cleanup() still owes;       *)
(* WayBack, how traffic to the agent goes if the process dies now.         *)
(***************************************************************************)
EXTENDS HostRoutes, SequenceTheorems, TLAPS

\* No process, no tunnel: outside setup, the loop and cleanup nothing is left
\* of the TUN and nothing is owed to cleanup().
NoTunnelOutside ==
    pc \in {"lookup", "tun", "exited", "killed"} =>
        added = << >> /\ \A n \in Nets : table[n] # Tun

\* What the process put into the table, or may still put there.
OwnRoutes ==
    /\ \A n \in Nets : table[n] = Tun => n \in Range(cfg.routes)
    /\ \A i \in 1..Len(added) :
          added[i] \in Range(cfg.routes) \/ orig[added[i]] = NoRoute
    /\ \A i \in 1..Len(todo) :
          todo[i].kind = "route" => todo[i].net \in Range(cfg.routes)

RouteInv == TypeOK /\ NoTunnelOutside /\ OwnRoutes /\ ForeignRoutesIntact

\* Without a tunnel route, a lookup finds a next hop outside the tunnel or
\* none: the longest matching prefix exists because prefixes nest.
LEMMA LookupRange ==
    ASSUME NEW t \in [Nets -> Hops \cup {NoRoute}], NEW a
    PROVE  Lookup(t, a) \in Hops \cup {NoRoute}
<1> DEFINE covering == {n \in Nets : a \in n /\ t[n] # NoRoute}
<1>1. CASE covering = {}
  BY <1>1 DEF Lookup
<1>2. CASE covering # {}
  <2>1. a \in Addrs
    BY <1>2, NetsAssumption
  <2>2. \E n \in covering : \A m \in covering : n \subseteq m
    <3>1. covering \in SUBSET {n \in Nets : a \in n}
      OBVIOUS
    <3> HIDE DEF covering
    <3> QED
      BY <1>2, <2>1, <3>1, NetsAssumption
  <2> DEFINE best == CHOOSE n \in covering : \A m \in covering : n \subseteq m
  <2>3. best \in covering
    BY <2>2
  <2> QED
    BY <1>2, <2>3 DEF Lookup
<1> QED
  BY <1>1, <1>2

\* The planned work is well typed, and only its route entries enter the tunnel.
LEMMA SetupOrderTyped ==
    ASSUME cfg \in Configs, table \in [Nets -> Hops \cup {NoRoute}],
           PinsServer(cfg) => Lookup(table, Server) \in Hops
    PROVE  /\ SetupOrder \in Seq(Entries)
           /\ \A i \in 1..Len(SetupOrder) :
                 SetupOrder[i].kind = "route" => SetupOrder[i].net \in Range(cfg.routes)
<1> DEFINE Fine == {e \in Entries : e.kind = "route" => e.net \in Range(cfg.routes)}
<1>1. cfg.routes \in Seq(Nets) /\ cfg.exclude \in Seq(Nets)
  BY ConfigsAssumption
<1>2. ServerPin \in Seq(Fine)
  <2>1. CASE PinsServer(cfg)
    <3>1. Pin("server", {Server}, Server) \in Fine
      BY <2>1 DEF Pin, Entries
    <3> QED
      BY <2>1, <3>1 DEF ServerPin
  <2>2. CASE ~PinsServer(cfg)
    BY <2>2 DEF ServerPin
  <2> QED
    BY <2>1, <2>2
<1>3. ExcludePins \in Seq(Fine)
  <2>1. ASSUME NEW i \in 1..Len(cfg.exclude)
        PROVE  Pin("exclude", cfg.exclude[i], Network(cfg.exclude[i])) \in Fine
    <3>1. cfg.exclude[i] \in Nets
      BY <1>1
    <3>2. Lookup(table, Network(cfg.exclude[i])) \in Hops \cup {NoRoute}
      BY LookupRange
    <3> QED
      BY <3>1, <3>2 DEF Pin, Entries
  <2>2. Len(cfg.exclude) \in Nat
    BY <1>1
  <2> QED
    BY <2>1, <2>2 DEF ExcludePins
<1>4. Installs \in Seq(Fine)
  <2>1. ASSUME NEW i \in 1..Len(cfg.routes)
        PROVE  Install(cfg.routes[i]) \in Fine
    BY <1>1 DEF Install, Entries, Range
  <2>2. Len(cfg.routes) \in Nat
    BY <1>1
  <2> QED
    BY <2>1, <2>2 DEF Installs
<1>5. SetupOrder \in Seq(Fine)
  BY <1>2, <1>3, <1>4 DEF SetupOrder
<1>6. \A i \in 1..Len(SetupOrder) : SetupOrder[i] \in Fine
  BY <1>5
<1>7. SetupOrder \in Seq(Entries)
  <2> HIDE DEF Fine
  <2>1. Fine \subseteq Entries
    BY DEF Fine
  <2> QED
    BY <1>5, <2>1
<1> QED
  BY <1>6, <1>7

\* Taking the first element off a sequence keeps what holds of all elements.
LEMMA TailElements ==
    ASSUME NEW S, NEW s \in Seq(S), s # << >>
    PROVE  /\ Tail(s) \in Seq(S) /\ Head(s) \in S /\ Head(s) = s[1]
           /\ Len(s) \in Nat /\ Len(s) >= 1
           /\ Len(Tail(s)) = Len(s) - 1
           /\ \A i \in 1..Len(Tail(s)) : Tail(s)[i] = s[i + 1]
OBVIOUS

\* Taking the last element off does too.
LEMMA FrontElements ==
    ASSUME NEW S, NEW s \in Seq(S), s # << >>
    PROVE  /\ SubSeq(s, 1, Len(s) - 1) \in Seq(S)
           /\ s[Len(s)] \in S /\ Len(s) \in 1..Len(s)
           /\ Len(SubSeq(s, 1, Len(s) - 1)) = Len(s) - 1
           /\ \A i \in 1..(Len(s) - 1) : SubSeq(s, 1, Len(s) - 1)[i] = s[i]
<1>1. Len(s) \in Nat \ {0}
  OBVIOUS
<1>2. \A i \in 1..Len(s) : s[i] \in S
  OBVIOUS
<1> DEFINE n == Len(s) - 1
<1>3. n \in Int /\ 1 \in Int /\ \A i \in 1..n : s[i] \in S
  BY <1>1, <1>2
<1>4. /\ SubSeq(s, 1, n) \in Seq(S)
      /\ Len(SubSeq(s, 1, n)) = IF 1 <= n THEN n - 1 + 1 ELSE 0
      /\ \A i \in 1..(n - 1 + 1) : SubSeq(s, 1, n)[i] = s[1 + i - 1]
  <2> HIDE DEF n
  <2> QED
    BY <1>3, SubSeqProperties
<1>5. \A i \in 1..n : SubSeq(s, 1, n)[i] = s[i]
  BY <1>1, <1>4
<1>6. Len(SubSeq(s, 1, n)) = n
  <2>1. n \in Nat
    BY <1>1
  <2> HIDE DEF n
  <2>2. CASE 1 <= n
    <3>1. Len(SubSeq(s, 1, n)) = n - 1 + 1
      BY <1>4, <2>2
    <3> QED
      BY <2>1, <3>1
  <2>3. CASE n = 0
    BY <1>4, <2>3
  <2> QED
    BY <2>1, <2>2, <2>3
<1>7. s[Len(s)] \in S /\ Len(s) \in 1..Len(s)
  BY <1>1, <1>2
<1> QED
  BY <1>4, <1>5, <1>6, <1>7

-----------------------------------------------------------------------------
\* RouteManager and main preserve the invariant in every step, kill and start.
LEMMA RouteStep == RouteInv /\ [Next]_vars => RouteInv'
<1> SUFFICES ASSUME RouteInv, [Next]_vars PROVE RouteInv'
  OBVIOUS
<1> USE DEF RouteInv, NoTunnelOutside, OwnRoutes, ForeignRoutesIntact, TypeOK,
        Running, procVars
<1>1. CASE LookupHops
  <2>1. table \in [Nets -> Hops \cup {NoRoute}]
    BY <1>1 DEF LookupHops
  <2>2. /\ todo' \in Seq(Entries)
        /\ \A i \in 1..Len(todo') :
              todo'[i].kind = "route" => todo'[i].net \in Range(cfg.routes)
    BY <1>1, <2>1, SetupOrderTyped DEF LookupHops
  <2> QED
    BY <1>1, <2>2 DEF LookupHops
<1>2. CASE StartupError \/ CreateTun \/ SetupDone
  <2>1. CASE StartupError
    <3>1. pc' = "exited" /\ todo' = << >> /\ added = << >>
      BY <2>1 DEF StartupError
    <3>2. \A n \in Nets : table[n] # Tun
      BY <2>1 DEF StartupError
    <3> QED
      BY <2>1, <3>1, <3>2 DEF StartupError
  <2>2. CASE CreateTun
    BY <2>2 DEF CreateTun
  <2>3. CASE SetupDone
    BY <2>3 DEF SetupDone
  <2> QED
    BY <1>2, <2>1, <2>2, <2>3
<1>3. CASE PinDirect
  <2>1. /\ Tail(todo) \in Seq(Entries) /\ Head(todo) \in Entries
        /\ \A i \in 1..Len(Tail(todo)) :
              Tail(todo)[i].kind = "route" => Tail(todo)[i].net \in Range(cfg.routes)
    BY <1>3, TailElements DEF PinDirect, SetupNext
  <2>2. Head(todo).net \in Nets /\ Head(todo).hop \in Hops
    BY <1>3, <2>1, NetsAssumption DEF PinDirect, SetupNext, Entries
  <2>3. CASE table[Head(todo).net] # NoRoute
    BY <1>3, <2>1, <2>3 DEF PinDirect, SetupNext
  <2>4. CASE table[Head(todo).net] = NoRoute
    <3>1. /\ table' = [table EXCEPT ![Head(todo).net] = Head(todo).hop]
          /\ added' = Append(added, Head(todo).net)
      BY <1>3, <2>4 DEF PinDirect, SetRoute
    <3>2. Head(todo).net \in Range(cfg.routes) \/ orig[Head(todo).net] = NoRoute
      BY <2>2, <2>4
    <3>3. \A i \in 1..Len(added') :
             added'[i] \in Range(cfg.routes) \/ orig[added'[i]] = NoRoute
      BY <2>2, <3>1, <3>2
    <3>4. \A n \in Nets \ Range(cfg.routes) : orig[n] # NoRoute => table'[n] = orig[n]
      BY <2>2, <3>1, <3>2
    <3> QED
      BY <1>3, <2>1, <2>2, <3>1, <3>3, <3>4, HopsAssumption DEF PinDirect, SetupNext
  <2> QED
    BY <2>3, <2>4
<1>4. CASE PinExcludeError
  <2>1. /\ Tail(todo) \in Seq(Entries)
        /\ \A i \in 1..Len(Tail(todo)) :
              Tail(todo)[i].kind = "route" => Tail(todo)[i].net \in Range(cfg.routes)
    BY <1>4, TailElements DEF PinExcludeError, SetupNext
  <2> QED
    BY <1>4, <2>1 DEF PinExcludeError, SetupNext
<1>5. CASE AddToDev
  <2>1. /\ Tail(todo) \in Seq(Entries) /\ Head(todo) \in Entries
        /\ \A i \in 1..Len(Tail(todo)) :
              Tail(todo)[i].kind = "route" => Tail(todo)[i].net \in Range(cfg.routes)
    BY <1>5, TailElements DEF AddToDev, SetupNext
  <2>2. Head(todo).net \in Range(cfg.routes) /\ Head(todo).net \in Nets
    BY <1>5, <2>1, TailElements, NetsAssumption DEF AddToDev, SetupNext, Entries
  <2>3. \A i \in 1..Len(added') :
           added'[i] \in Range(cfg.routes) \/ orig[added'[i]] = NoRoute
    BY <1>5, <2>2 DEF AddToDev
  <2> QED
    BY <1>5, <2>1, <2>2, <2>3 DEF AddToDev, SetupNext, SetRoute
<1>6. CASE SetupError
  BY <1>6 DEF SetupError, SetupNext
<1>7. CASE Listen \/ Accept \/ Dispatch \/ StackError \/ Shutdown
  BY <1>7 DEF Listen, Accept, Dispatch, StackError, Shutdown
<1>8. CASE CleanupLast
  <2>1. /\ added' \in Seq(Nets)
        /\ \A i \in 1..Len(added') :
              added'[i] \in Range(cfg.routes) \/ orig[added'[i]] = NoRoute
    <3> HIDE DEF RouteInv, NoTunnelOutside, ForeignRoutesIntact, Running, procVars
    <3>1. added \in Seq(Nets) /\ added # << >> /\ added' = SubSeq(added, 1, Len(added) - 1)
      BY <1>8 DEF CleanupLast, RouteInv
    <3>2. /\ added' \in Seq(Nets) /\ Len(added') = Len(added) - 1
          /\ \A i \in 1..(Len(added) - 1) : added'[i] = added[i]
      BY <3>1, FrontElements
    <3>3. \A i \in 1..Len(added) :
             added[i] \in Range(cfg.routes) \/ orig[added[i]] = NoRoute
      BY DEF RouteInv
    <3>4. UNCHANGED <<cfg, orig>>
      BY <1>8 DEF CleanupLast
    <3>5. Len(added) \in Nat
      BY <3>1
    <3> QED
      BY <3>2, <3>3, <3>4, <3>5
  <2>2. /\ added[Len(added)] \in Nets
        /\ added[Len(added)] \in Range(cfg.routes) \/ orig[added[Len(added)]] = NoRoute
    BY <1>8, FrontElements DEF CleanupLast
  <2> QED
    BY <1>8, <2>1, <2>2, HopsAssumption DEF CleanupLast, SetRoute
<1>9. CASE CleanupError
  <2>1. /\ added' \in Seq(Nets)
        /\ \A i \in 1..Len(added') :
              added'[i] \in Range(cfg.routes) \/ orig[added'[i]] = NoRoute
    BY <1>9, FrontElements DEF CleanupError
  <2> QED
    BY <1>9, <2>1 DEF CleanupError
<1>10. ASSUME table' = WithoutTun(table)
       PROVE  /\ table' \in [Nets -> Hops \cup {Tun, NoRoute}]
              /\ \A n \in Nets : table'[n] # Tun
              /\ \A n \in Nets \ Range(cfg.routes) :
                    orig[n] # NoRoute => table'[n] = orig[n]
  BY <1>10, HopsAssumption DEF WithoutTun
<1>11. CASE CleanupDone
  BY <1>10, <1>11 DEF CleanupDone
<1>12. ASSUME NEW why \in {"kill", "early"}, Die(why), signals' \in 0..MaxSignals
       PROVE  RouteInv'
  <2>1. /\ pc' = "killed" /\ todo' = << >> /\ added' = << >>
        /\ handler' = FALSE /\ notified' = FALSE
        /\ UNCHANGED <<cfg, orig, restarts>>
    BY <1>12 DEF Die
  <2>2. faults' \subseteq {"kill", "early", "delete"}
    BY <1>12 DEF Die
  <2>3. table' = WithoutTun(table)
    BY <1>12 DEF Die
  <2>4. << >> \in Seq(Entries) /\ << >> \in Seq(Nets)
    OBVIOUS
  <2>5. TypeOK'
    BY <1>10, <1>12, <2>1, <2>2, <2>3, <2>4
  <2>6. NoTunnelOutside' /\ OwnRoutes' /\ ForeignRoutesIntact'
    BY <1>10, <2>1, <2>3
  <2> QED
    BY <2>5, <2>6
<1>13. CASE Signal
  <2>1. signals' \in 0..MaxSignals
    BY <1>13, BoundsAssumption DEF Signal
  <2> QED
    BY <1>12, <1>13, <2>1 DEF Signal
<1>14. CASE Kill
  BY <1>12, <1>14 DEF Kill
<1>15. CASE Restart
  <2>1. added = << >> /\ \A n \in Nets : table[n] # Tun
    BY <1>15 DEF Restart
  <2>2. restarts' \in 0..MaxRestarts /\ signals' \in 0..MaxSignals
    BY <1>15, BoundsAssumption DEF Restart
  <2> QED
    BY <1>15, <2>1, <2>2 DEF Restart
<1>16. CASE UNCHANGED vars
  BY <1>16 DEF vars
<1> QED
  BY <1>1, <1>2, <1>3, <1>4, <1>5, <1>6, <1>7, <1>8, <1>9, <1>11, <1>13, <1>14,
     <1>15, <1>16 DEF Next

\* The host starts without a tunnel, and owes nothing.
LEMMA RouteInit == Init => RouteInv
<1> SUFFICES ASSUME Init PROVE RouteInv
  OBVIOUS
<1>1. orig \in [Nets -> Hops \cup {NoRoute}] /\ table = orig
  BY TablesAssumption DEF Init
<1>2. \A n \in Nets : table[n] # Tun
  BY <1>1, HopsAssumption
<1>3. table \in [Nets -> Hops \cup {Tun, NoRoute}]
  BY <1>1
<1>4. TypeOK
  <2>1. << >> \in Seq(Entries) /\ << >> \in Seq(Nets)
    OBVIOUS
  <2>2. cfg \in Configs /\ orig \in Tables /\ faults \subseteq {"kill", "early", "delete"}
    BY DEF Init
  <2>3. signals \in 0..MaxSignals /\ restarts \in 0..MaxRestarts
    BY BoundsAssumption DEF Init
  <2>4. /\ pc \in Running \cup {"exited", "killed"}
        /\ handler \in BOOLEAN /\ notified \in BOOLEAN
        /\ todo = << >> /\ added = << >>
    BY DEF Init, Running
  <2> QED
    BY <1>3, <2>1, <2>2, <2>3, <2>4 DEF TypeOK
<1>5. NoTunnelOutside /\ ForeignRoutesIntact
  BY <1>1, <1>2 DEF Init, NoTunnelOutside, ForeignRoutesIntact
<1>6. OwnRoutes
  BY <1>2 DEF Init, OwnRoutes
<1> QED
  BY <1>4, <1>5, <1>6 DEF RouteInv

\* The route invariant holds in every reachable state.
LEMMA RouteInvHolds == Spec => []RouteInv
  BY RouteInit, RouteStep, PTL DEF Spec

-----------------------------------------------------------------------------
(* Where traffic to the VM agent goes *)

\* What is still to be set up: the server's pin first, before anything enters
\* the tunnel, and pinned by the time a tunnel route that covers it is due.
PinPlannedFirst ==
    /\ pc \notin {"tun", "setup"} => todo = << >>
    /\ \A i \in 1..Len(todo) :
          /\ todo[i].kind = "server" => i = 1 /\ \A n \in Nets : table[n] # Tun
          /\ todo[i].kind = "exclude" => todo[i].net \in Range(cfg.exclude)
          /\ todo[i].kind = "route" /\ Server \in todo[i].net /\ ~Excludes(cfg, Server)
                => table[{Server}] # NoRoute \/ (i > 1 /\ todo[1].kind = "server")

\* Whenever a tunnel route covers the agent, its address has a route of its own,
\* and cleanup(), which goes backwards, comes to the tunnel route before the pin.
PinOutlivesTunnel ==
    "delete" \notin faults /\ ~Excludes(cfg, Server) /\ {Server} \notin Range(cfg.routes) =>
        \A n \in Nets : table[n] = Tun /\ Server \in n =>
            /\ table[{Server}] # NoRoute
            /\ \A i \in 1..Len(added) : added[i] = {Server} =>
                  \E j \in 1..Len(added) : j > i /\ added[j] = n

PinInv == PinPlannedFirst /\ PinOutlivesTunnel

\* The agent's own /32 is the longest prefix there is: a route of its own decides.
LEMMA OwnRouteDecides ==
    ASSUME NEW t \in [Nets -> Hops \cup {Tun, NoRoute}],
           \A n \in Nets : t[n] = Tun /\ Server \in n => t[{Server}] \notin {NoRoute, Tun}
    PROVE  Lookup(t, Server) # Tun
<1> DEFINE covering == {n \in Nets : Server \in n /\ t[n] # NoRoute}
           best == CHOOSE n \in covering : \A m \in covering : n \subseteq m
<1>1. CASE covering = {}
  BY <1>1, HopsAssumption DEF Lookup
<1>2. CASE covering # {}
  <2>1. \E n \in covering : \A m \in covering : n \subseteq m
    <3>1. covering \in SUBSET {n \in Nets : Server \in n}
      OBVIOUS
    <3> HIDE DEF covering
    <3> QED
      BY <1>2, <3>1, AddrsAssumption, NetsAssumption
  <2>2. best \in covering /\ \A m \in covering : best \subseteq m
    BY <2>1
  <2>3. Lookup(t, Server) = t[best]
    BY <1>2 DEF Lookup
  <2> HIDE DEF best
  <2>4. ASSUME t[best] = Tun PROVE FALSE
    <3>1. t[{Server}] \notin {NoRoute, Tun} /\ {Server} \in covering
      BY <2>2, <2>4, NetsAssumption
    <3>2. best = {Server}
      BY <2>2, <3>1
    <3> QED
      BY <2>4, <3>1, <3>2
  <2> QED
    BY <2>3, <2>4
<1> QED
  BY <1>1, <1>2

\* Where the elements of a sequence of three parts come from.
LEMMA ThreeParts ==
    ASSUME NEW S, NEW a \in Seq(S), NEW b \in Seq(S), NEW c \in Seq(S)
    PROVE  /\ Len(a \o b \o c) = Len(a) + Len(b) + Len(c)
           /\ \A i \in 1..(Len(a) + Len(b) + Len(c)) :
                 (a \o b \o c)[i] = IF i <= Len(a) THEN a[i]
                                    ELSE IF i <= Len(a) + Len(b) THEN b[i - Len(a)]
                                    ELSE c[i - Len(a) - Len(b)]
<1>1. Len(a) \in Nat /\ Len(b) \in Nat /\ Len(c) \in Nat
  OBVIOUS
<1> DEFINE ab == a \o b
<1>2. /\ ab \in Seq(S) /\ Len(ab) = Len(a) + Len(b)
      /\ \A i \in 1..(Len(a) + Len(b)) : ab[i] = IF i <= Len(a) THEN a[i] ELSE b[i - Len(a)]
  BY ConcatProperties
<1>3. a \o b \o c = ab \o c
  BY ConcatAssociative
<1> HIDE DEF ab
<1> DEFINE abc == ab \o c
<1>4. /\ Len(abc) = Len(ab) + Len(c)
      /\ \A i \in 1..(Len(ab) + Len(c)) : abc[i] = IF i <= Len(ab) THEN ab[i] ELSE c[i - Len(ab)]
  <2>1. ab \in Seq(S)
    BY <1>2
  <2> QED
    BY <2>1, ConcatProperties
<1> HIDE DEF abc
<1>5. Len(abc) = Len(a) + Len(b) + Len(c)
  BY <1>1, <1>2, <1>4
<1>6. ASSUME NEW i \in 1..(Len(a) + Len(b) + Len(c))
      PROVE  abc[i] = IF i <= Len(a) THEN a[i]
                      ELSE IF i <= Len(a) + Len(b) THEN b[i - Len(a)]
                      ELSE c[i - Len(a) - Len(b)]
  BY <1>1, <1>2, <1>4
<1> QED
  BY <1>3, <1>5, <1>6 DEF abc

\* main plans the server's pin before everything else, whenever it plans a
\* route that covers the server and was not told to leave it out.
LEMMA SetupOrderPinsFirst ==
    ASSUME cfg \in Configs
    PROVE  \A i \in 1..Len(SetupOrder) :
              /\ SetupOrder[i].kind = "server" => i = 1
              /\ SetupOrder[i].kind = "exclude" => SetupOrder[i].net \in Range(cfg.exclude)
              /\ SetupOrder[i].kind = "route" /\ Server \in SetupOrder[i].net
                    /\ ~Excludes(cfg, Server) => i > 1 /\ SetupOrder[1].kind = "server"
<1> DEFINE E == Len(cfg.exclude)
           R == Len(cfg.routes)
           P == Len(ServerPin)
           Any == {ServerPin[i] : i \in {1}} \cup {ExcludePins[i] : i \in 1..E}
                     \cup {Installs[i] : i \in 1..R}
<1>1. cfg.routes \in Seq(Nets) /\ cfg.exclude \in Seq(Nets) /\ E \in Nat /\ R \in Nat
  BY ConfigsAssumption
<1>2. ServerPin \in Seq(Any) /\ P \in {0, 1} /\ (P = 1 <=> PinsServer(cfg))
      /\ \A i \in 1..P : ServerPin[i].kind = "server"
  <2>1. Pin("server", {Server}, Server).kind = "server"
    BY DEF Pin
  <2>2. CASE PinsServer(cfg)
    <3> DEFINE pin == Pin("server", {Server}, Server)
    <3> HIDE DEF pin
    <3>1. ServerPin = <<pin>>
      BY <2>2 DEF ServerPin, pin
    <3>2. pin \in Any /\ pin.kind = "server"
      BY <2>1, <3>1 DEF pin
    <3> HIDE DEF Any
    <3> QED
      BY <2>2, <3>1, <3>2
  <2>3. CASE ~PinsServer(cfg)
    <3> HIDE DEF Any
    <3> QED
      BY <2>3 DEF ServerPin
  <2> QED
    BY <2>2, <2>3
<1>3. ExcludePins \in Seq(Any) /\ Len(ExcludePins) = E
      /\ \A i \in 1..E : ExcludePins[i].kind = "exclude"
                         /\ ExcludePins[i].net \in Range(cfg.exclude)
  <2>1. ExcludePins = [i \in 1..E |-> ExcludePins[i]]
    BY DEF ExcludePins
  <2>2. \A i \in 1..E : ExcludePins[i] \in Any
    OBVIOUS
  <2>3. ASSUME NEW i \in 1..E
        PROVE  /\ ExcludePins[i].kind = "exclude"
               /\ ExcludePins[i].net \in Range(cfg.exclude)
    BY <1>1 DEF ExcludePins, Pin, Range
  <2> HIDE DEF Any, E
  <2> QED
    BY <1>1, <2>1, <2>2, <2>3
<1>4. Installs \in Seq(Any) /\ Len(Installs) = R
      /\ \A i \in 1..R : Installs[i].kind = "route"
                         /\ Installs[i].net \in Range(cfg.routes)
  <2>1. Installs = [i \in 1..R |-> Installs[i]]
    BY DEF Installs
  <2>2. \A i \in 1..R : Installs[i] \in Any
    OBVIOUS
  <2>3. ASSUME NEW i \in 1..R
        PROVE  /\ Installs[i].kind = "route"
               /\ Installs[i].net \in Range(cfg.routes)
    BY <1>1 DEF Installs, Install, Range
  <2> HIDE DEF Any, R
  <2> QED
    BY <1>1, <2>1, <2>2, <2>3
<1> HIDE DEF Any, E, R, P
<1>5. /\ Len(SetupOrder) = P + E + R
      /\ \A i \in 1..(P + E + R) :
            SetupOrder[i] = IF i <= P THEN ServerPin[i]
                            ELSE IF i <= P + E THEN ExcludePins[i - P]
                            ELSE Installs[i - P - E]
  <2> HIDE DEF Any
  <2>1. ServerPin \in Seq(Any) /\ ExcludePins \in Seq(Any) /\ Installs \in Seq(Any)
    BY <1>2, <1>3, <1>4
  <2>2. Len(ServerPin) = P /\ Len(ExcludePins) = E /\ Len(Installs) = R
    BY <1>3, <1>4 DEF P
  <2> DEFINE abc == ServerPin \o ExcludePins \o Installs
  <2>3. /\ Len(abc) = Len(ServerPin) + Len(ExcludePins) + Len(Installs)
        /\ \A i \in 1..(Len(ServerPin) + Len(ExcludePins) + Len(Installs)) :
              abc[i] = IF i <= Len(ServerPin) THEN ServerPin[i]
                       ELSE IF i <= Len(ServerPin) + Len(ExcludePins)
                            THEN ExcludePins[i - Len(ServerPin)]
                       ELSE Installs[i - Len(ServerPin) - Len(ExcludePins)]
    <3> DEFINE a == ServerPin
               b == ExcludePins
               c == Installs
    <3>1. a \in Seq(Any) /\ b \in Seq(Any) /\ c \in Seq(Any)
      BY <2>1
    <3> HIDE DEF a, b, c
    <3>2. /\ Len(a \o b \o c) = Len(a) + Len(b) + Len(c)
          /\ \A i \in 1..(Len(a) + Len(b) + Len(c)) :
                 (a \o b \o c)[i] = IF i <= Len(a) THEN a[i]
                                    ELSE IF i <= Len(a) + Len(b) THEN b[i - Len(a)]
                                    ELSE c[i - Len(a) - Len(b)]
      BY <3>1, ThreeParts
    <3> QED
      BY <3>2, Zenon DEF a, b, c
  <2>4. SetupOrder = abc
    BY DEF SetupOrder
  <2> HIDE DEF abc
  <2> QED
    BY <2>2, <2>3, <2>4
<1> TAKE i \in 1..Len(SetupOrder)
<1>6. i \in Int /\ 1 <= i /\ i <= P + E + R /\ P \in Nat
  BY <1>1, <1>2, <1>5
<1>7. CASE i <= P
  <2>1. i = 1 /\ SetupOrder[i].kind = "server"
    BY <1>2, <1>5, <1>6, <1>7
  <2> QED
    BY <2>1
<1>8. CASE P < i /\ i <= P + E
  <2>1. i - P \in 1..E /\ SetupOrder[i] = ExcludePins[i - P]
    BY <1>1, <1>5, <1>6, <1>8
  <2> QED
    BY <1>3, <2>1
<1>9. CASE P + E < i
  <2>1. i - P - E \in 1..R /\ SetupOrder[i] = Installs[i - P - E]
    BY <1>1, <1>5, <1>6, <1>9
  <2>2. SetupOrder[i].kind = "route" /\ SetupOrder[i].net \in Range(cfg.routes)
    BY <1>4, <2>1
  <2>3. ASSUME Server \in SetupOrder[i].net, ~Excludes(cfg, Server)
        PROVE  i > 1 /\ SetupOrder[1].kind = "server"
    <3>1. P = 1
      BY <1>2, <2>2, <2>3 DEF PinsServer, Captures
    <3>2. SetupOrder[1] = ServerPin[1] /\ i > 1
      BY <1>1, <1>5, <1>6, <1>9, <3>1
    <3> QED
      BY <1>2, <3>1, <3>2
  <2> QED
    BY <2>2, <2>3
<1>10. i <= P \/ (P < i /\ i <= P + E) \/ P + E < i
  BY <1>1, <1>6
<1> QED
  BY <1>7, <1>8, <1>9, <1>10

\* Steps of main that only move on, and the operator's, change no route.
LEMMA PinStepQuiet ==
    ASSUME TypeOK, PinInv, UNCHANGED <<cfg, table, added>>, faults \subseteq faults',
           \/ UNCHANGED <<pc, todo>>
           \/ todo' = << >>
           \/ UNCHANGED todo /\ pc' \in {"tun", "setup"}
    PROVE  PinInv'
<1>1. PinOutlivesTunnel'
  BY DEF PinInv, PinOutlivesTunnel, Excludes
<1>2. PinPlannedFirst'
  <2>1. CASE todo' = << >>
    BY <2>1 DEF PinPlannedFirst
  <2>2. CASE UNCHANGED todo /\ (UNCHANGED pc \/ pc' \in {"tun", "setup"})
    <3>1. pc' \notin {"tun", "setup"} => todo' = << >>
      BY <2>2 DEF PinInv, PinPlannedFirst
    <3> QED
      BY <2>2, <3>1 DEF PinInv, PinPlannedFirst, Excludes
  <2> QED
    BY <2>1, <2>2
<1> QED
  BY <1>1, <1>2 DEF PinInv

\* Once the tunnel's routes are gone there is nothing to pin, and nothing planned.
LEMMA PinStepOver ==
    ASSUME \A n \in Nets : table'[n] # Tun, todo' = << >>
    PROVE  PinInv'
BY DEF PinInv, PinPlannedFirst, PinOutlivesTunnel

\* In every step the pin is planned first and outlives the tunnel's routes.
LEMMA PinStep == RouteInv /\ RouteInv' /\ PinInv /\ [Next]_vars => PinInv'
<1> SUFFICES ASSUME RouteInv, RouteInv', PinInv, [Next]_vars PROVE PinInv'
  OBVIOUS
<1> DEFINE Pinned == {Server}
<1>0. TypeOK /\ TypeOK' /\ Pinned \in Nets
  BY NetsAssumption DEF RouteInv
<1>1. CASE LookupHops
  <2>1. /\ \A n \in Nets : table[n] # Tun
        /\ UNCHANGED <<cfg, table, added>> /\ pc' = "tun"
        /\ todo' = IF cfg.autoRoute THEN SetupOrder ELSE << >>
    BY <1>1 DEF LookupHops, RouteInv, NoTunnelOutside
  <2>2. PinOutlivesTunnel'
    BY <2>1 DEF PinOutlivesTunnel
  <2>3. PinPlannedFirst'
    <3>1. CASE cfg.autoRoute
      <4>1. todo' = SetupOrder /\ cfg \in Configs
        BY <1>0, <2>1, <3>1 DEF TypeOK
      <4> HIDE DEF SetupOrder
      <4>2. \A i \in 1..Len(todo') :
              /\ todo'[i].kind = "server" => i = 1
              /\ todo'[i].kind = "exclude" => todo'[i].net \in Range(cfg.exclude)
              /\ todo'[i].kind = "route" /\ Server \in todo'[i].net
                    /\ ~Excludes(cfg, Server) => i > 1 /\ todo'[1].kind = "server"
        BY <4>1, SetupOrderPinsFirst
      <4> QED
        BY <2>1, <4>2 DEF PinPlannedFirst, Excludes
    <3>2. CASE ~cfg.autoRoute
      BY <2>1, <3>2 DEF PinPlannedFirst
    <3> QED
      BY <3>1, <3>2
  <2> QED
    BY <2>2, <2>3 DEF PinInv
<1>2. CASE StartupError \/ CreateTun \/ SetupError
  BY <1>0, <1>2, PinStepQuiet DEF StartupError, CreateTun, SetupError, SetupNext
<1>3. CASE SetupDone \/ Listen \/ Accept \/ Dispatch \/ StackError \/ Shutdown
  <2>1. todo = << >>
    BY <1>3 DEF SetupDone, Listen, Accept, Dispatch, StackError, Shutdown, PinInv, PinPlannedFirst
  <2> QED
    BY <1>0, <1>3, <2>1, PinStepQuiet
       DEF SetupDone, Listen, Accept, Dispatch, StackError, Shutdown
\* What is left to do after the next entry: no server's pin, and routes that
\* cover the server only once its address has a route.
<1>4. ASSUME pc = "setup", todo # << >>, todo' = Tail(todo), UNCHANGED <<cfg, pc>>,
             table[Pinned] # NoRoute => table'[Pinned] # NoRoute,
             Head(todo).kind = "server" => table'[Pinned] # NoRoute
      PROVE  PinPlannedFirst'
  <2>1. /\ todo \in Seq(Entries) /\ Head(todo) = todo[1] /\ Len(todo) \in Nat
        /\ Len(todo') = Len(todo) - 1
        /\ \A i \in 1..Len(todo') : todo'[i] = todo[i + 1]
    BY <1>0, <1>4, TailElements DEF TypeOK
  <2>2. \A i \in 1..Len(todo') : i + 1 \in 1..Len(todo) /\ i + 1 # 1 /\ i + 1 > 1
    BY <2>1
  <2>3. ASSUME NEW i \in 1..Len(todo')
        PROVE  /\ todo'[i].kind # "server"
               /\ todo'[i].kind = "exclude" => todo'[i].net \in Range(cfg.exclude)
               /\ todo'[i].kind = "route" /\ Server \in todo'[i].net /\ ~Excludes(cfg, Server)
                     => table'[Pinned] # NoRoute
    <3>1. todo'[i] = todo[i + 1] /\ i + 1 \in 1..Len(todo) /\ i + 1 # 1
      BY <2>1, <2>2
    <3>2. /\ todo[i + 1].kind = "server" => i + 1 = 1
          /\ todo[i + 1].kind = "exclude" => todo[i + 1].net \in Range(cfg.exclude)
          /\ todo[i + 1].kind = "route" /\ Server \in todo[i + 1].net /\ ~Excludes(cfg, Server)
                => table[Pinned] # NoRoute \/ todo[1].kind = "server"
      BY <3>1 DEF PinInv, PinPlannedFirst
    <3> QED
      BY <1>4, <2>1, <3>1, <3>2
  <2> QED
    BY <1>4, <2>3 DEF PinPlannedFirst, Excludes
<1>5. CASE PinDirect
  <2> DEFINE e == Head(todo)
  <2>1. /\ pc = "setup" /\ todo # << >> /\ todo' = Tail(todo) /\ UNCHANGED <<cfg, pc, faults>>
        /\ e \in Entries /\ e.kind \in {"server", "exclude"} /\ e.hop \in Hops
        /\ 1 \in 1..Len(todo) /\ e = todo[1] /\ e.net \in Nets
        /\ e.kind = "server" => e.net = Pinned
    <3>1. /\ pc = "setup" /\ todo # << >> /\ todo' = Tail(todo) /\ UNCHANGED <<cfg, pc, faults>>
          /\ e.kind \in {"server", "exclude"} /\ e.hop # NoRoute
      BY <1>5 DEF PinDirect, SetupNext
    <3>2. e \in Entries /\ e = todo[1] /\ 1 \in 1..Len(todo)
      BY <1>0, <3>1, TailElements DEF TypeOK
    <3>3. e.hop \in Hops /\ e.net \in Nets /\ (e.kind = "server" => e.net = Pinned)
      <4> HIDE DEF e
      <4> QED
        BY <1>0, <3>1, <3>2 DEF Entries
    <3> QED
      BY <3>1, <3>2, <3>3
  <2>2. CASE table[e.net] # NoRoute
    <3>1. UNCHANGED <<table, added>>
      BY <1>5, <2>2 DEF PinDirect
    <3>2. PinOutlivesTunnel'
      BY <2>1, <3>1 DEF PinInv, PinOutlivesTunnel, Excludes
    <3>3. PinPlannedFirst'
      BY <1>4, <2>1, <2>2, <3>1
    <3> QED
      BY <3>2, <3>3 DEF PinInv
  <2>3. CASE table[e.net] = NoRoute
    <3> HIDE DEF e
    <3>1. /\ table' = [table EXCEPT ![e.net] = e.hop] /\ added' = Append(added, e.net)
          /\ \A n \in Nets : table'[n] = IF n = e.net THEN e.hop ELSE table[n]
      BY <1>0, <1>5, <2>3 DEF PinDirect, SetRoute, e, TypeOK
    <3>2. e.hop # NoRoute /\ e.hop # Tun
      BY <2>1, HopsAssumption
    <3>3. PinPlannedFirst'
      BY <1>0, <1>4, <2>1, <3>1, <3>2 DEF e
    <3>4. CASE e.kind = "server"
      <4>1. \A n \in Nets : table[n] # Tun
        BY <2>1, <3>4 DEF PinInv, PinPlannedFirst
      <4>2. \A n \in Nets : table'[n] # Tun
        BY <3>1, <3>2, <4>1
      <4> QED
        BY <3>3, <4>2 DEF PinInv, PinOutlivesTunnel
    <3>5. CASE e.kind = "exclude"
      <4>1. e.net \in Range(cfg.exclude)
        BY <2>1, <3>5 DEF PinInv, PinPlannedFirst
      <4>2. ~Excludes(cfg, Server) => e.net # Pinned
        BY <4>1 DEF Excludes
      <4>3. /\ Len(added) \in Nat /\ Len(added') = Len(added) + 1
            /\ added'[Len(added) + 1] = e.net
            /\ \A i \in 1..Len(added) : added'[i] = added[i]
        BY <1>0, <2>1, <3>1 DEF TypeOK
      <4>4. PinOutlivesTunnel'
        <5> SUFFICES ASSUME "delete" \notin faults, ~Excludes(cfg, Server),
                            Pinned \notin Range(cfg.routes),
                            NEW n \in Nets, table'[n] = Tun, Server \in n
                     PROVE  /\ table'[Pinned] # NoRoute
                            /\ \A i \in 1..Len(added') : added'[i] = Pinned =>
                                  \E j \in 1..Len(added') : j > i /\ added'[j] = n
          BY <2>1 DEF PinOutlivesTunnel, Excludes
        <5>1. table[n] = Tun
          BY <3>1, <3>2
        <5>2. /\ table[Pinned] # NoRoute
              /\ \A i \in 1..Len(added) : added[i] = Pinned =>
                    \E j \in 1..Len(added) : j > i /\ added[j] = n
          BY <5>1 DEF PinInv, PinOutlivesTunnel
        <5>3. \A i \in 1..Len(added') : i = Len(added) + 1 \/ i \in 1..Len(added)
          BY <4>3
        <5>4. \A j \in 1..Len(added) : j \in 1..Len(added')
          BY <4>3
        <5> QED
          BY <1>0, <3>1, <3>2, <4>2, <4>3, <5>2, <5>3, <5>4
      <4> QED
        BY <3>3, <4>4 DEF PinInv
    <3> QED
      BY <2>1, <3>4, <3>5
  <2> QED
    BY <2>2, <2>3
<1>6. CASE PinExcludeError
  <2>1. /\ pc = "setup" /\ todo # << >> /\ todo' = Tail(todo)
        /\ Head(todo).kind = "exclude"
        /\ UNCHANGED <<cfg, pc, table, added, faults>>
    BY <1>6 DEF PinExcludeError, SetupNext
  <2>2. PinPlannedFirst'
    BY <1>4, <2>1
  <2>3. PinOutlivesTunnel'
    BY <2>1 DEF PinInv, PinOutlivesTunnel, Excludes
  <2> QED
    BY <2>2, <2>3 DEF PinInv
<1>7. CASE AddToDev
  <2> DEFINE e == Head(todo)
  <2>1. /\ pc = "setup" /\ todo # << >> /\ todo' = Tail(todo) /\ UNCHANGED <<cfg, pc, faults>>
        /\ e \in Entries /\ e.kind = "route"
        /\ 1 \in 1..Len(todo) /\ e = todo[1] /\ e.net \in Nets
        /\ e.net \in Range(cfg.routes)
    BY <1>0, <1>7, TailElements DEF AddToDev, SetupNext, TypeOK, Entries, RouteInv, OwnRoutes
  <2> HIDE DEF e
  <2>2. /\ table' = [table EXCEPT ![e.net] = Tun] /\ added' = Append(added, e.net)
        /\ \A n \in Nets : table'[n] = IF n = e.net THEN Tun ELSE table[n]
    BY <1>0, <1>7 DEF AddToDev, SetRoute, e, TypeOK
  <2>3. PinPlannedFirst'
    BY <1>0, <1>4, <2>1, <2>2, HopsAssumption DEF e
  <2>4. /\ Len(added) \in Nat /\ Len(added') = Len(added) + 1
        /\ added'[Len(added) + 1] = e.net
        /\ \A i \in 1..Len(added) : added'[i] = added[i]
    BY <1>0, <2>1, <2>2 DEF TypeOK
  <2>5. PinOutlivesTunnel'
    <3> SUFFICES ASSUME "delete" \notin faults, ~Excludes(cfg, Server),
                        Pinned \notin Range(cfg.routes),
                        NEW n \in Nets, table'[n] = Tun, Server \in n
                 PROVE  /\ table'[Pinned] # NoRoute
                        /\ \A i \in 1..Len(added') : added'[i] = Pinned =>
                              \E j \in 1..Len(added') : j > i /\ added'[j] = n
      BY <2>1 DEF PinOutlivesTunnel, Excludes
    <3>1. e.net # Pinned
      BY <2>1
    <3>2. \A i \in 1..Len(added') : i = Len(added) + 1 \/ i \in 1..Len(added)
      BY <2>4
    <3>3. \A j \in 1..Len(added) : j \in 1..Len(added')
      BY <2>4
    <3>4. CASE n = e.net
      <4>1. table[Pinned] # NoRoute
        BY <2>1, <3>4 DEF PinInv, PinPlannedFirst
      <4>2. \A i \in 1..Len(added) : Len(added) + 1 > i /\ Len(added) + 1 \in 1..Len(added')
        BY <2>4
      <4> QED
        BY <1>0, <2>2, <2>4, <3>1, <3>2, <3>4, <4>1, <4>2
    <3>5. CASE n # e.net
      <4>1. /\ table[Pinned] # NoRoute
            /\ \A i \in 1..Len(added) : added[i] = Pinned =>
                  \E j \in 1..Len(added) : j > i /\ added[j] = n
        BY <2>2, <3>5 DEF PinInv, PinOutlivesTunnel
      <4> QED
        BY <1>0, <2>2, <2>4, <3>1, <3>2, <3>3, <4>1
    <3> QED
      BY <3>4, <3>5
  <2> QED
    BY <2>3, <2>5 DEF PinInv
<1>8. CASE CleanupLast
  <2> DEFINE L == Len(added)
             last == added[L]
  <2>1. /\ pc = "cleanup" /\ added # << >> /\ UNCHANGED <<cfg, pc, todo, faults>>
        /\ added' = SubSeq(added, 1, Len(added) - 1) /\ added \in Seq(Nets)
        /\ table' = [table EXCEPT ![last] = NoRoute]
    BY <1>0, <1>8 DEF CleanupLast, SetRoute, TypeOK
  <2>2. /\ last \in Nets /\ L \in Nat \ {0} /\ Len(added') = L - 1
        /\ \A i \in 1..(L - 1) : added'[i] = added[i]
    BY <2>1, FrontElements
  <2> HIDE DEF L, last
  <2>3. \A n \in Nets : table'[n] = IF n = last THEN NoRoute ELSE table[n]
    BY <1>0, <2>1, <2>2 DEF TypeOK
  <2>4. todo = << >>
    BY <2>1 DEF PinInv, PinPlannedFirst
  <2>5. PinPlannedFirst'
    BY <2>1, <2>4 DEF PinPlannedFirst
  <2>6. PinOutlivesTunnel'
    <3> SUFFICES ASSUME "delete" \notin faults, ~Excludes(cfg, Server),
                        Pinned \notin Range(cfg.routes),
                        NEW n \in Nets, table'[n] = Tun, Server \in n
                 PROVE  /\ table'[Pinned] # NoRoute
                        /\ \A i \in 1..Len(added') : added'[i] = Pinned =>
                              \E j \in 1..Len(added') : j > i /\ added'[j] = n
      BY <2>1 DEF PinOutlivesTunnel, Excludes
    <3>1. table[n] = Tun /\ n # last
      BY <2>3, HopsAssumption
    <3>2. /\ table[Pinned] # NoRoute
          /\ \A i \in 1..L : added[i] = Pinned =>
                \E j \in 1..L : j > i /\ added[j] = n
      BY <3>1 DEF PinInv, PinOutlivesTunnel, L
    <3>3. \A j \in 1..L : added[j] = n => j \in 1..(L - 1)
      BY <2>2, <3>1 DEF last
    <3>4. last # Pinned
      <4>1. L \in 1..L /\ \A j \in 1..L : ~(j > L)
        BY <2>2
      <4> QED
        BY <3>2, <4>1 DEF last
    <3>5. \A i \in 1..(L - 1) : i \in 1..L
      BY <2>2
    <3> QED
      BY <1>0, <2>2, <2>3, <3>2, <3>3, <3>4, <3>5
  <2> QED
    BY <2>5, <2>6 DEF PinInv
<1>9. CASE CleanupError
  <2>1. "delete" \in faults' /\ pc = "cleanup" /\ UNCHANGED todo
    BY <1>9 DEF CleanupError
  <2>2. todo = << >>
    BY <2>1 DEF PinInv, PinPlannedFirst
  <2> QED
    BY <2>1, <2>2 DEF PinInv, PinPlannedFirst, PinOutlivesTunnel
<1>10. ASSUME table' = WithoutTun(table) PROVE \A n \in Nets : table'[n] # Tun
  BY <1>10, HopsAssumption DEF WithoutTun
<1>11. CASE CleanupDone
  <2>1. todo' = << >>
    BY <1>11 DEF CleanupDone, PinInv, PinPlannedFirst
  <2> QED
    BY <1>10, <1>11, <2>1, PinStepOver DEF CleanupDone
<1>12. ASSUME NEW why, Die(why) PROVE PinInv'
  BY <1>10, <1>12, PinStepOver DEF Die
<1>13. CASE Signal
  BY <1>0, <1>12, <1>13, PinStepQuiet DEF Signal, procVars
<1>14. CASE Kill
  BY <1>12, <1>14 DEF Kill
<1>15. CASE Restart
  <2>1. todo = << >>
    BY <1>15 DEF Restart, PinInv, PinPlannedFirst
  <2> QED
    BY <1>0, <1>15, <2>1, PinStepQuiet DEF Restart
<1>16. CASE UNCHANGED vars
  BY <1>0, <1>16, PinStepQuiet DEF vars, procVars
<1> QED
  BY <1>1, <1>2, <1>3, <1>5, <1>6, <1>7, <1>8, <1>9, <1>11, <1>13, <1>14,
     <1>15, <1>16 DEF Next

\* The pin is planned first and outlives the tunnel's routes in every state.
LEMMA PinInvHolds == Spec => []PinInv
<1>1. Init => PinInv
  <2> SUFFICES ASSUME Init PROVE PinInv
    OBVIOUS
  <2>1. \A n \in Nets : table[n] # Tun
    BY RouteInit DEF Init, RouteInv, NoTunnelOutside
  <2> QED
    BY <2>1 DEF Init, PinInv, PinPlannedFirst, PinOutlivesTunnel
<1> QED
  BY <1>1, RouteInvHolds, PinStep, PTL DEF Spec

-----------------------------------------------------------------------------
(* What an orderly exit leaves behind *)

\* What differs from the table before the first start is remembered.
ChangesRemembered ==
    faults = {} /\ (\A n \in Range(cfg.routes) : orig[n] = NoRoute) =>
        \A n \in Nets : table[n] # orig[n] =>
            orig[n] = NoRoute /\ \E i \in 1..Len(added) : added[i] = n

\* Every change is remembered until cleanup() has undone it.
LEMMA ChangesStep ==
    RouteInv /\ RouteInv' /\ ChangesRemembered /\ [Next]_vars => ChangesRemembered'
<1> SUFFICES ASSUME RouteInv, RouteInv', ChangesRemembered, [Next]_vars
             PROVE  ChangesRemembered'
  OBVIOUS
<1>0. TypeOK /\ TypeOK'
  BY DEF RouteInv
<1>1. ASSUME UNCHANGED <<cfg, orig, table, added>>, faults' = {} => faults = {}
      PROVE  ChangesRemembered'
  BY <1>1 DEF ChangesRemembered
<1>2. CASE LookupHops \/ StartupError \/ CreateTun \/ PinExcludeError \/ SetupError
           \/ SetupDone \/ Listen \/ Accept \/ Dispatch \/ StackError \/ Shutdown
  <2>1. UNCHANGED <<cfg, orig, table, added, faults>>
    BY <1>2 DEF LookupHops, StartupError, CreateTun, PinExcludeError, SetupError,
                SetupDone, Listen, Accept, Dispatch, StackError, Shutdown
  <2> QED
    BY <1>1, <2>1
\* A route that is added is remembered.
<1>3. ASSUME NEW n \in Nets, NEW hop, UNCHANGED <<cfg, orig, faults>>, SetRoute(n, hop),
             added' = Append(added, n),
             faults = {} /\ (\A m \in Range(cfg.routes) : orig[m] = NoRoute) => orig[n] = NoRoute
      PROVE  ChangesRemembered'
  <2>1. /\ Len(added) \in Nat /\ Len(added') = Len(added) + 1
        /\ added'[Len(added) + 1] = n
        /\ \A i \in 1..Len(added) : added'[i] = added[i]
    BY <1>0, <1>3 DEF TypeOK
  <2>2. \A m \in Nets : table'[m] = IF m = n THEN hop ELSE table[m]
    BY <1>0, <1>3 DEF TypeOK, SetRoute
  <2>3. /\ Len(added) + 1 \in 1..Len(added')
        /\ \A i \in 1..Len(added) : i \in 1..Len(added')
    BY <2>1
  <2> SUFFICES ASSUME faults = {}, \A m \in Range(cfg.routes) : orig[m] = NoRoute,
                      NEW m \in Nets, table'[m] # orig[m]
               PROVE  orig[m] = NoRoute /\ \E i \in 1..Len(added') : added'[i] = m
    BY <1>3 DEF ChangesRemembered
  <2>4. CASE m = n
    BY <1>3, <2>1, <2>3, <2>4
  <2>5. CASE m # n
    <3>1. orig[m] = NoRoute /\ \E i \in 1..Len(added) : added[i] = m
      BY <2>2, <2>5 DEF ChangesRemembered
    <3> QED
      BY <2>1, <2>3, <3>1
  <2> QED
    BY <2>4, <2>5
<1>4. CASE PinDirect
  <2> DEFINE n == Head(todo).net
  <2>1. todo # << >> /\ Head(todo).kind \in {"server", "exclude"} /\ UNCHANGED <<cfg, orig, faults>>
    BY <1>4 DEF PinDirect, SetupNext
  <2>2. n \in Nets
    <3>1. Head(todo) \in Entries
      BY <1>0, <2>1, TailElements DEF TypeOK
    <3> QED
      BY <3>1, NetsAssumption DEF Entries
  <2>3. CASE table[n] # NoRoute
    BY <1>1, <1>4, <2>1, <2>3 DEF PinDirect
  <2>4. CASE table[n] = NoRoute
    <3>1. SetRoute(n, Head(todo).hop) /\ added' = Append(added, n)
      BY <1>4, <2>4 DEF PinDirect
    <3>2. faults = {} /\ (\A m \in Range(cfg.routes) : orig[m] = NoRoute) => orig[n] = NoRoute
      BY <2>2, <2>4 DEF ChangesRemembered
    <3> HIDE DEF n
    <3> QED
      BY <1>3, <2>1, <2>2, <3>1, <3>2
  <2> QED
    BY <2>3, <2>4
<1>5. CASE AddToDev
  <2> DEFINE n == Head(todo).net
  <2>1. /\ todo # << >> /\ Head(todo).kind = "route" /\ UNCHANGED <<cfg, orig, faults>>
        /\ SetRoute(n, Tun) /\ added' = Append(added, n)
    BY <1>5 DEF AddToDev, SetupNext
  <2>2. n \in Nets /\ n \in Range(cfg.routes)
    <3>1. Head(todo) \in Entries /\ Head(todo) = todo[1] /\ 1 \in 1..Len(todo)
      BY <1>0, <2>1, TailElements DEF TypeOK
    <3> QED
      BY <2>1, <3>1, NetsAssumption DEF Entries, RouteInv, OwnRoutes
  <2> HIDE DEF n
  <2> QED
    BY <1>3, <2>1, <2>2
\* A route that is deleted had not been there, and the others stay remembered.
<1>6. CASE CleanupLast
  <2> DEFINE L == Len(added)
             last == added[L]
  <2>1. /\ added # << >> /\ UNCHANGED <<cfg, orig, faults>>
        /\ added' = SubSeq(added, 1, Len(added) - 1) /\ added \in Seq(Nets)
        /\ table' = [table EXCEPT ![last] = NoRoute]
    BY <1>0, <1>6 DEF CleanupLast, SetRoute, TypeOK
  <2>2. /\ last \in Nets /\ L \in Nat \ {0} /\ Len(added') = L - 1
        /\ \A i \in 1..(L - 1) : added'[i] = added[i]
    BY <2>1, FrontElements
  <2>3. last \in Range(cfg.routes) \/ orig[last] = NoRoute
    BY <2>2 DEF RouteInv, OwnRoutes
  <2> HIDE DEF last
  <2>4. \A m \in Nets : table'[m] = IF m = last THEN NoRoute ELSE table[m]
    BY <1>0, <2>1, <2>2 DEF TypeOK
  <2> SUFFICES ASSUME faults = {}, \A m \in Range(cfg.routes) : orig[m] = NoRoute,
                      NEW m \in Nets, table'[m] # orig[m]
               PROVE  orig[m] = NoRoute /\ \E i \in 1..Len(added') : added'[i] = m
    BY <2>1 DEF ChangesRemembered
  <2>5. m # last
    BY <2>3, <2>4
  <2>6. orig[m] = NoRoute /\ \E i \in 1..L : added[i] = m
    BY <2>4, <2>5 DEF ChangesRemembered
  <2> HIDE DEF L
  <2>7. \A i \in 1..L : added[i] = m => i \in 1..(L - 1)
    BY <2>2, <2>5 DEF last
  <2> QED
    BY <2>2, <2>6, <2>7
<1>7. CASE CleanupError
  BY <1>7 DEF CleanupError, ChangesRemembered
<1>8. ASSUME NEW why, Die(why) PROVE ChangesRemembered'
  BY <1>8 DEF Die, ChangesRemembered
<1>9. CASE CleanupDone
  <2>1. /\ added = << >> /\ UNCHANGED <<cfg, orig, added, faults>>
        /\ table' = WithoutTun(table)
    BY <1>9 DEF CleanupDone
  <2>2. orig \in [Nets -> Hops \cup {NoRoute}]
    BY <1>0, TablesAssumption DEF TypeOK
  <2> SUFFICES ASSUME faults = {}, \A m \in Range(cfg.routes) : orig[m] = NoRoute,
                      NEW m \in Nets
               PROVE  table'[m] = orig[m]
    BY <2>1 DEF ChangesRemembered
  <2>3. table[m] = orig[m]
    BY <2>1 DEF ChangesRemembered
  <2> QED
    BY <2>1, <2>2, <2>3, HopsAssumption DEF WithoutTun
<1>10. CASE Signal
  BY <1>1, <1>8, <1>10 DEF Signal, procVars
<1>11. CASE Kill
  BY <1>8, <1>11 DEF Kill
<1>12. CASE Restart
  BY <1>1, <1>12 DEF Restart
<1>13. CASE UNCHANGED vars
  BY <1>1, <1>13 DEF vars, procVars
<1> QED
  BY <1>2, <1>4, <1>5, <1>6, <1>7, <1>9, <1>10, <1>11, <1>12, <1>13 DEF Next

-----------------------------------------------------------------------------
(* What a host that was killed leaves behind *)

\* The operator had routed no network around the agent that `routes` takes over.
AgentUntouched ==
    /\ ~Excludes(cfg, Server)
    /\ \A n \in Range(cfg.routes) : Server \in n => orig[n] = NoRoute

\* Outside `routes` only pins differ from the original table.  Around the agent
\* what differs leads into the tunnel or is the pin, and the pin, planned or
\* made, goes where the agent was reached before the first start.
WayBack ==
    /\ \A n \in Nets \ Range(cfg.routes) : table[n] # orig[n] =>
          orig[n] = NoRoute /\ n \in Range(cfg.exclude) \cup {{Server}}
    /\ AgentUntouched =>
          /\ \A n \in Nets : Server \in n /\ table[n] # orig[n] =>
                /\ orig[n] = NoRoute
                /\ table[n] = Tun \/ (n = {Server} /\ table[n] = Lookup(orig, Server))
          /\ \A i \in 1..Len(todo) :
                todo[i].kind = "server" => todo[i].hop = Lookup(orig, Server)

\* A route of its own that leads where it was reached anyway changes nothing
\* for the agent.
LEMMA LookupSame ==
    ASSUME NEW t \in [Nets -> Hops \cup {NoRoute}], NEW u \in [Nets -> Hops \cup {NoRoute}],
           \A n \in Nets : Server \in n /\ t[n] # u[n] =>
              u[n] = NoRoute /\ n = {Server} /\ t[n] = Lookup(u, Server)
    PROVE  Lookup(t, Server) = Lookup(u, Server)
<1> DEFINE covering(f) == {n \in Nets : Server \in n /\ f[n] # NoRoute}
           best(f) == CHOOSE n \in covering(f) : \A m \in covering(f) : n \subseteq m
<1>1. CASE \A n \in Nets : Server \in n => t[n] = u[n]
  <2>1. covering(t) = covering(u)
    BY <1>1
  <2>2. CASE covering(u) = {}
    BY <2>1, <2>2 DEF Lookup
  <2>3. CASE covering(u) # {}
    <3>1. \E n \in covering(u) : \A m \in covering(u) : n \subseteq m
      <4> DEFINE S == covering(u)
      <4>1. S \in SUBSET {n \in Nets : Server \in n} /\ S # {}
        BY <2>3
      <4> HIDE DEF S, covering
      <4>2. \E n \in S : \A m \in S : n \subseteq m
        BY <4>1, AddrsAssumption, NetsAssumption
      <4> QED
        BY <4>2 DEF S
    <3>2. best(u) \in covering(u) /\ best(t) = best(u)
      BY <2>1, <3>1
    <3>3. t[best(u)] = u[best(u)]
      BY <1>1, <3>2
    <3>4. Lookup(t, Server) = t[best(t)] /\ Lookup(u, Server) = u[best(u)]
      BY <2>1, <2>3 DEF Lookup
    <3> QED
      BY <3>2, <3>3, <3>4
  <2> QED
    BY <2>2, <2>3
<1>2. CASE \E n \in Nets : Server \in n /\ t[n] # u[n]
  <2>1. {Server} \in Nets /\ t[{Server}] # NoRoute /\ t[{Server}] = Lookup(u, Server)
    BY <1>2
  <2>2. {Server} \in covering(t) /\ \A m \in covering(t) : {Server} \subseteq m
    BY <2>1
  <2>3. best(t) \in covering(t) /\ \A m \in covering(t) : best(t) \subseteq m
    BY <2>2
  <2>4. best(t) = {Server}
    BY <2>2, <2>3
  <2>5. Lookup(t, Server) = t[best(t)]
    BY <2>2 DEF Lookup
  <2> QED
    BY <2>1, <2>4, <2>5
<1> QED
  BY <1>1, <1>2

\* While there is no tunnel the agent is reached the way it was.
LEMMA SameWay ==
    ASSUME TypeOK, WayBack, AgentUntouched, \A n \in Nets : table[n] # Tun
    PROVE  Lookup(table, Server) = Lookup(orig, Server)
<1>1. table \in [Nets -> Hops \cup {NoRoute}]
  BY DEF TypeOK
<1>2. orig \in [Nets -> Hops \cup {NoRoute}]
  BY TablesAssumption DEF TypeOK
<1>3. \A n \in Nets : Server \in n /\ table[n] # orig[n] =>
         orig[n] = NoRoute /\ n = {Server} /\ table[n] = Lookup(orig, Server)
  BY DEF WayBack
<1> QED
  BY <1>1, <1>2, <1>3, LookupSame

\* The pin planned for the agent goes where it is reached now.
LEMMA ServerPinHop ==
    ASSUME cfg \in Configs
    PROVE  \A i \in 1..Len(SetupOrder) :
              SetupOrder[i].kind = "server" => SetupOrder[i].hop = Lookup(table, Server)
<1> DEFINE E == Len(cfg.exclude)
           R == Len(cfg.routes)
           Any == {e \in {ServerPin[i] : i \in {1}} \cup {ExcludePins[i] : i \in 1..E}
                            \cup {Installs[i] : i \in 1..R} :
                     e.kind = "server" => e.hop = Lookup(table, Server)}
<1>1. E \in Nat /\ R \in Nat
  BY ConfigsAssumption
<1>2. ServerPin \in Seq(Any)
  <2>1. CASE PinsServer(cfg)
    <3> DEFINE pin == Pin("server", {Server}, Server)
    <3>1. pin.hop = Lookup(table, Server)
      BY DEF Pin
    <3> HIDE DEF pin
    <3>2. ServerPin = <<pin>>
      BY <2>1 DEF ServerPin, pin
    <3>3. pin \in Any
      BY <3>1, <3>2
    <3> HIDE DEF Any
    <3> QED
      BY <3>2, <3>3
  <2>2. CASE ~PinsServer(cfg)
    <3> HIDE DEF Any
    <3> QED
      BY <2>2 DEF ServerPin
  <2> QED
    BY <2>1, <2>2
<1>3. ExcludePins \in Seq(Any)
  <2>1. ExcludePins = [i \in 1..E |-> ExcludePins[i]]
    BY DEF ExcludePins
  <2>2. \A i \in 1..E : ExcludePins[i].kind = "exclude"
    BY DEF ExcludePins, Pin
  <2>3. \A i \in 1..E : ExcludePins[i] \in Any
    BY <2>2
  <2> HIDE DEF Any, E
  <2> QED
    BY <1>1, <2>1, <2>3
<1>4. Installs \in Seq(Any)
  <2>1. Installs = [i \in 1..R |-> Installs[i]]
    BY DEF Installs
  <2>2. \A i \in 1..R : Installs[i].kind = "route"
    BY DEF Installs, Install
  <2>3. \A i \in 1..R : Installs[i] \in Any
    BY <2>2
  <2> HIDE DEF Any, R
  <2> QED
    BY <1>1, <2>1, <2>3
<1>5. \A e \in Any : e.kind = "server" => e.hop = Lookup(table, Server)
  OBVIOUS
<1> HIDE DEF Any
<1>6. SetupOrder \in Seq(Any)
  BY <1>2, <1>3, <1>4 DEF SetupOrder
<1>7. \A i \in 1..Len(SetupOrder) : SetupOrder[i] \in Any
  BY <1>6
<1> QED
  BY <1>5, <1>7

\* No step loses the way back.
LEMMA WayStep ==
    RouteInv /\ RouteInv' /\ PinInv /\ WayBack /\ [Next]_vars => WayBack'
<1> SUFFICES ASSUME RouteInv, RouteInv', PinInv, WayBack, [Next]_vars PROVE WayBack'
  OBVIOUS
<1>0. TypeOK /\ TypeOK' /\ {Server} \in Nets
      /\ orig \in [Nets -> Hops \cup {NoRoute}]
  BY NetsAssumption, TablesAssumption DEF RouteInv, TypeOK
\* Steps that change no route and plan none.
<1>1. ASSUME UNCHANGED <<cfg, orig, table>>, todo' = todo \/ todo' = << >>
      PROVE  WayBack'
  BY <1>1 DEF WayBack, AgentUntouched, Excludes
<1>2. CASE \/ StartupError \/ CreateTun \/ SetupError \/ SetupDone
           \/ Listen \/ Accept \/ Dispatch \/ StackError \/ Shutdown
           \/ CleanupError \/ Restart \/ UNCHANGED vars
  <2>1. UNCHANGED <<cfg, orig, table>> /\ (todo' = todo \/ todo' = << >>)
    BY <1>2 DEF StartupError, CreateTun, SetupError, SetupDone, Listen, Accept, Dispatch,
                StackError, Shutdown, CleanupError, Restart, vars, procVars
  <2> QED
    BY <1>1, <2>1
<1>3. CASE LookupHops
  <2>1. /\ \A n \in Nets : table[n] # Tun
        /\ UNCHANGED <<cfg, orig, table>>
        /\ todo' = IF cfg.autoRoute THEN SetupOrder ELSE << >>
    BY <1>3 DEF LookupHops, RouteInv, NoTunnelOutside
  <2>2. CASE ~cfg.autoRoute
    BY <1>1, <2>1, <2>2
  <2>3. CASE cfg.autoRoute
    <3>1. todo' = SetupOrder /\ cfg \in Configs
      BY <1>0, <2>1, <2>3 DEF TypeOK
    <3> HIDE DEF SetupOrder
    <3>2. ASSUME AgentUntouched, NEW i \in 1..Len(todo'), todo'[i].kind = "server"
          PROVE  todo'[i].hop = Lookup(orig, Server)
      <4>1. Lookup(table, Server) = Lookup(orig, Server)
        BY <1>0, <2>1, <3>2, SameWay
      <4> QED
        BY <3>1, <3>2, <4>1, ServerPinHop
    <3> QED
      BY <2>1, <3>2 DEF WayBack, AgentUntouched, Excludes
  <2> QED
    BY <2>2, <2>3
\* One entry of the plan is done with; its network had no route, or is one of `routes`.
<1>4. ASSUME UNCHANGED <<cfg, orig>>, todo # << >>, todo' = Tail(todo),
             NEW n \in Nets, NEW hop, table' = [table EXCEPT ![n] = hop],
             n \notin Range(cfg.routes) =>
                orig[n] = NoRoute /\ n \in Range(cfg.exclude) \cup {{Server}},
             AgentUntouched /\ Server \in n =>
                /\ orig[n] = NoRoute
                /\ hop = Tun \/ (n = {Server} /\ hop = Lookup(orig, Server))
      PROVE  WayBack'
  <2>1. \A m \in Nets : table'[m] = IF m = n THEN hop ELSE table[m]
    BY <1>0, <1>4 DEF TypeOK
  <2>2. /\ Len(todo) \in Nat /\ Len(todo') = Len(todo) - 1
        /\ \A i \in 1..Len(todo') : todo'[i] = todo[i + 1]
    BY <1>0, <1>4, TailElements DEF TypeOK
  <2>3. \A i \in 1..Len(todo') : i + 1 \in 1..Len(todo)
    BY <2>2
  <2>4. ASSUME NEW m \in Nets \ Range(cfg.routes), table'[m] # orig[m]
        PROVE  orig[m] = NoRoute /\ m \in Range(cfg.exclude) \cup {{Server}}
    BY <1>4, <2>1, <2>4 DEF WayBack
  <2>5. ASSUME AgentUntouched, NEW m \in Nets, Server \in m, table'[m] # orig[m]
        PROVE  /\ orig[m] = NoRoute
               /\ table'[m] = Tun \/ (m = {Server} /\ table'[m] = Lookup(orig, Server))
    BY <1>4, <2>1, <2>5 DEF WayBack
  <2>6. ASSUME AgentUntouched, NEW i \in 1..Len(todo'), todo'[i].kind = "server"
        PROVE  todo'[i].hop = Lookup(orig, Server)
    BY <2>2, <2>3, <2>6 DEF WayBack
  <2> QED
    BY <1>4, <2>4, <2>5, <2>6 DEF WayBack, AgentUntouched, Excludes
<1>5. ASSUME UNCHANGED <<cfg, orig, table>>, todo # << >>, todo' = Tail(todo)
      PROVE  WayBack'
  <2>1. /\ Len(todo) \in Nat /\ Len(todo') = Len(todo) - 1
        /\ \A i \in 1..Len(todo') : todo'[i] = todo[i + 1]
    BY <1>0, <1>5, TailElements DEF TypeOK
  <2>2. \A i \in 1..Len(todo') : i + 1 \in 1..Len(todo)
    BY <2>1
  <2>3. ASSUME AgentUntouched, NEW i \in 1..Len(todo'), todo'[i].kind = "server"
        PROVE  todo'[i].hop = Lookup(orig, Server)
    BY <2>1, <2>2, <2>3 DEF WayBack
  <2> QED
    BY <1>5, <2>3 DEF WayBack, AgentUntouched, Excludes
<1>6. CASE PinDirect
  <2> DEFINE e == Head(todo)
  <2>1. /\ todo # << >> /\ todo' = Tail(todo) /\ UNCHANGED <<cfg, orig>>
        /\ e.kind \in {"server", "exclude"} /\ e.hop # NoRoute
    BY <1>6 DEF PinDirect, SetupNext
  <2>2. e \in Entries /\ e = todo[1] /\ 1 \in 1..Len(todo)
    BY <1>0, <2>1, TailElements DEF TypeOK
  <2>3. CASE table[e.net] # NoRoute
    BY <1>5, <1>6, <2>1, <2>3 DEF PinDirect
  <2>4. CASE table[e.net] = NoRoute
    <3>1. table' = [table EXCEPT ![e.net] = e.hop]
      BY <1>6, <2>4 DEF PinDirect, SetRoute
    <3> HIDE DEF e
    <3>2. e.net \in Nets /\ (e.kind = "server" => e.net = {Server})
      BY <1>0, <2>1, <2>2 DEF Entries
    <3>3. e.kind = "exclude" => e.net \in Range(cfg.exclude)
      BY <2>2 DEF PinInv, PinPlannedFirst
    <3>4. e.net \notin Range(cfg.routes) => orig[e.net] = NoRoute
      BY <2>4, <3>2 DEF RouteInv, ForeignRoutesIntact
    <3>5. e.net \notin Range(cfg.routes) =>
             orig[e.net] = NoRoute /\ e.net \in Range(cfg.exclude) \cup {{Server}}
      BY <2>1, <3>2, <3>3, <3>4
    <3>6. ASSUME AgentUntouched, Server \in e.net
          PROVE  orig[e.net] = NoRoute /\ e.net = {Server} /\ e.hop = Lookup(orig, Server)
      <4>1. e.kind = "server"
        BY <2>1, <3>3, <3>6 DEF AgentUntouched, Excludes
      <4>2. e.hop = Lookup(orig, Server)
        BY <2>2, <3>6, <4>1 DEF WayBack
      <4>3. orig[e.net] = NoRoute
        BY <3>4, <3>6 DEF AgentUntouched
      <4> QED
        BY <3>2, <4>1, <4>2, <4>3
    <3> QED
      BY <1>4, <2>1, <3>1, <3>2, <3>5, <3>6
  <2> QED
    BY <2>3, <2>4
<1>7. CASE PinExcludeError
  BY <1>5, <1>7 DEF PinExcludeError, SetupNext
<1>8. CASE AddToDev
  <2> DEFINE n == Head(todo).net
  <2>1. /\ todo # << >> /\ todo' = Tail(todo) /\ UNCHANGED <<cfg, orig>>
        /\ Head(todo).kind = "route" /\ table' = [table EXCEPT ![n] = Tun]
    BY <1>8 DEF AddToDev, SetupNext, SetRoute
  <2>2. n \in Nets /\ n \in Range(cfg.routes)
    <3>1. Head(todo) \in Entries /\ Head(todo) = todo[1] /\ 1 \in 1..Len(todo)
      BY <1>0, <2>1, TailElements DEF TypeOK
    <3> QED
      BY <2>1, <3>1, NetsAssumption DEF Entries, RouteInv, OwnRoutes
  <2>3. AgentUntouched /\ Server \in n => orig[n] = NoRoute
    BY <2>2 DEF AgentUntouched
  <2> HIDE DEF n
  <2> QED
    BY <1>4, <2>1, <2>2, <2>3
\* What is deleted had not been there, or is one of `routes`.
<1>9. CASE CleanupLast
  <2> DEFINE last == added[Len(added)]
  <2>1. /\ added # << >> /\ UNCHANGED <<cfg, orig, todo>> /\ added \in Seq(Nets)
        /\ table' = [table EXCEPT ![last] = NoRoute]
    BY <1>0, <1>9 DEF CleanupLast, SetRoute, TypeOK
  <2>2. last \in Nets /\ Len(added) \in 1..Len(added)
    BY <2>1, FrontElements
  <2>3. last \in Range(cfg.routes) \/ orig[last] = NoRoute
    BY <2>2 DEF RouteInv, OwnRoutes
  <2> HIDE DEF last
  <2>4. \A m \in Nets : table'[m] = IF m = last THEN NoRoute ELSE table[m]
    BY <1>0, <2>1, <2>2 DEF TypeOK
  <2>5. ASSUME AgentUntouched, Server \in last PROVE orig[last] = NoRoute
    BY <2>3, <2>5 DEF AgentUntouched
  <2> QED
    BY <2>1, <2>3, <2>4, <2>5 DEF WayBack, AgentUntouched, Excludes
\* With the TUN go its routes, and none but its.
<1>10. ASSUME table' = WithoutTun(table), UNCHANGED <<cfg, orig>>,
              todo' = todo \/ todo' = << >>
       PROVE  WayBack'
  <2>1. \A m \in Nets : table'[m] = IF table[m] = Tun THEN NoRoute ELSE table[m]
    BY <1>10 DEF WithoutTun
  <2>2. ASSUME NEW m \in Nets \ Range(cfg.routes), table'[m] # orig[m]
        PROVE  orig[m] = NoRoute /\ m \in Range(cfg.exclude) \cup {{Server}}
    <3>1. table[m] # Tun
      BY <2>2 DEF RouteInv, OwnRoutes
    <3> QED
      BY <2>1, <2>2, <3>1 DEF WayBack
  <2>3. ASSUME AgentUntouched, NEW m \in Nets, Server \in m, table'[m] # orig[m]
        PROVE  /\ orig[m] = NoRoute
               /\ m = {Server} /\ table'[m] = Lookup(orig, Server)
    <3>1. table[m] # orig[m]
      BY <1>0, <2>1, <2>3, HopsAssumption
    <3>2. orig[m] = NoRoute
      BY <2>3, <3>1 DEF WayBack
    <3>3. table[m] # Tun
      BY <2>1, <2>3, <3>2
    <3> QED
      BY <2>1, <2>3, <3>1, <3>3 DEF WayBack
  <2>4. ASSUME AgentUntouched, NEW i \in 1..Len(todo'), todo'[i].kind = "server"
        PROVE  todo'[i].hop = Lookup(orig, Server)
    BY <1>10, <2>4 DEF WayBack
  <2> QED
    BY <1>10, <2>2, <2>3, <2>4 DEF WayBack, AgentUntouched, Excludes
<1>11. CASE CleanupDone
  BY <1>10, <1>11 DEF CleanupDone
<1>12. ASSUME NEW why, Die(why) PROVE WayBack'
  BY <1>10, <1>12 DEF Die
<1>13. CASE Signal
  BY <1>1, <1>12, <1>13 DEF Signal, procVars
<1>14. CASE Kill
  BY <1>12, <1>14 DEF Kill
<1> QED
  BY <1>2, <1>3, <1>6, <1>7, <1>8, <1>9, <1>11, <1>13, <1>14 DEF Next

-----------------------------------------------------------------------------
\* Every reachable state is well typed: in particular the pins planned for the
\* agent and the exclusions never point into the tunnel, because they are
\* looked up before it exists, also after a crash.
THEOREM TypeCorrect == Spec => []TypeOK
<1>1. RouteInv => TypeOK
  BY DEF RouteInv
<1> QED
  BY <1>1, RouteInvHolds, PTL

\* The host never changes or deletes a route it did not create and was not
\* told to take over.
THEOREM ForeignRoutesSurvive == Spec => []ForeignRoutesIntact
<1>1. RouteInv => ForeignRoutesIntact
  BY DEF RouteInv
<1> QED
  BY <1>1, RouteInvHolds, PTL

\* Traffic to the VM agent stays out of the tunnel whatever networks are routed
\* into it, at every step of setup and cleanup, in every start after a kill: the
\* pin goes in before any route that covers the agent and comes out after them.
THEOREM ServerStaysOutside == Spec => []ServerNotCaptured
<1>1. RouteInv /\ PinInv => ServerNotCaptured
  <2> SUFFICES ASSUME RouteInv, PinInv, "delete" \notin faults,
                      ~Excludes(cfg, Server), {Server} \notin Range(cfg.routes)
               PROVE  Lookup(table, Server) # Tun
    BY DEF ServerNotCaptured
  <2>1. table \in [Nets -> Hops \cup {Tun, NoRoute}]
    BY DEF RouteInv, TypeOK
  <2>2. table[{Server}] # Tun
    BY NetsAssumption DEF RouteInv, OwnRoutes
  <2>3. \A n \in Nets : table[n] = Tun /\ Server \in n => table[{Server}] # NoRoute
    BY DEF PinInv, PinOutlivesTunnel
  <2> QED
    BY <2>1, <2>2, <2>3, OwnRouteDecides
<1> QED
  BY <1>1, RouteInvHolds, PinInvHolds, PTL

\* An orderly exit, after any number of clean starts and whatever failed during
\* setup, leaves the table as the host found it: cleanup() knows of every route
\* that differs, and deletes nothing else.
THEOREM OrderlyExitLeavesNoTrace == Spec => []OrderlyExitRestores
<1>1. Init => ChangesRemembered
  BY DEF Init, ChangesRemembered
<1>2. RouteInv /\ ChangesRemembered => OrderlyExitRestores
  <2> SUFFICES ASSUME RouteInv, ChangesRemembered, pc = "exited", faults = {},
                      \A n \in Range(cfg.routes) : orig[n] = NoRoute
               PROVE  table = orig
    BY DEF OrderlyExitRestores
  <2>1. added = << >>
    BY DEF RouteInv, NoTunnelOutside
  <2>2. \A n \in Nets : table[n] = orig[n]
    BY <2>1 DEF ChangesRemembered
  <2>3. orig \in [Nets -> Hops \cup {NoRoute}]
    BY TablesAssumption DEF RouteInv, TypeOK
  <2> QED
    BY <2>2, <2>3 DEF RouteInv, TypeOK
<1> QED
  BY <1>1, <1>2, RouteInvHolds, ChangesStep, PTL DEF Spec
\* A host that died at any point, or could not delete its routes, leaves nothing
\* behind that the next start could take for a different network: the agent is
\* still reached as before, in any number of such deaths and starts.
THEOREM NextStartUnharmed == Spec => []LeftoversHarmless
<1>1. Init => WayBack
  <2> SUFFICES ASSUME Init PROVE WayBack
    OBVIOUS
  <2>1. table = orig /\ todo = << >>
    BY DEF Init
  <2> QED
    BY <2>1 DEF WayBack
<1>2. RouteInv /\ WayBack => LeftoversHarmless
  <2> SUFFICES ASSUME RouteInv, WayBack, pc \in {"exited", "killed"}
               PROVE  LeftoversHarmless
    BY DEF LeftoversHarmless
  <2>1. TypeOK /\ \A n \in Nets : table[n] # Tun
    BY DEF RouteInv, NoTunnelOutside
  <2>2. \A n \in Nets \ Range(cfg.routes) : table[n] # orig[n] =>
           /\ orig[n] = NoRoute /\ table[n] \in Hops
           /\ n \in Range(cfg.exclude) \cup {{Server}}
    BY <2>1 DEF WayBack, TypeOK
  <2>3. AgentUntouched => Lookup(table, Server) = Lookup(orig, Server)
    BY <2>1, SameWay
  <2> QED
    BY <2>2, <2>3 DEF LeftoversHarmless, AgentUntouched
<1> QED
  BY <1>1, <1>2, RouteInvHolds, PinInvHolds, WayStep, PTL DEF Spec
=============================================================================
