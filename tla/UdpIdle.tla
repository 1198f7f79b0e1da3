------------------------------ MODULE UdpIdle ------------------------------
(***************************************************************************)
(* One UDP session of the VM agent (crates/vm/src/server.rs, relay_udp):   *)
(* an uplink loop (tunnel frame -> datagram) and a downlink loop (datagram *)
(* -> tunnel frame) raced by one select!, so the first to return ends the  *)
(* session.  Only the downlink owns a timer; the uplink tells it about its *)
(* own traffic through the counter `activity`, which the downlink compares *)
(* with the value it saw when its timer last fired.                        *)
(*                                                                         *)
(* Time is discrete.  A timer armed for Idle units fires at some moment    *)
(* between Idle and Idle + Lag units later (tokio timers are never early   *)
(* and may be late).  Payloads are abstracted away.                        *)
(***************************************************************************)
EXTENDS Integers

CONSTANTS
    Idle,          \* cfg.udp_timeout_secs, in ticks
    Lag,           \* how late a timer may fire, in ticks
    MaxDatagrams   \* bound: datagrams the uplink forwards in one behaviour

ASSUME IdleAssumption == Idle \in Nat      \* VmConfig::validate accepts 0, too
ASSUME LagAssumption == Lag \in Nat
ASSUME MaxDatagramsAssumption == MaxDatagrams \in Nat

VARIABLES
    phase,      \* "open" until the select! returns, then "closed"
    reason,     \* why the session ended: "none" while it is open
    upPc,       \* uplink: "read" a frame, "send" its datagram
    downPc,     \* downlink: "recv" under the timer, "write" without one
    timer,      \* ticks since the downlink armed its current timeout
    seen,       \* downlink's local `seen`
    activity,   \* the shared AtomicU64
    silence     \* history: ticks since a datagram last moved either way

udpVars == <<phase, reason, upPc, downPc, timer, seen, activity, silence>>

\* A timer that has not fired after this many ticks is overdue.
Overdue == Idle + Lag

\* The history variable saturates above every value the properties tell apart.
SilenceCap == 2 * Overdue + 1

UdpTypeOK ==
    /\ phase \in {"open", "closed"}
    /\ reason \in {"none", "idle", "eof", "error"}
    /\ upPc \in {"read", "send"}
    /\ downPc \in {"recv", "write"}
    /\ timer \in 0..Overdue
    /\ seen \in 0..MaxDatagrams
    /\ activity \in 0..MaxDatagrams
    /\ silence \in 0..SilenceCap

UdpInit ==
    /\ phase = "open" /\ reason = "none"
    /\ upPc = "read" /\ downPc = "recv"
    /\ timer = 0 /\ seen = 0 /\ activity = 0 /\ silence = 0

\* The select! arm returned: the other loop is dropped where it stands.
Close(why) == phase' = "closed" /\ reason' = why

-----------------------------------------------------------------------------
(* udp_uplink *)

UplinkRead ==
    /\ phase = "open" /\ upPc = "read"
    /\ activity < MaxDatagrams
    /\ upPc' = "send"
    /\ UNCHANGED <<phase, reason, downPc, timer, seen, activity, silence>>

\* The tunnel closed between frames: read_datagram fails, relay_udp calls
\* it benign.
UplinkEof ==
    /\ phase = "open" /\ upPc = "read"
    /\ Close("eof")
    /\ UNCHANGED <<upPc, downPc, timer, seen, activity, silence>>

UplinkSend ==
    /\ phase = "open" /\ upPc = "send"
    /\ upPc' = "read"
    /\ activity' = activity + 1
    /\ silence' = 0
    /\ UNCHANGED <<phase, reason, downPc, timer, seen>>

UplinkSendError ==
    /\ phase = "open" /\ upPc = "send"
    /\ Close("error")
    /\ UNCHANGED <<upPc, downPc, timer, seen, activity, silence>>

-----------------------------------------------------------------------------
(* udp_downlink *)

DownlinkRecv ==
    /\ phase = "open" /\ downPc = "recv"
    /\ downPc' = "write"
    /\ silence' = 0
    /\ UNCHANGED <<phase, reason, upPc, timer, seen, activity>>

\* sock.recv or write_datagram failed.
DownlinkError ==
    /\ phase = "open"
    /\ Close("error")
    /\ UNCHANGED <<upPc, downPc, timer, seen, activity, silence>>

\* The frame is in the tunnel; the next turn of the loop arms a new timeout.
DownlinkWrite ==
    /\ phase = "open" /\ downPc = "write"
    /\ downPc' = "recv"
    /\ timer' = 0
    /\ silence' = 0
    /\ UNCHANGED <<phase, reason, upPc, seen, activity>>

\* Fault: the timer looks at the downlink only.
DownlinkIdleDeaf ==
    /\ phase = "open" /\ downPc = "recv"
    /\ timer >= Idle
    /\ Close("idle")
    /\ UNCHANGED <<upPc, downPc, timer, seen, activity, silence>>

\* The timeout elapsed and the uplink moved nothing since it last did.
DownlinkIdle ==
    /\ phase = "open" /\ downPc = "recv"
    /\ timer >= Idle
    /\ activity = seen
    /\ Close("idle")
    /\ UNCHANGED <<upPc, downPc, timer, seen, activity, silence>>

\* Fault: `seen = now` is missing, so old uplink traffic counts forever.
DownlinkRearmForgets ==
    /\ phase = "open" /\ downPc = "recv"
    /\ timer >= Idle
    /\ activity # seen
    /\ timer' = 0
    /\ UNCHANGED <<phase, reason, upPc, downPc, seen, activity, silence>>

\* The timeout elapsed but the uplink was busy: remember that and wait again.
DownlinkRearm ==
    /\ phase = "open" /\ downPc = "recv"
    /\ timer >= Idle
    /\ activity # seen
    /\ seen' = activity
    /\ timer' = 0
    /\ UNCHANGED <<phase, reason, upPc, downPc, activity, silence>>

DownlinkTimeout == DownlinkIdle \/ DownlinkRearm

-----------------------------------------------------------------------------
\* Time passes.  It cannot pass an overdue timer; while the downlink is
\* blocked in write_datagram no timer is armed and nothing stops the clock.
Tick ==
    /\ phase = "open"
    /\ downPc = "recv" => timer < Overdue
    /\ timer' = IF downPc = "recv" THEN timer + 1 ELSE timer
    /\ silence' = IF silence < SilenceCap THEN silence + 1 ELSE silence
    /\ UNCHANGED <<phase, reason, upPc, downPc, seen, activity>>

UdpNext ==
    \/ UplinkRead \/ UplinkEof \/ UplinkSend \/ UplinkSendError
    \/ DownlinkRecv \/ DownlinkError \/ DownlinkWrite
    \/ DownlinkIdle \/ DownlinkRearm
    \/ Tick

UdpSpec == UdpInit /\ [][UdpNext]_udpVars

\* The clock advances and an elapsed timer is eventually polled.  Nothing is
\* assumed of the peers: they may stay silent, and may never drain the tunnel.
UdpFairness == WF_udpVars(Tick) /\ WF_udpVars(DownlinkTimeout)

FairUdpSpec == UdpSpec /\ UdpFairness

-----------------------------------------------------------------------------
(* Properties *)

\* A session ended by the idle timer had really moved nothing, in either
\* direction, for at least Idle: uplink-only traffic keeps it alive although
\* the timer watches the downlink alone (udp_downlink, relay_udp).
NoEarlyClose == reason = "idle" => silence >= Idle

\* A silent session does not linger: while the downlink waits under its timer
\* the silence never exceeds two (late) timeouts, one that only notices old
\* uplink traffic and one that closes (udp_downlink).
BoundedLinger ==
    phase = "open" /\ downPc = "recv" => silence <= 2 * Overdue

\* Once the downlink receives nothing more, the session ends, whatever the
\* uplink did before it ran out of datagrams (udp_downlink's timer is the only
\* thing that reclaims it).
QuietSessionCloses == <>[](downPc = "recv") => <>(phase = "closed")
=============================================================================
