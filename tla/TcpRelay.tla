------------------------------ MODULE TcpRelay ------------------------------
(***************************************************************************)
(* One TCP flow of the proxy server (crates/proxy-server/src/server.rs,    *)
(* relay_tcp): two copy loops joined by try_join! and raced, by a select!  *)
(* in the same task, with wait_for_idle.  A copy that wrote a whole chunk  *)
(* leaves a permit in a Notify; wait_for_idle takes it and re-arms its     *)
(* timer, and prefers the permit when the timer has elapsed as well.       *)
(*                                                                         *)
(* Time is discrete; a timer armed for Idle units fires between Idle and   *)
(* Idle + Lag units later.  Of the data only how much of a chunk is        *)
(* still to be written is modelled.  ProxySession runs it, as the last     *)
(* stage of a session.                                                     *)
(***************************************************************************)
EXTENDS Integers

CONSTANTS
    Idle,       \* cfg.tcp_idle_timeout_secs, in ticks
    Lag,        \* how late the timer may fire, in ticks
    ChunkMax    \* writes it takes, at most, to pass on one full buffer

ASSUME IdleAssumption  == Idle \in Nat \ {0}    \* ServerConfig::validate rejects 0
ASSUME LagAssumption   == Lag \in Nat
ASSUME ChunkAssumption == ChunkMax \in Nat \ {0}

VARIABLES
    copy,       \* each loop: "read", "write", or "done" after its shutdown
    left,       \* writes still needed for the chunk in the loop's buffer
    permit,     \* the Notify holds a permit
    timer,      \* ticks since the timer was armed
    relay,      \* "running", or how it ended
    lull,       \* history: ticks since a chunk was last written completely
    quiet       \* history: ticks since a byte was last received or passed on

tcpVars == <<copy, left, permit, timer, relay, lull, quiet>>

Ways == {"upload", "download"}
Overdue == Idle + Lag
Cap == Overdue + 1              \* the history variables saturate here

RelayTypeOK ==
    /\ copy \in [Ways -> {"read", "write", "done"}]
    /\ left \in [Ways -> 0..ChunkMax]
    /\ permit \in BOOLEAN
    /\ timer \in 0..Overdue
    /\ relay \in {"running", "done", "idle", "error"}
    /\ lull \in 0..Cap /\ quiet \in 0..Cap

RelayInit ==
    /\ copy = [d \in Ways |-> "read"]
    /\ left = [d \in Ways |-> 0]
    /\ permit = FALSE
    /\ timer = 0 /\ lull = 0 /\ quiet = 0
    /\ relay = "running"

Copying(d, s) == relay = "running" /\ copy[d] = s

-----------------------------------------------------------------------------
(* copy_with_activity *)

Read(d) ==
    /\ Copying(d, "read")
    /\ copy' = [copy EXCEPT ![d] = "write"]
    /\ \E n \in 1..ChunkMax : left' = [left EXCEPT ![d] = n]
    /\ quiet' = 0
    /\ UNCHANGED <<permit, timer, relay, lull>>

\* Fault: the end of a direction counts as activity.
ReadEofNotifies(d) ==
    /\ Copying(d, "read")
    /\ copy' = [copy EXCEPT ![d] = "done"]
    /\ permit' = TRUE
    /\ UNCHANGED <<left, timer, relay, lull, quiet>>

\* The reader ended: pass the end on and leave the other direction running.
ReadEof(d) ==
    /\ Copying(d, "read")
    /\ copy' = [copy EXCEPT ![d] = "done"]
    /\ UNCHANGED <<left, permit, timer, relay, lull, quiet>>

\* The writer took part of the chunk and write_all waits for more room.
WriteSome(d) ==
    /\ Copying(d, "write") /\ left[d] > 1
    /\ left' = [left EXCEPT ![d] = @ - 1]
    /\ quiet' = 0
    /\ UNCHANGED <<copy, permit, timer, relay, lull>>

\* write_all returned; notify_one.
WriteRest(d) ==
    /\ Copying(d, "write") /\ left[d] = 1
    /\ left' = [left EXCEPT ![d] = 0]
    /\ copy' = [copy EXCEPT ![d] = "read"]
    /\ permit' = TRUE
    /\ lull' = 0 /\ quiet' = 0
    /\ UNCHANGED <<timer, relay>>

\* A read, write or shutdown failed: try_join! drops the other loop.
CopyError(d) ==
    /\ relay = "running" /\ copy[d] # "done"
    /\ relay' = "error"
    /\ UNCHANGED <<copy, left, permit, timer, lull, quiet>>

BothDone ==
    /\ relay = "running" /\ \A d \in Ways : copy[d] = "done"
    /\ relay' = "done"
    /\ UNCHANGED <<copy, left, permit, timer, lull, quiet>>

-----------------------------------------------------------------------------
(* wait_for_idle *)

\* Fault: the permit is looked at but not taken.
RearmKeepsPermit ==
    /\ relay = "running" /\ permit
    /\ timer' = 0
    /\ UNCHANGED <<copy, left, permit, relay, lull, quiet>>

Rearm ==
    /\ relay = "running" /\ permit
    /\ permit' = FALSE
    /\ timer' = 0
    /\ UNCHANGED <<copy, left, relay, lull, quiet>>

\* Fault: the select! is not biased towards the permit.
IdleFiresUnbiased ==
    /\ relay = "running" /\ timer >= Idle
    /\ relay' = "idle"
    /\ UNCHANGED <<copy, left, permit, timer, lull, quiet>>

IdleFires ==
    /\ relay = "running" /\ timer >= Idle /\ ~permit
    /\ relay' = "idle"
    /\ UNCHANGED <<copy, left, permit, timer, lull, quiet>>

Aged(h) == IF h < Cap THEN h + 1 ELSE h

\* Time passes.  The loops and wait_for_idle run in one task, which the permit
\* wakes, so a permit is taken before time moves on; nor does time pass an
\* overdue timer.
RelayTick ==
    /\ relay = "running" /\ ~permit /\ timer < Overdue
    /\ timer' = timer + 1
    /\ lull' = Aged(lull) /\ quiet' = Aged(quiet)
    /\ UNCHANGED <<copy, left, permit, relay>>

RelayNext ==
    \/ \E d \in Ways :
          Read(d) \/ ReadEof(d) \/ WriteSome(d) \/ WriteRest(d) \/ CopyError(d)
    \/ BothDone \/ Rearm \/ IdleFires \/ RelayTick

-----------------------------------------------------------------------------
(* Properties *)

\* A flow closed as idle had completed no chunk for at least Idle, also when
\* one completes in the very moment the timer elapses (wait_for_idle, biased).
NoEarlyClose == relay = "idle" => lull >= Idle

\* A flow in which no byte is received or passed on any more is closed one
\* (late) timeout after the last one, whatever its loops wait for: neither a
\* permit left over nor the end of a direction prolongs it (copy_with_activity,
\* wait_for_idle).
StuckFlowReclaimed == relay = "running" => quiet <= Overdue

\* docs/quic-proxy.md: a flow is closed after tcp_idle_timeout_secs "with no data
\* in either direction", and "TCP activity in either direction resets" the time.
ActivityKeepsFlow == relay = "idle" => quiet >= Idle
=============================================================================
