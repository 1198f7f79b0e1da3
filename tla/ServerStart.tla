---------------------------- MODULE ServerStart -----------------------------
(***************************************************************************)
(* Starting the proxy server (crates/proxy-server/src/main.rs) and the     *)
(* identity it makes for itself (certificate.rs, ensure_exists and load):  *)
(* two files that are looked for, created and filled in separate steps by  *)
(* any number of processes at once, servers or `--check` runs, which may   *)
(* die between any two steps and be started again.                         *)
(*                                                                         *)
(* An identity stands for a key pair: a file of it holds the certificate   *)
(* or the private key of that pair.                                        *)
(***************************************************************************)
EXTENDS Naturals, FiniteSets

CONSTANTS
    Procs,
    NoProc,
    Absent, Torn,       \* no file; a file not or only partly written
    Transports,         \* the transports the configuration enables
    MaxStarts,
    MaxRemovals         \* how often the operator deletes both files

ASSUME ProcsAssumption      == NoProc \notin Procs
ASSUME FilesAssumption      == Absent \notin Nat /\ Torn \notin Nat /\ Absent # Torn
\* ServerConfig::validate: at least one of them.
ASSUME TransportsAssumption == Transports \subseteq {"quic", "grpc"} /\ Transports # {}
ASSUME BoundsAssumption     == MaxStarts \in Nat /\ MaxRemovals \in Nat

VARIABLES
    cert, key,      \* the two files: Absent, Torn, or an identity
    pc,             \* of each process
    check,          \* it runs with --check
    saw,            \* it found the certificate
    mine,           \* the identity it generated
    read,           \* the certificate it has read for the current transport
    port,           \* process that has bound the first of the transports
    made,           \* identities generated so far
    starts, removals,
    served,         \* history: identities presented to clients
    disturbed       \* history: what may have spoilt the files

memory  == <<check, saw, mine, read>>
budget  == <<starts, removals>>
history == <<served, disturbed>>
vars    == <<cert, key, pc, memory, port, made, budget, history>>

Files == Nat \cup {Absent, Torn}

Writing  == {"writeCert", "createKey", "writeKey"}
Ensuring == {"checkCert", "checkKey", "generate", "createCert"} \cup Writing
Loading  == {"loaded", "quicCert", "quicKey", "grpcCert", "grpcKey"}
Over     == {"off", "checked", "failed", "busy"}

TypeOK ==
    /\ cert \in Files /\ key \in Files
    /\ pc \in [Procs -> Ensuring \cup Loading \cup {"serving"} \cup Over]
    /\ check \in [Procs -> BOOLEAN] /\ saw \in [Procs -> BOOLEAN]
    /\ mine \in [Procs -> Nat] /\ read \in [Procs -> Files]
    /\ port \in Procs \cup {NoProc} /\ made \in Nat
    /\ port # NoProc => pc[port] \in Loading \cup {"serving"} /\ ~check[port]
    /\ starts \in 0..MaxStarts /\ removals \in 0..MaxRemovals
    /\ served \subseteq Nat
    /\ disturbed \subseteq {"race", "crash", "disk", "operator"}

Init ==
    /\ cert = Absent /\ key = Absent
    /\ pc = [p \in Procs |-> "off"]
    /\ check = [p \in Procs |-> FALSE] /\ saw = [p \in Procs |-> FALSE]
    /\ mine = [p \in Procs |-> 0] /\ read = [p \in Procs |-> Absent]
    /\ port = NoProc /\ made = 0
    /\ starts = 0 /\ removals = 0
    /\ served = {} /\ disturbed = {}

Goes(p, from, to) == pc[p] = from /\ pc' = [pc EXCEPT ![p] = to]

-----------------------------------------------------------------------------
(* ensure_exists *)

CheckCert(p) ==
    /\ Goes(p, "checkCert", "checkKey")
    /\ saw' = [saw EXCEPT ![p] = cert # Absent]
    /\ UNCHANGED <<cert, key, check, mine, read, port, made, budget, history>>

\* Both files, or neither, or an error.
CheckKey(p) ==
    /\ Goes(p, "checkKey", IF saw[p] # (key # Absent) THEN "failed"
                           ELSE IF saw[p] THEN "loaded" ELSE "generate")
    /\ UNCHANGED <<cert, key, memory, port, made, budget, history>>

Generate(p) ==
    /\ Goes(p, "generate", "createCert")
    /\ made' = made + 1
    /\ mine' = [mine EXCEPT ![p] = made + 1]
    /\ UNCHANGED <<cert, key, check, saw, read, port, budget, history>>

\* fs::write creates or truncates the file, then writes it.
CreateCert(p) ==
    /\ Goes(p, "createCert", "writeCert")
    /\ cert' = Torn
    /\ UNCHANGED <<key, memory, port, made, budget, history>>

WriteCert(p) ==
    /\ Goes(p, "writeCert", "createKey")
    /\ cert' = mine[p]
    /\ UNCHANGED <<key, memory, port, made, budget, history>>

\* Fault: the key is created like the certificate.
CreateKeyTruncates(p) ==
    /\ Goes(p, "createKey", "writeKey")
    /\ key' = Torn
    /\ UNCHANGED <<cert, memory, port, made, budget, history>>

\* create_new(true): an error if there is a key by now.
CreateKey(p) ==
    /\ \/ key = Absent /\ Goes(p, "createKey", "writeKey") /\ key' = Torn
       \/ key # Absent /\ Goes(p, "createKey", "failed") /\ UNCHANGED key
    /\ UNCHANGED <<cert, memory, port, made, budget, history>>

\* Fault: the key file gets another pair's key.
WriteKeyOther(p) ==
    /\ Goes(p, "writeKey", "loaded")
    /\ key' = made + 1 /\ made' = made + 1
    /\ UNCHANGED <<cert, memory, port, budget, history>>

WriteKey(p) ==
    /\ Goes(p, "writeKey", "loaded")
    /\ key' = mine[p]
    /\ UNCHANGED <<cert, memory, port, made, budget, history>>

\* A directory or a file that cannot be created or written (context(..)?).
WriteError(p) ==
    /\ pc[p] \in Writing \cup {"createCert"}
    /\ pc' = [pc EXCEPT ![p] = "failed"]
    /\ disturbed' = disturbed \cup {"disk"}
    /\ UNCHANGED <<cert, key, memory, port, made, budget, served>>

EnsureExists(p) ==
    \/ CheckCert(p) \/ CheckKey(p) \/ Generate(p) \/ WriteError(p)
    \/ CreateCert(p) \/ WriteCert(p) \/ CreateKey(p) \/ WriteKey(p)

-----------------------------------------------------------------------------
(* main, after ensure_exists: make_endpoint, then grpc::run *)

First == IF "quic" \in Transports THEN "quicCert" ELSE "grpcCert"

\* `if cli.check` returns once the identity exists; it is not loaded.
Proceed(p) ==
    /\ Goes(p, "loaded", IF check[p] THEN "checked" ELSE First)
    /\ UNCHANGED <<cert, key, memory, port, made, budget, history>>

\* A certificate file that is missing, or without a certificate in it, is an
\* error; grpc::run reads the file and finds out when it builds the TLS
\* configuration.  An error of either transport ends the process.
LoadCert(p) ==
    /\ \/ cert \notin Nat /\ pc[p] \in {"quicCert", "grpcCert"}
          /\ pc' = [pc EXCEPT ![p] = "failed"]
          /\ port' = IF port = p THEN NoProc ELSE port
       \/ cert \in Nat /\ UNCHANGED port
          /\ (Goes(p, "quicCert", "quicKey") \/ Goes(p, "grpcCert", "grpcKey"))
    /\ read' = [read EXCEPT ![p] = cert]
    /\ UNCHANGED <<cert, key, check, saw, mine, made, budget, history>>

\* No key in the file, or (in rustls) not the key of the certificate.
KeyUnusable(p) ==
    /\ pc[p] \in {"quicKey", "grpcKey"}
    /\ key # read[p]
    /\ pc' = [pc EXCEPT ![p] = "failed"]
    /\ port' = IF port = p THEN NoProc ELSE port
    /\ UNCHANGED <<cert, key, memory, made, budget, history>>

\* The address is in use: in make_endpoint for QUIC, in serve() for gRPC.
BindFails(p) ==
    /\ pc[p] \in {"quicKey", "grpcKey"}
    /\ key = read[p] /\ port \notin {p, NoProc}
    /\ pc' = [pc EXCEPT ![p] = "busy"]
    /\ UNCHANGED <<cert, key, memory, port, made, budget, history>>

\* The transport, QUIC in make_endpoint or gRPC in serve(), presents the
\* identity it loaded from now on.
Bind(p) ==
    /\ key = read[p] /\ port \in {p, NoProc}
    /\ \/ Goes(p, "quicKey", IF "grpc" \in Transports THEN "grpcCert" ELSE "serving")
       \/ Goes(p, "grpcKey", "serving")
    /\ port' = p
    /\ served' = served \cup {key}
    /\ UNCHANGED <<cert, key, memory, made, budget, disturbed>>

\* ctrl_c in main's select.
Shutdown(p) ==
    /\ Goes(p, "serving", "off")
    /\ port' = NoProc
    /\ UNCHANGED <<cert, key, memory, made, budget, history>>

Run(p) ==
    \/ EnsureExists(p) \/ Proceed(p) \/ LoadCert(p) \/ KeyUnusable(p)
    \/ BindFails(p) \/ Bind(p) \/ Shutdown(p)

-----------------------------------------------------------------------------
(* Who starts, kills and cleans up *)

Start(p) ==
    /\ pc[p] \in Over /\ starts < MaxStarts
    /\ starts' = starts + 1
    /\ pc' = [pc EXCEPT ![p] = "checkCert"]
    /\ \E c \in BOOLEAN : check' = [check EXCEPT ![p] = c]
    /\ disturbed' = disturbed \cup
          (IF \E q \in Procs : pc[q] \in Ensuring THEN {"race"} ELSE {})
    /\ UNCHANGED <<cert, key, saw, mine, read, port, made, removals, served>>

\* Killed, or a signal before main waits for it.
Crash(p) ==
    /\ pc[p] \notin Over
    /\ pc' = [pc EXCEPT ![p] = "off"]
    /\ port' = IF port = p THEN NoProc ELSE port
    /\ disturbed' = disturbed \cup (IF pc[p] \in Writing THEN {"crash"} ELSE {})
    /\ UNCHANGED <<cert, key, memory, made, budget, served>>

\* The operator deletes both files; not while a process is making them.
OperatorRemoves ==
    /\ removals < MaxRemovals
    /\ \A p \in Procs : pc[p] \notin Ensuring
    /\ cert' = Absent /\ key' = Absent
    /\ removals' = removals + 1
    /\ disturbed' = disturbed \cup {"operator"}
    /\ UNCHANGED <<pc, memory, port, made, starts, served>>

\* Nothing left to do.
Rest ==
    /\ \A p \in Procs : pc[p] \in Over
    /\ starts = MaxStarts
    /\ UNCHANGED vars

Next ==
    \/ \E p \in Procs : Run(p) \/ Start(p) \/ Crash(p)
    \/ OperatorRemoves
    \/ Rest

Spec == Init /\ [][Next]_vars

-----------------------------------------------------------------------------
\* Clients pin the certificate they were given.  However many servers and
\* `--check` runs start at once, crash and are started again, and whatever an
\* error leaves on the disk, no two identities are ever presented until the
\* operator deletes the files: a certificate that no longer fits the key is
\* refused, never served.
OneIdentity == "operator" \notin disturbed => Cardinality(served) <= 1

\* A private key, once written, is never replaced: create_new lets only the
\* process that finds no key write one, and the others give up.
KeyNeverReplaced == [][(key \in Nat) => (key' \in {key, Absent})]_vars

\* A start fails on its files only after something disturbed their making (two
\* starts at once, a kill or a disk error between the two files, the operator):
\* the pair that one undisturbed run writes is one that every later run can load.
StartsUndisturbed == (\E p \in Procs : pc[p] = "failed") => disturbed # {}
=============================================================================
