-------------------------- MODULE ServerStartProofs --------------------------
(***************************************************************************)
(* However many processes race, die and are started again, the private key *)
(* is written once and one identity is presented.  The invariant is that   *)
(* one process at most is between creating and writing the key file, that  *)
(* the file is unfinished while it is, and that what was presented is the  *)
(* key in the file; FilesInOrder adds how the two files agree as long as   *)
(* nothing has disturbed their making.                                     *)
(***************************************************************************)
EXTENDS ServerStart, FiniteSetTheorems, TLAPS

Beyond == {"quicCert", "quicKey", "grpcCert", "grpcKey", "serving"}

OneWriter ==
    /\ \A p, q \in Procs : pc[p] = "writeKey" /\ pc[q] = "writeKey" => p = q
    /\ \A p \in Procs : pc[p] = "writeKey" => key = Torn

\* What a process has learnt when it comes to the transports.
Learnt ==
    \A p \in Procs :
        /\ pc[p] \in Beyond => ~check[p]
        /\ pc[p] \in {"quicKey", "grpcKey"} => read[p] \in Nat

ServedIsKey == "operator" \notin disturbed => served \subseteq {key}

IInv == TypeOK /\ OneWriter /\ Learnt /\ ServedIsKey

USE DEF Ensuring, Writing, Loading, Over, Beyond, Files

LEMMA InitInv == Init => IInv
  BY ProcsAssumption, FilesAssumption, BoundsAssumption
     DEF Init, IInv, TypeOK, OneWriter, Learnt, ServedIsKey

\* The steps of ensure_exists up to the creation of the key.
LEMMA LookInv ==
  ASSUME IInv, NEW p \in Procs,
         CheckCert(p) \/ CheckKey(p) \/ Generate(p) \/ CreateCert(p) \/ WriteCert(p)
  PROVE  IInv'
  <1>1. CASE CheckCert(p)
    BY <1>1, FilesAssumption
       DEF CheckCert, Goes, IInv, TypeOK, OneWriter, Learnt, ServedIsKey, memory, budget, history
  <1>2. CASE CheckKey(p)
    BY <1>2, FilesAssumption
       DEF CheckKey, Goes, IInv, TypeOK, OneWriter, Learnt, ServedIsKey, memory, budget, history
  <1>3. CASE Generate(p)
    BY <1>3, FilesAssumption
       DEF Generate, Goes, IInv, TypeOK, OneWriter, Learnt, ServedIsKey, memory, budget, history
  <1>4. CASE CreateCert(p)
    BY <1>4, FilesAssumption
       DEF CreateCert, Goes, IInv, TypeOK, OneWriter, Learnt, ServedIsKey, memory, budget, history
  <1>5. CASE WriteCert(p)
    BY <1>5, FilesAssumption
       DEF WriteCert, Goes, IInv, TypeOK, OneWriter, Learnt, ServedIsKey, memory, budget, history
  <1> QED BY <1>1, <1>2, <1>3, <1>4, <1>5

\* The creation of the key file lets no second writer in; writing it ends the
\* one there is.
LEMMA KeyInv ==
  ASSUME IInv, NEW p \in Procs, CreateKey(p) \/ WriteKey(p) \/ WriteError(p)
  PROVE  IInv'
  <1>1. CASE CreateKey(p)
    <2>1. served \cap {Absent} = {}
      BY FilesAssumption DEF IInv, TypeOK
    <2>2. TypeOK'
      BY <1>1, FilesAssumption
         DEF CreateKey, Goes, IInv, TypeOK, Learnt, memory, budget, history
    <2>3. OneWriter'
      BY <1>1, FilesAssumption
         DEF CreateKey, Goes, IInv, TypeOK, OneWriter, memory, budget, history
    <2>4. Learnt'
      BY <1>1 DEF CreateKey, Goes, IInv, TypeOK, Learnt, memory, budget, history
    <2>5. ServedIsKey'
      BY <1>1, <2>1 DEF CreateKey, Goes, IInv, TypeOK, ServedIsKey, memory, budget, history
    <2> QED BY <2>2, <2>3, <2>4, <2>5 DEF IInv
  <1>2. CASE WriteKey(p)
    <2>1. key = Torn /\ served \cap {Torn} = {}
      BY <1>2, FilesAssumption DEF WriteKey, Goes, IInv, OneWriter, TypeOK
    <2>2. TypeOK'
      BY <1>2, FilesAssumption
         DEF WriteKey, Goes, IInv, TypeOK, Learnt, memory, budget, history
    <2>3. OneWriter'
      BY <1>2, FilesAssumption
         DEF WriteKey, Goes, IInv, TypeOK, OneWriter, memory, budget, history
    <2>4. Learnt'
      BY <1>2 DEF WriteKey, Goes, IInv, TypeOK, Learnt, memory, budget, history
    <2>5. ServedIsKey'
      BY <1>2, <2>1 DEF WriteKey, Goes, IInv, TypeOK, ServedIsKey, memory, budget, history
    <2> QED BY <2>2, <2>3, <2>4, <2>5 DEF IInv
  <1>3. CASE WriteError(p)
    BY <1>3, FilesAssumption
       DEF WriteError, IInv, TypeOK, OneWriter, Learnt, ServedIsKey, memory, budget, history
  <1> QED BY <1>1, <1>2, <1>3

\* The transports leave the files alone and present the key they read.
LEMMA TransportInv ==
  ASSUME IInv, NEW p \in Procs,
         Proceed(p) \/ LoadCert(p) \/ KeyUnusable(p) \/ BindFails(p) \/ Bind(p) \/ Shutdown(p)
  PROVE  IInv'
  <1>1. CASE Proceed(p)
    BY <1>1, FilesAssumption
       DEF Proceed, First, Goes, IInv, TypeOK, OneWriter, Learnt, ServedIsKey, memory, budget, history
  <1>2. CASE LoadCert(p)
    <2>1. TypeOK'
      BY <1>2, FilesAssumption, ProcsAssumption
         DEF LoadCert, Goes, IInv, TypeOK, Learnt, memory, budget, history
    <2>2. OneWriter' /\ Learnt' /\ ServedIsKey'
      BY <1>2, FilesAssumption
         DEF LoadCert, Goes, IInv, TypeOK, OneWriter, Learnt, ServedIsKey, memory, budget, history
    <2> QED BY <2>1, <2>2 DEF IInv
  <1>3. CASE KeyUnusable(p)
    BY <1>3, FilesAssumption
       DEF KeyUnusable, IInv, TypeOK, OneWriter, Learnt, ServedIsKey, memory, budget, history
  <1>4. CASE BindFails(p)
    BY <1>4, FilesAssumption
       DEF BindFails, IInv, TypeOK, OneWriter, Learnt, ServedIsKey, memory, budget, history
  <1>5. CASE Bind(p)
    <2>1. key \in Nat /\ ~check[p]
      BY <1>5 DEF Bind, Goes, IInv, Learnt
    <2>2. TypeOK'
      BY <1>5, <2>1, ProcsAssumption
         DEF Bind, Goes, IInv, TypeOK, memory, budget, history
    <2>3. OneWriter' /\ Learnt' /\ ServedIsKey'
      BY <1>5, <2>1
         DEF Bind, Goes, IInv, TypeOK, OneWriter, Learnt, ServedIsKey, memory, budget, history
    <2> QED BY <2>2, <2>3 DEF IInv
  <1>6. CASE Shutdown(p)
    BY <1>6, FilesAssumption
       DEF Shutdown, Goes, IInv, TypeOK, OneWriter, Learnt, ServedIsKey, memory, budget, history
  <1> QED BY <1>1, <1>2, <1>3, <1>4, <1>5, <1>6

LEMMA OutsideInv ==
  ASSUME IInv,
         \/ \E p \in Procs : Start(p) \/ Crash(p)
         \/ OperatorRemoves
         \/ Rest
  PROVE  IInv'
  <1>1. ASSUME NEW p \in Procs, Start(p) PROVE IInv'
    <2>1. TypeOK'
      BY <1>1, BoundsAssumption DEF Start, IInv, TypeOK, memory, budget, history
    <2>2. OneWriter' /\ Learnt' /\ ServedIsKey'
      BY <1>1 DEF Start, IInv, TypeOK, OneWriter, Learnt, ServedIsKey, memory, budget, history
    <2> QED BY <2>1, <2>2 DEF IInv
  <1>2. ASSUME NEW p \in Procs, Crash(p) PROVE IInv'
    BY <1>2, ProcsAssumption
       DEF Crash, IInv, TypeOK, OneWriter, Learnt, ServedIsKey, memory, budget, history
  <1>3. CASE OperatorRemoves
    BY <1>3, BoundsAssumption
       DEF OperatorRemoves, IInv, TypeOK, OneWriter, Learnt, ServedIsKey, memory, budget, history
  <1>4. CASE Rest
    BY <1>4 DEF Rest, vars, IInv, TypeOK, OneWriter, Learnt, ServedIsKey, memory, budget, history
  <1> QED BY <1>1, <1>2, <1>3, <1>4

LEMMA StepInv == IInv /\ [Next]_vars => IInv'
  <1> SUFFICES ASSUME IInv, [Next]_vars PROVE IInv'
    OBVIOUS
  <1>1. ASSUME NEW p \in Procs, Run(p) PROVE IInv'
    BY <1>1, LookInv, KeyInv, TransportInv DEF Run, EnsureExists
  <1>2. CASE UNCHANGED vars
    BY <1>2 DEF vars, IInv, TypeOK, OneWriter, Learnt, ServedIsKey, memory, budget, history
  <1> QED BY <1>1, <1>2, OutsideInv DEF Next

\* No step but the operator's takes a finished key away, and none changes it.
LEMMA KeyKept == IInv /\ [Next]_vars => (key \in Nat => key' \in {key, Absent})
  <1> SUFFICES ASSUME IInv, [Next]_vars, key \in Nat PROVE key' \in {key, Absent}
    OBVIOUS
  <1> USE FilesAssumption
  <1>1. ASSUME NEW p \in Procs, CreateKey(p) PROVE key' = key
    BY <1>1 DEF CreateKey
  <1>2. ASSUME NEW p \in Procs, WriteKey(p) PROVE key' = key
    BY <1>2 DEF WriteKey, Goes, IInv, OneWriter
  <1>3. ASSUME NEW p \in Procs, Run(p), ~CreateKey(p), ~WriteKey(p) PROVE key' = key
    BY <1>3 DEF Run, EnsureExists, CheckCert, CheckKey, Generate, CreateCert, WriteCert,
                WriteError, Proceed, LoadCert, KeyUnusable, BindFails, Bind, Shutdown
  <1>4. ASSUME NEW p \in Procs, Start(p) \/ Crash(p) PROVE key' = key
    BY <1>4 DEF Start, Crash
  <1>5. CASE OperatorRemoves
    BY <1>5 DEF OperatorRemoves
  <1>6. CASE Rest \/ UNCHANGED vars
    BY <1>6 DEF Rest, vars
  <1> QED BY <1>1, <1>2, <1>3, <1>4, <1>5, <1>6 DEF Next

\* While nothing has disturbed it, one process at a time sees to the files, they
\* are both there or both missing unless that one is writing them, and who has
\* come to the transports read what is in them.
FilesInOrder ==
    disturbed = {} =>
        /\ \A p, q \in Procs : pc[p] \in Ensuring /\ pc[q] \in Ensuring => p = q
        /\ (\A p \in Procs : pc[p] \notin Writing) => cert = key /\ key # Torn
        /\ \A p \in Procs :
              /\ pc[p] = "checkKey" => (saw[p] <=> cert # Absent)
              /\ pc[p] \in {"generate", "createCert", "writeCert", "createKey"} => key = Absent
              /\ pc[p] \in {"createKey", "writeKey"} => cert = mine[p]
              /\ pc[p] \in Loading \cup {"serving"} => cert = key /\ key \in Nat
              /\ pc[p] \in {"quicKey", "grpcKey"} => read[p] = cert
              /\ pc[p] # "failed"

\* No step breaks the order of the files without being recorded as a disturbance.
LEMMA OrderStep == IInv /\ IInv' /\ FilesInOrder /\ [Next]_vars => FilesInOrder'
  <1> SUFFICES ASSUME IInv, IInv', FilesInOrder, [Next]_vars PROVE FilesInOrder'
    OBVIOUS
  <1> USE FilesAssumption
  <1>1. ASSUME NEW p \in Procs,
               CheckCert(p) \/ CheckKey(p) \/ Generate(p) \/ CreateCert(p) \/ WriteCert(p)
        PROVE  FilesInOrder'
    <2> USE DEF Goes, memory, budget, history, IInv, TypeOK, FilesInOrder
    <2>1. CASE CheckCert(p)
      <3>1. /\ pc[p] = "checkCert" /\ pc' = [pc EXCEPT ![p] = "checkKey"]
            /\ saw' = [saw EXCEPT ![p] = cert # Absent]
            /\ UNCHANGED <<cert, key, mine, read, disturbed>>
        BY <2>1 DEF CheckCert
      <3>2. saw'[p] <=> cert # Absent
        BY <3>1
      <3>3. disturbed = {} => \A q \in Procs : pc'[q] = "checkKey" => q = p
        BY <3>1
      <3>4. disturbed = {} => \A q \in Procs : pc'[q] = "checkKey" => (saw'[q] <=> cert' # Absent)
        BY <3>1, <3>2, <3>3
      <3> QED BY <3>1, <3>4
    <2>2. CASE CheckKey(p)
      BY <2>2 DEF CheckKey
    <2>3. CASE Generate(p)
      BY <2>3 DEF Generate
    <2>4. CASE CreateCert(p)
      BY <2>4 DEF CreateCert
    <2>5. CASE WriteCert(p)
      BY <2>5 DEF WriteCert
    <2> QED BY <1>1, <2>1, <2>2, <2>3, <2>4, <2>5
  <1>2. ASSUME NEW p \in Procs, CreateKey(p) \/ WriteKey(p) \/ WriteError(p)
        PROVE  FilesInOrder'
    <2> USE DEF Goes, memory, budget, history, IInv, TypeOK, OneWriter, FilesInOrder
    <2>1. CASE CreateKey(p)
      BY <2>1 DEF CreateKey
    <2>2. CASE WriteKey(p)
      BY <2>2 DEF WriteKey
    <2>3. CASE WriteError(p)
      BY <2>3 DEF WriteError
    <2> QED BY <1>2, <2>1, <2>2, <2>3
  <1>3. ASSUME NEW p \in Procs,
               Proceed(p) \/ LoadCert(p) \/ KeyUnusable(p) \/ BindFails(p) \/ Bind(p) \/ Shutdown(p)
        PROVE  FilesInOrder'
    <2> USE DEF Goes, memory, budget, history, IInv, TypeOK, FilesInOrder
    <2>1. CASE Proceed(p)
      BY <2>1 DEF Proceed, First
    <2>2. CASE LoadCert(p)
      BY <2>2 DEF LoadCert
    <2>3. CASE KeyUnusable(p)
      BY <2>3 DEF KeyUnusable
    <2>4. CASE BindFails(p)
      BY <2>4 DEF BindFails
    <2>5. CASE Bind(p)
      BY <2>5 DEF Bind
    <2>6. CASE Shutdown(p)
      BY <2>6 DEF Shutdown
    <2> QED BY <1>3, <2>1, <2>2, <2>3, <2>4, <2>5, <2>6
  <1>4. ASSUME NEW p \in Procs, Start(p) PROVE FilesInOrder'
    BY <1>4 DEF Start, budget, history, IInv, TypeOK, FilesInOrder
  <1>5. ASSUME NEW p \in Procs, Crash(p) PROVE FilesInOrder'
    BY <1>5 DEF Crash, memory, budget, IInv, TypeOK, FilesInOrder
  <1>6. CASE OperatorRemoves
    BY <1>6 DEF OperatorRemoves, FilesInOrder
  <1>7. CASE Rest \/ UNCHANGED vars
    BY <1>7 DEF Rest, vars, memory, budget, history, FilesInOrder
  <1> QED BY <1>1, <1>2, <1>3, <1>4, <1>5, <1>6, <1>7 DEF Next, Run, EnsureExists

LEMMA AlwaysInv == Spec => []IInv
  BY InitInv, StepInv, PTL DEF Spec

\* The stages, the port's owner and the files are of their types whatever the
\* number of processes.
THEOREM TypeCorrect == Spec => []TypeOK
  <1>1. IInv => TypeOK
    BY DEF IInv
  <1> QED BY <1>1, AlwaysInv, PTL

\* Any number of servers and checks, starting and dying at any step, present one
\* identity until the operator deletes the files.
THEOREM SingleIdentity == Spec => []OneIdentity
  <1>1. IInv => OneIdentity
    <2> SUFFICES ASSUME IInv, "operator" \notin disturbed PROVE Cardinality(served) <= 1
      BY DEF OneIdentity
    <2>1. served \subseteq {key}
      BY DEF IInv, ServedIsKey
    <2>2. IsFiniteSet({key}) /\ Cardinality({key}) = 1
      BY FS_Singleton
    <2>3. Cardinality(served) <= Cardinality({key})
      BY <2>1, <2>2, FS_Subset
    <2> QED BY <2>2, <2>3
  <1> QED BY <1>1, AlwaysInv, PTL

\* create_new makes the key file a lock: a finished key is never replaced.
THEOREM KeyWrittenOnce == Spec => KeyNeverReplaced
  <1>1. IInv /\ [Next]_vars => [(key \in Nat) => (key' \in {key, Absent})]_vars
    BY KeyKept
  <1> QED BY <1>1, AlwaysInv, PTL DEF Spec, KeyNeverReplaced

\* The pair that one run writes undisturbed, every later run can load, however
\* many there are: what a start that fails blames on the files, somebody did.
THEOREM UndisturbedStartsSucceed == Spec => []StartsUndisturbed
  <1>1. Init => FilesInOrder
    BY FilesAssumption DEF Init, FilesInOrder
  <1>2. FilesInOrder => StartsUndisturbed
    BY DEF FilesInOrder, StartsUndisturbed
  <1> QED BY <1>1, <1>2, OrderStep, AlwaysInv, PTL DEF Spec
=============================================================================
