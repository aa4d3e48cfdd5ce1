------------------------ MODULE ScannerDispatchProofs ------------------------
(***************************************************************************)
(* What the racing initialisation of the scanner's dispatch table keeps,   *)
(* proved for every number of threads, every SIMD level and both kinds of  *)
(* build.                                                                  *)
(***************************************************************************)
EXTENDS ScannerDispatch, SequenceTheorems, TLAPS

program  == InitStores(simd_level)
backend  == backend_name_for_level(simd_level)
Runnable == {"scalar"} \cup simd_level

(* The last of the stores to a slot: the table's, then the flag's.         *)
LastStore(level, s) == Len(InitStores(level)) - (IF s = "find_char" THEN 2 ELSE 1)

-----------------------------------------------------------------------------
(* The stores of ihtp_scanner_init() on a machine: only kernels it can     *)
(* run, the reported backend last in each slot, every slot filled before   *)
(* the flag, and the flag once, at the end.                                *)
Ordered(P, level) ==
  /\ Len(P) \in Nat
  /\ \A m \in 1..Len(P) :
       /\ P[m].to \in Slots => P[m].value \in {"scalar"} \cup level
       /\ P[m].to \notin Slots => P[m].to = "initialized" /\ m = Len(P)
  /\ \A s \in Slots :
       LET last == LastStore(level, s) IN
         /\ last \in 1..Len(P) - 1
         /\ P[last].to = s /\ P[last].value = backend_name_for_level(level)
         /\ \A m \in 1..Len(P) : P[m].to = s => m <= last

LEMMA ScalarProgram ==
  ASSUME NEW level, "avx2" \notin level, "sse42" \notin level
  PROVE  Ordered(InitStores(level), level)
<1> DEFINE P == InitStores(level)
<1> DEFINE St == [to : {"find_char", "is_token", "initialized"}, value : {"scalar", "true"}]
<1>1. Install("scalar") \in Seq(St) /\ Len(Install("scalar")) = 2 /\ Mark \in Seq(St) /\ Len(Mark) = 1
  BY DEF Install, Mark
<1>2. select_vtable(level) = Install("scalar") \o <<>> /\ <<>> \in Seq(St)
  BY DEF select_vtable
<1>3. select_vtable(level) = Install("scalar")
  BY <1>1, <1>2, ConcatEmptySeq
<1>4. P = Install("scalar") \o Mark
  BY <1>3 DEF InitStores
<1>5. /\ Len(P) = 3
      /\ \A i \in 1..3 : P[i] = IF i <= 2 THEN Install("scalar")[i] ELSE Mark[i - 2]
  BY <1>1, <1>4, ConcatProperties
<1>6. /\ P[1] = [to |-> "find_char", value |-> "scalar"]
      /\ P[2] = [to |-> "is_token", value |-> "scalar"]
      /\ P[3] = [to |-> "initialized", value |-> "true"]
  BY <1>5 DEF Install, Mark
<1> HIDE DEF P
<1>7. backend_name_for_level(level) = "scalar"
  BY DEF backend_name_for_level
<1> QED
  BY <1>5, <1>6, <1>7 DEF Ordered, LastStore, Slots, P

LEMMA SimdProgram ==
  ASSUME NEW level, NEW b \in level, b \in {"avx2", "sse42"},
         b = backend_name_for_level(level)
  PROVE  Ordered(InitStores(level), level)
<1> DEFINE P == InitStores(level)
<1> DEFINE St == [to : {"find_char", "is_token", "initialized"}, value : {"scalar", "true", b}]
<1> DEFINE I == Install("scalar")  J == Install(b)  Q == I \o J
<1>1. I \in Seq(St) /\ J \in Seq(St) /\ Mark \in Seq(St)
  BY DEF Install, Mark
<1>2. Len(I) = 2 /\ Len(J) = 2 /\ Len(Mark) = 1
  BY DEF Install, Mark
<1>3. P = Q \o Mark
  BY DEF InitStores, select_vtable, backend_name_for_level
<1> HIDE DEF St, I, J
<1>4. /\ Q \in Seq(St)
      /\ Len(Q) = Len(I) + Len(J)
      /\ \A i \in 1..Len(I) + Len(J) : Q[i] = IF i <= Len(I) THEN I[i] ELSE J[i - Len(I)]
  BY <1>1, ConcatProperties, Zenon
<1> HIDE DEF Q, P
<1>5. Len(Q) = 4 /\ \A i \in 1..4 : Q[i] = IF i <= 2 THEN I[i] ELSE J[i - 2]
  BY <1>2, <1>4
<1>6. /\ Len(P) = Len(Q) + Len(Mark)
      /\ \A i \in 1..Len(Q) + Len(Mark) : P[i] = IF i <= Len(Q) THEN Q[i] ELSE Mark[i - Len(Q)]
  <2>1. Q \in Seq(St) /\ Mark \in Seq(St)
    BY <1>1, <1>4
  <2>2. /\ Len(Q \o Mark) = Len(Q) + Len(Mark)
        /\ \A i \in 1..Len(Q) + Len(Mark) :
              (Q \o Mark)[i] = IF i <= Len(Q) THEN Q[i] ELSE Mark[i - Len(Q)]
    BY <2>1, ConcatProperties, Zenon
  <2> QED
    BY <1>3, <2>2, Zenon
<1>7. Len(P) = 5 /\ \A i \in 1..5 : P[i] = IF i <= 4 THEN Q[i] ELSE Mark[i - 4]
  BY <1>2, <1>5, <1>6
<1>8. /\ P[1] = [to |-> "find_char", value |-> "scalar"]
      /\ P[2] = [to |-> "is_token", value |-> "scalar"]
      /\ P[3] = [to |-> "find_char", value |-> b]
      /\ P[4] = [to |-> "is_token", value |-> b]
      /\ P[5] = [to |-> "initialized", value |-> "true"]
  BY <1>5, <1>7 DEF I, J, Install, Mark
<1> QED
  BY <1>7, <1>8 DEF Ordered, LastStore, Slots, P

LEMMA ProgramOrdered ==
  ASSUME NEW level \in SUBSET {"sse42", "avx2"}
  PROVE  Ordered(InitStores(level), level)
<1>1. CASE "avx2" \in level
  BY <1>1, SimdProgram DEF backend_name_for_level
<1>2. CASE "avx2" \notin level /\ "sse42" \in level
  BY <1>2, SimdProgram DEF backend_name_for_level
<1>3. CASE "avx2" \notin level /\ "sse42" \notin level
  BY <1>3, ScalarProgram
<1> QED
  BY <1>1, <1>2, <1>3

-----------------------------------------------------------------------------
TypeOK ==
  /\ simd_level \in SUBSET {"sse42", "avx2"} /\ reorders \in BOOLEAN
  /\ scanner_vtable \in [Slots -> {"NULL"} \cup Runnable]
  /\ scanner_initialized \in BOOLEAN
  /\ pc \in [Threads -> {"idle", "init", "store", "use"}]
  /\ stores \in [Threads -> SUBSET (1..Len(program))]
  /\ called \in [Threads -> {"none", "NULL"} \cup Runnable]

Filled(s) == scanner_vtable[s] # "NULL"

(* A thread that still has a store to a slot to make has the last one.     *)
LastIsPending ==
  \A t \in Threads, s \in Slots :
    (\E m \in stores[t] : program[m].to = s) => LastStore(simd_level, s) \in stores[t]

(* From the first initialisation on, a slot holds the reported backend or  *)
(* some thread is still to store it there.                                 *)
Settling ==
  scanner_initialized \/ (\E t \in Threads : pc[t] = "store") =>
    \A s \in Slots :
      scanner_vtable[s] = backend \/ \E t \in Threads : LastStore(simd_level, s) \in stores[t]

(* In program order, the stores a thread has made are the first ones, and  *)
(* what it has stored to is filled; the flag, and so the use, come last.   *)
InOrder ==
  ~reorders =>
    /\ \A t \in Threads : \A m \in stores[t], n \in 1..Len(program) : m < n => n \in stores[t]
    /\ \A t \in Threads, n \in 1..Len(program), s \in Slots :
         pc[t] = "store" /\ n \notin stores[t] /\ program[n].to = s => Filled(s)
    /\ (scanner_initialized \/ \E t \in Threads : pc[t] = "use") => \A s \in Slots : Filled(s)
    /\ \A t \in Threads : called[t] # "NULL"

IInv == TypeOK /\ LastIsPending /\ Settling /\ InOrder

LEMMA InitIInv == Init => IInv
<1> SUFFICES ASSUME Init PROVE IInv
  OBVIOUS
<1>1. TypeOK
  BY DispatchAssumption DEF Init, TypeOK, Runnable
<1>2. LastIsPending /\ Settling
  BY DEF Init, LastIsPending, Settling
<1>3. InOrder
  BY DEF Init, InOrder
<1> QED
  BY <1>1, <1>2, <1>3 DEF IInv

LEMMA GetIInv ==
  ASSUME IInv, NEW t \in Threads, Get(t)
  PROVE  IInv'
<1> USE DEF Get, Goto, machine
<1>1. program' = program /\ backend' = backend /\ Runnable' = Runnable
  BY DEF program, backend, Runnable
<1>2. TypeOK'
  BY <1>1 DEF IInv, TypeOK
<1>3. LastIsPending'
  BY <1>1 DEF IInv, LastIsPending
<1>4. Settling'
  BY <1>1 DEF IInv, TypeOK, Settling
<1>5. InOrder'
  BY <1>1 DEF IInv, TypeOK, InOrder, Filled
<1> QED
  BY <1>2, <1>3, <1>4, <1>5 DEF IInv

LEMMA InitBeginIInv ==
  ASSUME IInv, NEW t \in Threads, InitBegin(t)
  PROVE  IInv'
<1> USE DEF InitBegin, Goto, machine
<1>1. program' = program /\ backend' = backend /\ Runnable' = Runnable
  BY DEF program, backend, Runnable
<1>2. Ordered(program, simd_level)
  BY ProgramOrdered DEF IInv, TypeOK, program
<1>3. stores' = stores \/ stores' = [stores EXCEPT ![t] = 1..Len(program)]
  BY DEF program
<1>4. \A s \in Slots : LastStore(simd_level, s) \in 1..Len(program)
  BY <1>2 DEF Ordered
<1>5. TypeOK'
  BY <1>1, <1>3 DEF IInv, TypeOK
<1>6. LastIsPending'
  BY <1>1, <1>3, <1>4 DEF IInv, TypeOK, LastIsPending
<1>7. Settling'
  <2>1. CASE scanner_initialized /\ UNCHANGED stores
    BY <1>1, <2>1 DEF IInv, TypeOK, Settling
  <2>2. CASE ~scanner_initialized
    BY <1>1, <1>4, <2>2 DEF IInv, TypeOK, Settling, program
  <2> QED
    BY <2>1, <2>2
<1>8. InOrder'
  <2>1. CASE scanner_initialized /\ UNCHANGED stores /\ pc' = [pc EXCEPT ![t] = "use"]
    BY <1>1, <2>1 DEF IInv, TypeOK, InOrder, Filled
  <2>2. CASE /\ stores' = [stores EXCEPT ![t] = 1..Len(program)]
             /\ pc' = [pc EXCEPT ![t] = "store"]
    BY <1>1, <2>2 DEF IInv, TypeOK, InOrder, Filled
  <2> QED
    BY <2>1, <2>2 DEF program
<1> QED
  BY <1>5, <1>6, <1>7, <1>8 DEF IInv

LEMMA InitEndIInv ==
  ASSUME IInv, NEW t \in Threads, InitEnd(t)
  PROVE  IInv'
<1> USE DEF InitEnd, Goto, machine
<1>1. program' = program /\ backend' = backend /\ Runnable' = Runnable
  BY DEF program, backend, Runnable
<1>2. TypeOK'
  BY <1>1 DEF IInv, TypeOK
<1>3. LastIsPending'
  BY <1>1 DEF IInv, LastIsPending
<1>4. Settling'
  BY <1>1 DEF IInv, TypeOK, Settling
<1>5. InOrder'
  <2>1. ~reorders => \A s \in Slots : Filled(s)
    BY ProgramOrdered DEF IInv, TypeOK, InOrder, Ordered, program
  <2> QED
    BY <1>1, <2>1 DEF IInv, TypeOK, InOrder, Filled
<1> QED
  BY <1>2, <1>3, <1>4, <1>5 DEF IInv

LEMMA CallIInv ==
  ASSUME IInv, NEW t \in Threads, NEW slot \in Slots, Call(t, slot)
  PROVE  IInv'
<1> USE DEF Call, Goto, machine
<1>1. program' = program /\ backend' = backend /\ Runnable' = Runnable
  BY DEF program, backend, Runnable
<1>2. TypeOK'
  BY <1>1 DEF IInv, TypeOK
<1>3. LastIsPending'
  BY <1>1 DEF IInv, LastIsPending
<1>4. Settling'
  BY <1>1 DEF IInv, TypeOK, Settling
<1>5. InOrder'
  BY <1>1 DEF IInv, TypeOK, InOrder, Filled
<1> QED
  BY <1>2, <1>3, <1>4, <1>5 DEF IInv

LEMMA StoreIInv ==
  ASSUME IInv, NEW t \in Threads, NEW n \in stores[t], Store(t, n)
  PROVE  IInv'
<1> USE DEF machine
<1>1. program' = program /\ backend' = backend /\ Runnable' = Runnable
  BY DEF Store, program, backend, Runnable
<1>2. Ordered(program, simd_level) /\ n \in 1..Len(program)
  BY ProgramOrdered DEF IInv, TypeOK, program
<1>3. /\ stores' = [stores EXCEPT ![t] = {m \in stores[t] \ {n} : m > n \/ program[m].to # program[n].to}]
      /\ UNCHANGED <<simd_level, reorders, pc, called>> /\ pc[t] = "store"
      /\ reorders \/ \A m \in stores[t] : n <= m
  BY DEF Store, Rest, program
<1>4. CASE program[n].to \in Slots
  <2> DEFINE s0 == program[n].to
  <2>1. /\ scanner_vtable' = [scanner_vtable EXCEPT ![s0] = program[n].value]
        /\ scanner_initialized' = scanner_initialized
    BY <1>4 DEF Store, program, IInv, TypeOK, Slots
  <2>2. program[n].value \in Runnable
    BY <1>2, <1>4 DEF Ordered, Runnable
  <2>3. program[n].value # "NULL"
    BY <2>2 DEF IInv, TypeOK, Runnable
  <2> HIDE DEF s0
  <2>4. TypeOK'
    BY <1>1, <1>3, <2>1, <2>2 DEF IInv, TypeOK
  <2>5. LastIsPending'
    BY <1>1, <1>2, <1>3, <1>4 DEF IInv, TypeOK, LastIsPending, Ordered
  <2>6. Settling'
    BY <1>1, <1>2, <1>3, <1>4, <2>1 DEF IInv, TypeOK, Settling, LastIsPending, Ordered, s0, backend
  <2>7. InOrder'
    BY <1>1, <1>2, <1>3, <1>4, <2>1, <2>3 DEF IInv, TypeOK, InOrder, Filled, s0
  <2> QED
    BY <2>4, <2>5, <2>6, <2>7 DEF IInv
<1>5. CASE program[n].to \notin Slots
  <2>1. /\ scanner_vtable' = scanner_vtable /\ scanner_initialized' = TRUE
        /\ n = Len(program)
    BY <1>2, <1>5 DEF Store, program, Ordered
  <2>2. TypeOK'
    BY <1>1, <1>3, <2>1 DEF IInv, TypeOK
  <2>3. LastIsPending'
    BY <1>1, <1>2, <1>3, <1>5 DEF IInv, TypeOK, LastIsPending, Ordered
  <2>4. Settling'
    BY <1>1, <1>2, <1>3, <1>5, <2>1 DEF IInv, TypeOK, Settling, Ordered
  <2>5. InOrder'
    BY <1>1, <1>2, <1>3, <1>5, <2>1 DEF IInv, TypeOK, InOrder, Filled, Ordered
  <2> QED
    BY <2>2, <2>3, <2>4, <2>5 DEF IInv
<1> QED
  BY <1>4, <1>5

LEMMA NextIInv == IInv /\ [Next]_vars => IInv'
<1> SUFFICES ASSUME IInv, [Next]_vars PROVE IInv'
  OBVIOUS
<1>1. CASE Next
  BY <1>1, GetIInv, InitBeginIInv, InitEndIInv, StoreIInv, CallIInv DEF Next
<1>2. CASE UNCHANGED vars
  BY <1>2 DEF vars, machine, IInv, TypeOK, LastIsPending, Settling, InOrder, Filled, program, backend, Runnable
<1> QED
  BY <1>1, <1>2

(* The inductive invariant holds throughout.                               *)
THEOREM Invariance == Spec => []IInv
  BY InitIInv, NextIInv, PTL DEF Spec

-----------------------------------------------------------------------------
(* However many threads call ihtp_scanner_get() at once, on every machine, *)
(* no call reaches a kernel that machine cannot execute, nor, where stores *)
(* are visible in program order, an empty slot.                            *)
THEOREM RunnableKernels == Spec => []CallsRunnableKernel
<1>1. IInv => CallsRunnableKernel
  BY DEF IInv, TypeOK, InOrder, CallsRunnableKernel, Runnable
<1> QED
  BY <1>1, Invariance, PTL

(* Whatever the order in which threads overwrite each other's stores, once *)
(* the flag is set and none is pending both slots hold the backend that    *)
(* ihtp_scanner_active_backend_name() reports.                             *)
THEOREM Settles == Spec => []SettlesOnReportedBackend
<1>1. IInv => SettlesOnReportedBackend
  BY DEF IInv, Settling, SettlesOnReportedBackend, backend
<1> QED
  BY <1>1, Invariance, PTL
=============================================================================
