--------------------------- MODULE ScannerDispatch ---------------------------
(***************************************************************************)
(* The scanner's dispatch table, src/ihtp_scanner_scalar.c: the first call *)
(* of ihtp_scanner_get() installs the kernels of the machine's SIMD level  *)
(* in a process-wide table.  Neither the table nor the flag beside it is   *)
(* atomic and nothing locks them, so threads that parse concurrently race  *)
(* on both.  Every load and store of them is an action.                    *)
(*                                                                         *)
(* Where reorders holds, a store may become visible before earlier stores  *)
(* to other locations, and a store that is overwritten by a later one may  *)
(* never become visible: what an optimising compiler does with plain       *)
(* stores.  Elsewhere they are in program order, as in an unoptimised x86  *)
(* build.                                                                  *)
(***************************************************************************)
EXTENDS Naturals, Sequences

CONSTANTS Threads,  \* threads that call into the parser
          Levels,   \* SIMD levels of machines: sets of "sse42" and "avx2"
          Reorders  \* builds: whether plain stores are reordered and merged

ASSUME DispatchAssumption ==
  Levels \subseteq SUBSET {"sse42", "avx2"} /\ Reorders \subseteq BOOLEAN

Slots == {"find_char", "is_token"}

VARIABLES
  simd_level,          \* what ihtp_scanner_simd_level() finds on this machine
  reorders,            \* whether this build reorders plain stores
  scanner_vtable,      \* slot -> the backend of the kernel in it, or "NULL"
  scanner_initialized,
  pc,                  \* thread -> idle, get, init, store, use
  stores,              \* thread -> which of InitStores are not yet visible
  called               \* thread -> the kernel of its last call

machine == <<simd_level, reorders>>
vars    == <<machine, scanner_vtable, scanner_initialized, pc, stores, called>>

(* ihtp_scanner_backend_name_for_level()                                   *)
backend_name_for_level(level) ==
  IF "avx2" \in level THEN "avx2" ELSE IF "sse42" \in level THEN "sse42" ELSE "scalar"

Install(backend) == <<[to |-> "find_char", value |-> backend], [to |-> "is_token", value |-> backend]>>

(* The selection without the return after the AVX2 kernels.                *)
select_vtableFallsThrough(level) ==
  Install("scalar")
    \o (IF "avx2" \in level THEN Install("avx2") ELSE <<>>)
    \o (IF "sse42" \in level THEN Install("sse42") ELSE <<>>)

(* ihtp_scanner_select_vtable(): the scalar baseline, then SIMD over it.   *)
select_vtable(level) ==
  Install("scalar")
    \o (IF "avx2" \in level THEN Install("avx2")
        ELSE IF "sse42" \in level THEN Install("sse42") ELSE <<>>)

Mark == <<[to |-> "initialized", value |-> "true"]>>

(* The flag set before the table is filled.                                *)
InitStoresFlagFirst(level) == Mark \o select_vtable(level)

InitStores(level) == select_vtable(level) \o Mark

-----------------------------------------------------------------------------
Init ==
  /\ simd_level \in Levels /\ reorders \in Reorders
  /\ scanner_vtable = [s \in Slots |-> "NULL"]
  /\ scanner_initialized = FALSE
  /\ pc = [t \in Threads |-> "idle"]
  /\ stores = [t \in Threads |-> {}]
  /\ called = [t \in Threads |-> "none"]

Goto(t, label) == pc' = [pc EXCEPT ![t] = label]

(* A parse reaches a kernel: ihtp_scanner_get() reads the flag.            *)
Get(t) ==
  /\ pc[t] = "idle"
  /\ Goto(t, IF scanner_initialized THEN "use" ELSE "init")
  /\ UNCHANGED <<machine, scanner_vtable, scanner_initialized, stores, called>>

(* ihtp_scanner_init() reads it again and begins to store.                 *)
InitBegin(t) ==
  /\ pc[t] = "init"
  /\ \/ scanner_initialized /\ Goto(t, "use") /\ UNCHANGED stores
     \/ /\ ~scanner_initialized /\ Goto(t, "store")
        /\ stores' = [stores EXCEPT ![t] = 1..Len(InitStores(simd_level))]
  /\ UNCHANGED <<machine, scanner_vtable, scanner_initialized, called>>

(* Once store n of a thread is visible, earlier ones to its location never *)
(* will be.                                                                *)
Rest(pending, n) ==
  LET P == InitStores(simd_level)
  IN  {m \in pending \ {n} : m > n \/ P[m].to # P[n].to}

Store(t, n) ==
  /\ pc[t] = "store"
  /\ n \in stores[t] /\ (reorders \/ \A m \in stores[t] : n <= m)
  /\ LET st == InitStores(simd_level)[n] IN
       /\ scanner_vtable' = IF st.to \in Slots THEN [scanner_vtable EXCEPT ![st.to] = st.value]
                                               ELSE scanner_vtable
       /\ scanner_initialized' = (scanner_initialized \/ st.to = "initialized")
  /\ stores' = [stores EXCEPT ![t] = Rest(stores[t], n)]
  /\ UNCHANGED <<machine, pc, called>>

InitEnd(t) ==
  /\ pc[t] = "store" /\ stores[t] = {}
  /\ Goto(t, "use")
  /\ UNCHANGED <<machine, scanner_vtable, scanner_initialized, stores, called>>

(* ihtp_scan_find_char(), ihtp_scan_is_token() and the semantics layer     *)
(* call through the slot.                                                  *)
Call(t, slot) ==
  /\ pc[t] = "use"
  /\ called' = [called EXCEPT ![t] = scanner_vtable[slot]]
  /\ Goto(t, "idle")
  /\ UNCHANGED <<machine, scanner_vtable, scanner_initialized, stores>>

Next ==
  \E t \in Threads :
    \/ Get(t) \/ InitBegin(t) \/ InitEnd(t)
    \/ \E n \in stores[t] : Store(t, n)
    \/ \E slot \in Slots : Call(t, slot)

Spec == Init /\ [][Next]_vars

-----------------------------------------------------------------------------
(* However many threads enter the initialisation at once, no call goes to  *)
(* a kernel the machine cannot execute, nor, where stores are visible in   *)
(* program order, through an empty slot: the baseline is stored first and  *)
(* the flag last.                                                          *)
CallsRunnableKernel ==
  \A t \in Threads :
    called[t] \in {"none", "scalar"} \cup simd_level \cup (IF reorders THEN {"NULL"} ELSE {})

(* Once a thread has finished the initialisation and no other is storing,  *)
(* the table holds the backend that ihtp_scanner_active_backend_name()     *)
(* reports, in both slots.                                                 *)
SettlesOnReportedBackend ==
  scanner_initialized /\ (\A t \in Threads : stores[t] = {}) =>
    \A s \in Slots : scanner_vtable[s] = backend_name_for_level(simd_level)

(* src/ihtp_internal.h:45: "Get the active scanner vtable (auto-           *)
(* initialized on first call)": whoever was given the table finds a        *)
(* kernel in it.                                                           *)
AutoInitialized == \A t \in Threads : called[t] # "NULL"
=============================================================================
