----------------------- MODULE FinalizerProtocol_proofs -----------------------
(***************************************************************************)
(* What the finalizer is for: under FinalizerProtocol nothing is held for  *)
(* an object that is gone.  Every specification that implements the        *)
(* protocol has this from it.                                              *)
(***************************************************************************)
EXTENDS FinalizerProtocol, TLAPS

\* An object that carries the finalizer is there, whatever is held.
FinalizerExists == \A o \in finalizer : phase[o] # "absent"

Kept == TypeOK /\ HeldExists /\ FinalizerExists

LEMMA KeptInit == Init => Kept
PROOF
  BY DEF Init, Kept, TypeOK, HeldExists, FinalizerExists

LEMMA KeptStep == Kept /\ [Next]_vars => Kept'
PROOF
  <1> SUFFICES ASSUME Kept, [Next]_vars PROVE Kept'
    OBVIOUS
  <1> USE DEF Kept, TypeOK, HeldExists, FinalizerExists
  <1>1. ASSUME NEW o \in Objects, Create(o) \/ Delete(o) PROVE Kept'
    BY <1>1 DEF Create, Delete
  <1>2. ASSUME NEW o \in Objects, AddFinalizer(o) \/ RemoveFinalizer(o)
        PROVE  Kept'
    BY <1>2 DEF AddFinalizer, RemoveFinalizer
  <1>3. ASSUME NEW o \in Objects, Acquire(o) PROVE Kept'
    BY <1>3 DEF Acquire
  <1>4. ASSUME NEW o \in Objects, Collect(o) PROVE Kept'
    BY <1>4 DEF Collect
  <1>5. ASSUME NEW S \in SUBSET Objects, Release(S) PROVE Kept'
    BY <1>5 DEF Release
  <1>6. CASE UNCHANGED vars
    BY <1>6 DEF vars
  <1> QED
    BY <1>1, <1>2, <1>3, <1>4, <1>5, <1>6 DEF Next

\* What the process holds, it holds for an object that exists and carries the
\* finalizer (reconciler/dispatcher/azurechannel.go 178-192).
THEOREM HeldForExisting == Spec => []HeldExists
PROOF
  <1>1. Kept => HeldExists
    BY DEF Kept
  <1> QED
    BY <1>1, KeptInit, KeptStep, PTL DEF Spec

=============================================================================
