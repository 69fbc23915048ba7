--------------------- MODULE DispatcherRefinement_proofs ---------------------
(***************************************************************************)
(* The dispatcher's reconciler implements FinalizerProtocol: under the     *)
(* refinement mapping of DispatcherReconciler every one of its steps is a  *)
(* step of the protocol or a stutter.  The step refinement needs           *)
(* Protected: a worker that stores a session stands behind a persisted     *)
(* finalizer, one that removes the finalizer has closed its session, and   *)
(* a copy that is still current when its finalizer is added was taken of   *)
(* an object that is not being deleted, and so the object is not.          *)
(***************************************************************************)
EXTENDS DispatcherReconciler_proofs

-----------------------------------------------------------------------------
(* Each step is one of the protocol. *)

\* A step that leaves the objects, the finalizers and the sessions alone.
LEMMA Stutters ==
  ASSUME UNCHANGED <<phase, finalizer, azureSessions>>
  PROVE  UNCHANGED Protocol!vars
PROOF
  BY DEF Protocol!vars, Exists

\* Azure and the finalizer are touched as the protocol allows.
LEMMA WorkRefines ==
  ASSUME TypeOK, Protected, NEW c \in Channels, Work(c)
  PROVE  [Protocol!Next]_(Protocol!vars)
PROOF
  <1>0. /\ phase \in [Channels -> {"new", "live", "deleting", "gone"}]
        /\ finalizer \in [Channels -> BOOLEAN]
        /\ azureSessions \subseteq Channels
        /\ ProtectedAt(c) /\ FitsAt(c)
    BY ProtectedEverywhere DEF TypeOK, DispatcherTypeOK
  <1>1. CASE ReconcileGone(c) \/ Reconcile(c) \/ FinalizeSubscriptions(c)
             \/ UpdateSubscriptionsStep(c) \/ ListChannels(c)
             \/ StoreHostMap(c) \/ UpdateStatus(c)
    <2>1. UNCHANGED <<phase, finalizer, azureSessions>>
      BY <1>1 DEF ReconcileGone, Reconcile, FinalizeSubscriptions,
         UpdateSubscriptionsStep, ListChannels, StoreHostMap, UpdateStatus,
         dispatcherVars, objectVars
    <2> QED
      BY <2>1, Stutters
  <1>2. CASE FinalizeSession(c)
    <2>1. Protocol!Release({c})
      BY <1>2 DEF FinalizeSession, DeleteAzureSession, objectVars, Exists,
         Protocol!Release
    <2> QED
      BY <2>1 DEF Protocol!Next
  <1>3. CASE RemoveFinalizer(c)
    <2>1. /\ UNCHANGED <<phase, azureSessions>> /\ c \notin azureSessions
          /\ finalizer' = [finalizer EXCEPT ![c] = FALSE] \/ UNCHANGED finalizer
      BY <1>0, <1>3 DEF RemoveFinalizer, dispatcherVars, ProtectedAt
    <2>2. CASE UNCHANGED finalizer
      BY <2>1, <2>2, Stutters
    <2>3. CASE finalizer' = [finalizer EXCEPT ![c] = FALSE]
      <3>1. Protocol!RemoveFinalizer(c)
        BY <1>0, <2>1, <2>3 DEF Exists, Protocol!RemoveFinalizer
      <3> QED
        BY <3>1 DEF Protocol!Next
    <2> QED
      BY <2>1, <2>2, <2>3
  <1>4. CASE EnsureFinalizer(c)
    <2>1. /\ UNCHANGED <<phase, azureSessions>>
          /\ \/ UNCHANGED finalizer
             \/ /\ finalizer' = [finalizer EXCEPT ![c] = TRUE]
                /\ phase[c] = "live"
      BY <1>0, <1>4 DEF EnsureFinalizer, dispatcherVars, FitsAt, Adding
    <2>2. CASE UNCHANGED finalizer
      BY <2>1, <2>2, Stutters
    <2>3. CASE finalizer' = [finalizer EXCEPT ![c] = TRUE] /\ phase[c] = "live"
      <3>1. Protocol!AddFinalizer(c)
        BY <1>0, <2>1, <2>3 DEF Exists, Protocol!AddFinalizer
      <3> QED
        BY <3>1 DEF Protocol!Next
    <2> QED
      BY <2>1, <2>2, <2>3
  <1>5. CASE EnsureSession(c)
    <2>1. /\ UNCHANGED <<phase, finalizer>> /\ finalizer[c]
          /\ azureSessions' = azureSessions \cup {c} \/ UNCHANGED azureSessions
      BY <1>0, <1>5 DEF EnsureSession, CreateAzureSession, objectVars, ProtectedAt
    <2>2. CASE UNCHANGED azureSessions
      BY <2>1, <2>2, Stutters
    <2>3. CASE azureSessions' = azureSessions \cup {c}
      <3>1. Protocol!Acquire(c)
        BY <2>1, <2>3 DEF Exists, Protocol!Acquire
      <3> QED
        BY <3>1 DEF Protocol!Next
    <2> QED
      BY <2>1, <2>2, <2>3
  <1> QED
    BY <1>1, <1>2, <1>3, <1>4, <1>5 DEF Work

\* What users, the controller and the API server do to the object.
LEMMA SurroundingsRefine ==
  ASSUME TypeOK, NEW c \in Channels, Surroundings(c)
  PROVE  [Protocol!Next]_(Protocol!vars)
PROOF
  <1>0. phase \in [Channels -> {"new", "live", "deleting", "gone"}]
    BY DEF TypeOK
  <1>1. CASE SetSubscribers(c) \/ ControllerStatus(c) \/ Resync(c)
             \/ HubDeleted(c) \/ Observe(c)
    <2>1. UNCHANGED <<phase, finalizer, azureSessions>>
      BY <1>1 DEF SetSubscribers, ControllerStatus, Resync, HubDeleted, Observe,
         dispatcherVars, objectVars
    <2> QED
      BY <2>1, Stutters
  <1>2. CASE CreateChannel(c)
    <2>1. Protocol!Create(c)
      BY <1>0, <1>2 DEF CreateChannel, dispatcherVars, Exists,
         Protocol!Create
    <2> QED
      BY <2>1 DEF Protocol!Next
  <1>3. CASE DeleteChannel(c)
    <2>1. Protocol!Delete(c)
      BY <1>0, <1>3 DEF DeleteChannel, dispatcherVars, Exists,
         Protocol!Delete
    <2> QED
      BY <2>1 DEF Protocol!Next
  <1>4. CASE Collect(c)
    <2>1. Protocol!Collect(c)
      BY <1>0, <1>4 DEF Collect, Exists, Protocol!Collect
    <2> QED
      BY <2>1 DEF Protocol!Next
  <1> QED
    BY <1>1, <1>2, <1>3, <1>4 DEF Surroundings

\* A process that ends lets go of everything at once.
LEMMA RestartRefines ==
  ASSUME TypeOK, ProcessRestart
  PROVE  [Protocol!Next]_(Protocol!vars)
PROOF
  <1>1. Protocol!Release(azureSessions)
    BY DEF ProcessRestart, DispatcherLost, objectVars, Exists, Protocol!Release
  <1>2. azureSessions \in SUBSET Channels
    BY DEF TypeOK, DispatcherTypeOK
  <1> QED
    BY <1>1, <1>2 DEF Protocol!Next

LEMMA StepRefines ==
  TypeOK /\ Protected /\ [Next]_vars => [Protocol!Next]_(Protocol!vars)
PROOF
  <1> SUFFICES ASSUME TypeOK, Protected, [Next]_vars
               PROVE  [Protocol!Next]_(Protocol!vars)
    OBVIOUS
  <1>1. CASE \E c \in Channels : Work(c) \/ Surroundings(c)
    BY <1>1, WorkRefines, SurroundingsRefine
  <1>2. CASE Restart \/ ConcurrentMapFault
    BY <1>2, RestartRefines DEF Restart, ConcurrentMapFault
  <1>3. CASE (\E m \in Posts : Receive(m) \/ SendFails(m)) \/ UNCHANGED vars
    <2>1. UNCHANGED <<phase, finalizer, azureSessions>>
      BY <1>3 DEF Receive, SendFails, Resolve, NoSession, Publish, PublishFails,
         vars, dispatcherVars, objectVars
    <2> QED
      BY <2>1, Stutters
  <1> QED
    BY <1>1, <1>2, <1>3 DEF Next

LEMMA InitRefines == Init => Protocol!Init
PROOF
  BY DEF Init, NewDispatcher, Exists, Protocol!Init

\* The dispatcher's reconciler uses its finalizer as the protocol asks, for
\* any channels, workers, failures and restarts (azurechannel.go 163-192,
\* 273-299).
THEOREM FinalizerRefinement == Spec => FinalizerHonoured
PROOF
  BY ProtectedAlways, InitRefines, StepRefines, PTL
  DEF Spec, FinalizerHonoured, Protocol!Spec

=============================================================================
