-------------------------- MODULE HubCreation_proofs --------------------------
(***************************************************************************)
(* Proof that neither process of ChannelLifecycle creates a hub for a      *)
(* channel without its own finalizer, where channels are created without   *)
(* the annotation; for any number of incarnations, outages, changes,       *)
(* failures and restarts.                                                  *)
(***************************************************************************)
EXTENDS ChannelLifecycle_proofs

\* The controller's finalizer is on the object.
Owned(o) == "ctl" \in o.fins

\* A live object was annotated by a controller that had its finalizer on it.
AnnotationFits ==
  /\ Live(obj) /\ obj.annotated => Owned(obj)
  /\ Live(cache["ctl"]) /\ cache["ctl"].annotated => Owned(cache["ctl"])

\* The controller's finalizer is on the object whenever a live copy says so
\* and while ReconcileKind creates things; it is on no live object when one is
\* finalized.  A worker whose finalizer was not set has the empty copy or one
\* without the annotation.
OwnershipFits ==
  /\ Live(cache["ctl"]) /\ Owned(cache["ctl"]) => Owned(obj)
  /\ cache["ctl"].deleting => ~(Live(obj) /\ Owned(obj))
  /\ pc["ctl"] = "setFinalizer" =>
       /\ Live(ctl) /\ (Owned(ctl) => Owned(obj))
       /\ ctl.annotated => Owned(ctl)
  /\ pc["ctl"] = "annotate" =>
       /\ ctl.uid # 0 => Owned(ctl)
       /\ ctl.annotated => Owned(obj)
  /\ pc["ctl"] \in {"resources", "hub"} => Owned(obj)
  /\ pc["ctl"] \in {"finalize", "clearFinalizer"} =>
       /\ ~(Live(obj) /\ Owned(obj))
       /\ ~(Live(cache["ctl"]) /\ Owned(cache["ctl"]))

CreationFits == Fits /\ AnnotationFits /\ OwnershipFits

-----------------------------------------------------------------------------
\* A step that leaves alone what the controller's finalizer depends on.
KeepsOwner ==
  /\ obj'.uid = obj.uid /\ obj'.deleting = obj.deleting
  /\ obj'.annotated = obj.annotated
  /\ Owned(obj') <=> Owned(obj)
  /\ cache'["ctl"] = cache["ctl"]

LEMMA OwnerKept ==
  ASSUME AnnotationFits, OwnershipFits, KeepsOwner,
         \/ pc'["ctl"] = pc["ctl"] /\ resource'["ctl"] = resource["ctl"]
         \/ pc'["ctl"] \in {"hub", "status", "retry", "idle"} /\ pc["ctl"] = "resources"
         \/ pc'["ctl"] \in {"status", "retry", "idle"}
         \/ pc'["ctl"] = "clearFinalizer" /\ pc["ctl"] = "finalize"
  PROVE  AnnotationFits' /\ OwnershipFits'
PROOF
  BY DEF AnnotationFits, OwnershipFits, KeepsOwner, Live, ctl

\* The dispatcher writes an object as it is but for its own finalizer and the
\* status.
LEMMA DispatcherKeepsOwner ==
  ASSUME CreationFits, Dispatcher
  PROVE  AnnotationFits' /\ OwnershipFits'
PROOF
  <1>0. /\ Fits /\ AnnotationFits /\ OwnershipFits /\ DispatcherFits /\ obj \in Object
        /\ pc \in [Actors -> Stages] /\ "disp" \in Actors
    BY DEF CreationFits, Fits, TypeOK, Actors
  <1>1. /\ obj'.uid = obj.uid /\ obj'.deleting = obj.deleting
        /\ UNCHANGED cache
        /\ pc'["ctl"] = pc["ctl"] /\ resource'["ctl"] = resource["ctl"]
    BY <1>0, DispatcherStep DEF DispatcherMoves
  <1>2. \/ UNCHANGED obj
        \/ \E s \in Status : obj' = [obj EXCEPT !.status = s]
        \/ obj' = [obj EXCEPT !.fins = obj.fins \cup {"disp"}]
        \/ obj' = [obj EXCEPT !.fins = obj.fins \ {"disp"}]
    <2>1. CASE EnsureFinalizer
      BY <1>0, <2>1 DEF EnsureFinalizer, Store, Untouched, DispatcherFits
    <2>2. CASE RemoveFinalizer
      BY <1>0, <2>2 DEF RemoveFinalizer, Store, Untouched, DispatcherFits
    <2>3. CASE UpdateStatus
      <3>1. disp.status \in Status
        BY <1>0, EditedObjects DEF Fits, TypeOK, disp
      <3> QED
        BY <2>3, <3>1 DEF UpdateStatus, Store, Release
    <2>4. CASE Gone("disp") \/ DispReconcile \/ EnsureSession \/ Subscribe \/ CloseSession
      BY <2>4 DEF Gone, DispReconcile, Take, EnsureSession, Subscribe, CloseSession,
         Untouched
    <2> QED
      BY <2>1, <2>2, <2>3, <2>4 DEF Dispatcher
  <1>3. obj'.annotated = obj.annotated /\ (Owned(obj') <=> Owned(obj))
    BY <1>0, <1>2 DEF Owned, Object
  <1>4. KeepsOwner
    BY <1>1, <1>3 DEF KeepsOwner
  <1> QED
    BY <1>0, <1>1, <1>4, OwnerKept

\* What a patch of the finalizers does to the controller's.
LEMMA FilterOwns ==
  ASSUME TypeOK, CachesFit, NEW r \in Object, updateFinalizersFiltered(r)
  PROVE  \/ /\ obj' = obj /\ resource'["ctl"] = r
            /\ cache["ctl"].uid # 0 => (Owned(r) <=> Owned(cache["ctl"]))
         \/ /\ cache["ctl"] = obj /\ obj.uid # 0
            /\ obj'.uid = obj.uid /\ obj'.deleting = obj.deleting
            /\ obj'.annotated = obj.annotated
            /\ Owned(obj') <=> Owned(r)
            /\ Owned(r) => ~obj.deleting
            /\ resource'["ctl"] = obj'
         \/ obj' = obj /\ resource'["ctl"] = Absent
PROOF
  <1>0. /\ "ctl" \in Actors /\ CacheOf("ctl") = "ctl.cache"
        /\ obj \in Object /\ resource \in [Actors -> Object]
        /\ "ctl.cache" \in current => cache["ctl"] = obj
    BY DEF TypeOK, Actors, CacheOf, CachesFit
  <1>1. CASE Untouched /\ SetCtl(r)
             /\ (cache["ctl"].uid = 0 \/ ("ctl" \in r.fins) = ("ctl" \in cache["ctl"].fins))
    BY <1>0, <1>1 DEF Untouched, SetCtl, Owned
  <1>2. CASE Untouched /\ SetCtl(Absent)
    BY <1>0, <1>2 DEF Untouched, SetCtl
  <1>3. ASSUME NEW f, f \subseteq Actors, "ctl" \in f <=> "ctl" \in r.fins,
               Store([obj EXCEPT !.fins = f], {"ctl.resource"}),
               SetCtl([obj EXCEPT !.fins = f]),
               cache["ctl"].uid # 0, "ctl.cache" \in current,
               ~("ctl" \in r.fins /\ obj.deleting)
        PROVE  /\ cache["ctl"] = obj /\ obj.uid # 0
               /\ obj'.uid = obj.uid /\ obj'.deleting = obj.deleting
               /\ obj'.annotated = obj.annotated
               /\ Owned(obj') <=> Owned(r)
               /\ Owned(r) => ~obj.deleting
               /\ resource'["ctl"] = obj'
    BY <1>0, <1>3 DEF Store, SetCtl, Owned, Object
  <1>4. CASE /\ cache["ctl"].uid # 0 /\ "ctl.cache" \in current
             /\ ~("ctl" \in r.fins /\ obj.deleting)
             /\ \E f \in SUBSET Actors :
                  /\ "ctl" \in f <=> "ctl" \in r.fins
                  /\ Store([obj EXCEPT !.fins = f], {"ctl.resource"})
                  /\ SetCtl([obj EXCEPT !.fins = f])
    BY <1>3, <1>4
  <1>5. /\ cache["ctl"].fins \cup {"ctl"} \in SUBSET Actors
        /\ cache["ctl"].fins \ {"ctl"} \in SUBSET Actors
    BY <1>0, EditedObjects DEF TypeOK
  <1> QED
    BY <1>0, <1>1, <1>2, <1>4, <1>5 DEF updateFinalizersFiltered, PatchError

LEMMA ControllerOwns ==
  ASSUME CreationFits, Controller
  PROVE  AnnotationFits' /\ OwnershipFits'
PROOF
  <1>0. /\ TypeOK /\ AnnotationFits /\ OwnershipFits /\ ControllerFits /\ CachesFit
        /\ obj \in Object /\ ctl \in Object /\ pc \in [Actors -> Stages]
        /\ resource \in [Actors -> Object] /\ cache \in [Actors -> Object]
        /\ "ctl" \in Actors
    BY DEF CreationFits, Fits, TypeOK, Actors, ctl
  <1> USE DEF Continue, Goto, external, counters
  <1>1. CASE Gone("ctl")
    <2>1. KeepsOwner /\ pc' = pc /\ resource' = resource
      BY <1>1 DEF Gone, KeepsOwner
    <2> QED
      BY <1>0, <2>1, OwnerKept
  <1>2. CASE CtlReconcile
    <2>1. /\ UNCHANGED <<obj, cache>> /\ cache["ctl"].uid # 0
          /\ pc'["ctl"] = IF cache["ctl"].deleting THEN "finalize" ELSE "setFinalizer"
          /\ ctl' = cache["ctl"]
      BY <1>0, <1>2 DEF CtlReconcile, Take, ctl
    <2>2. CASE cache["ctl"].deleting
      BY <1>0, <2>1, <2>2 DEF AnnotationFits, OwnershipFits, Live
    <2>3. CASE ~cache["ctl"].deleting
      BY <1>0, <2>1, <2>3 DEF AnnotationFits, OwnershipFits, Live
    <2> QED
      BY <2>2, <2>3
  <1>3. CASE SetFinalizer
    <2> DEFINE r == [ctl EXCEPT !.fins = ctl.fins \cup {"ctl"}]
    <2>1. /\ r \in Object /\ Owned(r) /\ r.annotated = ctl.annotated
          /\ r.uid = ctl.uid /\ updateFinalizersFiltered(r)
      BY <1>0, <1>3, EditedObjects DEF SetFinalizer, Owned, Object
    <2> HIDE DEF r
    <2>2. /\ pc["ctl"] = "setFinalizer" /\ pc'["ctl"] = "annotate" /\ cache' = cache
          /\ Live(ctl) /\ (ctl.annotated => Owned(obj))
      BY <1>0, <1>3 DEF SetFinalizer, OwnershipFits
    <2>3. CASE /\ obj' = obj /\ ctl' = r
      BY <1>0, <2>1, <2>2, <2>3 DEF AnnotationFits, OwnershipFits
    <2>4. CASE /\ cache["ctl"] = obj /\ obj.uid # 0
               /\ obj'.uid = obj.uid /\ obj'.deleting = obj.deleting
               /\ Owned(obj') /\ ~obj.deleting
               /\ ctl' = obj'
      BY <1>0, <2>1, <2>2, <2>4 DEF AnnotationFits, OwnershipFits
    <2>5. CASE obj' = obj /\ ctl' = Absent
      <3>1. ctl'.uid = 0 /\ ~ctl'.annotated
        BY <2>5 DEF Absent
      <3> QED
        BY <1>0, <2>2, <2>5, <3>1 DEF AnnotationFits, OwnershipFits
    <2> QED
      BY <1>0, <2>1, <2>3, <2>4, <2>5, FilterOwns DEF ctl
  <1>4. CASE SetAnnotations
    <2>1. /\ pc["ctl"] = "annotate" /\ cache' = cache
          /\ pc'["ctl"] \in {"resources", "status"}
          /\ ctl.uid # 0 => Owned(ctl)
          /\ ctl.annotated => Owned(obj)
      BY <1>0, <1>4 DEF SetAnnotations, OwnershipFits
    <2>2. CASE ctl.annotated /\ obj' = obj
      BY <1>0, <2>1, <2>2 DEF AnnotationFits, OwnershipFits
    <2>3. CASE pc'["ctl"] = "status" /\ obj' = obj
      BY <1>0, <2>1, <2>3 DEF AnnotationFits, OwnershipFits
    <2>4. CASE /\ ctl.uid # 0 /\ "ctl.resource" \in current
               /\ obj' = [obj EXCEPT !.annotated = TRUE, !.fins = ctl.fins]
      <3>1. ctl.fins = obj.fins /\ Owned(ctl)
        BY <1>0, <2>1, <2>4 DEF ControllerFits
      <3>2. /\ obj'.uid = obj.uid /\ obj'.deleting = obj.deleting
            /\ Owned(obj') /\ Owned(obj)
        BY <1>0, <2>4, <3>1 DEF Owned, Object
      <3> QED
        BY <1>0, <2>1, <3>2 DEF AnnotationFits, OwnershipFits, Live
    <2> QED
      BY <1>0, <1>4, <2>2, <2>3, <2>4 DEF SetAnnotations, Store, Untouched
  <1>5. CASE ReconcileResources \/ ReconcileHub \/ FinalizeKind
    <2>1. /\ UNCHANGED <<obj, cache>>
          /\ \/ pc["ctl"] = "resources" /\ pc'["ctl"] \in {"hub", "status"}
             \/ pc'["ctl"] = "status"
             \/ pc["ctl"] = "finalize" /\ pc'["ctl"] = "clearFinalizer"
      BY <1>0, <1>5 DEF ReconcileResources, ReconcileHub, FinalizeKind, Untouched
    <2>2. KeepsOwner
      BY <2>1 DEF KeepsOwner
    <2> QED
      BY <1>0, <2>1, <2>2, OwnerKept
  <1>6. CASE ClearFinalizer
    <2> DEFINE r == [ctl EXCEPT !.fins = IF err["ctl"] THEN ctl.fins ELSE ctl.fins \ {"ctl"}]
    <2>1. r \in Object /\ updateFinalizersFiltered(r)
      BY <1>0, <1>6, EditedObjects DEF ClearFinalizer
    <2> HIDE DEF r
    <2>2. /\ pc'["ctl"] = "status" /\ cache' = cache
          /\ ~(Live(obj) /\ Owned(obj))
      BY <1>0, <1>6 DEF ClearFinalizer, OwnershipFits
    <2>3. CASE obj' = obj
      BY <1>0, <2>2, <2>3 DEF AnnotationFits, OwnershipFits
    <2>4. CASE /\ cache["ctl"] = obj /\ obj.uid # 0
               /\ obj'.uid = obj.uid /\ obj'.deleting = obj.deleting
               /\ obj'.annotated = obj.annotated
               /\ Owned(obj') => ~obj.deleting
      BY <1>0, <2>2, <2>4 DEF AnnotationFits, OwnershipFits, Live
    <2> QED
      BY <1>0, <2>1, <2>3, <2>4, FilterOwns
  <1>7. CASE SyncStatus \/ RetryStatus
    <2>1. /\ UNCHANGED cache /\ pc'["ctl"] \in {"idle", "retry"}
          /\ obj' = obj \/ obj' = [obj EXCEPT !.status = ctl.status]
      BY <1>0, <1>7 DEF SyncStatus, RetryStatus, Return, Release, Untouched, Store
    <2>2. KeepsOwner
      BY <1>0, <2>1 DEF KeepsOwner, Owned, Object
    <2> QED
      BY <1>0, <2>1, <2>2, OwnerKept
  <1> QED
    BY <1>1, <1>2, <1>3, <1>4, <1>5, <1>6, <1>7 DEF Controller

LEMMA SurroundingsOwn ==
  ASSUME CreationFits, Annotated = {FALSE}, Surroundings
  PROVE  AnnotationFits' /\ OwnershipFits'
PROOF
  <1>0. /\ Fits /\ TypeOK /\ AnnotationFits /\ OwnershipFits /\ ObjectFits
        /\ obj \in Object /\ pc \in [Actors -> Stages]
        /\ resource \in [Actors -> Object] /\ cache \in [Actors -> Object]
        /\ "ctl" \in Actors
    BY DEF CreationFits, Fits, TypeOK, Actors
  <1> USE DEF workers, external, counters
  <1>1. ASSUME NEW a \in Actors, Sync(a) \/ Restart(a)
        PROVE  AnnotationFits' /\ OwnershipFits'
    <2>1. /\ UNCHANGED obj
          /\ cache'["ctl"] \in {cache["ctl"], obj}
          /\ \/ pc'["ctl"] = "idle"
             \/ pc'["ctl"] = pc["ctl"] /\ ctl' = ctl
      BY <1>0, <1>1 DEF Sync, Restart, Goto, ctl
    <2> QED
      BY <1>0, <2>1 DEF AnnotationFits, OwnershipFits, Live
  <1>2. CASE (\E a \in Actors : Resync(a)) \/ Outage
    <2>1. KeepsOwner /\ pc' = pc /\ resource' = resource
      BY <1>2 DEF Resync, Outage, KeepsOwner
    <2> QED
      BY <1>0, <2>1, OwnerKept
  <1>3. CASE CreateChannel
    <2>1. /\ obj.uid = 0 /\ UNCHANGED <<cache, pc, resource>>
          /\ obj' = [Absent EXCEPT !.uid = created + 1, !.annotated = FALSE]
      BY <1>3 DEF CreateChannel, Store
    <2>2. ~obj'.annotated /\ ~Owned(obj') /\ ~Owned(obj)
      BY <1>0, <2>1 DEF Absent, Owned, ObjectFits
    <2> QED
      BY <1>0, <2>1, <2>2 DEF AnnotationFits, OwnershipFits, Live, ctl
  <1>4. CASE DeleteChannel
    <2>1. /\ UNCHANGED <<cache, pc, resource>> /\ obj' = [obj EXCEPT !.deleting = TRUE]
      BY <1>4 DEF DeleteChannel, Store
    <2>2. obj'.deleting /\ (Owned(obj') <=> Owned(obj))
      BY <1>0, <2>1 DEF Owned, Object
    <2> QED
      BY <1>0, <2>1, <2>2 DEF AnnotationFits, OwnershipFits, Live, ctl
  <1>5. CASE Collect
    <2>1. /\ UNCHANGED <<cache, pc, resource>> /\ obj' = Absent /\ obj.fins = {}
      BY <1>5 DEF Collect, Store
    <2>2. ~Owned(obj) /\ ~Owned(obj') /\ obj'.uid = 0
      BY <2>1 DEF Owned, Absent
    <2> QED
      BY <1>0, <2>1, <2>2 DEF AnnotationFits, OwnershipFits, Live, ctl
  <1> QED
    BY <1>1, <1>2, <1>3, <1>4, <1>5 DEF Surroundings

LEMMA CreationInvariant ==
  ASSUME Annotated = {FALSE}
  PROVE  Spec => []CreationFits
PROOF
  <1>1. Init => AnnotationFits /\ OwnershipFits
    BY DEF Init, AnnotationFits, OwnershipFits, Absent, Live, Actors
  <1>2. CreationFits /\ [Next]_vars => (AnnotationFits /\ OwnershipFits)'
    <2> SUFFICES ASSUME CreationFits, [Next]_vars
                 PROVE  AnnotationFits' /\ OwnershipFits'
      OBVIOUS
    <2>1. CASE UNCHANGED vars
      BY <2>1 DEF vars, workers, CreationFits, AnnotationFits, OwnershipFits, ctl
    <2> QED
      BY <2>1, ControllerOwns, DispatcherKeepsOwner, SurroundingsOwn, NextCases
  <1> QED
    BY <1>1, <1>2, FitsInvariant, PTL DEF Spec, CreationFits

\* A hub is created only while the finalizer of the process that creates it is
\* on the object (reconciler/dispatcher/azurechannel.go 178-182), where channels
\* come without the annotation: the controller goes on when its finalizer is
\* not set (reconciler.go 162-168), and setAnnotations stops it.
THEOREM HubsCreatedUnderFinalizer ==
  ASSUME Annotated = {FALSE}
  PROVE  Spec => HubCreatedUnderFinalizer
PROOF
  <1> DEFINE Covered ==
        ~hub /\ hub' => \/ pc["ctl"] = "hub" /\ "ctl" \in obj.fins
                        \/ pc["disp"] = "session" /\ "disp" \in obj.fins
  <1>1. CreationFits /\ [Next]_vars => [Covered]_vars
    <2> SUFFICES ASSUME CreationFits, [Next]_vars PROVE hub' = hub \/ Covered
      BY DEF vars, external
    <2> USE DEF external, counters, workers
    <2>0. /\ pc["ctl"] \in {"resources", "hub"} => "ctl" \in obj.fins
          /\ pc["disp"] \in {"session", "subscriptions"} => "disp" \in obj.fins
          /\ hub \in BOOLEAN
      BY DEF CreationFits, OwnershipFits, Owned, Fits, FinalizerFits, Finalized, TypeOK
    <2>1. CASE ReconcileHub
      BY <2>0, <2>1 DEF ReconcileHub
    <2>2. CASE EnsureSession
      BY <2>0, <2>2 DEF EnsureSession
    <2>3. CASE FinalizeKind
      BY <2>0, <2>3 DEF FinalizeKind
    <2>4. CASE Controller /\ ~ReconcileHub /\ ~FinalizeKind
      BY <2>4 DEF Controller, Gone, CtlReconcile, Take, SetFinalizer, SetAnnotations,
         ReconcileResources, ClearFinalizer, SyncStatus, RetryStatus
    <2>5. CASE Dispatcher /\ ~EnsureSession
      BY <2>5 DEF Dispatcher, Gone, DispReconcile, Take, EnsureFinalizer, Subscribe,
         CloseSession, RemoveFinalizer, UpdateStatus
    <2>6. CASE Surroundings
      BY <2>6 DEF Surroundings, Sync, Resync, Restart, CreateChannel, DeleteChannel,
         Collect, Outage
    <2>7. CASE UNCHANGED vars
      BY <2>7 DEF vars
    <2> QED
      BY <2>1, <2>2, <2>3, <2>4, <2>5, <2>6, <2>7, NextCases
  <1> QED
    BY <1>1, CreationInvariant, PTL DEF Spec, HubCreatedUnderFinalizer
===============================================================================
