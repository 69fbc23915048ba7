------------------------ MODULE ChannelLifecycle_proofs ------------------------
(***************************************************************************)
(* Proofs about ChannelLifecycle for any number of incarnations, outages,  *)
(* changes, failures and restarts, and whether or not a channel may be     *)
(* created with the annotation.                                            *)
(***************************************************************************)
EXTENDS ChannelLifecycle, TLAPS

(***************************************************************************)
(* The inductive invariant, part by part.                                  *)
(***************************************************************************)

\* The name stands for the last object created under it, or for none.
ObjectFits ==
  /\ obj.uid \in {0, created}
  /\ obj.uid = 0 => obj = Absent

\* A cache with the object's resourceVersion is the object.
CachesFit == \A a \in Actors : CacheOf(a) \in current => cache[a] = obj

\* What the controller's copy agrees with while it may still be written back
\* as a whole, and its original at any time.
ControllerFits ==
  /\ pc["ctl"] = "setFinalizer" /\ "ctl.resource" \in current =>
       /\ "ctl.cache" \in current
       /\ ctl.uid = obj.uid /\ ctl.uid # 0 /\ ctl.fins = obj.fins
  /\ pc["ctl"] = "annotate" /\ "ctl.resource" \in current /\ ctl.uid # 0 =>
       ctl.uid = obj.uid /\ ctl.fins = obj.fins
  /\ pc["ctl"] # "idle" /\ "ctl.original" \in current => obj.uid # 0

\* The same of the dispatcher's copy.
DispatcherFits ==
  pc["disp"] \in {"ensureFinalizer", "removeFinalizer", "closeSession"}
    /\ "disp.resource" \in current =>
       /\ "disp.cache" \in current
       /\ disp.uid = obj.uid /\ disp.uid # 0 /\ disp.deleting = obj.deleting
       /\ disp.fins = obj.fins

Live(o) == o.uid # 0 /\ ~o.deleting

Finalized(o) == "disp" \in o.fins

\* The dispatcher's finalizer is on the object whenever a live copy says so,
\* from its being persisted to the end of the reconcile and while there is a
\* session; it is on no live object when one is finalized.
FinalizerFits ==
  /\ Live(cache["disp"]) /\ Finalized(cache["disp"]) => Finalized(obj)
  /\ cache["disp"].deleting => ~(Live(obj) /\ Finalized(obj))
  /\ pc["disp"] = "ensureFinalizer" =>
       Live(disp) /\ (Finalized(disp) => Finalized(obj))
  /\ pc["disp"] \in {"session", "subscriptions"} => Finalized(obj)
  /\ pc["disp"] \in {"closeSession", "removeFinalizer"} =>
       /\ ~(Live(obj) /\ Finalized(obj))
       /\ ~(Live(cache["disp"]) /\ Finalized(cache["disp"]))
  /\ pc["disp"] = "removeFinalizer" => ~session
  /\ session => Finalized(obj)

\* The first object under the name is being deleted or gone.
FirstIsOver ==
  obj.deleting \/ created > 1 \/ (created = 1 /\ obj.uid = 0)

\* Whoever has HubReady has it from when the hub was created, and the hub is
\* deleted only for an object that is deleted.
HubFits ==
  /\ obj.status.hub => hub \/ FirstIsOver
  /\ \A a \in Actors :
       cache[a].status.hub \/ resource[a].status.hub => hub \/ FirstIsOver
  /\ cache["ctl"].deleting \/ pc["ctl"] = "finalize" => FirstIsOver

-----------------------------------------------------------------------------
(* Type correctness. *)

LEMMA AbsentType == Absent \in Object /\ NoStatus \in Status
PROOF
  BY LifecycleParameters DEF Absent, Object, NoStatus, Status

LEMMA TypeInit == Init => TypeOK
PROOF
  <1> SUFFICES ASSUME Init PROVE TypeOK
    OBVIOUS
  <1>1. secret \in BOOLEAN /\ available \in BOOLEAN
    BY DEF Init
  <1>2. created \in 0..MaxIncarnations /\ changes \in 0..MaxChanges
        /\ failures \in 0..MaxFailures /\ restarts \in 0..MaxRestarts
    BY LifecycleParameters DEF Init
  <1>3. current \subseteq Copies /\ pc \in [Actors -> Stages]
    BY DEF Init, Copies, Stages
  <1> QED
    BY <1>1, <1>2, <1>3, AbsentType DEF Init, TypeOK

\* An object with other finalizers, another status, or the annotation.
LEMMA EditedObjects ==
  ASSUME NEW o \in Object
  PROVE  /\ o.uid \in 0..MaxIncarnations /\ o.deleting \in BOOLEAN
         /\ o.fins \subseteq Actors /\ o.annotated \in BOOLEAN
         /\ o.status \in Status
         /\ \A f \in SUBSET Actors : [o EXCEPT !.fins = f] \in Object
         /\ \A t \in Status : [o EXCEPT !.status = t] \in Object
         /\ \A f \in SUBSET Actors :
              [o EXCEPT !.annotated = TRUE, !.fins = f] \in Object
         /\ [o EXCEPT !.deleting = TRUE] \in Object
PROOF
  BY DEF Object

\* A copy of which a condition is marked.
LEMMA MarkedObjects ==
  ASSUME NEW o \in Object, NEW b \in BOOLEAN
  PROVE  /\ [o EXCEPT !.status.up = b] \in Object
         /\ [o EXCEPT !.status.hub = b] \in Object
         /\ [o EXCEPT !.status.sub = b] \in Object
         /\ [o EXCEPT !.annotated = TRUE, !.status.init = b] \in Object
PROOF
  BY DEF Object, Status

\* What a worker that returns leaves behind.
LEMMA ReturnType ==
  ASSUME TypeOK, NEW a \in Actors, NEW failed, Return(a, failed)
  PROVE  /\ resource' \in [Actors -> Object] /\ original' \in Status
         /\ queue' \subseteq Actors /\ pc' \in [Actors -> Stages]
         /\ err' \in [Actors -> BOOLEAN]
         /\ \A b \in Actors : pc'[b] = "idle" => resource'[b] = Absent
PROOF
  BY AbsentType DEF TypeOK, Return, Goto, Stages

\* A worker changes only its own copy, and only while it is busy.
LEMMA BusyKeeps ==
  ASSUME TypeOK, NEW a \in Actors, NEW stage, Goto(a, stage), stage # "idle",
         NEW o, resource' = [resource EXCEPT ![a] = o] \/ UNCHANGED resource
  PROVE  \A b \in Actors : pc'[b] = "idle" => resource'[b] = Absent
PROOF
  BY DEF TypeOK, Goto

LEMMA StoreType ==
  ASSUME TypeOK, NEW o \in Object, NEW holders \in SUBSET Copies,
         Store(o, holders)
  PROVE  obj' \in Object /\ current' \subseteq Copies
PROOF
  BY DEF TypeOK, Store

LEMMA FiltersType ==
  ASSUME TypeOK, NEW r \in Object, updateFinalizersFiltered(r)
  PROVE  /\ obj' \in Object /\ current' \subseteq Copies
         /\ resource' \in [Actors -> Object] /\ failures' \in 0..MaxFailures
         /\ \E o \in Object : SetCtl(o)
PROOF
  <1>0. /\ "ctl" \in Actors /\ obj \in Object /\ cache["ctl"] \in Object
        /\ {"ctl.resource"} \in SUBSET Copies
    BY DEF TypeOK, Actors, Copies
  <1>1. failures' \in 0..MaxFailures
    BY LifecycleParameters
    DEF TypeOK, updateFinalizersFiltered, Refused, CallFails
  <1> DEFINE existing == cache["ctl"]
             wants == "ctl" \in r.fins
             patched == [obj EXCEPT !.fins = IF wants THEN existing.fins \cup {"ctl"}
                                                      ELSE existing.fins \ {"ctl"}]
  <1>2. patched \in Object
    BY <1>0, EditedObjects
  <1> HIDE DEF patched
  <1>3. \/ Untouched /\ \E q \in Object : SetCtl(q)
        \/ Store(patched, {"ctl.resource"}) /\ SetCtl(patched)
    BY AbsentType DEF updateFinalizersFiltered, PatchError, patched
  <1>4. obj' \in Object /\ current' \subseteq Copies
    <2>1. CASE Untouched
      BY <2>1 DEF Untouched, TypeOK
    <2>2. CASE Store(patched, {"ctl.resource"})
      BY <1>0, <1>2, <2>2, StoreType
    <2> QED
      BY <1>3, <2>1, <2>2
  <1>5. resource' \in [Actors -> Object]
    BY <1>2, <1>3 DEF SetCtl, TypeOK
  <1> QED
    BY <1>1, <1>2, <1>3, <1>4, <1>5

LEMMA ControllerType ==
  ASSUME TypeOK, Controller
  PROVE  TypeOK'
PROOF
  <1>0. /\ "ctl" \in Actors /\ ctl \in Object /\ obj \in Object
        /\ cache["ctl"] \in Object /\ {} \in SUBSET Copies
    BY DEF TypeOK, Actors, ctl
  <1>c. ASSUME NEW stage, Continue("ctl", stage), stage # "idle",
               (\E o : SetCtl(o)) \/ UNCHANGED resource
        PROVE  \A b \in Actors : pc'[b] = "idle" => resource'[b] = Absent
    BY <1>0, <1>c, BusyKeeps DEF Continue, SetCtl
  <1> USE DEF Continue, Goto, Untouched, external, counters
  <1>f. ASSUME NEW ok, Refused(ok) \/ CallFails \/ UNCHANGED failures
        PROVE  failures' \in 0..MaxFailures
    BY <1>f, LifecycleParameters DEF Refused, CallFails, TypeOK
  <1>1. CASE Gone("ctl")
    BY <1>1 DEF Gone, TypeOK
  <1>2. CASE CtlReconcile
    <2>1. cache["ctl"].status \in Status
      BY <1>0, EditedObjects
    <2>2. current' \subseteq Copies
      BY <1>2 DEF CtlReconcile, Take, TypeOK, WorkingCopies, Copies
    <2> QED
      BY <1>0, <1>2, <2>1, <2>2 DEF CtlReconcile, Take, TypeOK, Stages
  <1>3. CASE SetFinalizer
    <2>1. [ctl EXCEPT !.fins = @ \cup {"ctl"}] \in Object
      BY <1>0, EditedObjects
    <2>2. \A b \in Actors : pc'[b] = "idle" => resource'[b] = Absent
      BY <1>3, <1>c, <2>1, FiltersType DEF SetFinalizer
    <2> QED
      BY <1>3, <2>1, <2>2, FiltersType DEF SetFinalizer, TypeOK, Stages
  <1>4. CASE SetAnnotations
    <2>1. resource' \in [Actors -> Object]
      BY <1>0, <1>4, MarkedObjects DEF SetAnnotations, SetCtl, TypeOK
    <2>2. obj' \in Object /\ current' \subseteq Copies
      <3>1. [obj EXCEPT !.annotated = TRUE, !.fins = ctl.fins] \in Object
        BY <1>0, EditedObjects
      <3>2. CASE Store([obj EXCEPT !.annotated = TRUE, !.fins = ctl.fins], {})
        BY <1>0, <3>1, <3>2, StoreType
      <3>3. CASE Untouched
        BY <3>3 DEF TypeOK
      <3> QED
        BY <1>4, <3>2, <3>3 DEF SetAnnotations
    <2>3. failures' \in 0..MaxFailures
      BY <1>4, <1>f DEF SetAnnotations
    <2>4. \A b \in Actors : pc'[b] = "idle" => resource'[b] = Absent
      BY <1>4, <1>c DEF SetAnnotations
    <2> QED
      BY <1>4, <2>1, <2>2, <2>3, <2>4 DEF SetAnnotations, TypeOK, Stages
  <1>5. CASE ReconcileResources
    <2>1. resource' \in [Actors -> Object]
      <3>1. available \in BOOLEAN /\ (available /\ ctl.status.up) \in BOOLEAN
        BY <1>0 DEF TypeOK, Object, Status
      <3>2. PICK up \in BOOLEAN :
              resource' = [resource EXCEPT !["ctl"] = [ctl EXCEPT !.status.up = up]]
        BY <1>5, <3>1 DEF ReconcileResources, SetCtl
      <3>3. [ctl EXCEPT !.status.up = up] \in Object
        BY <1>0, MarkedObjects
      <3> QED
        BY <3>2, <3>3 DEF TypeOK
    <2>2. failures' \in 0..MaxFailures
      BY <1>5, <1>f DEF ReconcileResources
    <2>3. \A b \in Actors : pc'[b] = "idle" => resource'[b] = Absent
      BY <1>5, <1>c DEF ReconcileResources
    <2> QED
      BY <1>5, <2>1, <2>2, <2>3 DEF ReconcileResources, TypeOK, Stages
  <1>6. CASE ReconcileHub
    <2>1. resource' \in [Actors -> Object]
      BY <1>0, <1>6, MarkedObjects DEF ReconcileHub, SetCtl, TypeOK
    <2>2. failures' \in 0..MaxFailures
      BY <1>6, <1>f DEF ReconcileHub
    <2>3. hub' \in BOOLEAN
      BY <1>6 DEF ReconcileHub, TypeOK
    <2>4. \A b \in Actors : pc'[b] = "idle" => resource'[b] = Absent
      BY <1>6, <1>c DEF ReconcileHub
    <2> QED
      BY <1>6, <2>1, <2>2, <2>3, <2>4 DEF ReconcileHub, TypeOK, Stages
  <1>7. CASE FinalizeKind
    <2>1. failures' \in 0..MaxFailures
      BY <1>7, <1>f DEF FinalizeKind
    <2>2. hub' \in BOOLEAN
      BY <1>7 DEF FinalizeKind, TypeOK
    <2> QED
      BY <1>7, <2>1, <2>2 DEF FinalizeKind, TypeOK, Stages
  <1>8. CASE ClearFinalizer
    <2>1. [ctl EXCEPT !.fins = IF err["ctl"] THEN @ ELSE @ \ {"ctl"}] \in Object
      BY <1>0, EditedObjects
    <2>2. \A b \in Actors : pc'[b] = "idle" => resource'[b] = Absent
      BY <1>8, <1>c, <2>1, FiltersType DEF ClearFinalizer
    <2> QED
      BY <1>8, <2>1, <2>2, FiltersType DEF ClearFinalizer, TypeOK, Stages
  <1>9. CASE SyncStatus \/ RetryStatus
    <2>1. /\ failures' \in 0..MaxFailures
          /\ \/ \E failed : Return("ctl", failed)
             \/ Continue("ctl", "retry") /\ UNCHANGED <<resource, err>>
          /\ \/ Store([obj EXCEPT !.status = ctl.status], {})
             \/ Release("ctl") \/ Untouched
          /\ UNCHANGED <<cache, session, external, created, changes, restarts>>
      BY <1>9, <1>f DEF SyncStatus, RetryStatus
    <2>2. [obj EXCEPT !.status = ctl.status] \in Object
      BY <1>0, EditedObjects
    <2>3. obj' \in Object /\ current' \subseteq Copies
      BY <1>0, <2>1, <2>2, StoreType DEF Release, TypeOK
    <2>4. /\ resource' \in [Actors -> Object] /\ original' \in Status
          /\ queue' \subseteq Actors /\ pc' \in [Actors -> Stages]
          /\ err' \in [Actors -> BOOLEAN]
          /\ \A b \in Actors : pc'[b] = "idle" => resource'[b] = Absent
      BY <1>0, <1>c, <2>1, ReturnType DEF TypeOK, Stages
    <2> QED
      BY <2>1, <2>3, <2>4 DEF TypeOK
  <1> QED
    BY <1>1, <1>2, <1>3, <1>4, <1>5, <1>6, <1>7, <1>8, <1>9 DEF Controller

LEMMA DispatcherType ==
  ASSUME TypeOK, Dispatcher
  PROVE  TypeOK'
PROOF
  <1>0. /\ "disp" \in Actors /\ disp \in Object /\ obj \in Object
        /\ cache["disp"] \in Object /\ {} \in SUBSET Copies
    BY DEF TypeOK, Actors, disp
  <1> USE DEF Continue, Goto, Untouched, external, counters
  <1>f. ASSUME NEW ok, Refused(ok) \/ CallFails \/ UNCHANGED failures
        PROVE  failures' \in 0..MaxFailures
    BY <1>f, LifecycleParameters DEF Refused, CallFails, TypeOK
  <1>s. ASSUME NEW f \in SUBSET Actors,
               Store([obj EXCEPT !.fins = f], {}) \/ Untouched
        PROVE  obj' \in Object /\ current' \subseteq Copies
    <2>1. [obj EXCEPT !.fins = f] \in Object
      BY <1>0, EditedObjects
    <2>2. CASE Untouched
      BY <2>2 DEF TypeOK
    <2> QED
      BY <1>0, <1>s, <2>1, <2>2, StoreType
  <1>1. CASE Gone("disp")
    BY <1>1 DEF Gone, TypeOK
  <1>2. CASE DispReconcile
    <2>1. current' \subseteq Copies
      BY <1>2 DEF DispReconcile, Take, TypeOK, WorkingCopies, Copies
    <2> QED
      BY <1>0, <1>2, <2>1 DEF DispReconcile, Take, TypeOK, Stages
  <1>3. CASE EnsureFinalizer
    <2>1. disp.fins \cup {"disp"} \in SUBSET Actors
      BY <1>0, EditedObjects
    <2>2. obj' \in Object /\ current' \subseteq Copies
      BY <1>3, <1>s, <2>1 DEF EnsureFinalizer
    <2>3. failures' \in 0..MaxFailures
      BY <1>3, <1>f DEF EnsureFinalizer
    <2> QED
      BY <1>3, <2>2, <2>3 DEF EnsureFinalizer, DispFails, TypeOK, Stages
  <1>4. CASE EnsureSession
    <2>1. failures' \in 0..MaxFailures
      BY <1>4, <1>f DEF EnsureSession
    <2>2. hub' \in BOOLEAN /\ session' \in BOOLEAN
      BY <1>4 DEF EnsureSession, TypeOK
    <2> QED
      BY <1>4, <2>1, <2>2 DEF EnsureSession, DispFails, TypeOK, Stages
  <1>5. CASE Subscribe
    <2>1. resource' \in [Actors -> Object]
      BY <1>0, <1>5, MarkedObjects DEF Subscribe, SetDisp, TypeOK
    <2>2. failures' \in 0..MaxFailures
      BY <1>5, <1>f DEF Subscribe
    <2>3. \A b \in Actors : pc'[b] = "idle" => resource'[b] = Absent
      BY <1>0, <1>5, BusyKeeps DEF Subscribe, DispFails, SetDisp
    <2> QED
      BY <1>5, <2>1, <2>2, <2>3 DEF Subscribe, DispFails, TypeOK, Stages
  <1>6. CASE CloseSession
    BY <1>6 DEF CloseSession, TypeOK, Stages
  <1>7. CASE RemoveFinalizer
    <2>1. disp.fins \ {"disp"} \in SUBSET Actors
      BY <1>0, EditedObjects
    <2>2. obj' \in Object /\ current' \subseteq Copies
      BY <1>7, <1>s, <2>1 DEF RemoveFinalizer
    <2>3. failures' \in 0..MaxFailures
      BY <1>7, <1>f DEF RemoveFinalizer
    <2> QED
      BY <1>7, <2>2, <2>3 DEF RemoveFinalizer, DispFails, TypeOK, Stages
  <1>8. CASE UpdateStatus
    <2>1. /\ failures' \in 0..MaxFailures
          /\ \E failed : Return("disp", failed)
          /\ Store([obj EXCEPT !.status = disp.status], {}) \/ Release("disp")
          /\ UNCHANGED <<cache, session, external, created, changes, restarts>>
      BY <1>8, <1>f DEF UpdateStatus
    <2>2. [obj EXCEPT !.status = disp.status] \in Object
      BY <1>0, EditedObjects
    <2>3. obj' \in Object /\ current' \subseteq Copies
      BY <1>0, <2>1, <2>2, StoreType DEF Release, TypeOK
    <2>4. /\ resource' \in [Actors -> Object] /\ original' \in Status
          /\ queue' \subseteq Actors /\ pc' \in [Actors -> Stages]
          /\ err' \in [Actors -> BOOLEAN]
          /\ \A b \in Actors : pc'[b] = "idle" => resource'[b] = Absent
      BY <1>0, <2>1, ReturnType
    <2> QED
      BY <2>1, <2>3, <2>4 DEF TypeOK
  <1> QED
    BY <1>1, <1>2, <1>3, <1>4, <1>5, <1>6, <1>7, <1>8 DEF Dispatcher

\* Informers, users, the API server, outages and restarts.
Surroundings ==
  \/ \E a \in Actors : Sync(a) \/ Resync(a) \/ Restart(a)
  \/ CreateChannel \/ DeleteChannel \/ Collect \/ Outage

LEMMA SurroundingsType ==
  ASSUME TypeOK, Surroundings
  PROVE  TypeOK'
PROOF
  <1>0. /\ obj \in Object /\ {} \in SUBSET Copies
        /\ \A a \in Actors : CacheOf(a) \in Copies
    BY DEF TypeOK, CacheOf, Copies
  <1> USE DEF workers, external, counters, Goto
  <1>1. ASSUME NEW a \in Actors, Sync(a) PROVE TypeOK'
    BY <1>0, <1>1 DEF Sync, TypeOK
  <1>2. ASSUME NEW a \in Actors, Resync(a) PROVE TypeOK'
    BY <1>2, LifecycleParameters DEF Resync, CountChange, TypeOK
  <1>3. ASSUME NEW a \in Actors, Restart(a) PROVE TypeOK'
    <2>1. current' \subseteq Copies
      BY <1>0, <1>3 DEF Restart, TypeOK
    <2>2. restarts' \in 0..MaxRestarts
      BY <1>3, LifecycleParameters DEF Restart, TypeOK
    <2>3. session' \in BOOLEAN
      BY <1>3 DEF Restart
    <2> QED
      BY <1>3, <2>1, <2>2, <2>3, AbsentType DEF Restart, TypeOK, Stages
  <1>4. CASE CreateChannel
    <2>1. created' \in 0..MaxIncarnations
      BY <1>4, LifecycleParameters DEF CreateChannel, TypeOK
    <2>2. ASSUME NEW a \in Annotated
          PROVE  [Absent EXCEPT !.uid = created + 1, !.annotated = a] \in Object
      BY <1>4, <2>1, LifecycleParameters, AbsentType DEF CreateChannel, Object
    <2>3. obj' \in Object /\ current' \subseteq Copies
      BY <1>0, <1>4, <2>2, StoreType DEF CreateChannel
    <2> QED
      BY <1>4, <2>1, <2>3 DEF CreateChannel, TypeOK
  <1>5. CASE DeleteChannel
    <2>1. obj' \in Object /\ current' \subseteq Copies
      BY <1>0, <1>5, EditedObjects, StoreType DEF DeleteChannel
    <2>2. changes' \in 0..MaxChanges
      BY <1>5, LifecycleParameters DEF DeleteChannel, CountChange, TypeOK
    <2> QED
      BY <1>5, <2>1, <2>2 DEF DeleteChannel, TypeOK
  <1>6. CASE Collect
    <2>1. obj' \in Object /\ current' \subseteq Copies
      BY <1>0, <1>6, AbsentType, StoreType DEF Collect
    <2> QED
      BY <1>6, <2>1 DEF Collect, TypeOK
  <1>7. CASE Outage
    <2>1. changes' \in 0..MaxChanges
      BY <1>7, LifecycleParameters DEF Outage, CountChange, TypeOK
    <2>2. /\ secret' \in BOOLEAN /\ available' \in BOOLEAN
          /\ queue' \subseteq Actors
      BY <1>7 DEF Outage, TypeOK, Actors
    <2> QED
      BY <1>7, <2>1, <2>2 DEF Outage, TypeOK
  <1> QED
    BY <1>1, <1>2, <1>3, <1>4, <1>5, <1>6, <1>7 DEF Surroundings

LEMMA NextCases == Next => Controller \/ Dispatcher \/ Surroundings
PROOF
  BY DEF Next, Surroundings

LEMMA TypeStep == TypeOK /\ [Next]_vars => TypeOK'
PROOF
  <1>1. ASSUME TypeOK, UNCHANGED vars PROVE TypeOK'
    BY <1>1 DEF TypeOK, vars, workers, external, counters
  <1> QED
    BY <1>1, NextCases, ControllerType, DispatcherType, SurroundingsType

\* Every reachable state is well typed, also after a failed patch has given a
\* worker an empty copy (reconciler.go 155-192, 238-344; types.go 55-71).
THEOREM TypeCorrect == Spec => []TypeOK
PROOF
  BY TypeInit, TypeStep, PTL DEF Spec

-----------------------------------------------------------------------------
(* What each process does to the object and to the copies. *)

\* The controller writes only what leaves the object, its deletion and the
\* dispatcher's finalizer as they were.
ControllerMoves ==
  /\ obj'.uid = obj.uid /\ obj'.deleting = obj.deleting
  /\ Finalized(obj') <=> Finalized(obj)
  /\ obj' # obj => obj.uid # 0
  /\ UNCHANGED <<cache, session, created>>
  /\ pc'["disp"] = pc["disp"] /\ resource'["disp"] = resource["disp"]
  /\ \A x \in {"ctl.cache", "disp.cache", "disp.resource"} :
       IF obj' = obj THEN x \in current' <=> x \in current ELSE x \notin current'

\* A patch of the finalizers that succeeds is made from the object itself.
LEMMA FilterMoves ==
  ASSUME TypeOK, CachesFit, NEW r \in Object, updateFinalizersFiltered(r)
  PROVE  /\ obj'.uid = obj.uid /\ obj'.deleting = obj.deleting
         /\ Finalized(obj') <=> Finalized(obj)
         /\ obj' # obj => obj.uid # 0 /\ current' = {"ctl.resource"}
         /\ obj' = obj => current' = current
         /\ resource'["disp"] = resource["disp"]
         /\ \/ obj' = obj /\ resource'["ctl"] = r
               /\ (cache["ctl"].uid # 0 /\ "ctl" \in r.fins => "ctl" \in cache["ctl"].fins)
            \/ resource'["ctl"] = obj'
            \/ obj' = obj /\ resource'["ctl"] = Absent
PROOF
  <1>0. /\ "ctl" \in Actors /\ "disp" \in Actors /\ CacheOf("ctl") = "ctl.cache"
        /\ obj \in Object /\ resource \in [Actors -> Object]
        /\ "ctl.cache" \in current => cache["ctl"] = obj
    BY DEF TypeOK, Actors, CacheOf, CachesFit
  <1>1. CASE Untouched /\ SetCtl(r)
             /\ (cache["ctl"].uid = 0 \/ ("ctl" \in r.fins) = ("ctl" \in cache["ctl"].fins))
    BY <1>0, <1>1 DEF Untouched, SetCtl
  <1>2. CASE Untouched /\ SetCtl(Absent)
    BY <1>0, <1>2 DEF Untouched, SetCtl
  <1>3. ASSUME NEW f, f \subseteq Actors, "disp" \in f <=> "disp" \in cache["ctl"].fins,
               Store([obj EXCEPT !.fins = f], {"ctl.resource"}),
               SetCtl([obj EXCEPT !.fins = f]),
               cache["ctl"].uid # 0, "ctl.cache" \in current
        PROVE  /\ obj'.uid = obj.uid /\ obj'.deleting = obj.deleting
               /\ Finalized(obj') <=> Finalized(obj)
               /\ obj' # obj => obj.uid # 0 /\ current' = {"ctl.resource"}
               /\ obj' = obj => current' = current
               /\ resource'["disp"] = resource["disp"]
               /\ resource'["ctl"] = obj'
    BY <1>0, <1>3 DEF Store, SetCtl, Finalized, Object
  <1>4. CASE /\ cache["ctl"].uid # 0 /\ "ctl.cache" \in current
             /\ \E f \in SUBSET Actors :
                  /\ "disp" \in f <=> "disp" \in cache["ctl"].fins
                  /\ Store([obj EXCEPT !.fins = f], {"ctl.resource"})
                  /\ SetCtl([obj EXCEPT !.fins = f])
    BY <1>3, <1>4
  <1>5. /\ cache["ctl"].fins \cup {"ctl"} \in SUBSET Actors
        /\ cache["ctl"].fins \ {"ctl"} \in SUBSET Actors
    BY <1>0, EditedObjects DEF TypeOK
  <1> QED
    BY <1>0, <1>1, <1>2, <1>4, <1>5 DEF updateFinalizersFiltered, PatchError

LEMMA ControllerStep ==
  ASSUME TypeOK, CachesFit, ControllerFits, Controller
  PROVE  ControllerMoves /\ ControllerFits'
PROOF
  <1>0. /\ "ctl" \in Actors /\ "disp" \in Actors /\ CacheOf("ctl") = "ctl.cache"
        /\ WorkingCopies("ctl") = {"ctl.original", "ctl.resource"}
        /\ obj \in Object /\ ctl \in Object
        /\ resource \in [Actors -> Object] /\ cache \in [Actors -> Object]
        /\ pc \in [Actors -> Stages]
        /\ "ctl.cache" \in current => cache["ctl"] = obj
    BY DEF TypeOK, Actors, CacheOf, WorkingCopies, CachesFit, ctl
  <1> USE DEF Continue, Goto, external, counters
  <1>1. CASE Gone("ctl")
    BY <1>0, <1>1 DEF Gone, ControllerMoves, ControllerFits, ctl
  <1>2. CASE CtlReconcile
    <2>1. /\ UNCHANGED <<obj, cache, session, created>>
          /\ pc' = [pc EXCEPT !["ctl"] =
                      IF cache["ctl"].deleting THEN "finalize" ELSE "setFinalizer"]
          /\ resource' = [resource EXCEPT !["ctl"] = cache["ctl"]]
          /\ current' = IF "ctl.cache" \in current
                        THEN current \cup {"ctl.original", "ctl.resource"}
                        ELSE current \ {"ctl.original", "ctl.resource"}
          /\ cache["ctl"].uid # 0
      BY <1>0, <1>2 DEF CtlReconcile, Take
    <2>2. ControllerMoves
      BY <1>0, <2>1 DEF ControllerMoves
    <2>3. ControllerFits'
      BY <1>0, <2>1 DEF ControllerFits, ctl
    <2> QED
      BY <2>2, <2>3
  <1>3. CASE SetFinalizer
    <2>0. [ctl EXCEPT !.fins = @ \cup {"ctl"}] \in Object
      BY <1>0, EditedObjects
    <2>1. /\ obj'.uid = obj.uid /\ obj'.deleting = obj.deleting
          /\ Finalized(obj') <=> Finalized(obj)
          /\ obj' # obj => obj.uid # 0 /\ current' = {"ctl.resource"}
          /\ obj' = obj => current' = current
          /\ resource'["disp"] = resource["disp"]
          /\ \/ /\ obj' = obj
                /\ ctl'.uid = ctl.uid /\ ctl'.fins = ctl.fins \cup {"ctl"}
                /\ cache["ctl"].uid # 0 => "ctl" \in cache["ctl"].fins
             \/ ctl' = obj'
             \/ ctl'.uid = 0
      <3>1. /\ [ctl EXCEPT !.fins = @ \cup {"ctl"}].uid = ctl.uid
            /\ [ctl EXCEPT !.fins = @ \cup {"ctl"}].fins = ctl.fins \cup {"ctl"}
            /\ Absent.uid = 0
        BY <1>0 DEF Object, Absent
      <3> QED
        BY <1>3, <2>0, <3>1, FilterMoves DEF SetFinalizer, ctl
    <2>2. ControllerMoves
      BY <1>0, <1>3, <2>1 DEF SetFinalizer, ControllerMoves
    <2>3. pc["ctl"] = "setFinalizer" /\ pc'["ctl"] = "annotate"
      BY <1>0, <1>3 DEF SetFinalizer
    <2>4. "ctl.resource" \in current' /\ ctl'.uid # 0 =>
            ctl'.uid = obj'.uid /\ ctl'.fins = obj'.fins
      <3>1. CASE /\ obj' = obj /\ "ctl.resource" \in current
                 /\ ctl'.uid = ctl.uid /\ ctl'.fins = ctl.fins \cup {"ctl"}
                 /\ cache["ctl"].uid # 0 => "ctl" \in cache["ctl"].fins
        <4>1. /\ ctl.uid = obj.uid /\ ctl.fins = obj.fins
              /\ "ctl" \in ctl.fins
          BY <1>0, <2>3, <3>1 DEF ControllerFits
        <4>2. ctl.fins \cup {"ctl"} = ctl.fins
          BY <4>1
        <4> QED
          BY <3>1, <4>1, <4>2
      <3> QED
        BY <2>1, <3>1
    <2>5. "ctl.original" \in current' => obj'.uid # 0
      BY <2>1, <2>3 DEF ControllerFits
    <2> QED
      BY <2>2, <2>3, <2>4, <2>5 DEF ControllerFits
  <1>4. CASE SetAnnotations
    <2>0. pc["ctl"] = "annotate" /\ pc'["ctl"] \in {"resources", "status"}
      BY <1>0, <1>4 DEF SetAnnotations
    <2>1. /\ UNCHANGED <<cache, session, created>>
          /\ pc'["disp"] = pc["disp"] /\ resource'["disp"] = resource["disp"]
      BY <1>0, <1>4 DEF SetAnnotations, SetCtl
    <2>2. \/ UNCHANGED <<obj, current>>
          \/ /\ obj.uid # 0
             /\ obj' = [obj EXCEPT !.annotated = TRUE, !.fins = obj.fins]
             /\ current' = IF obj' = obj THEN current ELSE {}
      BY <1>4, <2>0 DEF SetAnnotations, Untouched, Store, ControllerFits
    <2>3. ControllerMoves
      BY <1>0, <2>1, <2>2 DEF ControllerMoves, Finalized, Object
    <2>4. ControllerFits'
      BY <1>0, <2>0, <2>2, <2>3 DEF ControllerFits, ControllerMoves
    <2> QED
      BY <2>3, <2>4
  <1>5. CASE ReconcileResources \/ ReconcileHub \/ FinalizeKind
    <2>1. /\ UNCHANGED <<obj, current, cache, session, created>>
          /\ pc'["disp"] = pc["disp"] /\ resource'["disp"] = resource["disp"]
          /\ pc["ctl"] # "idle"
          /\ pc'["ctl"] \in {"hub", "status", "clearFinalizer"}
      BY <1>0, <1>5 DEF ReconcileResources, ReconcileHub, FinalizeKind, Untouched,
         SetCtl
    <2> QED
      BY <2>1 DEF ControllerMoves, ControllerFits
  <1>6. CASE ClearFinalizer
    <2>0. [ctl EXCEPT !.fins = IF err["ctl"] THEN @ ELSE @ \ {"ctl"}] \in Object
      BY <1>0, EditedObjects
    <2>1. /\ obj'.uid = obj.uid /\ obj'.deleting = obj.deleting
          /\ Finalized(obj') <=> Finalized(obj)
          /\ obj' # obj => obj.uid # 0 /\ current' = {"ctl.resource"}
          /\ obj' = obj => current' = current
          /\ resource'["disp"] = resource["disp"]
      BY <1>6, <2>0, FilterMoves DEF ClearFinalizer
    <2>2. ControllerMoves
      BY <1>0, <1>6, <2>1 DEF ClearFinalizer, ControllerMoves
    <2>3. pc["ctl"] = "clearFinalizer" /\ pc'["ctl"] = "status"
      BY <1>0, <1>6 DEF ClearFinalizer
    <2> QED
      BY <2>1, <2>2, <2>3 DEF ControllerFits
  <1>7. CASE SyncStatus \/ RetryStatus
    <2>1. /\ UNCHANGED <<cache, session, created>> /\ pc["ctl"] # "idle"
          /\ \/ Return("ctl", err["ctl"]) \/ Return("ctl", TRUE)
             \/ Continue("ctl", "retry") /\ UNCHANGED resource
          /\ \/ Release("ctl") \/ Untouched
             \/ obj.uid # 0 /\ Store([obj EXCEPT !.status = ctl.status], {})
      BY <1>7 DEF SyncStatus, RetryStatus, ControllerFits
    <2>2. /\ pc'["disp"] = pc["disp"] /\ resource'["disp"] = resource["disp"]
          /\ pc'["ctl"] \in {"idle", "retry"}
      BY <1>0, <2>1 DEF Return
    <2>3. ControllerMoves
      BY <1>0, <2>1, <2>2 DEF Release, Untouched, Store, ControllerMoves, Finalized,
         Object
    <2>4. "ctl.original" \in current' => obj'.uid # 0
      BY <1>0, <2>1 DEF Release, Untouched, Store, ControllerFits, Object
    <2> QED
      BY <2>2, <2>3, <2>4 DEF ControllerFits
  <1> QED
    BY <1>1, <1>2, <1>3, <1>4, <1>5, <1>6, <1>7 DEF Controller

\* The dispatcher writes only a copy that is the object, with or without its
\* finalizer or with another status.
DispatcherMoves ==
  /\ obj'.uid = obj.uid /\ obj'.deleting = obj.deleting
  /\ obj' # obj => obj.uid # 0
  /\ UNCHANGED <<cache, created>>
  /\ pc'["ctl"] = pc["ctl"] /\ resource'["ctl"] = resource["ctl"]
  /\ \A x \in {"ctl.cache", "disp.cache", "ctl.original", "ctl.resource"} :
       IF obj' = obj THEN x \in current' <=> x \in current ELSE x \notin current'

\* Everything but the hub.
Fits == TypeOK /\ ObjectFits /\ CachesFit /\ ControllerFits /\ DispatcherFits
        /\ FinalizerFits

LEMMA DispatcherStep ==
  ASSUME Fits, Dispatcher
  PROVE  DispatcherMoves /\ DispatcherFits' /\ FinalizerFits'
PROOF
  <1>0. /\ "ctl" \in Actors /\ "disp" \in Actors /\ CacheOf("disp") = "disp.cache"
        /\ WorkingCopies("disp") = {"disp.resource"}
        /\ obj \in Object /\ disp \in Object
        /\ resource \in [Actors -> Object] /\ cache \in [Actors -> Object]
        /\ pc \in [Actors -> Stages]
        /\ "disp.cache" \in current => cache["disp"] = obj
        /\ obj.uid = 0 => ~Finalized(obj) /\ ~obj.deleting
    BY DEF Fits, TypeOK, Actors, CacheOf, WorkingCopies, CachesFit, ObjectFits,
       disp, Absent, Finalized
  <1>f. DispatcherFits /\ FinalizerFits
    BY DEF Fits
  <1> USE DEF Continue, Goto, external, counters
  <1>1. CASE Gone("disp")
    BY <1>0, <1>1, <1>f DEF Gone, DispatcherMoves, DispatcherFits, FinalizerFits, disp
  <1>2. CASE DispReconcile
    <2>1. /\ UNCHANGED <<obj, cache, session, created>>
          /\ pc' = [pc EXCEPT !["disp"] = IF cache["disp"].deleting
                              THEN "closeSession" ELSE "ensureFinalizer"]
          /\ resource' = [resource EXCEPT !["disp"] = cache["disp"]]
          /\ current' = IF "disp.cache" \in current THEN current \cup {"disp.resource"}
                                                     ELSE current \ {"disp.resource"}
          /\ cache["disp"].uid # 0
      BY <1>0, <1>2 DEF DispReconcile, Take
    <2>2. DispatcherMoves
      BY <1>0, <2>1 DEF DispatcherMoves
    <2>3. DispatcherFits'
      BY <1>0, <2>1 DEF DispatcherFits, disp
    <2>4. FinalizerFits'
      BY <1>0, <1>f, <2>1 DEF FinalizerFits, Live, Finalized, disp, Object
    <2> QED
      BY <2>2, <2>3, <2>4
  <1>3. CASE EnsureFinalizer
    <2>0. /\ UNCHANGED <<cache, session, created, resource>>
          /\ pc["disp"] = "ensureFinalizer" /\ pc'["ctl"] = pc["ctl"]
          /\ pc'["disp"] \in {"session", "updateStatus"}
      BY <1>0, <1>3 DEF EnsureFinalizer, DispFails
    <2>1. CASE UNCHANGED <<obj, current>>
                /\ (pc'["disp"] = "session" => Finalized(disp))
      BY <1>0, <1>f, <2>0, <2>1 DEF DispatcherMoves, DispatcherFits, FinalizerFits
    <2>2. CASE "disp.resource" \in current
                /\ Store([obj EXCEPT !.fins = disp.fins \cup {"disp"}], {})
      <3>1. /\ obj.uid # 0 /\ ~obj.deleting /\ cache["disp"] = obj
            /\ obj'.uid = obj.uid /\ obj'.deleting = obj.deleting /\ Finalized(obj')
            /\ current' = IF obj' = obj THEN current ELSE {}
        BY <1>0, <1>f, <2>0, <2>2 DEF Store, DispatcherFits, FinalizerFits, Live,
           Finalized, Object
      <3> QED
        BY <1>0, <1>f, <2>0, <3>1 DEF DispatcherMoves, DispatcherFits, FinalizerFits
    <2> QED
      BY <1>0, <1>3, <2>1, <2>2 DEF EnsureFinalizer, DispFails, Untouched, Finalized
  <1>4. CASE EnsureSession
    <2>1. /\ UNCHANGED <<obj, current, cache, created, resource>>
          /\ pc["disp"] = "session" /\ pc'["ctl"] = pc["ctl"]
          /\ pc'["disp"] \in {"subscriptions", "updateStatus"}
      BY <1>0, <1>4 DEF EnsureSession, DispFails, Untouched
    <2> QED
      BY <1>0, <1>f, <2>1 DEF DispatcherMoves, DispatcherFits, FinalizerFits
  <1>5. CASE Subscribe
    <2>1. /\ UNCHANGED <<obj, current, cache, session, created>>
          /\ pc["disp"] = "subscriptions" /\ pc'["ctl"] = pc["ctl"]
          /\ pc'["disp"] = "updateStatus" /\ resource'["ctl"] = resource["ctl"]
      BY <1>0, <1>5 DEF Subscribe, DispFails, Untouched, SetDisp
    <2> QED
      BY <1>0, <1>f, <2>1 DEF DispatcherMoves, DispatcherFits, FinalizerFits
  <1>6. CASE CloseSession
    <2>1. /\ UNCHANGED <<obj, current, cache, created, resource>> /\ session' = FALSE
          /\ pc["disp"] = "closeSession" /\ pc'["ctl"] = pc["ctl"]
          /\ pc'["disp"] = "removeFinalizer"
      BY <1>0, <1>6 DEF CloseSession, Untouched
    <2> QED
      BY <1>0, <1>f, <2>1 DEF DispatcherMoves, DispatcherFits, FinalizerFits, disp
  <1>7. CASE RemoveFinalizer
    <2>0. /\ UNCHANGED <<cache, session, created, resource>>
          /\ pc["disp"] = "removeFinalizer" /\ pc'["ctl"] = pc["ctl"]
          /\ pc'["disp"] = "updateStatus"
      BY <1>0, <1>7 DEF RemoveFinalizer, DispFails
    <2>1. CASE UNCHANGED <<obj, current>>
      BY <1>0, <1>f, <2>0, <2>1 DEF DispatcherMoves, DispatcherFits, FinalizerFits
    <2>2. CASE "disp.resource" \in current
                /\ Store([obj EXCEPT !.fins = disp.fins \ {"disp"}], {})
      <3>1. /\ obj.uid # 0 /\ ~session
            /\ obj'.uid = obj.uid /\ obj'.deleting = obj.deleting /\ ~Finalized(obj')
            /\ current' = IF obj' = obj THEN current ELSE {}
            /\ ~(Live(cache["disp"]) /\ Finalized(cache["disp"]))
        BY <1>0, <1>f, <2>0, <2>2 DEF Store, DispatcherFits, FinalizerFits,
           Finalized, Object
      <3> QED
        BY <1>0, <1>f, <2>0, <3>1 DEF DispatcherMoves, DispatcherFits, FinalizerFits
    <2> QED
      BY <1>7, <2>1, <2>2 DEF RemoveFinalizer, Untouched
  <1>8. CASE UpdateStatus
    <2>0. /\ UNCHANGED <<cache, session, created>>
          /\ pc'["ctl"] = pc["ctl"] /\ pc'["disp"] = "idle"
          /\ resource'["ctl"] = resource["ctl"]
      BY <1>0, <1>8 DEF UpdateStatus, Return
    <2>1. \/ Release("disp")
          \/ obj.uid # 0 /\ Store([obj EXCEPT !.status = disp.status], {})
      BY <1>0, <1>8 DEF UpdateStatus
    <2>2. /\ obj'.uid = obj.uid /\ obj'.deleting = obj.deleting
          /\ Finalized(obj') <=> Finalized(obj)
          /\ obj' # obj => obj.uid # 0 /\ current' = {}
          /\ obj' = obj => current' \in {current, current \ {"disp.resource"}}
      BY <1>0, <2>1 DEF Release, Store, Finalized, Object
    <2> QED
      BY <1>0, <1>f, <2>0, <2>2 DEF DispatcherMoves, DispatcherFits, FinalizerFits, Live
  <1> QED
    BY <1>1, <1>2, <1>3, <1>4, <1>5, <1>6, <1>7, <1>8 DEF Dispatcher

\* Everything but the hub, after a step of either process.
LEMMA FitsProcess ==
  ASSUME Fits, Controller \/ Dispatcher
  PROVE  Fits'
PROOF
  <1>0. /\ TypeOK /\ ObjectFits /\ CachesFit /\ ControllerFits /\ DispatcherFits
        /\ FinalizerFits
        /\ CacheOf("ctl") = "ctl.cache" /\ CacheOf("disp") = "disp.cache"
    BY DEF Fits, CacheOf
  <1>1. TypeOK'
    BY <1>0, ControllerType, DispatcherType
  <1>2. CASE Controller
    <2>1. ControllerMoves /\ ControllerFits'
      BY <1>0, <1>2, ControllerStep
    <2>2. ObjectFits' /\ CachesFit'
      BY <1>0, <2>1 DEF ControllerMoves, ObjectFits, CachesFit, Actors
    <2>3. DispatcherFits'
      BY <1>0, <2>1 DEF ControllerMoves, DispatcherFits, disp
    <2>4. FinalizerFits'
      BY <1>0, <2>1 DEF ControllerMoves, FinalizerFits, Live, disp
    <2> QED
      BY <1>1, <2>1, <2>2, <2>3, <2>4 DEF Fits
  <1>3. CASE Dispatcher
    <2>1. DispatcherMoves /\ DispatcherFits' /\ FinalizerFits'
      BY <1>3, DispatcherStep
    <2>2. ObjectFits' /\ CachesFit'
      BY <1>0, <2>1 DEF DispatcherMoves, ObjectFits, CachesFit, Actors
    <2>3. ControllerFits'
      BY <1>0, <2>1 DEF DispatcherMoves, ControllerFits, ctl
    <2> QED
      BY <1>1, <2>1, <2>2, <2>3 DEF Fits
  <1> QED
    BY <1>2, <1>3

\* What users and the API server do makes every copy an old one.
LEMMA ObjectChanges ==
  ASSUME Fits, CreateChannel \/ DeleteChannel \/ Collect
  PROVE  /\ current' = {} /\ UNCHANGED <<workers, session, external>>
         /\ obj' \in Object
         /\ \/ /\ obj.uid = 0 /\ obj'.uid = created + 1 /\ created' = created + 1
               /\ ~obj'.deleting /\ ~Finalized(obj) /\ ~Finalized(obj')
               /\ obj'.status = NoStatus
            \/ /\ obj.uid # 0 /\ obj'.uid = obj.uid /\ created' = created
               /\ ~obj.deleting /\ obj'.deleting
               /\ Finalized(obj') <=> Finalized(obj)
               /\ obj'.status = obj.status
            \/ /\ obj.deleting /\ obj' = Absent /\ created' = created
               /\ ~Finalized(obj)
PROOF
  <1>0. /\ obj \in Object /\ created \in Nat /\ obj.uid \in {0, created}
        /\ obj.uid = 0 => obj = Absent
        /\ TypeOK'
    BY SurroundingsType, LifecycleParameters
    DEF Fits, TypeOK, ObjectFits, Surroundings
  <1>1. CASE CreateChannel
    <2>1. PICK a \in Annotated :
            Store([Absent EXCEPT !.uid = created + 1, !.annotated = a], {})
      BY <1>1 DEF CreateChannel
    <2>2. /\ obj' = [Absent EXCEPT !.uid = created + 1, !.annotated = a]
          /\ obj'.uid = created + 1 /\ ~obj'.deleting /\ ~Finalized(obj')
          /\ obj'.status = NoStatus
      BY <2>1 DEF Store, Absent, Finalized
    <2>3. obj.uid = 0 /\ obj' # obj /\ ~Finalized(obj)
      <3>0. created + 1 # 0
        BY <1>0
      <3>1. obj.uid = 0 /\ created + 1 # 0
        BY <1>1, <3>0 DEF CreateChannel
      <3>2. obj = Absent
        BY <1>0, <3>1
      <3> QED
        BY <2>2, <3>1, <3>2 DEF Absent, Finalized
    <2> QED
      BY <1>0, <1>1, <2>1, <2>2, <2>3 DEF CreateChannel, Store, TypeOK
  <1>2. CASE DeleteChannel
    <2>1. /\ obj' = [obj EXCEPT !.deleting = TRUE] /\ obj.uid # 0 /\ ~obj.deleting
      BY <1>2 DEF DeleteChannel, Store
    <2>2. /\ obj'.uid = obj.uid /\ obj'.deleting /\ obj'.status = obj.status
          /\ Finalized(obj') <=> Finalized(obj)
      BY <1>0, <2>1 DEF Object, Finalized
    <2>3. obj' # obj
      BY <2>1, <2>2
    <2> QED
      BY <1>0, <1>2, <2>1, <2>2, <2>3 DEF DeleteChannel, Store, TypeOK
  <1>3. CASE Collect
    <2>1. obj.deleting /\ obj' = Absent /\ ~Finalized(obj)
      BY <1>3 DEF Collect, Store, Finalized
    <2>2. obj' # obj
      BY <2>1 DEF Absent
    <2> QED
      BY <1>0, <1>3, <2>1, <2>2 DEF Collect, Store, TypeOK
  <1> QED
    BY <1>1, <1>2, <1>3

LEMMA FitsSurroundings ==
  ASSUME Fits, Surroundings
  PROVE  Fits'
PROOF
  <1>0. /\ TypeOK /\ ObjectFits /\ CachesFit /\ ControllerFits /\ DispatcherFits
        /\ FinalizerFits /\ TypeOK'
        /\ "ctl" \in Actors /\ "disp" \in Actors
        /\ CacheOf("ctl") = "ctl.cache" /\ CacheOf("disp") = "disp.cache"
        /\ WorkingCopies("ctl") = {"ctl.original", "ctl.resource"}
        /\ WorkingCopies("disp") = {"disp.resource"}
    BY SurroundingsType DEF Fits, CacheOf, WorkingCopies, Actors
  <1>t. /\ cache \in [Actors -> Object] /\ resource \in [Actors -> Object]
        /\ pc \in [Actors -> Stages] /\ obj \in Object /\ created \in Nat
    BY <1>0, LifecycleParameters DEF TypeOK
  <1> USE DEF workers, external, counters
  <1>1. ASSUME NEW a \in Actors, Sync(a) PROVE Fits'
    <2>1. /\ UNCHANGED <<obj, pc, resource, session, created>>
          /\ cache' = [cache EXCEPT ![a] = obj]
          /\ current' = current \cup {CacheOf(a)}
      BY <1>1 DEF Sync
    <2>2. ObjectFits' /\ CachesFit'
      BY <1>0, <1>t, <2>1 DEF ObjectFits, CachesFit, Actors
    <2>3. ControllerFits' /\ DispatcherFits'
      BY <1>0, <1>t, <2>1 DEF ControllerFits, DispatcherFits, ctl, disp, Actors
    <2>4. FinalizerFits'
      BY <1>0, <1>t, <2>1 DEF FinalizerFits, Live, disp
    <2> QED
      BY <1>0, <2>2, <2>3, <2>4 DEF Fits
  <1>2. ASSUME NEW a \in Actors, Resync(a) PROVE Fits'
    BY <1>0, <1>2 DEF Resync, Fits, ObjectFits, CachesFit, ControllerFits,
       DispatcherFits, FinalizerFits, ctl, disp
  <1>3. CASE Outage
    BY <1>0, <1>3 DEF Outage, Fits, ObjectFits, CachesFit, ControllerFits,
       DispatcherFits, FinalizerFits, ctl, disp
  <1>4. ASSUME NEW a \in Actors, Restart(a) PROVE Fits'
    <2>1. /\ UNCHANGED <<obj, created>>
          /\ cache' = [cache EXCEPT ![a] = obj]
          /\ current' = (current \ WorkingCopies(a)) \cup {CacheOf(a)}
          /\ pc' = [pc EXCEPT ![a] = "idle"]
          /\ resource' = [resource EXCEPT ![a] = Absent]
          /\ session' => session
      BY <1>4 DEF Restart, Goto
    <2>2. ObjectFits' /\ CachesFit'
      BY <1>0, <1>t, <2>1 DEF ObjectFits, CachesFit, Actors
    <2>3. ControllerFits'
      BY <1>0, <1>t, <2>1 DEF ControllerFits, ctl, Actors
    <2>4. DispatcherFits'
      BY <1>0, <1>t, <2>1 DEF DispatcherFits, disp, Actors
    <2>5. FinalizerFits'
      BY <1>0, <1>t, <2>1 DEF FinalizerFits, Live, disp
    <2> QED
      BY <1>0, <2>2, <2>3, <2>4, <2>5 DEF Fits
  <1>5. CASE CreateChannel \/ DeleteChannel \/ Collect
    <2>1. /\ current' = {} /\ UNCHANGED <<cache, pc, resource, session>>
          /\ \/ /\ obj.uid = 0 /\ obj'.uid = created + 1 /\ created' = created + 1
                /\ ~obj'.deleting /\ ~Finalized(obj) /\ ~Finalized(obj')
             \/ /\ obj.uid # 0 /\ obj'.uid = obj.uid /\ created' = created
                /\ ~obj.deleting /\ obj'.deleting
                /\ Finalized(obj') <=> Finalized(obj)
             \/ /\ obj.deleting /\ obj' = Absent /\ created' = created
                /\ ~Finalized(obj)
      BY <1>5, ObjectChanges DEF Fits
    <2>2. obj'.uid \in {0, created'} /\ (obj'.uid = 0 => obj' = Absent)
      BY <1>0, <1>t, <2>1 DEF ObjectFits, Absent
    <2>3. CachesFit' /\ ControllerFits' /\ DispatcherFits'
      BY <2>1 DEF CachesFit, ControllerFits, DispatcherFits
    <2>4. FinalizerFits'
      <3>1. ~Finalized(Absent)
        BY DEF Absent, Finalized
      <3> QED
        BY <1>0, <2>1, <3>1 DEF FinalizerFits, Live, disp
    <2> QED
      BY <1>0, <2>2, <2>3, <2>4 DEF Fits, ObjectFits
  <1> QED
    BY <1>1, <1>2, <1>3, <1>4, <1>5 DEF Surroundings

LEMMA FitsInvariant == Spec => []Fits
PROOF
  <1>1. Init => Fits
    <2> SUFFICES ASSUME Init PROVE Fits
      OBVIOUS
    <2>1. TypeOK
      BY TypeInit
    <2>2. "ctl" \in Actors /\ "disp" \in Actors
      BY DEF Actors
    <2>3. ObjectFits /\ CachesFit
      BY DEF Init, ObjectFits, CachesFit, Absent
    <2>4. ControllerFits /\ DispatcherFits /\ FinalizerFits
      BY <2>2 DEF Init, ControllerFits, DispatcherFits, FinalizerFits, Absent, Live
    <2> QED
      BY <2>1, <2>3, <2>4 DEF Fits
  <1>2. Fits /\ UNCHANGED vars => Fits'
    BY TypeStep DEF vars, workers, Fits, ObjectFits, CachesFit, ControllerFits,
       DispatcherFits, FinalizerFits, ctl, disp
  <1>3. Fits /\ [Next]_vars => Fits'
    BY <1>2, FitsProcess, FitsSurroundings, NextCases
  <1> QED
    BY <1>1, <1>3, PTL DEF Spec

\* While the dispatcher holds a session the object it was made for exists and
\* carries the dispatcher's finalizer, however old the copies of both processes
\* are (reconciler/dispatcher/azurechannel.go 163-192, 273-299).
THEOREM SessionsProtected == Spec => []SessionProtected
PROOF
  <1>1. Fits => SessionProtected
    BY DEF Fits, FinalizerFits, ObjectFits, SessionProtected, Absent, Finalized
  <1> QED
    BY <1>1, FitsInvariant, PTL

-----------------------------------------------------------------------------
(* The hub. *)

\* HubReady is only copied, except by a step that leaves the hub there, and the
\* hub is deleted only at the stage for it.
HubMoves(a) ==
  /\ obj'.status.hub => obj.status.hub \/ resource[a].status.hub
  /\ resource'[a].status.hub =>
       \/ resource[a].status.hub \/ obj.status.hub \/ cache[a].status.hub
       \/ hub'
  /\ hub /\ ~hub' => pc["ctl"] = "finalize"
  /\ pc'["ctl"] = "finalize" => pc["ctl"] = "finalize" \/ cache["ctl"].deleting

LEMMA FilterHub ==
  ASSUME TypeOK, NEW r \in Object, updateFinalizersFiltered(r)
  PROVE  /\ obj'.status = obj.status
         /\ \/ resource'["ctl"] = r
            \/ resource'["ctl"] = Absent
            \/ resource'["ctl"].status = obj.status
PROOF
  <1>0. "ctl" \in Actors /\ obj \in Object /\ resource \in [Actors -> Object]
    BY DEF TypeOK, Actors
  <1>1. ASSUME NEW f, Store([obj EXCEPT !.fins = f], {"ctl.resource"}),
               SetCtl([obj EXCEPT !.fins = f])
        PROVE  obj'.status = obj.status /\ resource'["ctl"].status = obj.status
    BY <1>0, <1>1 DEF Store, SetCtl, Object
  <1>2. CASE Untouched /\ (SetCtl(r) \/ SetCtl(Absent))
    BY <1>0, <1>2 DEF Untouched, SetCtl
  <1> QED
    BY <1>1, <1>2 DEF updateFinalizersFiltered, PatchError

LEMMA HubController ==
  ASSUME TypeOK, Controller
  PROVE  HubMoves("ctl")
PROOF
  <1>0. /\ "ctl" \in Actors /\ obj \in Object /\ ctl \in Object
        /\ resource \in [Actors -> Object] /\ pc \in [Actors -> Stages]
        /\ hub \in BOOLEAN /\ ctl = resource["ctl"]
    BY DEF TypeOK, Actors, ctl
  <1>a. ~Absent.status.hub
    BY DEF Absent, NoStatus
  <1> USE DEF Continue, Goto, external
  <1>1. CASE Gone("ctl") \/ CtlReconcile
    BY <1>0, <1>1 DEF Gone, CtlReconcile, Take, HubMoves
  <1>2. CASE SetFinalizer
    <2>1. [ctl EXCEPT !.fins = @ \cup {"ctl"}] \in Object
      BY <1>0, EditedObjects
    <2>2. [ctl EXCEPT !.fins = @ \cup {"ctl"}].status = ctl.status
      BY <1>0 DEF Object
    <2> QED
      BY <1>0, <1>a, <1>2, <2>1, <2>2, FilterHub DEF SetFinalizer, HubMoves
  <1>3. CASE SetAnnotations
    <2>1. obj'.status = obj.status
      BY <1>0, <1>3 DEF SetAnnotations, Store, Untouched, Object
    <2>2. resource'["ctl"].status.hub = ctl.status.hub
      BY <1>0, <1>3 DEF SetAnnotations, SetCtl, Object, Status
    <2> QED
      BY <1>0, <1>3, <2>1, <2>2 DEF SetAnnotations, HubMoves
  <1>4. CASE ReconcileResources
    <2>1. PICK up : SetCtl([ctl EXCEPT !.status.up = up])
      BY <1>4 DEF ReconcileResources
    <2>2. resource'["ctl"].status.hub = ctl.status.hub
      BY <1>0, <2>1 DEF SetCtl, Object, Status
    <2>3. UNCHANGED <<obj, hub>> /\ pc'["ctl"] # "finalize"
      BY <1>0, <1>4 DEF ReconcileResources, Untouched
    <2> QED
      BY <1>0, <2>2, <2>3 DEF HubMoves
  <1>5. CASE ReconcileHub
    BY <1>0, <1>5 DEF ReconcileHub, Untouched, HubMoves
  <1>6. CASE FinalizeKind
    BY <1>0, <1>6 DEF FinalizeKind, Untouched, HubMoves
  <1>7. CASE ClearFinalizer
    <2>1. [ctl EXCEPT !.fins = IF err["ctl"] THEN @ ELSE @ \ {"ctl"}] \in Object
      BY <1>0, EditedObjects
    <2>2. [ctl EXCEPT !.fins = IF err["ctl"] THEN @ ELSE @ \ {"ctl"}].status
            = ctl.status
      BY <1>0 DEF Object
    <2> QED
      BY <1>0, <1>a, <1>7, <2>1, <2>2, FilterHub DEF ClearFinalizer, HubMoves
  <1>8. CASE SyncStatus \/ RetryStatus
    <2>1. /\ UNCHANGED hub
          /\ pc'["ctl"] # "finalize"
          /\ resource'["ctl"] \in {resource["ctl"], Absent}
          /\ UNCHANGED obj \/ Store([obj EXCEPT !.status = ctl.status], {})
      BY <1>0, <1>8 DEF SyncStatus, RetryStatus, Return, Release, Untouched
    <2>2. obj'.status \in {obj.status, ctl.status}
      BY <1>0, <2>1 DEF Store, Object
    <2> QED
      BY <1>0, <1>a, <2>1, <2>2 DEF HubMoves
  <1> QED
    BY <1>1, <1>2, <1>3, <1>4, <1>5, <1>6, <1>7, <1>8 DEF Controller

LEMMA HubDispatcher ==
  ASSUME TypeOK, Dispatcher
  PROVE  HubMoves("disp")
PROOF
  <1>0. /\ "ctl" \in Actors /\ "disp" \in Actors /\ obj \in Object /\ disp \in Object
        /\ resource \in [Actors -> Object] /\ pc \in [Actors -> Stages]
        /\ hub \in BOOLEAN /\ disp = resource["disp"]
    BY DEF TypeOK, Actors, disp
  <1>a. ~Absent.status.hub
    BY DEF Absent, NoStatus
  <1> USE DEF Continue, Goto, external, DispFails
  <1>1. CASE Gone("disp") \/ DispReconcile
    BY <1>0, <1>1 DEF Gone, DispReconcile, Take, HubMoves
  <1>2. CASE EnsureFinalizer \/ RemoveFinalizer
    <2>1. /\ UNCHANGED <<hub, resource>> /\ pc'["ctl"] = pc["ctl"]
          /\ UNCHANGED obj \/ \E f : Store([obj EXCEPT !.fins = f], {})
      BY <1>0, <1>2 DEF EnsureFinalizer, RemoveFinalizer, Untouched
    <2>2. obj'.status = obj.status
      BY <1>0, <2>1 DEF Store, Object
    <2> QED
      BY <2>1, <2>2 DEF HubMoves
  <1>3. CASE EnsureSession \/ CloseSession
    BY <1>0, <1>3 DEF EnsureSession, CloseSession, Untouched, HubMoves
  <1>4. CASE Subscribe
    <2>1. PICK sub : SetDisp([disp EXCEPT !.status.sub = sub])
      BY <1>4 DEF Subscribe
    <2>2. resource'["disp"].status.hub = disp.status.hub
      BY <1>0, <2>1 DEF SetDisp, Object, Status
    <2>3. UNCHANGED <<obj, hub>> /\ pc'["ctl"] = pc["ctl"]
      BY <1>0, <1>4 DEF Subscribe, Untouched
    <2> QED
      BY <1>0, <2>2, <2>3 DEF HubMoves
  <1>5. CASE UpdateStatus
    <2>1. /\ UNCHANGED hub /\ pc'["ctl"] = pc["ctl"]
          /\ resource'["disp"] = Absent
          /\ UNCHANGED obj \/ Store([obj EXCEPT !.status = disp.status], {})
      BY <1>0, <1>5 DEF UpdateStatus, Return, Release
    <2>2. obj'.status \in {obj.status, disp.status}
      BY <1>0, <2>1 DEF Store, Object
    <2> QED
      BY <1>0, <1>a, <2>1, <2>2 DEF HubMoves
  <1> QED
    BY <1>1, <1>2, <1>3, <1>4, <1>5 DEF Dispatcher

LEMMA HubStep ==
  Fits /\ HubFits /\ [Next]_vars => HubFits'
PROOF
  <1> SUFFICES ASSUME Fits, HubFits, [Next]_vars PROVE HubFits'
    OBVIOUS
  <1>0. /\ "ctl" \in Actors /\ "disp" \in Actors
        /\ cache \in [Actors -> Object] /\ resource \in [Actors -> Object]
        /\ pc \in [Actors -> Stages] /\ created \in Nat
        /\ TypeOK /\ ObjectFits /\ CachesFit /\ ControllerFits
    BY LifecycleParameters DEF Fits, TypeOK, Actors
  <1>1. CASE Controller \/ Dispatcher
    <2>1. /\ UNCHANGED <<cache, created>>
          /\ obj'.uid = obj.uid /\ obj'.deleting = obj.deleting
      BY <1>0, <1>1, ControllerStep, DispatcherStep
      DEF ControllerMoves, DispatcherMoves
    <2>2. \E a \in Actors :
            HubMoves(a) /\ \A b \in Actors \ {a} : resource'[b] = resource[b]
      BY <1>0, <1>1, ControllerStep, DispatcherStep, HubController, HubDispatcher
      DEF ControllerMoves, DispatcherMoves, Actors
    <2>3. FirstIsOver' <=> FirstIsOver
      BY <2>1 DEF FirstIsOver
    <2> QED
      BY <1>0, <2>1, <2>2, <2>3 DEF HubMoves, HubFits
  <1>2. CASE CreateChannel \/ DeleteChannel \/ Collect
    <2>1. /\ UNCHANGED <<workers, external>>
          /\ obj'.status \in {obj.status, NoStatus}
          /\ FirstIsOver => FirstIsOver'
      <3>1. Absent.status = NoStatus /\ Absent.uid = 0 /\ ~Absent.deleting
        BY DEF Absent
      <3> QED
        BY <1>0, <1>2, <3>1, ObjectChanges DEF FirstIsOver, ObjectFits
    <2>2. ~NoStatus.hub
      BY DEF NoStatus
    <2> QED
      BY <2>1, <2>2 DEF HubFits, workers, external
  <1>3. ASSUME NEW a \in Actors, Sync(a) \/ Restart(a) PROVE HubFits'
    <2>1. /\ UNCHANGED <<obj, hub, created>>
          /\ cache' = [cache EXCEPT ![a] = obj]
          /\ \A b \in Actors : resource'[b] \in {resource[b], Absent}
          /\ pc'["ctl"] = "finalize" => pc["ctl"] = "finalize"
      BY <1>0, <1>3 DEF Sync, Restart, Goto, external
    <2>2. FirstIsOver' <=> FirstIsOver
      BY <2>1 DEF FirstIsOver
    <2>3. ~Absent.status.hub
      BY DEF Absent, NoStatus
    <2>4. obj.deleting => FirstIsOver
      BY DEF FirstIsOver
    <2> QED
      BY <1>0, <2>1, <2>2, <2>3, <2>4 DEF HubFits
  <1>4. CASE (\E a \in Actors : Resync(a)) \/ Outage \/ UNCHANGED vars
    <2>1. UNCHANGED <<obj, cache, resource, pc, hub, created>>
      BY <1>4 DEF Resync, Outage, vars, workers, external
    <2> QED
      BY <2>1 DEF HubFits, FirstIsOver
  <1> QED
    BY <1>1, <1>2, <1>3, <1>4, NextCases DEF Surroundings

\* HubReady of the first object of a name is true to Azure until the object is
\* deleted: none of the copies by which the two processes carry a status on has
\* it without the hub (controller/azurechannel.go 298-330; reconciler.go 201-236).
THEOREM HubReadyTrue == Spec => []HubReadyProvisioned
PROOF
  <1>1. Init => HubFits
    BY DEF Init, HubFits, Absent, NoStatus, Actors
  <1>2. Fits /\ HubFits => HubReadyProvisioned
    BY DEF Fits, ObjectFits, HubFits, FirstIsOver, HubReadyProvisioned
  <1> QED
    BY <1>1, <1>2, HubStep, FitsInvariant, PTL DEF Spec

-----------------------------------------------------------------------------
(* FinalizerProtocol. *)

\* A step that leaves the object's phase, the dispatcher's finalizer and the
\* session alone.
LEMMA Stutters ==
  ASSUME obj'.uid = obj.uid, obj'.deleting = obj.deleting,
         Finalized(obj') <=> Finalized(obj), session' = session
  PROVE  UNCHANGED Protocol!vars
PROOF
  BY DEF Protocol!vars, Finalized

\* The dispatcher's own steps.
LEMMA DispatcherRefines ==
  ASSUME Fits, Dispatcher
  PROVE  [Protocol!Next]_(Protocol!vars)
PROOF
  <1>0. /\ FinalizerFits /\ DispatcherFits /\ DispatcherMoves
        /\ obj \in Object /\ "disp" \in Actors /\ session \in BOOLEAN
        /\ obj'.uid = obj.uid /\ obj'.deleting = obj.deleting
    BY DispatcherStep DEF Fits, TypeOK, DispatcherMoves, Actors
  <1>1. CASE UNCHANGED <<obj, session>>
    BY <1>1, Stutters
  <1>2. CASE Gone("disp") \/ DispReconcile \/ Subscribe
    BY <1>1, <1>2 DEF Gone, DispReconcile, Take, Subscribe, Untouched
  <1>3. CASE EnsureFinalizer
    <2>1. CASE Store([obj EXCEPT !.fins = disp.fins \cup {"disp"}], {})
               /\ pc["disp"] = "ensureFinalizer" /\ "disp.resource" \in current
      <3>1. obj.uid # 0 /\ ~obj.deleting /\ Finalized(obj')
        BY <1>0, <2>1 DEF Store, DispatcherFits, FinalizerFits, Live, Finalized, Object
      <3>2. session' = session
        BY <1>3 DEF EnsureFinalizer
      <3>3. Protocol!AddFinalizer("channel")
        BY <1>0, <3>1, <3>2 DEF Protocol!AddFinalizer, Finalized
      <3> QED
        BY <3>3 DEF Protocol!Next
    <2> QED
      BY <1>1, <1>3, <2>1 DEF EnsureFinalizer, Untouched
  <1>4. CASE EnsureSession
    <2>1. /\ UNCHANGED obj /\ Finalized(obj)
          /\ session' = session \/ session'
      BY <1>0, <1>4 DEF EnsureSession, FinalizerFits, Untouched
    <2>2. CASE session' = TRUE
      <3>1. Protocol!Acquire("channel")
        BY <2>1, <2>2 DEF Protocol!Acquire, Finalized
      <3> QED
        BY <3>1 DEF Protocol!Next
    <2> QED
      BY <1>1, <1>4, <2>1, <2>2 DEF EnsureSession
  <1>5. CASE CloseSession
    <2>1. Protocol!Release({"channel"})
      BY <1>5 DEF CloseSession, Untouched, Protocol!Release
    <2> QED
      BY <2>1 DEF Protocol!Next
  <1>6. CASE RemoveFinalizer
    <2>1. CASE Store([obj EXCEPT !.fins = disp.fins \ {"disp"}], {})
      <3>1. ~session /\ session' = session /\ ~Finalized(obj')
        BY <1>0, <1>6, <2>1 DEF RemoveFinalizer, Store, FinalizerFits, Finalized,
           Object
      <3>2. Protocol!RemoveFinalizer("channel")
        BY <1>0, <3>1 DEF Protocol!RemoveFinalizer, Finalized
      <3> QED
        BY <3>2 DEF Protocol!Next
    <2> QED
      BY <1>1, <1>6, <2>1 DEF RemoveFinalizer, Untouched
  <1>7. CASE UpdateStatus
    <2>1. /\ session' = session
          /\ UNCHANGED obj \/ Store([obj EXCEPT !.status = disp.status], {})
      BY <1>7 DEF UpdateStatus, Release
    <2>2. Finalized(obj') <=> Finalized(obj)
      BY <1>0, <2>1 DEF Store, Finalized, Object
    <2> QED
      BY <1>0, <2>1, <2>2, Stutters
  <1> QED
    BY <1>2, <1>3, <1>4, <1>5, <1>6, <1>7 DEF Dispatcher

LEMMA SurroundingsRefine ==
  ASSUME Fits, Surroundings
  PROVE  [Protocol!Next]_(Protocol!vars)
PROOF
  <1>0. created \in Nat /\ (obj.deleting => obj.uid # 0) /\ session \in BOOLEAN
    BY LifecycleParameters DEF Fits, TypeOK, ObjectFits, Absent
  <1>1. CASE UNCHANGED <<obj, session>>
    BY <1>1, Stutters
  <1>2. CASE Outage \/ \E a \in Actors : Sync(a) \/ Resync(a)
    BY <1>1, <1>2 DEF Outage, Sync, Resync
  <1>3. ASSUME NEW a \in Actors, Restart(a) PROVE [Protocol!Next]_(Protocol!vars)
    <2>1. CASE session' = session
      BY <1>1, <1>3, <2>1 DEF Restart
    <2>2. CASE session' # session
      <3>1. UNCHANGED obj /\ session' = FALSE
        BY <1>0, <1>3, <2>2 DEF Restart
      <3>2. Protocol!Release({"channel"})
        BY <3>1 DEF Protocol!Release
      <3> QED
        BY <3>2 DEF Protocol!Next
    <2> QED
      BY <2>1, <2>2
  <1>4. CASE CreateChannel \/ DeleteChannel \/ Collect
    <2>0. Absent.uid = 0 /\ ~Finalized(Absent)
      BY DEF Absent, Finalized
    <2>1. CASE /\ obj.uid = 0 /\ obj'.uid = created + 1 /\ session' = session
               /\ ~obj'.deleting /\ ~Finalized(obj) /\ ~Finalized(obj')
      <3>1. Protocol!Create("channel")
        BY <1>0, <2>1 DEF Protocol!Create, Finalized
      <3> QED
        BY <3>1 DEF Protocol!Next
    <2>2. CASE /\ obj.uid # 0 /\ obj'.uid = obj.uid /\ session' = session
               /\ ~obj.deleting /\ obj'.deleting
               /\ Finalized(obj') <=> Finalized(obj)
      <3>1. Protocol!Delete("channel")
        BY <2>2 DEF Protocol!Delete, Finalized
      <3> QED
        BY <3>1 DEF Protocol!Next
    <2>3. CASE obj.deleting /\ obj' = Absent /\ ~Finalized(obj) /\ session' = session
      <3>1. Protocol!Collect("channel")
        BY <1>0, <2>0, <2>3 DEF Protocol!Collect, Finalized
      <3> QED
        BY <3>1 DEF Protocol!Next
    <2> QED
      BY <1>4, <2>1, <2>2, <2>3, ObjectChanges
  <1> QED
    BY <1>2, <1>3, <1>4 DEF Surroundings

LEMMA StepRefines == Fits /\ [Next]_vars => [Protocol!Next]_(Protocol!vars)
PROOF
  <1> SUFFICES ASSUME Fits, [Next]_vars PROVE [Protocol!Next]_(Protocol!vars)
    OBVIOUS
  <1>1. CASE Controller
    <2>1. ControllerMoves
      BY <1>1, ControllerStep DEF Fits
    <2> QED
      BY <2>1, Stutters DEF ControllerMoves
  <1>2. CASE UNCHANGED vars
    BY <1>2, Stutters DEF vars
  <1> QED
    BY <1>1, <1>2, DispatcherRefines, SurroundingsRefine, NextCases

LEMMA InitRefines == Init => Protocol!Init
PROOF
  BY DEF Init, Absent, Protocol!Init

\* On caches that lag, with names used again and two processes writing the list
\* of finalizers, the dispatcher still uses its finalizer as the protocol asks
\* (reconciler.go 238-299; reconciler/dispatcher/azurechannel.go 163-192, 273-299).
THEOREM FinalizerRefinement == Spec => FinalizerHonoured
PROOF
  BY InitRefines, StepRefines, FitsInvariant, PTL
  DEF Spec, FinalizerHonoured, Protocol!Spec

-----------------------------------------------------------------------------
(***************************************************************************)
(* At rest.  Whatever changes the object makes a cache old, and a cache    *)
(* that catches up puts the key into the queue; so while neither is the    *)
(* case the worker's copy is the object, and each stage adds to what is    *)
(* true of it.  An error at the end puts the key back.                     *)
(***************************************************************************)

\* Process a has seen the object as it is and nothing has happened since.
Calm(a) == a \notin queue /\ CacheOf(a) \in current

\* What a reconcile of the controller without an error leaves, if the status
\* that it writes is s.
ControllerDone(s) ==
  IF obj.deleting THEN IsReady(s) => "ctl" \notin obj.fins
                  ELSE s.hub /\ s.up = available

ControllerSettles ==
  Calm("ctl") =>
    /\ pc["ctl"] = "idle" => obj.uid = 0 \/ ControllerDone(obj.status)
    /\ pc["ctl"] # "idle" =>
         obj.uid # 0 /\ "ctl.original" \in current /\ original = obj.status
    /\ pc["ctl"] = "setFinalizer" => ~obj.deleting /\ ctl = obj
    /\ pc["ctl"] = "annotate" => ~obj.deleting /\ ctl \in {obj, Absent}
    /\ pc["ctl"] = "resources" => ~obj.deleting
    /\ pc["ctl"] = "hub" => ~obj.deleting /\ ctl.status.up = available
    /\ pc["ctl"] \in {"finalize", "clearFinalizer"} => obj.deleting /\ ctl = obj
    /\ pc["ctl"] = "status" => err["ctl"] \/ ControllerDone(ctl.status)
    /\ pc["ctl"] # "retry"

\* The same of the dispatcher, which finishes with ready channels only.
DispatcherDone(s) ==
  IF obj.deleting THEN "disp" \notin obj.fins ELSE s.sub /\ session

DispatcherSettles ==
  Calm("disp") =>
    /\ pc["disp"] = "idle" =>
         obj.uid = 0 \/ (IsReady(obj.status) /\ DispatcherDone(obj.status))
    /\ pc["disp"] # "idle" =>
         obj.uid # 0 /\ IsReady(obj.status) /\ "disp.resource" \in current
    /\ pc["disp"] \in {"ensureFinalizer", "session", "subscriptions"} =>
         ~obj.deleting /\ disp = obj
    /\ pc["disp"] = "subscriptions" => session
    /\ pc["disp"] \in {"closeSession", "removeFinalizer"} => obj.deleting /\ disp = obj
    /\ pc["disp"] = "updateStatus" => err["disp"] \/ DispatcherDone(disp.status)

\* A step that leaves the controller alone, or calls for it.
LEMMA ControllerStill ==
  ASSUME ControllerSettles,
         Calm("ctl")' =>
           /\ Calm("ctl") /\ obj' = obj /\ original' = original
           /\ "ctl.original" \in current => "ctl.original" \in current'
           /\ pc'["ctl"] = pc["ctl"] /\ resource'["ctl"] = resource["ctl"]
           /\ err'["ctl"] = err["ctl"]
           /\ available' = available \/ (obj.uid = 0 /\ pc["ctl"] = "idle")
  PROVE  ControllerSettles'
PROOF
  BY DEF ControllerSettles, ControllerDone, ctl

LEMMA DispatcherStill ==
  ASSUME DispatcherSettles,
         Calm("disp")' =>
           /\ Calm("disp") /\ obj' = obj /\ session' = session
           /\ "disp.resource" \in current => "disp.resource" \in current'
           /\ pc'["disp"] = pc["disp"] /\ resource'["disp"] = resource["disp"]
           /\ err'["disp"] = err["disp"]
  PROVE  DispatcherSettles'
PROOF
  BY DEF DispatcherSettles, DispatcherDone, disp

\* Writing a status or a list of finalizers that the object does not have makes
\* the caches old.
LEMMA StoreStirs ==
  ASSUME NEW o, NEW holders, Store(o, holders), NEW x, x \notin holders
  PROVE  x \in current' => o = obj /\ obj' = obj /\ current' = current
PROOF
  BY DEF Store

\* The controller's patch of the finalizers, made from the object: it makes the
\* cache old, finds nothing to change, or fails and empties the copy.
LEMMA FilterSettles ==
  ASSUME TypeOK, CachesFit, NEW r \in Object, updateFinalizersFiltered(r),
         "ctl.cache" \in current'
  PROVE  /\ "ctl.cache" \in current /\ obj' = obj /\ current' = current
         /\ \/ ctl' = r /\ (obj.uid # 0 => ("ctl" \in r.fins <=> "ctl" \in obj.fins))
            \/ ctl' = Absent
PROOF
  <1>0. /\ "ctl" \in Actors /\ CacheOf("ctl") = "ctl.cache"
        /\ obj \in Object /\ resource \in [Actors -> Object]
        /\ "ctl.cache" \in current => cache["ctl"] = obj
    BY DEF TypeOK, Actors, CacheOf, CachesFit
  <1>1. CASE /\ cache["ctl"].uid = 0 \/ ("ctl" \in r.fins) = ("ctl" \in cache["ctl"].fins)
             /\ SetCtl(r) /\ Untouched
    BY <1>0, <1>1 DEF SetCtl, Untouched, ctl
  <1>2. CASE SetCtl(Absent) /\ Untouched
    BY <1>0, <1>2 DEF SetCtl, Untouched, ctl
  <1>3. ASSUME NEW f \in SUBSET Actors,
               Store([obj EXCEPT !.fins = f], {"ctl.resource"}),
               "ctl.cache" \in current,
               ("ctl" \in f) # ("ctl" \in cache["ctl"].fins)
        PROVE  FALSE
    <2>1. [obj EXCEPT !.fins = f] = obj
      BY <1>3, StoreStirs
    <2>2. obj.fins = f
      BY <1>0, <2>1 DEF Object
    <2> QED
      BY <1>0, <1>3, <2>2
  <1>4. CASE /\ ("ctl" \in r.fins) # ("ctl" \in cache["ctl"].fins)
             /\ "ctl.cache" \in current
             /\ Store([obj EXCEPT !.fins = IF "ctl" \in r.fins
                                           THEN cache["ctl"].fins \cup {"ctl"}
                                           ELSE cache["ctl"].fins \ {"ctl"}],
                      {"ctl.resource"})
    <2> DEFINE f == IF "ctl" \in r.fins THEN cache["ctl"].fins \cup {"ctl"}
                                        ELSE cache["ctl"].fins \ {"ctl"}
    <2>1. f \in SUBSET Actors /\ ("ctl" \in f) # ("ctl" \in cache["ctl"].fins)
      BY <1>0, <1>4 DEF Object
    <2> QED
      BY <1>3, <1>4, <2>1
  <1> QED
    BY <1>0, <1>1, <1>2, <1>4 DEF updateFinalizersFiltered, PatchError

LEMMA ControllerSettlesOwn ==
  ASSUME Fits, ControllerSettles, Controller
  PROVE  ControllerSettles'
PROOF
  <1>0. /\ "ctl" \in Actors /\ CacheOf("ctl") = "ctl.cache"
        /\ WorkingCopies("ctl") = {"ctl.original", "ctl.resource"}
        /\ obj \in Object /\ ctl \in Object /\ cache \in [Actors -> Object]
        /\ resource \in [Actors -> Object] /\ pc \in [Actors -> Stages]
        /\ err \in [Actors -> BOOLEAN] /\ available \in BOOLEAN
        /\ "ctl.cache" \in current => cache["ctl"] = obj
        /\ ~IsReady(NoStatus) /\ Absent.status = NoStatus
        /\ Absent.uid = 0 /\ ~Absent.annotated
    BY DEF Fits, TypeOK, CachesFit, Actors, CacheOf, WorkingCopies, ctl, IsReady,
       NoStatus, Absent
  <1>f. TypeOK /\ CachesFit
    BY DEF Fits
  <1>c. Calm("ctl") <=> ("ctl" \notin queue /\ "ctl.cache" \in current)
    BY <1>0 DEF Calm
  <1>d. Calm("ctl")' <=> ("ctl" \notin queue' /\ "ctl.cache" \in current')
    BY DEF Calm, CacheOf
  <1> SUFFICES ASSUME Calm("ctl")' PROVE ControllerSettles'
    BY DEF ControllerSettles
  <1> USE DEF Continue, Goto
  <1>1. CASE Gone("ctl")
    BY <1>0, <1>1, <1>d DEF Gone, ControllerSettles
  <1>2. CASE CtlReconcile
    <2>1. /\ "ctl.cache" \in current /\ cache["ctl"] = obj /\ obj.uid # 0
          /\ obj' = obj /\ ctl' = obj /\ original' = obj.status
          /\ "ctl.original" \in current'
          /\ pc'["ctl"] = IF obj.deleting THEN "finalize" ELSE "setFinalizer"
      BY <1>0, <1>2, <1>d DEF CtlReconcile, Take, ctl
    <2> QED
      BY <2>1 DEF ControllerSettles
  <1>3. CASE SetFinalizer
    <2> DEFINE r == [ctl EXCEPT !.fins = @ \cup {"ctl"}]
    <2>1. /\ pc["ctl"] = "setFinalizer" /\ pc'["ctl"] = "annotate"
          /\ queue' = queue /\ original' = original
          /\ updateFinalizersFiltered(r)
      BY <1>0, <1>3 DEF SetFinalizer
    <2>2. r \in Object /\ "ctl" \in r.fins
      BY <1>0, EditedObjects DEF Object
    <2>3. "ctl" \in obj.fins /\ ctl = obj => r = obj
      BY <1>0 DEF Object
    <2> HIDE DEF r
    <2>4. /\ Calm("ctl") /\ obj' = obj /\ current' = current
          /\ \/ ctl' = r /\ (obj.uid # 0 => ("ctl" \in r.fins <=> "ctl" \in obj.fins))
             \/ ctl' = Absent
      BY <1>c, <1>d, <1>f, <2>1, <2>2, FilterSettles
    <2> QED
      BY <2>1, <2>2, <2>3, <2>4 DEF ControllerSettles
  <1>4. CASE SetAnnotations
    <2>1. /\ pc["ctl"] = "annotate" /\ queue' = queue /\ original' = original
          /\ "ctl.cache" \in current
      BY <1>4, <1>d DEF SetAnnotations, Untouched, Store
    <2>2. /\ ~obj.deleting /\ ctl \in {obj, Absent} /\ obj.uid # 0
          /\ "ctl.original" \in current /\ original = obj.status
      BY <1>c, <1>d, <2>1 DEF ControllerSettles
    <2>3. CASE ctl.annotated /\ pc'["ctl"] = "resources" /\ Untouched
      BY <2>1, <2>2, <2>3 DEF ControllerSettles, Untouched
    <2>4. CASE ~ctl.annotated /\ ctl.uid # 0
               /\ Store([obj EXCEPT !.annotated = TRUE, !.fins = ctl.fins], {})
      <3>1. ctl = obj
        BY <1>0, <2>2, <2>4
      <3>2. [obj EXCEPT !.annotated = TRUE, !.fins = ctl.fins].annotated
        BY <1>0 DEF Object
      <3>3. [obj EXCEPT !.annotated = TRUE, !.fins = ctl.fins] = obj
        BY <1>d, <2>4, StoreStirs
      <3> QED
        BY <2>4, <3>1, <3>2, <3>3
    <2>5. CASE err'["ctl"] /\ pc'["ctl"] = "status" /\ Untouched
      BY <2>1, <2>2, <2>5 DEF ControllerSettles, Untouched
    <2> QED
      BY <1>0, <1>4, <2>3, <2>4, <2>5 DEF SetAnnotations
  <1>5. CASE ReconcileResources
    <2>1. /\ pc["ctl"] = "resources" /\ Untouched /\ available' = available
          /\ queue' = queue /\ original' = original
      BY <1>5 DEF ReconcileResources, external
    <2>2. \/ pc'["ctl"] = "hub" /\ ctl'.status.up = available
          \/ pc'["ctl"] = "status" /\ err'["ctl"]
      <3>1. ASSUME NEW u \in BOOLEAN, resource' = [resource EXCEPT !["ctl"] =
                                                 [ctl EXCEPT !.status.up = u]]
            PROVE  ctl'.status.up = u
        BY <1>0, <3>1 DEF ctl, Object, Status
      <3> QED
        BY <1>0, <1>5, <3>1 DEF ReconcileResources, SetCtl
    <2> QED
      BY <1>c, <1>d, <2>1, <2>2 DEF ControllerSettles, Untouched
  <1>6. CASE ReconcileHub
    <2>1. /\ pc["ctl"] = "hub" /\ pc'["ctl"] = "status" /\ Untouched
          /\ queue' = queue /\ original' = original /\ available' = available
      BY <1>0, <1>6 DEF ReconcileHub
    <2>2. err'["ctl"] \/ (ctl'.status.hub /\ ctl'.status.up = ctl.status.up)
      <3>1. [ctl EXCEPT !.status.hub = TRUE].status.hub
            /\ [ctl EXCEPT !.status.hub = TRUE].status.up = ctl.status.up
        BY <1>0 DEF Object, Status
      <3> QED
        BY <1>0, <1>6, <3>1 DEF ReconcileHub, SetCtl, ctl
    <2> QED
      BY <1>c, <1>d, <2>1, <2>2 DEF ControllerSettles, ControllerDone, Untouched
  <1>7. CASE FinalizeKind
    BY <1>0, <1>7, <1>c, <1>d DEF FinalizeKind, ControllerSettles, Untouched, ctl
  <1>8. CASE ClearFinalizer
    <2> DEFINE r == [ctl EXCEPT !.fins = IF err["ctl"] THEN @ ELSE @ \ {"ctl"}]
    <2>1. /\ pc["ctl"] = "clearFinalizer" /\ pc'["ctl"] = "status"
          /\ queue' = queue /\ original' = original /\ err' = err
          /\ available' = available
          /\ updateFinalizersFiltered(r)
      BY <1>0, <1>8 DEF ClearFinalizer, external
    <2>2. r \in Object /\ (~err["ctl"] => "ctl" \notin r.fins)
      BY <1>0, EditedObjects DEF Object
    <2> HIDE DEF r
    <2>3. /\ Calm("ctl") /\ obj' = obj /\ current' = current
          /\ \/ ctl' = r /\ (obj.uid # 0 => ("ctl" \in r.fins <=> "ctl" \in obj.fins))
             \/ ctl' = Absent
      BY <1>c, <1>d, <1>f, <2>1, <2>2, FilterSettles
    <2>4. obj.deleting /\ obj.uid # 0 /\ "ctl.original" \in current
          /\ original = obj.status
      BY <2>1, <2>3 DEF ControllerSettles
    <2>5. err["ctl"] \/ (IsReady(ctl'.status) => "ctl" \notin obj'.fins)
      BY <1>0, <2>2, <2>3, <2>4
    <2> QED
      BY <2>1, <2>3, <2>4, <2>5 DEF ControllerSettles, ControllerDone
  <1>9. CASE SyncStatus
    <2>1. /\ pc["ctl"] = "status" /\ available' = available
          /\ "ctl.cache" \in current /\ "ctl" \notin queue
      BY <1>0, <1>9, <1>d DEF SyncStatus, Release, Store, Untouched, Return, external
    <2>2. /\ obj.uid # 0 /\ "ctl.original" \in current /\ original = obj.status
          /\ err["ctl"] \/ ControllerDone(ctl.status)
      BY <1>c, <2>1 DEF ControllerSettles
    <2>3. ~(original # ctl.status /\ Store([obj EXCEPT !.status = ctl.status], {}))
      <3> SUFFICES ASSUME original # ctl.status,
                          Store([obj EXCEPT !.status = ctl.status], {})
                   PROVE  FALSE
        OBVIOUS
      <3>1. [obj EXCEPT !.status = ctl.status].status = ctl.status
        BY <1>0 DEF Object
      <3>2. [obj EXCEPT !.status = ctl.status] = obj
        BY <1>d, StoreStirs
      <3> QED
        BY <2>2, <3>1, <3>2
    <2>4. /\ original = ctl.status /\ ~err["ctl"] /\ obj' = obj
          /\ pc'["ctl"] = "idle"
      BY <1>0, <1>9, <1>d, <2>2, <2>3 DEF SyncStatus, Return, Release
    <2> QED
      BY <2>1, <2>2, <2>4 DEF ControllerSettles, ControllerDone
  <1>10. CASE RetryStatus
    <2>1. pc["ctl"] = "retry" /\ Calm("ctl")
      BY <1>0, <1>10, <1>c, <1>d DEF RetryStatus, Release, Store, Return
    <2> QED
      BY <2>1 DEF ControllerSettles
  <1> QED
    BY <1>1, <1>2, <1>3, <1>4, <1>5, <1>6, <1>7, <1>8, <1>9, <1>10 DEF Controller

LEMMA DispatcherSettlesOwn ==
  ASSUME Fits, DispatcherSettles, Dispatcher
  PROVE  DispatcherSettles'
PROOF
  <1>0. /\ "disp" \in Actors /\ CacheOf("disp") = "disp.cache"
        /\ WorkingCopies("disp") = {"disp.resource"}
        /\ obj \in Object /\ disp \in Object /\ cache \in [Actors -> Object]
        /\ resource \in [Actors -> Object] /\ pc \in [Actors -> Stages]
        /\ err \in [Actors -> BOOLEAN]
        /\ "disp.cache" \in current => cache["disp"] = obj
    BY DEF Fits, TypeOK, CachesFit, Actors, CacheOf, WorkingCopies, disp
  <1>c. Calm("disp") <=> ("disp" \notin queue /\ "disp.cache" \in current)
    BY <1>0 DEF Calm
  <1>d. Calm("disp")' <=> ("disp" \notin queue' /\ "disp.cache" \in current')
    BY DEF Calm, CacheOf
  <1> SUFFICES ASSUME Calm("disp")' PROVE DispatcherSettles'
    BY DEF DispatcherSettles
  <1> USE DEF Continue, Goto
  <1>1. CASE Gone("disp")
    BY <1>0, <1>1, <1>d DEF Gone, DispatcherSettles
  <1>2. CASE DispReconcile
    <2>1. /\ "disp.cache" \in current /\ cache["disp"] = obj /\ obj.uid # 0
          /\ IsReady(obj.status) /\ obj' = obj /\ disp' = obj
          /\ "disp.resource" \in current'
          /\ pc'["disp"] = IF obj.deleting THEN "closeSession" ELSE "ensureFinalizer"
      BY <1>0, <1>2, <1>d DEF DispReconcile, Take, disp
    <2> QED
      BY <2>1 DEF DispatcherSettles
  <1>3. CASE EnsureFinalizer
    <2>1. /\ pc["disp"] = "ensureFinalizer" /\ queue' = queue /\ session' = session
          /\ disp' = disp /\ "disp.cache" \in current
      BY <1>3, <1>d DEF EnsureFinalizer, DispFails, Untouched, Store, disp
    <2>2. /\ ~obj.deleting /\ disp = obj /\ obj.uid # 0 /\ IsReady(obj.status)
          /\ "disp.resource" \in current
      BY <1>c, <1>d, <2>1 DEF DispatcherSettles
    <2>3. CASE pc'["disp"] = "session" /\ Untouched
      BY <2>1, <2>2, <2>3 DEF DispatcherSettles, Untouched
    <2>4. CASE "disp" \notin disp.fins
               /\ Store([obj EXCEPT !.fins = disp.fins \cup {"disp"}], {})
      <3>1. "disp" \in [obj EXCEPT !.fins = disp.fins \cup {"disp"}].fins
        BY <1>0 DEF Object
      <3>2. [obj EXCEPT !.fins = disp.fins \cup {"disp"}] = obj
        BY <1>d, <2>4, StoreStirs
      <3> QED
        BY <2>2, <2>4, <3>1, <3>2
    <2>5. CASE err'["disp"] /\ pc'["disp"] = "updateStatus" /\ Untouched
      BY <2>1, <2>2, <2>5 DEF DispatcherSettles, Untouched
    <2> QED
      BY <1>0, <1>3, <2>3, <2>4, <2>5 DEF EnsureFinalizer, DispFails
  <1>4. CASE EnsureSession
    <2>1. /\ pc["disp"] = "session" /\ queue' = queue /\ Untouched /\ disp' = disp
          /\ \/ pc'["disp"] = "subscriptions" /\ session'
             \/ pc'["disp"] = "updateStatus" /\ err'["disp"]
      BY <1>0, <1>4 DEF EnsureSession, DispFails, disp
    <2> QED
      BY <1>c, <1>d, <2>1 DEF DispatcherSettles, Untouched
  <1>5. CASE Subscribe
    <2>1. /\ pc["disp"] = "subscriptions" /\ pc'["disp"] = "updateStatus"
          /\ queue' = queue /\ Untouched /\ session' = session
          /\ err'["disp"] \/ disp'.status.sub
      <3>1. [disp EXCEPT !.status.sub = TRUE].status.sub
        BY <1>0 DEF Object, Status
      <3> QED
        BY <1>0, <1>5, <3>1 DEF Subscribe, DispFails, SetDisp, disp
    <2> QED
      BY <1>c, <1>d, <2>1 DEF DispatcherSettles, DispatcherDone, Untouched
  <1>6. CASE CloseSession
    BY <1>0, <1>6, <1>c, <1>d DEF CloseSession, DispatcherSettles, Untouched, disp
  <1>7. CASE RemoveFinalizer
    <2>1. /\ pc["disp"] = "removeFinalizer" /\ pc'["disp"] = "updateStatus"
          /\ queue' = queue /\ "disp.cache" \in current
      BY <1>0, <1>7, <1>d DEF RemoveFinalizer, DispFails, Untouched, Store
    <2>2. /\ obj.deleting /\ obj.uid # 0 /\ IsReady(obj.status)
          /\ "disp.resource" \in current
      BY <1>c, <1>d, <2>1 DEF DispatcherSettles
    <2>3. CASE Store([obj EXCEPT !.fins = disp.fins \ {"disp"}], {})
      <3>1. "disp" \notin [obj EXCEPT !.fins = disp.fins \ {"disp"}].fins
        BY <1>0 DEF Object
      <3>2. /\ [obj EXCEPT !.fins = disp.fins \ {"disp"}] = obj
            /\ obj' = obj /\ current' = current
        BY <1>d, <2>3, StoreStirs
      <3>3. "disp" \notin obj'.fins
        BY <3>1, <3>2
      <3> QED
        BY <2>1, <2>2, <3>2, <3>3 DEF DispatcherSettles, DispatcherDone
    <2>4. CASE err'["disp"] /\ Untouched
      BY <2>1, <2>2, <2>4 DEF DispatcherSettles, Untouched
    <2> QED
      BY <1>0, <1>7, <2>3, <2>4 DEF RemoveFinalizer, DispFails
  <1>8. CASE UpdateStatus
    <2>1. /\ pc["disp"] = "updateStatus" /\ session' = session
          /\ "disp.cache" \in current /\ "disp" \notin queue
      BY <1>0, <1>8, <1>d DEF UpdateStatus, Release, Store, Return
    <2>2. /\ obj.uid # 0 /\ IsReady(obj.status) /\ cache["disp"] = obj
          /\ err["disp"] \/ DispatcherDone(disp.status)
      BY <1>0, <1>c, <2>1 DEF DispatcherSettles
    <2>3. ~(obj.status # disp.status /\ Store([obj EXCEPT !.status = disp.status], {}))
      <3> SUFFICES ASSUME obj.status # disp.status,
                          Store([obj EXCEPT !.status = disp.status], {})
                   PROVE  FALSE
        OBVIOUS
      <3>1. [obj EXCEPT !.status = disp.status].status = disp.status
        BY <1>0 DEF Object
      <3>2. [obj EXCEPT !.status = disp.status] = obj
        BY <1>d, StoreStirs
      <3> QED
        BY <3>1, <3>2
    <2>4. /\ obj.status = disp.status /\ ~err["disp"] /\ obj' = obj
          /\ pc'["disp"] = "idle"
      BY <1>0, <1>8, <1>d, <2>2, <2>3 DEF UpdateStatus, SameStatus, Return, Release
    <2> QED
      BY <2>1, <2>2, <2>4 DEF DispatcherSettles, DispatcherDone
  <1> QED
    BY <1>1, <1>2, <1>3, <1>4, <1>5, <1>6, <1>7, <1>8 DEF Dispatcher

\* Neither process has a hand in the other's queue, error or copies.
LEMMA ControllerApart ==
  ASSUME TypeOK, Controller
  PROVE  ("disp" \in queue' <=> "disp" \in queue) /\ err'["disp"] = err["disp"]
PROOF
  <1>0. err \in [Actors -> BOOLEAN] /\ "disp" \in Actors /\ "disp" # "ctl"
    BY DEF TypeOK, Actors
  <1> USE DEF Continue, Goto
  <1>1. CASE Gone("ctl") \/ CtlReconcile
    BY <1>0, <1>1 DEF Gone, CtlReconcile, Take
  <1>2. CASE SetFinalizer \/ SetAnnotations \/ ReconcileResources
    BY <1>0, <1>2 DEF SetFinalizer, SetAnnotations, ReconcileResources
  <1>3. CASE ReconcileHub \/ FinalizeKind \/ ClearFinalizer
    BY <1>0, <1>3 DEF ReconcileHub, FinalizeKind, ClearFinalizer
  <1>4. CASE SyncStatus \/ RetryStatus
    BY <1>0, <1>4 DEF SyncStatus, RetryStatus, Return
  <1> QED
    BY <1>1, <1>2, <1>3, <1>4 DEF Controller

LEMMA DispatcherApart ==
  ASSUME TypeOK, Dispatcher
  PROVE  /\ "ctl" \in queue' <=> "ctl" \in queue
         /\ err'["ctl"] = err["ctl"] /\ original' = original
         /\ available' = available
PROOF
  <1>0. err \in [Actors -> BOOLEAN] /\ "ctl" \in Actors /\ "disp" # "ctl"
    BY DEF TypeOK, Actors
  <1> USE DEF Continue, Goto, DispFails, external
  <1>1. CASE Gone("disp") \/ DispReconcile
    BY <1>0, <1>1 DEF Gone, DispReconcile, Take
  <1>2. CASE EnsureFinalizer \/ EnsureSession \/ Subscribe
    BY <1>0, <1>2 DEF EnsureFinalizer, EnsureSession, Subscribe
  <1>3. CASE CloseSession \/ RemoveFinalizer
    BY <1>0, <1>3 DEF CloseSession, RemoveFinalizer
  <1>4. CASE UpdateStatus
    BY <1>0, <1>4 DEF UpdateStatus, Return
  <1> QED
    BY <1>1, <1>2, <1>3, <1>4 DEF Dispatcher

Settles == ControllerSettles /\ DispatcherSettles

LEMMA SettlesProcess ==
  ASSUME Fits, Settles, Controller \/ Dispatcher
  PROVE  Settles'
PROOF
  <1>0. TypeOK /\ CachesFit /\ ControllerFits
        /\ CacheOf("ctl") = "ctl.cache" /\ CacheOf("disp") = "disp.cache"
    BY DEF Fits, CacheOf
  <1>1. CASE Controller
    <2>1. ControllerSettles'
      BY <1>1, ControllerSettlesOwn DEF Settles
    <2>2. ControllerMoves
      BY <1>0, <1>1, ControllerStep
    <2>3. /\ ("disp" \in queue' <=> "disp" \in queue) /\ err'["disp"] = err["disp"]
      BY <1>0, <1>1, ControllerApart
    <2>4. Calm("disp")' =>
            /\ Calm("disp") /\ obj' = obj /\ session' = session
            /\ "disp.resource" \in current => "disp.resource" \in current'
            /\ pc'["disp"] = pc["disp"] /\ resource'["disp"] = resource["disp"]
            /\ err'["disp"] = err["disp"]
      BY <1>0, <2>2, <2>3 DEF Calm, CacheOf, ControllerMoves
    <2>5. DispatcherSettles'
      BY <2>4, DispatcherStill DEF Settles
    <2> QED
      BY <2>1, <2>5 DEF Settles
  <1>2. CASE Dispatcher
    <2>1. DispatcherSettles'
      BY <1>2, DispatcherSettlesOwn DEF Settles
    <2>2. DispatcherMoves
      BY <1>2, DispatcherStep
    <2>3. /\ "ctl" \in queue' <=> "ctl" \in queue
          /\ err'["ctl"] = err["ctl"] /\ original' = original
          /\ available' = available
      BY <1>0, <1>2, DispatcherApart
    <2>4. Calm("ctl")' =>
            /\ Calm("ctl") /\ obj' = obj /\ original' = original
            /\ "ctl.original" \in current => "ctl.original" \in current'
            /\ pc'["ctl"] = pc["ctl"] /\ resource'["ctl"] = resource["ctl"]
            /\ err'["ctl"] = err["ctl"]
            /\ available' = available \/ (obj.uid = 0 /\ pc["ctl"] = "idle")
      BY <1>0, <2>2, <2>3 DEF Calm, CacheOf, DispatcherMoves
    <2>5. ControllerSettles'
      BY <2>4, ControllerStill DEF Settles
    <2> QED
      BY <2>1, <2>5 DEF Settles
  <1> QED
    BY <1>1, <1>2

\* Nothing in the surroundings leaves a key at rest that has work to do.
LEMMA SettlesSurroundings ==
  ASSUME Fits, Settles, Surroundings
  PROVE  Settles'
PROOF
  <1>0. /\ Actors = {"ctl", "disp"} /\ "ctl" # "disp"
        /\ CacheOf("ctl") = "ctl.cache" /\ CacheOf("disp") = "disp.cache"
        /\ WorkingCopies("ctl") = {"ctl.original", "ctl.resource"}
        /\ WorkingCopies("disp") = {"disp.resource"}
        /\ pc \in [Actors -> Stages] /\ resource \in [Actors -> Object]
        /\ err \in [Actors -> BOOLEAN]
        /\ "ctl.cache" \in current => cache["ctl"] = obj
    BY DEF Fits, TypeOK, CachesFit, Actors, CacheOf, WorkingCopies
  <1>t. ControllerSettles /\ DispatcherSettles
    BY DEF Settles
  <1>q. ASSUME "ctl" \in queue' PROVE ControllerSettles'
    BY <1>q DEF ControllerSettles, Calm
  <1>r. ASSUME "disp" \in queue' PROVE DispatcherSettles'
    BY <1>r DEF DispatcherSettles, Calm
  <1> USE DEF Goto
  <1>c. ASSUME UNCHANGED <<obj, original, available, resource, pc, err>>,
               "ctl.cache" \in current' => "ctl.cache" \in current,
               "ctl" \in queue => "ctl" \in queue',
               "ctl.original" \in current => "ctl.original" \in current'
        PROVE  ControllerSettles'
    BY <1>0, <1>c, <1>t, ControllerStill DEF Calm, CacheOf
  <1>d. ASSUME UNCHANGED <<obj, session, resource, pc, err>>,
               "disp.cache" \in current' => "disp.cache" \in current,
               "disp" \in queue => "disp" \in queue',
               "disp.resource" \in current => "disp.resource" \in current'
        PROVE  DispatcherSettles'
    BY <1>0, <1>d, <1>t, DispatcherStill DEF Calm, CacheOf
  <1>1. ASSUME NEW a \in Actors, Sync(a) PROVE Settles'
    BY <1>0, <1>1, <1>q, <1>r, <1>c, <1>d DEF Sync, Settles, external
  <1>2. ASSUME NEW a \in Actors, Resync(a) PROVE Settles'
    BY <1>2, <1>c, <1>d DEF Resync, Settles, external
  <1>3. CASE Restart("ctl")
    <2>0. session' = session
      BY <1>3 DEF Restart, Fits, TypeOK
    <2>1. DispatcherSettles'
      BY <1>0, <1>3, <1>t, <2>0, DispatcherStill DEF Restart, Calm, CacheOf
    <2>2. ControllerSettles'
      <3>1. obj' = obj /\ pc'["ctl"] = "idle" /\ (obj.uid # 0 => "ctl" \in queue')
        BY <1>0, <1>3 DEF Restart
      <3> QED
        BY <1>q, <3>1 DEF ControllerSettles
    <2> QED
      BY <2>1, <2>2 DEF Settles
  <1>4. CASE Restart("disp")
    <2>1. ControllerSettles'
      BY <1>0, <1>4, <1>t, ControllerStill DEF Restart, Calm, CacheOf, external
    <2>2. DispatcherSettles'
      <3>1. obj' = obj /\ pc'["disp"] = "idle" /\ (obj.uid # 0 => "disp" \in queue')
        BY <1>0, <1>4 DEF Restart
      <3> QED
        BY <1>r, <3>1 DEF DispatcherSettles
    <2> QED
      BY <2>1, <2>2 DEF Settles
  <1>5. CASE CreateChannel \/ DeleteChannel \/ Collect
    <2>1. current' = {}
      BY <1>5, ObjectChanges
    <2> QED
      BY <2>1 DEF Settles, ControllerSettles, DispatcherSettles, Calm
  <1>6. CASE Outage
    <2>1. DispatcherSettles'
      BY <1>6, <1>d DEF Outage
    <2>2. ControllerSettles'
      <3>1. CASE cache["ctl"].uid # 0 /\ "ctl" \in queue'
        BY <3>1, <1>q
      <3>2. CASE available' = available /\ queue' = queue
        BY <1>6, <3>2, <1>c DEF Outage
      <3>3. CASE cache["ctl"].uid = 0 /\ queue' = queue
        <4>1. Calm("ctl") => obj.uid = 0 /\ pc["ctl"] = "idle"
          BY <1>0, <1>t, <3>3 DEF ControllerSettles, Calm
        <4>2. UNCHANGED <<obj, current, original, pc, resource, err>>
          BY <1>6 DEF Outage
        <4> QED
          BY <1>t, <3>3, <4>1, <4>2, ControllerStill DEF Calm
      <3> QED
        BY <1>6, <3>1, <3>2, <3>3 DEF Outage
    <2> QED
      BY <2>1, <2>2 DEF Settles
  <1> QED
    BY <1>0, <1>1, <1>2, <1>3, <1>4, <1>5, <1>6 DEF Surroundings

LEMMA SettlesInvariant == Spec => [](Fits /\ Settles)
PROOF
  <1>1. Init => Settles
    BY DEF Init, Settles, ControllerSettles, DispatcherSettles, Absent, Actors
  <1>2. Fits /\ Settles /\ UNCHANGED vars => Settles'
    <2> SUFFICES ASSUME Settles, UNCHANGED vars PROVE Settles'
      OBVIOUS
    <2>1. ControllerSettles'
      BY ControllerStill DEF Settles, vars, workers, external, Calm
    <2>2. DispatcherSettles'
      BY DispatcherStill DEF Settles, vars, workers, Calm
    <2> QED
      BY <2>1, <2>2 DEF Settles
  <1>3. Fits /\ Settles /\ [Next]_vars => Settles'
    BY <1>2, SettlesProcess, SettlesSurroundings, NextCases
  <1> QED
    BY <1>1, <1>3, FitsInvariant, PTL DEF Spec

\* However often calls fail, writes conflict, caches lag, processes restart and
\* the dispatcher's deployment comes and goes: once nothing is left to do, a
\* live channel has its hub and the conditions of the cluster, and a ready one
\* its session and the report of its subscribers
\* (reconciler.go 182-215; reconciler/dispatcher/azurechannel.go 147-160).
THEOREM ReadyAtRest == Spec => []RestIsReady
PROOF
  <1>1. Fits /\ Settles => RestIsReady
    <2> SUFFICES ASSUME Settles, CachesFit, AtRest, obj.uid # 0, ~obj.deleting
                 PROVE  /\ obj.status.hub /\ obj.status.up = available
                        /\ IsReady(obj.status) => obj.status.sub /\ session
      BY DEF Fits, RestIsReady
    <2>0. /\ pc["ctl"] = "idle" /\ pc["disp"] = "idle" /\ Calm("ctl")
          /\ cache["disp"] = obj /\ (Calm("disp") \/ ~IsReady(obj.status))
      BY DEF AtRest, Calm, Actors, CachesFit
    <2>1. obj.status.hub /\ obj.status.up = available
      BY <2>0 DEF Settles, ControllerSettles, ControllerDone
    <2>2. IsReady(obj.status) => obj.status.sub /\ session
      BY <2>0 DEF Settles, DispatcherSettles, DispatcherDone
    <2> QED
      BY <2>1, <2>2
  <1> QED
    BY <1>1, SettlesInvariant, PTL

\* Once nothing is left to do, both finalizers are gone from a channel that was
\* deleted while its status is ready, whichever attempts to remove them failed
\* (reconciler.go 169-179; reconciler/dispatcher/azurechannel.go 167-176).
THEOREM ReleasedAtRest == Spec => []RestIsReleased
PROOF
  <1>1. Fits /\ Settles => RestIsReleased
    <2> SUFFICES ASSUME Settles, CachesFit, TypeOK, ObjectFits,
                        AtRest, obj.deleting, IsReady(obj.status)
                 PROVE  obj.fins = {}
      BY DEF Fits, RestIsReleased
    <2>0. /\ pc["ctl"] = "idle" /\ pc["disp"] = "idle" /\ Calm("ctl")
          /\ cache["disp"] = obj /\ Calm("disp")
      BY DEF AtRest, Calm, Actors, CachesFit
    <2>1. obj.uid # 0
      BY DEF ObjectFits, Absent
    <2>2. "ctl" \notin obj.fins
      BY <2>0, <2>1 DEF Settles, ControllerSettles, ControllerDone
    <2>3. "disp" \notin obj.fins
      BY <2>0, <2>1 DEF Settles, DispatcherSettles, DispatcherDone
    <2> QED
      BY <2>2, <2>3 DEF TypeOK, Object, Actors
  <1> QED
    BY <1>1, SettlesInvariant, PTL

================================================================================
