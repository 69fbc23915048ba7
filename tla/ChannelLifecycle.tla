-------------------------- MODULE ChannelLifecycle --------------------------
(***************************************************************************)
(* One AzureChannel from creation to collection, seen by the two processes *)
(* that write it: the controller (the generated reconciler around          *)
(* ReconcileKind and FinalizeKind) and the dispatcher's reconciler.  Each  *)
(* works on a copy from an informer cache that may lag behind, and the API *)
(* server refuses a write whose resourceVersion is not the object's.  The  *)
(* object's name can be reused; the hub in Azure is known by name only.    *)
(*                                                                         *)
(* A resourceVersion is only ever compared with the object's, so instead   *)
(* of numbers the model has the set of copies that still carry it.         *)
(***************************************************************************)
EXTENDS Naturals, FiniteSets

CONSTANTS
  MaxIncarnations, \* objects created one after the other under the name
  Annotated,       \* may a channel be created with the duck annotation? a
                   \* subset of BOOLEAN: TRUE with it, FALSE without
  Outages,         \* what may be missing at times: "secret", "available"
  DeleteOfMissingFails, \* EXTERNAL: does deleting an absent group fail?
  MaxChanges,      \* bound: changes by users and the cluster, resyncs
  MaxFailures,     \* bound: failing calls to the API server or to Azure
  MaxRestarts      \* bound: restarts of the two processes

ASSUME LifecycleParameters ==
  /\ MaxIncarnations \in Nat \ {0}
  /\ Annotated \subseteq BOOLEAN
  /\ Outages \subseteq {"secret", "available"}
  /\ DeleteOfMissingFails \in BOOLEAN
  /\ MaxChanges \in Nat /\ MaxFailures \in Nat /\ MaxRestarts \in Nat

Actors == {"ctl", "disp"}

VARIABLES
  obj,       \* the object in the API server
  current,   \* copies whose resourceVersion is the object's
  cache,     \* informer cache of each process
  queue,     \* processes whose work queue holds the key
  pc,        \* where each process's worker is
  original,  \* the status in the controller's unchanged copy
  resource,  \* the copy each worker changes
  err,       \* each worker's reconcile error
  session,   \* the dispatcher holds a session for the channel
  hub,       \* EXTERNAL: the resource group and hub exist in Azure
  secret,    \* EXTERNAL: the credentials secret exists
  available, \* EXTERNAL: dispatcher deployment, service and endpoints are up
  created,   \* objects created so far under the name
  changes, failures, restarts   \* counters of the bounds

workers == <<cache, queue, pc, original, resource, err>>
external == <<hub, secret, available>>
counters == <<changes, failures, restarts>>
vars == <<obj, current, workers, session, external, created, counters>>

\* init: InitializeConditions has run; up: the five conditions but HubReady
\* are True; hub: HubReady is True; sub: the subscribers are reported.
Status == [init : BOOLEAN, up : BOOLEAN, hub : BOOLEAN, sub : BOOLEAN]

NoStatus == [init |-> FALSE, up |-> FALSE, hub |-> FALSE, sub |-> FALSE]

IsReady(status) == status.up /\ status.hub

Object == [uid : 0..MaxIncarnations, deleting : BOOLEAN, fins : SUBSET Actors,
           annotated : BOOLEAN, status : Status]

\* No object; and the &AzureChannel{} a failed client call returns.
Absent == [uid |-> 0, deleting |-> FALSE, fins |-> {}, annotated |-> FALSE,
           status |-> NoStatus]

Copies == {"ctl.cache", "ctl.original", "ctl.resource",
           "disp.cache", "disp.resource"}
CacheOf(a) == IF a = "ctl" THEN "ctl.cache" ELSE "disp.cache"
WorkingCopies(a) ==
  IF a = "ctl" THEN {"ctl.original", "ctl.resource"} ELSE {"disp.resource"}

Stages == {"idle", "setFinalizer", "annotate", "resources", "hub",
           "finalize", "clearFinalizer", "status", "retry",
           "ensureFinalizer", "session", "subscriptions",
           "closeSession", "removeFinalizer", "updateStatus"}

\* Every variable is of its type, and a worker that returned has left no copy
\* behind for its next key to be taken for.
TypeOK ==
  /\ obj \in Object
  /\ current \subseteq Copies
  /\ cache \in [Actors -> Object] /\ resource \in [Actors -> Object]
  /\ original \in Status
  /\ queue \subseteq Actors
  /\ pc \in [Actors -> Stages]
  /\ \A a \in Actors : pc[a] = "idle" => resource[a] = Absent
  /\ err \in [Actors -> BOOLEAN]
  /\ session \in BOOLEAN /\ hub \in BOOLEAN
  /\ secret \in BOOLEAN /\ available \in BOOLEAN
  /\ created \in 0..MaxIncarnations
  /\ changes \in 0..MaxChanges
  /\ failures \in 0..MaxFailures
  /\ restarts \in 0..MaxRestarts

Init ==
  /\ obj = Absent /\ current = {"ctl.cache", "disp.cache"}
  /\ cache = [a \in Actors |-> Absent] /\ resource = [a \in Actors |-> Absent]
  /\ original = NoStatus
  /\ queue = {}
  /\ pc = [a \in Actors |-> "idle"]
  /\ err = [a \in Actors |-> FALSE]
  /\ session = FALSE /\ hub = FALSE
  /\ secret = TRUE /\ available \in {TRUE, "available" \notin Outages}
  /\ created = 0
  /\ changes = 0 /\ failures = 0 /\ restarts = 0

-----------------------------------------------------------------------------
(* Helpers. *)

Goto(a, stage) == pc' = [pc EXCEPT ![a] = stage]

CallFails == failures < MaxFailures /\ failures' = failures + 1

\* A call that needs ok, or one that fails although it does not have to.
Refused(ok) == \/ ~ok /\ UNCHANGED failures
               \/ ok /\ CallFails

\* The API server stores o under a new resourceVersion, which only the copies
\* in holders know; storing what is there already changes nothing.
Store(o, holders) ==
  /\ obj' = o
  /\ current' = IF o = obj THEN current ELSE holders

Untouched == UNCHANGED <<obj, current>>

\* Nothing is stored and the worker forgets its copies.
Release(a) == UNCHANGED obj /\ current' = current \ WorkingCopies(a)

\* The worker keeps its copy when it is done.
ReturnKeepingCopy(a, failed) ==
  /\ Goto(a, "idle")
  /\ queue' = IF failed THEN queue \cup {a} ELSE queue
  /\ original' = IF a = "ctl" THEN NoStatus ELSE original
  /\ err' = [err EXCEPT ![a] = FALSE]
  /\ UNCHANGED resource

\* The error is logged and not returned: the key is forgotten.
ReturnNil(a, failed) ==
  /\ Goto(a, "idle")
  /\ UNCHANGED queue
  /\ resource' = [resource EXCEPT ![a] = Absent]
  /\ original' = IF a = "ctl" THEN NoStatus ELSE original
  /\ err' = [err EXCEPT ![a] = FALSE]

\* The worker is done; an error requeues the key.
Return(a, failed) ==
  /\ Goto(a, "idle")
  /\ queue' = IF failed THEN queue \cup {a} ELSE queue
  /\ resource' = [resource EXCEPT ![a] = Absent]
  /\ original' = IF a = "ctl" THEN NoStatus ELSE original
  /\ err' = [err EXCEPT ![a] = FALSE]

\* The worker goes on; its queue is not touched.
Continue(a, stage) == Goto(a, stage) /\ UNCHANGED <<queue, original>>

\* The lister's object is copied for a worker that will go on at stage.
Take(a, stage) ==
  /\ a \in queue /\ pc[a] = "idle"
  /\ queue' = queue \ {a}
  /\ resource' = [resource EXCEPT ![a] = cache[a]]
  /\ current' = IF CacheOf(a) \in current THEN current \cup WorkingCopies(a)
                                          ELSE current \ WorkingCopies(a)
  /\ Goto(a, stage)
  /\ UNCHANGED <<obj, cache, err, session, external, created, counters>>

\* The lister has no object: processing stops.
Gone(a) ==
  /\ a \in queue /\ pc[a] = "idle" /\ cache[a].uid = 0
  /\ queue' = queue \ {a}
  /\ UNCHANGED <<obj, current, cache, pc, original, resource, err, session,
                 external, created, counters>>

-----------------------------------------------------------------------------
(* The controller: the generated reconciler and its two methods. *)

ctl == resource["ctl"]

SetCtl(o) == resource' = [resource EXCEPT !["ctl"] = o]

CtlReconcile ==
  /\ cache["ctl"].uid # 0
  /\ Take("ctl", IF cache["ctl"].deleting THEN "finalize" ELSE "setFinalizer")
  /\ original' = cache["ctl"].status

\* resource, err = patcher.Patch(...): the typed client returns an empty
\* object with an error, and the caller goes on with it.
PatchError(r) == Absent

\* updateFinalizersFiltered: the lister is asked again, and a patch with its
\* resourceVersion brings the controller's finalizer in line with copy r.
\* The API server adds no finalizer to an object that is being deleted.
updateFinalizersFiltered(r) ==
  LET existing == cache["ctl"]
      wants == "ctl" \in r.fins
      has == "ctl" \in existing.fins
      patched == [obj EXCEPT !.fins = IF wants THEN existing.fins \cup {"ctl"}
                                               ELSE existing.fins \ {"ctl"}]
      ok == "ctl.cache" \in current /\ ~(wants /\ obj.deleting)
  IN  \/ /\ existing.uid = 0 \/ wants = has
         /\ SetCtl(r)
         /\ Untouched /\ UNCHANGED failures
      \/ /\ existing.uid # 0 /\ wants # has /\ ok
         /\ Store(patched, {"ctl.resource"})
         /\ SetCtl(patched)
         /\ UNCHANGED failures
      \/ /\ existing.uid # 0 /\ wants # has
         /\ Refused(ok)
         /\ SetCtl(PatchError(r))
         /\ Untouched

\* No finalizer is set.
ReconcileUnfinalized ==
  /\ pc["ctl"] = "setFinalizer"
  /\ Continue("ctl", "annotate")
  /\ Untouched
  /\ UNCHANGED <<cache, resource, err, session, external, created, counters>>

\* setFinalizerIfFinalizer; an error is logged and ReconcileKind called.
SetFinalizer ==
  /\ pc["ctl"] = "setFinalizer"
  /\ updateFinalizersFiltered([ctl EXCEPT !.fins = @ \cup {"ctl"}])
  /\ Continue("ctl", "annotate")
  /\ UNCHANGED <<cache, err, session, external, created, changes, restarts>>

\* ReconcileKind: InitializeConditions, then setAnnotations' Update of the
\* whole copy.  What it returns is dropped, so the copies keep the old
\* resourceVersion.
SetAnnotations ==
  /\ pc["ctl"] = "annotate"
  /\ SetCtl([ctl EXCEPT !.annotated = TRUE, !.status.init = TRUE])
  /\ LET ok == ctl.uid # 0 /\ "ctl.resource" \in current IN
     \/ /\ ctl.annotated
        /\ Continue("ctl", "resources")
        /\ Untouched /\ UNCHANGED <<err, failures>>
     \/ /\ ~ctl.annotated /\ ok
        /\ Store([obj EXCEPT !.annotated = TRUE, !.fins = ctl.fins], {})
        /\ Continue("ctl", "resources")
        /\ UNCHANGED <<err, failures>>
     \/ /\ ~ctl.annotated /\ Refused(ok)
        /\ err' = [err EXCEPT !["ctl"] = TRUE]
        /\ Continue("ctl", "status")
        /\ Untouched
  /\ UNCHANGED <<cache, session, external, created, changes, restarts>>

\* Deployment, services, endpoints.  Missing endpoints are an error; a
\* deployment that is not available only shows in its condition.  A call that
\* fails does not always mark a condition (reconcileChannelService).
ReconcileResources ==
  /\ pc["ctl"] = "resources"
  /\ \/ /\ SetCtl([ctl EXCEPT !.status.up = available])
        /\ Continue("ctl", "hub")
        /\ UNCHANGED <<err, failures>>
     \/ /\ Refused(available)
        /\ \E up \in {FALSE, available /\ ctl.status.up} :
             SetCtl([ctl EXCEPT !.status.up = up])
        /\ err' = [err EXCEPT !["ctl"] = TRUE]
        /\ Continue("ctl", "status")
  /\ Untouched
  /\ UNCHANGED <<cache, session, external, created, changes, restarts>>

\* HubReady marked whatever createHub said.
HubErrorsIgnored ==
  /\ pc["ctl"] = "hub"
  /\ SetCtl([ctl EXCEPT !.status.hub = TRUE])
  /\ \/ hub' = TRUE /\ UNCHANGED failures
     \/ CallFails /\ UNCHANGED hub
  /\ Continue("ctl", "status")
  /\ Untouched
  /\ UNCHANGED <<cache, err, session, secret, available, created, changes, restarts>>

\* The hub is created unless HubReady is True already; a creation that fails
\* may have come far enough for the hub to exist.
ReconcileHub ==
  /\ pc["ctl"] = "hub"
  /\ \/ /\ ctl.status.hub
        /\ UNCHANGED <<resource, err, hub, failures>>
     \/ /\ ~ctl.status.hub /\ secret
        /\ hub' = TRUE
        /\ SetCtl([ctl EXCEPT !.status.hub = TRUE])
        /\ UNCHANGED <<err, failures>>
     \/ /\ ~ctl.status.hub /\ Refused(secret)
        /\ hub' \in {hub, hub \/ secret}
        /\ err' = [err EXCEPT !["ctl"] = TRUE]
        /\ UNCHANGED resource
  /\ Continue("ctl", "status")
  /\ Untouched
  /\ UNCHANGED <<cache, session, secret, available, created, changes, restarts>>

\* FinalizeKind: when the secret cannot be read nothing is deleted and no
\* error returned.
FinalizeKind ==
  /\ pc["ctl"] = "finalize"
  /\ LET ok == hub \/ ~DeleteOfMissingFails IN
     \/ /\ Refused(secret)
        /\ UNCHANGED <<hub, err>>
     \/ /\ secret /\ ok
        /\ hub' = FALSE
        /\ UNCHANGED <<err, failures>>
     \/ /\ secret /\ Refused(ok)
        /\ hub' \in {hub, FALSE}
        /\ err' = [err EXCEPT !["ctl"] = TRUE]
  /\ Continue("ctl", "clearFinalizer")
  /\ Untouched
  /\ UNCHANGED <<cache, resource, session, secret, available, created,
                 changes, restarts>>

\* clearFinalizer; an error is logged and the status synchronized.
ClearFinalizer ==
  /\ pc["ctl"] = "clearFinalizer"
  /\ updateFinalizersFiltered(
       [ctl EXCEPT !.fins = IF err["ctl"] THEN @ ELSE @ \ {"ctl"}])
  /\ Continue("ctl", "status")
  /\ UNCHANGED <<cache, err, session, external, created, changes, restarts>>

\* The status is written if the copy's differs from the original's; the
\* first attempt has the original's resourceVersion.
SyncStatus ==
  /\ pc["ctl"] = "status"
  /\ LET ok == "ctl.original" \in current IN
     \/ /\ original = ctl.status
        /\ Release("ctl") /\ UNCHANGED failures
        /\ Return("ctl", err["ctl"])
     \/ /\ original # ctl.status /\ ok
        /\ Store([obj EXCEPT !.status = ctl.status], {})
        /\ UNCHANGED failures
        /\ Return("ctl", err["ctl"])
     \/ /\ original # ctl.status /\ ok /\ CallFails
        /\ Release("ctl")
        /\ Return("ctl", TRUE)
     \/ /\ original # ctl.status /\ ~ok
        /\ Untouched /\ UNCHANGED <<resource, err, failures>>
        /\ Continue("ctl", "retry")
  /\ UNCHANGED <<cache, session, external, created, changes, restarts>>

\* After a conflict the LATEST object is fetched by the copy's name (an empty
\* copy has none) and given the copy's status.
RetryStatus ==
  /\ pc["ctl"] = "retry"
  /\ LET ok == ctl.uid # 0 /\ obj.uid # 0 IN
     \/ /\ ok
        /\ Store([obj EXCEPT !.status = ctl.status], {})
        /\ UNCHANGED failures
        /\ Return("ctl", err["ctl"])
     \/ /\ Refused(ok)
        /\ Release("ctl")
        /\ Return("ctl", TRUE)
  /\ UNCHANGED <<cache, session, external, created, changes, restarts>>

-----------------------------------------------------------------------------
(* The dispatcher's reconciler. *)

disp == resource["disp"]

SetDisp(o) == resource' = [resource EXCEPT !["disp"] = o]

\* The deletion timestamp overlooked.
ReconcileDeletedToo ==
  /\ cache["disp"].uid # 0 /\ IsReady(cache["disp"].status)
  /\ Take("disp", "ensureFinalizer")
  /\ UNCHANGED original

\* A channel that is not ready, deleted or not, is refused with an error: the
\* key stays queued, a stuttering step.
DispReconcile ==
  /\ cache["disp"].uid # 0 /\ IsReady(cache["disp"].status)
  /\ Take("disp", IF cache["disp"].deleting THEN "closeSession"
                                            ELSE "ensureFinalizer")
  /\ UNCHANGED original

DispFails ==
  /\ err' = [err EXCEPT !["disp"] = TRUE]
  /\ Continue("disp", "updateStatus")

EnsureFinalizer ==
  /\ pc["disp"] = "ensureFinalizer"
  /\ LET ok == "disp.resource" \in current IN
     \/ /\ "disp" \in disp.fins
        /\ Continue("disp", "session")
        /\ Untouched /\ UNCHANGED <<err, failures>>
     \/ /\ "disp" \notin disp.fins /\ ok
        /\ Store([obj EXCEPT !.fins = disp.fins \cup {"disp"}], {})
        /\ Continue("disp", "session")
        /\ UNCHANGED <<err, failures>>
     \/ /\ "disp" \notin disp.fins /\ Refused(ok)
        /\ DispFails
        /\ Untouched
  /\ UNCHANGED <<cache, resource, session, external, created, changes, restarts>>

\* CreateAzureSession's newClient creates the hub if it does not exist.
EnsureSession ==
  /\ pc["disp"] = "session"
  /\ \/ /\ session
        /\ Continue("disp", "subscriptions")
        /\ UNCHANGED <<session, hub, err, failures>>
     \/ /\ ~session /\ secret
        /\ session' = TRUE /\ hub' = TRUE
        /\ Continue("disp", "subscriptions")
        /\ UNCHANGED <<err, failures>>
     \/ /\ ~session /\ Refused(secret)
        /\ hub' \in {hub, hub \/ secret}
        /\ DispFails
        /\ UNCHANGED session
  /\ Untouched
  /\ UNCHANGED <<cache, resource, secret, available, created, changes, restarts>>

\* UpdateSubscriptions and the subscribable status (DispatcherReconciler has
\* their detail).
Subscribe ==
  /\ pc["disp"] = "subscriptions"
  /\ \/ /\ SetDisp([disp EXCEPT !.status.sub = TRUE])
        /\ Continue("disp", "updateStatus")
        /\ UNCHANGED <<err, failures>>
     \/ /\ CallFails
        /\ SetDisp([disp EXCEPT !.status.sub = FALSE])
        /\ DispFails
  /\ Untouched
  /\ UNCHANGED <<cache, session, external, created, changes, restarts>>

\* The finalizer goes although the session stays open.
LeaveSessionOpen ==
  /\ pc["disp"] = "closeSession"
  /\ Continue("disp", "removeFinalizer")
  /\ Untouched
  /\ UNCHANGED <<cache, resource, err, session, external, created, counters>>

CloseSession ==
  /\ pc["disp"] = "closeSession"
  /\ session' = FALSE
  /\ Continue("disp", "removeFinalizer")
  /\ Untouched
  /\ UNCHANGED <<cache, resource, err, external, created, counters>>

\* Update of the whole copy without the finalizer.
RemoveFinalizer ==
  /\ pc["disp"] = "removeFinalizer"
  /\ LET ok == "disp.resource" \in current IN
     \/ /\ ok
        /\ Store([obj EXCEPT !.fins = disp.fins \ {"disp"}], {})
        /\ Continue("disp", "updateStatus")
        /\ UNCHANGED <<err, failures>>
     \/ /\ Refused(ok)
        /\ DispFails
        /\ Untouched
  /\ UNCHANGED <<cache, resource, session, external, created, changes, restarts>>

\* Only readiness compared.
SameReadiness(s, t) == IsReady(s) = IsReady(t)

\* reflect.DeepEqual(nc.Status, desired.Status).
SameStatus(s, t) == s = t

\* updateStatus, after every outcome: the lister's object of that name gets
\* the copy's status.
UpdateStatus ==
  /\ pc["disp"] = "updateStatus"
  /\ LET existing == cache["disp"]
         same == SameStatus(existing.status, disp.status)
         ok == "disp.cache" \in current IN
     \/ /\ existing.uid = 0
        /\ Release("disp") /\ UNCHANGED failures
        /\ Return("disp", TRUE)
     \/ /\ existing.uid # 0 /\ same
        /\ Release("disp") /\ UNCHANGED failures
        /\ Return("disp", err["disp"])
     \/ /\ existing.uid # 0 /\ ~same /\ ok
        /\ Store([obj EXCEPT !.status = disp.status], {})
        /\ UNCHANGED failures
        /\ Return("disp", err["disp"])
     \/ /\ existing.uid # 0 /\ ~same /\ Refused(ok)
        /\ Release("disp")
        /\ Return("disp", TRUE)
  /\ UNCHANGED <<cache, session, external, created, changes, restarts>>

-----------------------------------------------------------------------------
(* The surroundings. *)

CountChange == changes < MaxChanges /\ changes' = changes + 1

\* EXTERNAL. The informer of process a catches up, over any number of
\* versions at once, and enqueues the key.
Sync(a) ==
  /\ CacheOf(a) \notin current
  /\ cache' = [cache EXCEPT ![a] = obj]
  /\ current' = current \cup {CacheOf(a)}
  /\ queue' = queue \cup {a}
  /\ UNCHANGED <<obj, pc, original, resource, err, session, external, created,
                 counters>>

\* EXTERNAL. An event without a change of the object: a resync of either
\* process or, for the controller, the GlobalResync of a watched resource.
Resync(a) ==
  /\ cache[a].uid # 0 /\ a \notin queue
  /\ queue' = queue \cup {a}
  /\ CountChange
  /\ UNCHANGED <<obj, current, cache, pc, original, resource, err, session,
                 external, created, failures, restarts>>

\* EXTERNAL. A user creates the channel, also where one was deleted.
CreateChannel ==
  /\ obj.uid = 0 /\ created < MaxIncarnations
  /\ created' = created + 1
  /\ \E a \in Annotated :
       Store([Absent EXCEPT !.uid = created + 1, !.annotated = a], {})
  /\ UNCHANGED <<workers, session, external, counters>>

\* EXTERNAL. A user deletes the channel.
DeleteChannel ==
  /\ obj.uid # 0 /\ ~obj.deleting
  /\ Store([obj EXCEPT !.deleting = TRUE], {})
  /\ CountChange
  /\ UNCHANGED <<workers, session, external, created, failures, restarts>>

\* EXTERNAL. The API server removes a deleted object without finalizers.
Collect ==
  /\ obj.deleting /\ obj.fins = {}
  /\ Store(Absent, {})
  /\ UNCHANGED <<workers, session, external, created, counters>>

\* EXTERNAL. The secret, or the dispatcher's deployment, goes or comes back;
\* NewController watches only the latter, for a GlobalResync.
Outage ==
  /\ CountChange
  /\ \/ /\ "secret" \in Outages
        /\ secret' = ~secret
        /\ UNCHANGED <<available, queue>>
     \/ /\ "available" \in Outages
        /\ available' = ~available
        /\ queue' = IF cache["ctl"].uid # 0 THEN queue \cup {"ctl"} ELSE queue
        /\ UNCHANGED secret
  /\ UNCHANGED <<obj, current, cache, pc, original, resource, err, session,
                 hub, created, failures, restarts>>

\* A process restarts: its memory is gone, its cache is read afresh and every
\* object in it enqueued.
Restart(a) ==
  /\ restarts < MaxRestarts
  /\ restarts' = restarts + 1
  /\ cache' = [cache EXCEPT ![a] = obj]
  /\ current' = (current \ WorkingCopies(a)) \cup {CacheOf(a)}
  /\ queue' = IF obj.uid # 0 THEN queue \cup {a} ELSE queue \ {a}
  /\ Goto(a, "idle")
  /\ resource' = [resource EXCEPT ![a] = Absent]
  /\ original' = IF a = "ctl" THEN NoStatus ELSE original
  /\ err' = [err EXCEPT ![a] = FALSE]
  /\ session' = (session /\ a # "disp")
  /\ UNCHANGED <<obj, external, created, changes, failures>>

-----------------------------------------------------------------------------
Controller ==
  \/ Gone("ctl") \/ CtlReconcile \/ SetFinalizer \/ SetAnnotations
  \/ ReconcileResources \/ ReconcileHub \/ FinalizeKind \/ ClearFinalizer
  \/ SyncStatus \/ RetryStatus

Dispatcher ==
  \/ Gone("disp") \/ DispReconcile \/ EnsureFinalizer \/ EnsureSession
  \/ Subscribe \/ CloseSession \/ RemoveFinalizer \/ UpdateStatus

Next ==
  \/ Controller \/ Dispatcher
  \/ \E a \in Actors : Sync(a) \/ Resync(a) \/ Restart(a)
  \/ CreateChannel \/ DeleteChannel \/ Collect \/ Outage

\* Both processes run, their informers catch up and the API server collects.
\* A key that fails is retried after a delay that grows up to many minutes, so
\* the informer cannot be late for every retry: it also catches up while the
\* worker is idle.
Fairness ==
  /\ WF_vars(Controller) /\ WF_vars(Dispatcher) /\ WF_vars(Collect)
  /\ \A a \in Actors : WF_vars(Sync(a)) /\ SF_vars(pc[a] = "idle" /\ Sync(a))

Spec == Init /\ [][Next]_vars

FairSpec == Spec /\ Fairness

-----------------------------------------------------------------------------
(***************************************************************************)
(* Safety.                                                                 *)
(***************************************************************************)

\* The dispatcher holds a session only for a channel that exists and carries
\* its finalizer, however far its cache lags behind
\* (reconciler/dispatcher/azurechannel.go 178-192).
SessionProtected == session => obj.uid # 0 /\ "disp" \in obj.fins

Protocol == INSTANCE FinalizerProtocol WITH
  Objects <- {"channel"},
  phase <- [o \in {"channel"} |-> IF obj.uid = 0 THEN "absent"
                                 ELSE IF obj.deleting THEN "deleting" ELSE "live"],
  finalizer <- {o \in {"channel"} : "disp" \in obj.fins},
  held <- {o \in {"channel"} : session}

\* The dispatcher's finalizer is used as Kubernetes means it although both
\* processes write the list of finalizers from copies that lag behind: no
\* patch and no Update of the controller takes off what the dispatcher put on,
\* or puts back what it took off (reconciler.go 238-299,
\* controller/azurechannel.go 334-348, reconciler/dispatcher/azurechannel.go
\* 273-299).
FinalizerHonoured == Protocol!Spec

\* A hub is created only while the object exists and the finalizer of the
\* process that creates it is on it, so its deletion cannot go unnoticed
\* ("ensure that finalizer is persisted before manipulating Azure",
\* reconciler/dispatcher/azurechannel.go 178-182).  The controller goes on
\* when its finalizer is not set (reconciler.go 162-168).  For a channel that
\* was created without the annotation, setAnnotations stops it or writes the
\* finalizer itself; for one that had it, nothing does.
HubCreatedUnderFinalizer ==
  [][~hub /\ hub' => \/ pc["ctl"] = "hub" /\ "ctl" \in obj.fins
                     \/ pc["disp"] = "session" /\ "disp" \in obj.fins]_vars

\* HubReady of a channel that is not being deleted says that the hub exists
\* (channel_lifecycle.go 52-53; controller/azurechannel.go 298-330).  This is
\* about the first object of a name: the retry of a status update fetches by
\* name (reconciler.go 218) and can give HubReady to a successor.
HubReadyProvisioned ==
  obj.uid = 1 /\ ~obj.deleting /\ obj.status.hub => hub

\* Nothing is left to do: no worker is busy, both caches have the object as it
\* is, and no key waits but one that the dispatcher refuses.
AtRest ==
  /\ \A a \in Actors : pc[a] = "idle" /\ CacheOf(a) \in current
  /\ "ctl" \notin queue
  /\ "disp" \in queue => cache["disp"].uid # 0 /\ ~IsReady(cache["disp"].status)

\* At rest a live channel has its hub, its conditions are those of the cluster
\* and, when they are all True, the dispatcher has a session and has reported
\* the subscribers: no failed call, conflict, event missed by a lagging cache
\* or status of the other process is the last word
\* (reconciler.go 182-215; reconciler/dispatcher/azurechannel.go 147-160).
RestIsReady ==
  AtRest /\ obj.uid # 0 /\ ~obj.deleting =>
    /\ obj.status.hub /\ obj.status.up = available
    /\ IsReady(obj.status) => obj.status.sub /\ session

\* At rest a deleted channel whose status is ready has lost both finalizers,
\* whatever failed while they were removed: the API server can collect it
\* (reconciler.go 169-179; reconciler/dispatcher/azurechannel.go 167-176).
RestIsReleased ==
  AtRest /\ obj.deleting /\ IsReady(obj.status) => obj.fins = {}

(***************************************************************************)
(* Liveness, under FairSpec.                                               *)
(***************************************************************************)

\* With the secret and the dispatcher's resources there, the two processes
\* stop overwriting each other's status: a channel that stays is ready with
\* its subscribers reported and a session, for good
\* (reconciler.go 182-192; reconciler/dispatcher/azurechannel.go 256-271).
StatusConverges ==
  <>[](obj.uid # 0 /\ ~obj.deleting /\ secret /\ available =>
         IsReady(obj.status) /\ obj.status.sub /\ session)

\* FinalizeKind asks again for the deletion of a group that is gone, and a
\* client that fails then keeps the controller's finalizer on the channel.
Hangs == DeleteOfMissingFails /\ ~hub /\ "ctl" \in obj.fins

\* A deleted channel that stays ready goes away, or ends where only the
\* deletion of what is gone already can keep it: its session is closed, the
\* dispatcher's finalizer is off and its hub deleted, whatever conflicts and
\* restarts came between (reconciler/dispatcher/azurechannel.go 140-176;
\* reconciler.go 169-179, 319-344; util.go 165-180).
ReadyDeletionSettles ==
  <>[](obj.deleting /\ IsReady(obj.status) =>
         Hangs /\ "disp" \notin obj.fins /\ ~session)

(***************************************************************************)
(* What the documentation says and the code does not do.                   *)
(***************************************************************************)

\* "When the AzureChannel is removed, the controller removes all the resources
\* created in step 2" (README.md 11): a channel that is deleted while ready
\* goes away with its hub.
ReadyDeletionCompletes ==
  obj.deleting /\ IsReady(obj.status) ~> ~obj.deleting

=============================================================================
