------------------------ MODULE DispatcherReconciler ------------------------
(***************************************************************************)
(* The dispatcher's reconciler (pkg/reconciler/dispatcher/azurechannel.go) *)
(* driving the AzureDispatcher: several workers take channel keys from one *)
(* work queue, no key is processed twice at a time, and every call to the  *)
(* Kubernetes API, to Azure or into a mutex is a step of its own.  Beside  *)
(* them run the receiver goroutines, users who create, edit and delete     *)
(* channels, the controller that marks channels ready, and restarts of the *)
(* process.                                                                *)
(*                                                                         *)
(* The reconciler reads channels from a lister whose cache lags behind the *)
(* API server.  It catches up with one channel in one step (Observe), over *)
(* any number of versions, and the event of that step queues the key.      *)
(***************************************************************************)
EXTENDS AzureDispatcher

CONSTANTS
  Threads,         \* workers of the controller.Impl (knative runs 2)
  FlakyPartitions, \* partitions on which Hub.Receive may fail
  NamesReused,     \* may a channel be created under a deleted one's name?
  MaxChanges,      \* bound: changes made by users and by the controller
  MaxFailures,     \* bound: failing calls to the API, the lister or Azure
  MaxRestarts      \* bound: restarts of the dispatcher process

ASSUME ParametersOK ==
  /\ Threads \in Nat \ {0}
  /\ FlakyPartitions \subseteq Partitions
  /\ NamesReused \in BOOLEAN
  /\ MaxChanges \in Nat /\ MaxFailures \in Nat /\ MaxRestarts \in Nat

VARIABLES
  phase,     \* API object: new, live, deleting (deletionTimestamp set), gone
  ready,     \* API object: status.IsReady()
  spec,      \* API object: UIDs in spec.subscribers
  finalizer, \* API object: holds finalizerName
  reported,  \* API object: UIDs whose SubscriberStatus.Ready is True
  reports,   \* history: every value of reported under this name
  cached,    \* the lister's copy of each channel
  informed,  \* channels whose copy there has the object's resourceVersion
  queue,     \* work queue: keys waiting
  pc,        \* where the worker that processes this key is
  local,     \* that worker's local variables (see Local)
  changes, failures, restarts   \* counters of the bounds

objectVars == <<phase, ready, spec, finalizer, reported, reports>>
listerVars == <<cached, informed>>
workerVars == <<queue, pc, local>>
counters == <<changes, failures, restarts>>
vars == <<dispatcherVars, post, objectVars, listerVars, workerVars, counters>>

Stages == {"idle", "unsubscribe", "deleteSession", "removeFinalizer",
           "ensureFinalizer", "session", "updateSubscriptions",
           "list", "storeHostMap", "updateStatus"}

Object ==
  [phase : {"new", "live", "deleting", "gone"}, ready : BOOLEAN,
   spec : SUBSET SubUIDs, finalizer : BOOLEAN, reported : SUBSET SubUIDs]

Local ==
  [refs : SUBSET SubRef,      \* the subscribers of its DeepCopy
   finalizer : BOOLEAN,       \* the copy holds finalizerName
   fresh : BOOLEAN,           \* the copy has the object's resourceVersion
   desired : SUBSET SubUIDs,  \* ready subscribers in the copy's status
   listed : SUBSET Channels,  \* ready channels read from the lister
   err : BOOLEAN]             \* reconcileErr # nil

NoLocal == [refs |-> {}, finalizer |-> FALSE, fresh |-> FALSE, desired |-> {},
            listed |-> {}, err |-> FALSE]

TypeOK ==
  /\ DispatcherTypeOK
  /\ post \in [Posts -> PostRecord]
  /\ phase \in [Channels -> {"new", "live", "deleting", "gone"}]
  /\ ready \in [Channels -> BOOLEAN]
  /\ spec \in [Channels -> SUBSET SubUIDs]
  /\ finalizer \in [Channels -> BOOLEAN]
  /\ reported \in [Channels -> SUBSET SubUIDs]
  /\ reports \in [Channels -> SUBSET SUBSET SubUIDs]
  /\ cached \in [Channels -> Object]
  /\ informed \subseteq Channels
  /\ queue \subseteq Channels
  /\ pc \in [Channels -> Stages]
  /\ local \in [Channels -> Local]
  /\ changes \in 0..MaxChanges
  /\ failures \in 0..MaxFailures
  /\ restarts \in 0..MaxRestarts

\* What the API server has of a channel.
object(c) ==
  [phase |-> phase[c], ready |-> ready[c], spec |-> spec[c],
   finalizer |-> finalizer[c], reported |-> reported[c]]

Init ==
  /\ NewDispatcher
  /\ post = [m \in Posts |-> NoPost]
  /\ phase = [c \in Channels |-> "new"]
  /\ ready = [c \in Channels |-> FALSE]
  /\ spec = [c \in Channels |-> {}]
  /\ finalizer = [c \in Channels |-> FALSE]
  /\ reported = [c \in Channels |-> {}]
  /\ reports = [c \in Channels |-> {{}}]
  /\ cached = [c \in Channels |-> object(c)]
  /\ informed = Channels
  /\ queue = {}
  /\ pc = [c \in Channels |-> "idle"]
  /\ local = [c \in Channels |-> NoLocal]
  /\ changes = 0 /\ failures = 0 /\ restarts = 0

-----------------------------------------------------------------------------
(* Helpers of the steps below. *)

Exists(c) == phase[c] \in {"live", "deleting"}

\* The lister finds something under the key.
Listed(c) == cached[c].phase \in {"live", "deleting"}

Busy == {c \in Channels : pc[c] # "idle"}

Goto(c, stage) == pc' = [pc EXCEPT ![c] = stage]

\* A call fails: one unit of the bound.
CallFails == failures < MaxFailures /\ failures' = failures + 1

\* r.reconcile returns an error; Reconcile still updates the status.
Fail(c) ==
  /\ local' = [local EXCEPT ![c].err = TRUE]
  /\ Goto(c, "updateStatus")

\* A write that changes the object gives it a new resourceVersion: the
\* lister's copy is left behind until Observe.
Written(c) == informed' = informed \ {c} /\ UNCHANGED cached

\* Copies whose URLs some map key or worker still points to.  Handlers do as
\* well, but no code compares theirs with another.
HeldCopies ==
  {r.copy : r \in UNION {subscriptions[c] \cup local[c].refs : c \in Channels}}

DeepCopy(c) ==
  LET k == CHOOSE x \in Copies : x \notin HeldCopies
  IN  [refs |-> {newSubscriptionReference(u, k) : u \in cached[c].spec},
       finalizer |-> cached[c].finalizer, fresh |-> c \in informed,
       desired |-> cached[c].reported, listed |-> {}, err |-> FALSE]

-----------------------------------------------------------------------------
(* Reconcile: one action per step. *)

\* The lister has nothing under this key: processing stops, no requeue.
\* (A copy that is not ready makes Reconcile return an error before it
\* does anything: the key stays queued, which is a stuttering step here.)
ReconcileGone(c) ==
  /\ c \in queue /\ pc[c] = "idle"
  /\ ~Listed(c)
  /\ queue' = queue \ {c}
  /\ UNCHANGED <<dispatcherVars, post, objectVars, listerVars, counters, pc, local>>

\* The lister's ready channel is copied; the copy's URLs are new pointers.
Reconcile(c) ==
  /\ c \in queue /\ pc[c] = "idle"
  /\ Cardinality(Busy) < Threads
  /\ Listed(c) /\ cached[c].ready
  /\ Copies \ HeldCopies # {}
  /\ local' = [local EXCEPT ![c] = DeepCopy(c)]
  /\ Goto(c, IF cached[c].phase = "deleting" THEN "unsubscribe" ELSE "ensureFinalizer")
  /\ queue' = queue \ {c}
  /\ UNCHANGED <<dispatcherVars, post, objectVars, listerVars, counters>>

\* Deletion, first call: UpdateSubscriptions with isFinalizer.
FinalizeSubscriptions(c) ==
  /\ pc[c] = "unsubscribe"
  /\ UpdateSubscriptions(c, local[c].refs, TRUE, {}, {})
  /\ Goto(c, "deleteSession")
  /\ UNCHANGED <<azureSessions, hostToChannelMap, post, objectVars, listerVars,
                 counters, queue, local>>

\* Deletion, second call.
FinalizeSession(c) ==
  /\ pc[c] = "deleteSession"
  /\ DeleteAzureSession(c)
  /\ Goto(c, "removeFinalizer")
  /\ UNCHANGED <<subscriptions, hostToChannelMap, listeners, post, objectVars,
                 listerVars, counters, queue, local>>

\* A call to the API server with the copy's resourceVersion is refused when
\* the object has changed since it was copied, and fails for other reasons.
Refused(c) ==
  \/ ~local[c].fresh /\ UNCHANGED failures
  \/ local[c].fresh /\ CallFails

\* Deletion, third call: Update of the copy without the finalizer.
RemoveFinalizer(c) ==
  /\ pc[c] = "removeFinalizer"
  /\ \/ /\ local[c].fresh /\ finalizer[c]
        /\ finalizer' = [finalizer EXCEPT ![c] = FALSE]
        /\ local' = [local EXCEPT ![c].fresh = FALSE]
        /\ Written(c)
        /\ Goto(c, "updateStatus")
        /\ UNCHANGED failures
     \/ /\ local[c].fresh /\ ~finalizer[c]
        /\ Goto(c, "updateStatus")
        /\ UNCHANGED <<finalizer, listerVars, local, failures>>
     \/ /\ Refused(c)
        /\ Fail(c)
        /\ UNCHANGED <<finalizer, listerVars>>
  /\ UNCHANGED <<dispatcherVars, post, phase, ready, spec, reported, reports,
                 changes, restarts, queue>>

\* The patch's outcome ignored.
EnsureFinalizerUnchecked(c) ==
  /\ pc[c] = "ensureFinalizer"
  /\ \/ /\ ~local[c].finalizer /\ local[c].fresh
        /\ finalizer' = [finalizer EXCEPT ![c] = TRUE]
        /\ local' = [local EXCEPT ![c].fresh = FALSE]
        /\ Written(c)
     \/ /\ local[c].finalizer \/ ~local[c].fresh
        /\ UNCHANGED <<finalizer, listerVars, local>>
  /\ Goto(c, "session")
  /\ UNCHANGED <<dispatcherVars, post, phase, ready, spec, reported, reports,
                 queue, counters>>

\* ensureFinalizer: the finalizer is persisted before Azure is touched, by a
\* patch that carries the copy's resourceVersion; a copy that holds it
\* already is believed.
EnsureFinalizer(c) ==
  /\ pc[c] = "ensureFinalizer"
  /\ \/ /\ local[c].finalizer
        /\ Goto(c, "session")
        /\ UNCHANGED <<finalizer, listerVars, failures, local>>
     \/ /\ ~local[c].finalizer /\ local[c].fresh
        /\ finalizer' = [finalizer EXCEPT ![c] = TRUE]
        /\ local' = [local EXCEPT ![c].fresh = FALSE]
        /\ Written(c)
        /\ Goto(c, "session")
        /\ UNCHANGED failures
     \/ /\ ~local[c].finalizer /\ Refused(c)
        /\ Fail(c)
        /\ UNCHANGED <<finalizer, listerVars>>
  /\ UNCHANGED <<dispatcherVars, post, phase, ready, spec, reported, reports,
                 changes, restarts, queue>>

\* AzureSessionExist, else the secret and CreateAzureSession, which connects
\* and creates the hub before it takes the lock to store the session.
EnsureSession(c) ==
  /\ pc[c] = "session"
  /\ \/ /\ AzureSessionExist(c)
        /\ Goto(c, "updateSubscriptions")
        /\ UNCHANGED <<azureSessions, failures, local>>
     \/ /\ ~AzureSessionExist(c)
        /\ CreateAzureSession(c)
        /\ Goto(c, "updateSubscriptions")
        /\ UNCHANGED <<failures, local>>
     \/ /\ ~AzureSessionExist(c)
        /\ CallFails
        /\ Fail(c)
        /\ UNCHANGED azureSessions
  /\ UNCHANGED <<subscriptions, hostToChannelMap, listeners, post, objectVars,
                 listerVars, changes, restarts, queue>>

\* createSubscribableStatus: every subscriber of the copy without an error.
createSubscribableStatus(refs, errs) == UIDsOf(refs) \ errs

\* UpdateSubscriptions; an error for some subscriber skips the host map.
UpdateSubscriptionsStep(c) ==
  LET refs == local[c].refs IN
  /\ pc[c] = "updateSubscriptions"
  /\ \E bad \in SUBSET refs, dropped \in SUBSET (refs \X FlakyPartitions) :
       LET errs == failedToSubscribe(c, refs, bad) IN
       /\ UpdateSubscriptions(c, refs, FALSE, bad, dropped)
       /\ local' = [local EXCEPT
            ![c] = [@ EXCEPT !.desired = createSubscribableStatus(refs, errs),
                             !.err = errs # {}]]
       /\ Goto(c, IF errs = {} THEN "list" ELSE "updateStatus")
       /\ IF bad = {} /\ dropped = {} THEN UNCHANGED failures ELSE CallFails
  /\ UNCHANGED <<azureSessions, hostToChannelMap, post, objectVars, listerVars,
                 changes, restarts, queue>>

\* Ready channels, those being deleted included, are read from the lister...
ListChannels(c) ==
  /\ pc[c] = "list"
  /\ local' = [local EXCEPT
                 ![c].listed = {d \in Channels : Listed(d) /\ cached[d].ready}]
  /\ Goto(c, "storeHostMap")
  /\ UNCHANGED <<dispatcherVars, post, objectVars, listerVars, counters, queue>>

\* ...and later, under hostToChannelMapLock, become the host map.
StoreHostMap(c) ==
  /\ pc[c] = "storeHostMap"
  /\ UpdateHostToChannelMap(local[c].listed)
  /\ Goto(c, "updateStatus")
  /\ UNCHANGED <<azureSessions, subscriptions, listeners, post, objectVars,
                 listerVars, counters, queue, local>>

\* The status of the copy (which was ready) differs from the lister's.
StatusDiffers(c) ==
  ~cached[c].ready \/ cached[c].reported # local[c].desired

\* The outcomes of updateStatus: whatever the lister has under the name gets
\* the copy's WHOLE status if its own differs, with the resourceVersion of
\* the LISTER's copy: an old status may replace a newer one.
StatusSame(c) ==
  /\ Listed(c) /\ ~StatusDiffers(c)
  /\ UNCHANGED <<ready, reported, reports, listerVars, failures>>

StatusStored(c) ==
  /\ Listed(c) /\ StatusDiffers(c)
  /\ c \in informed
  /\ ready' = [ready EXCEPT ![c] = TRUE]
  /\ reported' = [reported EXCEPT ![c] = local[c].desired]
  /\ reports' = [reports EXCEPT ![c] = @ \cup {local[c].desired}]
  /\ Written(c)
  /\ UNCHANGED failures

StatusRefused(c) ==
  /\ \/ ~Listed(c) /\ UNCHANGED failures
     \/ Listed(c) /\ StatusDiffers(c) /\ c \notin informed /\ UNCHANGED failures
     \/ Listed(c) /\ StatusDiffers(c) /\ CallFails
  /\ UNCHANGED <<ready, reported, reports, listerVars>>

\* The same with reconcileErr dropped instead of returned.
UpdateStatusReturnsNil(c) ==
  /\ pc[c] = "updateStatus"
  /\ \/ /\ StatusSame(c) \/ StatusStored(c)
        /\ UNCHANGED queue
     \/ /\ StatusRefused(c)
        /\ queue' = queue \cup {c}
  /\ Goto(c, "idle")
  /\ local' = [local EXCEPT ![c] = NoLocal]
  /\ UNCHANGED <<dispatcherVars, post, phase, spec, finalizer,
                 changes, restarts>>

\* updateStatus after every outcome of reconcile; an error of either
\* requeues the key.
UpdateStatus(c) ==
  /\ pc[c] = "updateStatus"
  /\ \/ /\ StatusSame(c) \/ StatusStored(c)
        /\ queue' = IF local[c].err THEN queue \cup {c} ELSE queue
     \/ /\ StatusRefused(c)
        /\ queue' = queue \cup {c}
  /\ Goto(c, "idle")
  /\ local' = [local EXCEPT ![c] = NoLocal]
  /\ UNCHANGED <<dispatcherVars, post, phase, spec, finalizer,
                 changes, restarts>>

-----------------------------------------------------------------------------
(* The surroundings: users, the controller, resyncs, the process. *)

\* EXTERNAL. A change of the channel leaves every copy of it behind.
Changed(c) ==
  /\ Written(c)
  /\ local' = [local EXCEPT ![c].fresh = FALSE]
  /\ UNCHANGED <<post, queue, pc, failures, restarts>>

\* EXTERNAL. The informer's cache catches up; the event queues the key.
Observe(c) ==
  /\ c \notin informed
  /\ cached' = [cached EXCEPT ![c] = object(c)]
  /\ informed' = informed \cup {c}
  /\ queue' = queue \cup {c}
  /\ UNCHANGED <<dispatcherVars, post, objectVars, pc, local, counters>>

CountChange == changes < MaxChanges /\ changes' = changes + 1

\* EXTERNAL. A user creates the channel.
CreateChannel(c) ==
  /\ phase[c] = "new" \/ (phase[c] = "gone" /\ NamesReused)
  /\ phase' = [phase EXCEPT ![c] = "live"]
  /\ CountChange /\ Changed(c)
  /\ UNCHANGED <<dispatcherVars, ready, spec, finalizer, reported, reports>>

\* EXTERNAL. The subscription controller rewrites spec.subscribers.
SetSubscribers(c) ==
  /\ phase[c] = "live"
  /\ \E S \in SUBSET SubUIDs \ {spec[c]} : spec' = [spec EXCEPT ![c] = S]
  /\ CountChange /\ Changed(c)
  /\ UNCHANGED <<dispatcherVars, phase, ready, finalizer, reported, reports>>

\* The controller's updateStatus.  Its retry gives the newest object under
\* the name, which may be one that is being deleted or a successor, the
\* whole status of an old copy (or of the empty one that a failed patch
\* returns): ready or not, and with a list of subscribers reported before.
ControllerStatus(c) ==
  /\ Exists(c)
  /\ \E r \in BOOLEAN, S \in reports[c] :
       /\ <<r, S>> # <<ready[c], reported[c]>>
       /\ ready' = [ready EXCEPT ![c] = r]
       /\ reported' = [reported EXCEPT ![c] = S]
  /\ CountChange /\ Changed(c)
  /\ UNCHANGED <<dispatcherVars, phase, spec, finalizer, reports>>

\* EXTERNAL. A user deletes the channel.
DeleteChannel(c) ==
  /\ phase[c] = "live"
  /\ phase' = [phase EXCEPT ![c] = "deleting"]
  /\ CountChange /\ Changed(c)
  /\ UNCHANGED <<dispatcherVars, ready, spec, finalizer, reported, reports>>

\* EXTERNAL. The informer's periodic resync: an event and no change.
Resync(c) ==
  /\ Listed(c) /\ c \notin queue
  /\ queue' = queue \cup {c}
  /\ CountChange
  /\ UNCHANGED <<dispatcherVars, post, objectVars, listerVars, failures,
                 restarts, pc, local>>

\* EXTERNAL. The controller's finalizer deletes the hub of a deleted channel;
\* the receivers open on it end.
HubDeleted(c) ==
  /\ phase[c] = "deleting"
  /\ \E l \in listeners : l.channel = c
  /\ listeners' = {l \in listeners : l.channel # c}
  /\ UNCHANGED <<azureSessions, subscriptions, hostToChannelMap, post,
                 objectVars, listerVars, workerVars, counters>>

\* EXTERNAL. The API server removes an object without finalizers, which a
\* channel is only when its hub is gone too.
Collect(c) ==
  /\ phase[c] = "deleting" /\ ~finalizer[c]
  /\ phase' = [phase EXCEPT ![c] = "gone"]
  /\ ready' = [ready EXCEPT ![c] = FALSE]
  /\ spec' = [spec EXCEPT ![c] = {}]
  /\ reported' = [reported EXCEPT ![c] = {}]
  /\ listeners' = {l \in listeners : l.channel # c}
  /\ Changed(c)
  /\ UNCHANGED <<azureSessions, subscriptions, hostToChannelMap, finalizer,
                 reports, changes>>

\* The process ends and starts again: its memory is gone, connections of
\* waiting producers break, and the first list of the informer fills the
\* lister and queues every channel.
ProcessRestart ==
  /\ DispatcherLost
  /\ cached' = [c \in Channels |-> object(c)]
  /\ informed' = Channels
  /\ queue' = {c \in Channels : Exists(c)}
  /\ pc' = [c \in Channels |-> "idle"]
  /\ local' = [c \in Channels |-> NoLocal]
  /\ post' = [m \in Posts |-> IF post[m].stage = "resolved"
                              THEN [post[m] EXCEPT !.stage = "rejected"]
                              ELSE post[m]]
  /\ UNCHANGED objectVars

Restart ==
  /\ restarts < MaxRestarts
  /\ restarts' = restarts + 1
  /\ ProcessRestart
  /\ UNCHANGED <<changes, failures>>

\* The receiver reads s.azureSessions without s.mux.  When a worker writes
\* that map at the same time the Go runtime may stop the process (concurrent
\* map read and map write; it does not look when the map is empty).
ConcurrentMapFault ==
  /\ \E m \in Posts : post[m].stage = "resolved"
  /\ \E c \in Channels : \/ pc[c] = "session" /\ ~AzureSessionExist(c)
                         \/ pc[c] = "deleteSession" /\ azureSessions # {}
  /\ ProcessRestart
  /\ UNCHANGED counters

\* A request reaches the receiver, and then the hub.
Receive(m) ==
  /\ \/ \E c \in Channels : Resolve(m, c)
     \/ NoSession(m)
     \/ Publish(m)
  /\ UNCHANGED <<objectVars, listerVars, workerVars, counters>>

SendFails(m) ==
  /\ PublishFails(m)
  /\ CallFails
  /\ UNCHANGED <<objectVars, listerVars, workerVars, changes, restarts>>

-----------------------------------------------------------------------------
Work(c) ==
  \/ ReconcileGone(c) \/ Reconcile(c)
  \/ FinalizeSubscriptions(c) \/ FinalizeSession(c) \/ RemoveFinalizer(c)
  \/ EnsureFinalizer(c) \/ EnsureSession(c) \/ UpdateSubscriptionsStep(c)
  \/ ListChannels(c) \/ StoreHostMap(c) \/ UpdateStatus(c)

Surroundings(c) ==
  \/ CreateChannel(c) \/ SetSubscribers(c) \/ ControllerStatus(c)
  \/ DeleteChannel(c) \/ Resync(c) \/ HubDeleted(c) \/ Collect(c)
  \/ Observe(c)

Next ==
  \/ \E c \in Channels : Work(c) \/ Surroundings(c)
  \/ \E m \in Posts : Receive(m) \/ SendFails(m)
  \/ Restart
  \/ ConcurrentMapFault

\* The informer catches up while no worker has the channel.
ObserveIdle(c) == pc[c] = "idle" /\ Observe(c)

\* Workers run and every call returns; an informer is not late for every single
\* retry of a key, because the delay between them doubles.  Users and failures
\* owe nothing.
Fairness == \A c \in Channels : WF_vars(Work(c)) /\ SF_vars(ObserveIdle(c))

Spec == Init /\ [][Next]_vars

FairSpec == Spec /\ Fairness

-----------------------------------------------------------------------------
(***************************************************************************)
(* Safety.                                                                 *)
(***************************************************************************)

\* A channel with subscriptions has a session, so the handlers of its
\* subscribers never outlive the connection they were opened on: the deletion
\* path drops subscriptions before it drops the session (azurechannel.go
\* 168-172) and subscribe refuses without one (dispatcher.go 184-188).
SubscriptionHasSession ==
  \A c \in Channels : subscriptions[c] # {} => AzureSessionExist(c)

\* While the process holds a session, the API object carries the dispatcher's
\* finalizer, so no channel can vanish before its session is closed
\* ("ensure that finalizer is persisted before manipulating Azure",
\* azurechannel.go 178-182).
MemoryIsFinalized ==
  \A c \in Channels : AzureSessionExist(c) => finalizer[c] /\ Exists(c)

\* Where a worker stands tells what it may rely on; with the two properties
\* above this is preserved by every step.  Azure and the maps are touched only
\* behind a persisted finalizer, also where a lagging copy is believed to have
\* it (178-197, 274-277); the finalizer goes only after the subscriptions and
\* then the session are gone (168-174).
StagesProtected ==
  \A c \in Channels :
    /\ finalizer[c] => Exists(c)
    /\ pc[c] = "ensureFinalizer" /\ local[c].finalizer => finalizer[c]
    /\ pc[c] \in {"session", "updateSubscriptions"} => finalizer[c]
    /\ pc[c] = "updateSubscriptions" => AzureSessionExist(c)
    /\ pc[c] \in {"deleteSession", "removeFinalizer"} => subscriptions[c] = {}
    /\ pc[c] = "removeFinalizer" => ~AzureSessionExist(c)

\* However often a channel is reconciled and whatever fails in between, the
\* subscriptions map never holds two references to one subscriber: the loop
\* over deleted subscriptions removes those of earlier copies
\* (dispatcher.go 168-173).
OneRefPerSubscriber ==
  \A c \in Channels : \A r, s \in subscriptions[c] : r.uid = s.uid => r = s

Protocol == INSTANCE FinalizerProtocol WITH
  Objects <- Channels,
  phase <- [c \in Channels |-> IF Exists(c) THEN phase[c] ELSE "absent"],
  finalizer <- {c \in Channels : finalizer[c]},
  held <- azureSessions

\* The reconciler uses its finalizer as Kubernetes means it, for any number of
\* workers, failures and restarts (azurechannel.go 163-192, 273-299).
FinalizerHonoured == Protocol!Spec

\* Every subscriber that the map of a live channel holds is heard: a receiver
\* is open for it on every partition on which Receive does not fail, however
\* often the channel was deleted and created again or the process restarted.
\* Hub and receivers go without the dispatcher, so the map must have been
\* emptied before a channel can be created under the name again
\* (azurechannel.go 167-176, dispatcher.go 146-173, 214-225).
SubscribedIsHeard ==
  \A c \in Channels : phase[c] = "live" =>
    \A r \in subscriptions[c], q \in Partitions \ FlakyPartitions :
      [channel |-> c, partition |-> q, ref |-> r] \in listeners

\* Nothing is due for a channel: no worker has it, its key is not queued and
\* the lister has it as it is.
AtRest(c) == pc[c] = "idle" /\ c \notin queue /\ c \in informed

\* When nothing is due for a live ready channel, the map of subscriptions and
\* the reported status are those of its spec: no failure, stale copy or
\* status of the controller on the way is the last word
\* (azurechannel.go 155-160, 195-210, 257-270).
QuiescentSynced ==
  \A c \in Channels : AtRest(c) /\ phase[c] = "live" /\ ready[c] =>
    UIDsOf(subscriptions[c]) = spec[c] /\ reported[c] = spec[c]

\* When nothing is due for a channel that is being deleted, it does not keep
\* the dispatcher's finalizer: no error, conflict or restart between the
\* release of subscriptions, session and finalizer ends the attempt
\* (azurechannel.go 163-176).
QuiescentReleased ==
  \A c \in Channels : AtRest(c) /\ phase[c] = "deleting" => ~finalizer[c]

(***************************************************************************)
(* Liveness, under FairSpec.                                               *)
(***************************************************************************)

\* Once users, the controller, failures and restarts have done what they will,
\* every live ready channel has its session, its subscriptions and its status,
\* and keeps them (azurechannel.go 163-210).
Converges ==
  \A c \in Channels : <>[](
    phase[c] = "live" /\ ready[c] =>
      /\ AzureSessionExist(c)
      /\ UIDsOf(subscriptions[c]) = spec[c]
      /\ reported[c] = spec[c])

\* In the end no channel that is being deleted and still ready keeps the
\* dispatcher's finalizer (azurechannel.go 167-176).  One whose readiness the
\* controller takes back before that keeps it (140-142).
FinalizerReleased ==
  \A c \in Channels : <>[](phase[c] = "deleting" /\ ready[c] => ~finalizer[c])

(***************************************************************************)
(* What the documentation says and the code does not do.                   *)
(***************************************************************************)

\* When all work is done, every live ready channel can be addressed by host
\* (dispatcher.go 243-245).
QuiescentRoutable ==
  (\A c \in Channels : AtRest(c)) => \A c \in Channels :
    phase[c] = "live" /\ ready[c] => c \in hostToChannelMap

\* An accepted message was sent to the hub (README.md 10).
AcceptedIsPublished ==
  \A m \in Posts : post[m].stage = "accepted" => post[m].published

\* "Once an event is received it is dispatched among subscribers" (README.md
\* 9): the event of a message published to a live channel's hub is handled
\* once for each subscriber in the map, on whichever partition it is, and for
\* nobody else.  A subscription that exists is left alone, one that is deleted
\* is ended, each partition is listened to (dispatcher.go 151, 168, 214).
DispatchedToSubscribers ==
  [][\A m \in Posts :
       LET c == post[m].channel IN
       post'[m].published /\ ~post[m].published /\ phase[c] = "live"
         => post'[m].got = subscriptions[c]]_vars

=============================================================================
