# A TLA+ verification of the Azure Event Hub channel

The repository runs Knative channels on Azure Event Hubs. Two processes work on
`AzureChannel` objects in the Kubernetes API: the **controller** creates what a
channel needs (in the cluster and in Azure) and reports readiness, the
**dispatcher** receives posted messages, publishes them to the hub and delivers
the hub's events to the channel's subscribers. This directory models what the
two do to shared state, checks the models with TLC and proves the central
invariants with TLAPS. Paths below are relative to the repository.

## 1. Inventory

| Component | State it keeps | Operations | Status |
|---|---|---|---|
| `AzureDispatcher`, `pkg/dispatcher` | `azureSessions`, `subscriptions`, `hostToChannelMap`; open receivers at the hub | `UpdateSubscriptions`, `subscribe`, `unsubscribe`, `AzureSessionExist`, `Create`/`DeleteAzureSession`, `UpdateHostToChannelMap`, the receiver function | modelled |
| Dispatcher reconciler, `pkg/reconciler/dispatcher` | work queue; finalizer and subscribable status of the object | `Reconcile`, `reconcile`, `createSubscribableStatus`, `updateStatus`, `ensureFinalizer`, `removeFinalizer` | modelled |
| Generated reconciler, `pkg/client/injection/.../reconciler.go` | work queue; finalizer and status of the object | `Reconcile`, `updateStatus` with retry, `setFinalizerIfFinalizer`, `clearFinalizer`, `updateFinalizersFiltered` | modelled |
| Controller, `pkg/reconciler/controller` | annotation and conditions of the object; Azure hub; the namespace's resources | `ReconcileKind`, `FinalizeKind`, `reconcileDispatcher` and its like | modelled |
| Conditions, `pkg/apis/messaging/v1alpha1` | the condition set | `IsReady`, `InitializeConditions`, `Mark...`, `PropagateDispatcherStatus` | modelled |
| Azure client, `pkg/util` | none; in Azure: resource group, namespace, hub, rule | `Connect`, `CreateOrUpdateHub`, `DeleteHub` | modelled |
| Resource builders, `controller/resources` | none | `MakeDispatcher`, `MakeK8sService` and their like | partly |
| Validation, metrics, generated clients, mains, manifests | none | | not modelled, see section 8 |

**How they interact.** The API object is the only thing both processes share:
finalizers, status, deletion timestamp. Each sees it through an informer cache
that lags, and writes it with the resourceVersion of the copy it started from.
The controller makes a channel ready; the dispatcher refuses any channel that
is not. Both create the hub if it is missing, only the controller deletes it,
and each holds the object with a finalizer of its own. Inside the dispatcher,
two reconcile workers and one goroutine per request share three maps, under two
locks and, in one place, none.

**What is hard**, and which property is about it (PROJECT.json lists each hazard
at its line):

- Release in order: subscriptions, session, finalizer, each possibly
  interrupted by a conflict, an error or a crash (`SubscriptionHasSession`,
  `MemoryIsFinalized`, `StagesProtected`, `SessionProtected`).
- Map keys that hold pointers into a copy made by each reconcile
  (`OneRefPerSubscriber`, `DispatchedToSubscribers`).
- Partial failure: one subscriber, one partition, one call of several
  (`QuiescentSynced`, `SubscribedIsHeard`, `DispatchedToSubscribers`).
- A map listed without a lock and stored under one (`QuiescentRoutable`), and read
  without one (`AcceptedIsPublished`).
- Two writers of one status, working on stale copies (`StatusConverges`,
  `RestIsReady`, `ReadyDeletionCompletes`, `HubReadyProvisioned`),
  and a status written over a newer one from a lister that lags (`QuiescentSynced`).
- Deletion that needs both processes and survives restarts and retries
  (`FinalizerReleased`, `QuiescentReleased`, `ReadyDeletionSettles`,
  `RestIsReleased`, `DeletionEnds`).
- Workers that race for the resources all channels of a namespace share, and errors
  that must show in the status (`RestIsTruthful`, `Converges` of `NamespaceResources`,
  `ErrorShows`); resources that no handler watches (`RestIsTruthful`).
- A hub created by either process, also behind the other's back, in five requests
  and a wait, each of which may be the last that works (`HubCreatedUnderFinalizer`,
  `HubReadyComplete`, `GroupsOwned`, `RemovedWithResources`).
- Hub names that users choose: shared, edited, used again (`SessionKeyed`,
  `SessionOnOwnHub`, `GroupsOwned`, `DeletionEnds`).
- A wait without a timeout that holds a worker (`HubsConverge`, `DeletionEnds`).

## 2. Modules

| Module | Models |
|---|---|
| `AzureDispatcher` | the dispatcher's memory, its operations, the life of a posted message |
| `DispatcherReconciler` | EXTENDS it: workers, messages, users, failures, restarts; the safety and liveness properties |
| `MCDispatcherReconciler`, `MCNamespaceResources` | the symmetry of channels, subscribers and messages, and of images, for TLC |
| `DispatcherReconciler_proofs` | theorems and TLAPS proofs: memory, finalizer, references |
| `DispatcherStatus_proofs` | EXTENDS it: theorems about the state at rest and about the receivers behind the map |
| `ChannelLifecycle` | one channel name from creation to collection, controller and dispatcher on lagging caches, the hub |
| `ChannelLifecycle_proofs` | theorems about it and TLAPS proofs; that it implements `FinalizerProtocol` |
| `HubCreation_proofs` | EXTENDS them: the proof that hubs are created under a finalizer |
| `NamespaceResources` | several controller workers on the resources of one namespace, with listers that lag; the status conditions |
| `NamespaceResources_proofs` | theorems about it and TLAPS proofs |
| `HubProvisioning` | several channels and hub names: both processes' workers at every request of the Azure client |
| `HubProvisioning_proofs` | theorems about it and TLAPS proofs |
| `FinalizerProtocol` | abstract: what the dispatcher promises of its finalizer; implemented by `DispatcherReconciler` and `ChannelLifecycle` |
| `FinalizerProtocol_proofs`, `DispatcherRefinement_proofs` | what the protocol is good for; that `DispatcherReconciler` implements it |

Definitions named "mutant" in PROJECT.json (`KeepDeleted`,
`HubErrorsIgnored`, ...) are what a plausible mistake would turn a definition
into; no specification uses them. They document how each property can fail.

### AzureDispatcher and DispatcherReconciler

`azureSessions` and `hostToChannelMap` are sets of channels, `subscriptions`
maps a channel to the keys of its inner map. A key is a UID together with the
DeepCopy its URL pointers lead into (`SubRef`), because Go compares
`subscriptionReference` by address (`pkg/dispatcher/types.go` 24-28). DeepCopy
takes the first identity that nothing points to any more; `Copies` is large
enough in every passing run that one is always left. `listeners` are the
receivers opened at the hub. They are external; the code drops every handle, so
the model only adds to them until the hub is deleted or the process ends.

A worker is known by the channel it processes (a work queue never hands out a
key twice at a time). `pc` says at which call it is, `local` holds its copy's
subscribers (`refs`) and finalizer, whether that copy still has the object's
resourceVersion (`fresh`), the status it will write (`desired`), the channels it listed and its
error. One action is one call that takes a lock or reaches the API server or
Azure; the code between two calls touches local variables only. `UpdateStatus`
requeues the key on error. A channel that is not ready in the lister makes `Reconcile`
return an error at once; the key stays queued, which is a stuttering step.

`cached` is the lister's copy of each channel, `informed` the channels of which that copy
has the object's resourceVersion. A write of anybody takes a channel out of `informed`;
`Observe` lets the lister catch up, over any number of versions, and queues the key, as
the informer's handler does. What is read from the lister: the copy a worker starts
from, the list that becomes the host map, and in `UpdateStatus` the object whose status
is compared and whose resourceVersion the write carries. The last is not the copy's: a
worker that began before the lister caught up may write an old list of subscribers over a
newer one without a conflict (`pkg/reconciler/dispatcher/azurechannel.go` 257-270), and in
the same way one that began before the name was used again writes to the successor.

`ControllerStatus` is the other writer of the status
(`reconciler.go` 210-236). It replaces the whole status of the newest object under the
name, live or being deleted, by that of an old copy: readiness either way, and any list of
subscribers that was ever reported under the name (`reports`, a history variable).
`ChannelLifecycle` has the steps that lead to such a write.

`HubDeleted` ends the receivers of a channel being deleted, before or after the dispatcher
has let go of it. `FlakyPartitions` are those whose Receive may fail.
`ConcurrentMapFault` is the outcome of the unsynchronised map read
(`pkg/dispatcher/dispatcher.go` 90) that the Go runtime may detect: the process
dies at a moment at which a worker writes that map. The other outcome, a read of
the old or the new map, is the interleaving of `NoSession` or `Publish` with the
worker's step.

### ChannelLifecycle

`obj` is the API object. `current` is the set of copies (two caches, the
controller's original and working copy, the dispatcher's working copy) that
still carry its resourceVersion; a resourceVersion is never used for anything
but this comparison. `Sync` lets a cache catch up over any number of versions.
`uid` tells incarnations of the name apart. `status` has whether the conditions
are initialized, five conditions in one (`up`), `HubReady` and whether the
subscribers are reported. The controller's stages are the generated reconciler
around `ReconcileKind` and `FinalizeKind`; the dispatcher's are those of
`DispatcherReconciler` with the subscriptions in one step. Details that matter:

- `PatchError`: the typed client returns an empty object with an error, and the
  generated reconciler goes on with it (`reconciler.go` 162, 176, 290).
- `SetAnnotations` drops the object that Update returns (`controller/azurechannel.go`
  344), so the status update that follows always conflicts and retries.
- `RetryStatus` gives the latest object under the name the old copy's status.
- `Outage` enqueues the key for the dispatcher's deployment only: the secret is
  not watched.

### NamespaceResources

The stage that is one step in `ChannelLifecycle` (`ReconcileResources`), in full.
`store` is what the API server has of the namespace's resources, `lister` what
the controller's five informers know of them, `pending` the resources of which
an event is still on its way; `Sync` delivers the events of one informer and, for
those that `Watched` lets through, enqueues every channel (GlobalResync). Users remove
watched resources (`Disturb`) and the two kinds no handler asks about, the second role
binding and a channel's service (`RemoveUnwatched`). `lostBinding` and `lostServices` are
history: what was removed so and has not been made again since (`Store` clears them). Events
are kept apart from the contents because a resource that is created and removed
before an informer notices still raises one. `pc[c]` is the stage of the worker
that has channel `c`, one API call per stage, `copy[c]` the conditions True in its
copy; the code never tells False from Unknown, so a status is the set of
conditions that are True. `Create` fails when the lister missed that the resource
exists, the deployment's update replaces whatever is there, the channel
service's update needs the lister's resourceVersion. Look-ups that fail
otherwise than by not finding do not occur: a lister reads memory. The races on
the channel object are left to `ChannelLifecycle`: a channel is its uid here, the
informer of channels is up to date, and an object goes only while no worker has it
(its finalizer is removed by the worker that has its key). Kubernetes makes a deployment available,
lets the endpoints follow and collects a service whose owner is gone.

### HubProvisioning

The hub, which is one variable in `ChannelLifecycle`, in full, and for several
channels. `level[h]` is how far the hub named `h` exists in Azure: the resource
group, a namespace requested, the namespace, the hub, the rule. `CreateOrUpdateHub`
is six actions, five requests and the wait for the namespace (`pkg/util/util.go`
77-169), and both processes run them. A request (`Request`) is refused when what it
builds on is missing or on its way out, and one that fails may have taken effect;
nothing is undone. `removing[h]` is a group whose deletion has begun: `DeleteHub` is
the request and the wait, and only then does the finalizer go. `PollHub` is the loop
of `controller/azurechannel.go` 318-327: it goes on until the hub is active, gone,
or a Get fails. The ticker of three minutes is no action, because the `select` that
looks at it does so once, before the loop, with a `default` beside it. `Stuck` are
hub names whose hub never becomes active.

`at[a][c]` is the stage of process `a`'s worker on channel `c` and `copy[a][c]` the hub
name it read when it began; a user may edit the name at any time (nothing in the
repository makes it immutable) and give two channels the same one. `session[c]` is
the hub name the dispatcher's session was made with, `cut` the channels whose session
holds the keys of a hub that has been removed since. `named`, `edited` and
`strays` are history the properties speak of: a group becomes a stray when it loses
its last owner to an edit of the name or to a secret that cannot be read
(`controller/azurechannel.go` 225-233), or when it is created by the dispatcher or by
a worker that still has the old name. Lagging caches, conflicts and the namespace's
resources are left to the two modules above: a channel is taken only when there is
something to do for it, on a current copy. What they add for the hub, a readiness
withdrawn by a worker's old copy, also during a deletion, is `StatusTakenBack`; the bound of
faults counts it.

### FinalizerProtocol

An object's phase, the objects with the finalizer, and the objects for which the
process holds something outside Kubernetes. It may put the finalizer on a live object,
acquire only behind it, let go of anything at any time (a crash does), and remove the
finalizer only from an object it holds nothing for; the API server collects a
deleted object only without it. `Protocol` in `DispatcherReconciler` maps `held` to
`azureSessions` and every key to the object now under it; in `ChannelLifecycle` there is
one object, with the dispatcher's entry of its finalizers and its session.
`FinalizerHonoured` is then the abstract specification as a property of the detailed
one.

External assumptions: the API server refuses a write with an old resourceVersion
and a new finalizer on a deleted object, stores an unchanged object without a
new version, and keeps status and the rest apart (the status subresource of
`config/200-azure-channel.yaml` 29-30); creating a hub is idempotent; deleting it
closes its receivers. Whether deleting a resource group that does not exist is an
error is the constant `DeleteOfMissingFails`: the client used here accepts only
200 and 202. Azure refuses to build in a group that is being deleted, ends every
deletion and every creation of a namespace it accepted, and voids the keys of a
hub that is removed.

## 3. Runs

Runs that pass:

| Run | Question | Bounds |
|---|---|---|
| `MCDispatcher` | is the memory consistent with the object in every interleaving, and every step one of `FinalizerProtocol`? does every channel converge or get released, and is everything in place once the work is done? | 2 channels, 1 subscriber, 2 workers, 5 changes, 2 failures, 1 restart, names reused |
| `MCDispatcherMessages` | is everybody in the map of subscriptions heard, and do map and status become those of the spec, while messages run into sessions that open and close? | 1 channel, 1 subscriber, 2 partitions, one of them flaky, 1 message, 2 workers, 6 changes, 1 failure, names reused |
| `MCLifecycleSafety` | are sessions and hubs under a finalizer, is HubReady true to Azure, does the dispatcher keep to `FinalizerProtocol` on a lagging cache, and when both processes have come to rest, is a live channel complete and a deleted one released? | 2 incarnations, outages of secret and deployment, 1 change, 1 failure |
| `MCLifecycleLive` | do the two writers of the status settle, does a deletion end, where deleting a group that is gone is an error? | 1 incarnation, deployment initially up or down, 1 change, 1 restart |
| `MCNamespaceRace` | do workers that race for shared resources come to an end? | 2 channels, 2 workers, 1 failure |
| `MCNamespaceChanges` | is the status true to the cluster after disturbances and removals, watched and not? does every failed reconcile show? | 1 channel, 2 incarnations, 2 images, 2 changes, 1 failure |
| `MCHubs` | what do HubReady, a session and a deletion still promise when names are shared, edited and used again, requests fail half way and a readiness is withdrawn? does every channel become ready or go away? | 2 channels, 2 names, one of them stuck, 2 workers a process, 4 changes, 1 failure, restart or withdrawal |

*Why these bounds.* A change is a creation, an edit, a status of the controller, a deletion
or a resync of the dispatcher's model, a deletion, an outage or a resync of the
lifecycle (creations are bounded by `MaxIncarnations` there). Five let both
channels exist and be ready and leave one for what interferes, or one channel be created,
made ready, deleted, created again and made ready again; with six, where there is
one channel, it can have subscribers as well. `Partitions` is empty where no property
speaks of receivers: no worker's step depends on them. In the lifecycle
everything but the user and the weather happens without one, so that one change
already meets both processes at any stage, with every lag of their caches. In `NamespaceResources`
two workers meet at every stage of an empty namespace, which needs no change, and a
disturbance concerns every worker alike, so one channel and two changes show what it
does, a change behind another still unseen included. In `HubProvisioning` four changes
let two channels be created and two things happen to them: a deletion and a
creation under the name again, an edit and a deletion, two deletions; the one failure
may hit any of the requests of either process, before or after its effect. Every
interference the code has is between two parties: two workers, two channels, two
writers, two incarnations, two references. One failure puts an error path once
at every place it can occur, a second lets the recovery fail too; most conflicts
are no failures of the bound, they follow from stale copies. `CHECK_DEADLOCK` is
`FALSE` because users, failures and restarts are bounded and the system then
comes to rest.

*Violations.* Each of these runs checks what a comment or the README says; TLC's
trace is the disagreement, PROJECT.json quotes the line:

| Run | What the code does |
|---|---|
| `MCHostMapRace` | two workers store host maps in the wrong order; a ready channel stays unaddressable until something else changes |
| `MCLostMessage` | a message that meets no session (here one the host map still routes to a channel whose session a deletion has just closed) is acknowledged and dropped |
| `MCDispatched` | every reconcile has new keys, so an unchanged channel subscribes again, and no receiver is ever closed: an event is dispatched to one subscriber twice. For the same two reasons a removed subscriber goes on receiving (a change more), and with `FlakyPartitions` not empty a Receive that fails is only logged: the subscriber, reported Ready, hears nothing of that partition |
| `MCStatusWipe` | without any failing call, a stale controller takes a deleted channel's readiness back: the deletion hangs |
| `MCStrayGroup` | the dispatcher makes a deleted channel's group again while the controller deletes it; the channel goes, the group stays |

*What the constants decide.* A property that passes does so for the constants of
its run; other values are further behaviours of the code:

| Property | Constants under which TLC finds it violated | Behaviour |
|---|---|---|
| `HubCreatedUnderFinalizer` | `Annotated = {TRUE}` | the look-up of a gone channel fails, `ReconcileKind` runs on the complete copy and creates a hub for it (`reconciler.go` 162) |
| `HubsConverge` | `Threads = 1`, or a third channel and two of them on `Stuck` names | every worker polls for a hub that never becomes active; no channel is reconciled any more |

*What the properties except.* Each exception is a behaviour of the code that breaks the
promise; TLC finds the property violated without it:

| Property | Exception | Behaviour |
|---|---|---|
| `GroupsOwned` | `strays` | edited names, an unreadable secret, and the dispatcher that creates a deleted group again (`MCStrayGroup`) |
| `HubReadyComplete`, `SessionKeyed` | `Alone` | of two channels with one hub name, the deletion of one takes the hub from the other, which stays HubReady (`controller/azurechannel.go` 298) and keeps a session with void keys: a session is never made anew |
| `HubReadyProvisioned` | the first object under a name | the retry of the status update (`reconciler.go` 218) gives a successor of the same name its predecessor's HubReady; its hub is never made |
| `ReadyDeletionSettles`, `DeletionEnds` | `Hangs` | every retry of a finalizer patch that failed deletes a group that is gone, and the client accepts only 200 and 202 (`pkg/util/util.go` 174); a poll that never ends; a channel that has lost its readiness (`MCStatusWipe`) |
| `RestIsReleased`, `FinalizerReleased` | channels that are not ready | the dispatcher refuses them (`pkg/reconciler/dispatcher/azurechannel.go` 140-142), so their deletion waits for a readiness that may never come |
| `SubscribedIsHeard` | `FlakyPartitions` | a failing Receive is only logged (`pkg/dispatcher/dispatcher.go` 221-223) |
| `RestIsTruthful` | `lostBinding`, `lostServices` | no handler passes these two kinds of resources (`controller/azurechannel.go` 166): a channel stays ready without its service until the next resync |
| `ErrorShows` | the channel's service | its failed update marks nothing (`controller/azurechannel.go` 507-511) |

`QuiescentSynced` and `Converges` speak of what is reported at rest only. On the way a
status may say Ready of a subscriber that is not in the map: the controller's old copy, the
dispatcher's own lagging lister, a restart and a name used again each lead there, and
either process may restore, for a while, a status the other has just replaced
(`StatusConverges` says it ends).

Met while modelling, and not stated as a run: a finalizer
patch that fails at the deletion is only logged (`reconciler.go` 176), the empty
object it returns takes the status with it, and if the status was empty before nothing
brings the key back until a resync (`RestIsReleased` speaks of ready channels); the comment
that puts the second role binding into the system namespace
(`controller/azurechannel.go` 382-384) where the code puts it into the channel's.

## 4. Fairness

Workers run: a queued key is taken (weak fairness of `Work(c)`, `Controller`,
`Dispatcher`), because the work queue retries keys with a back-off and every call
returns or fails. In `HubProvisioning` the channels are as many as the workers, so that
weak fairness of each channel's actions suffices; the poll of a stuck hub is the one
call that does not return, and it is an action that is never enabled again. Azure
ends what it has begun (weak fairness of `Azure(h)`). In `ChannelLifecycle` informers catch
up and the API server collects; the same holds of `NamespaceResources`, with Kubernetes' own
controllers. An informer gets strong fairness while the worker is idle (`Sync` of
`ChannelLifecycle`, `ObserveIdle` of `DispatcherReconciler`): a failing key is
retried after a delay that doubles up to many minutes, so an informer that is late
for every single retry is not a behaviour of the system. Without it TLC finds
the two processes rewriting each other's status for ever. Users, failures, outages
and restarts owe nothing and are bounded, so liveness speaks of what follows
once they end.

## 5. Theorems

`DispatcherReconciler_proofs`, for all values of the constants that satisfy
`ParametersOK`, hence any number of channels, subscribers, partitions, workers,
failures and restarts:

| Theorem | Property |
|---|---|
| `TypeCorrect` | `TypeOK` |
| `SubscriptionsProtected` | `SubscriptionHasSession` |
| `SessionsProtected` | `MemoryIsFinalized` |
| `StagesSafe` | `StagesProtected` |
| `OneReference` | `OneRefPerSubscriber` |

`SubscriptionHasSession` and `MemoryIsFinalized` are not inductive: that the
deletion path may close a session depends on its having dropped the
subscriptions, that `EnsureSession` may open one on the finalizer having been
persisted, and that the finalizer may be removed on the session being gone.
`StagesProtected` says this of every stage of a worker. `ListerFits` says what a copy is good
for: the lister's is the object when it has its resourceVersion, a live one with the
finalizer means that the object has it now, and a worker's that is still current was made
from a live object if it is about to be set up, from one being deleted if it is about to be
released. The conjunction `Protected` of all this is inductive together with `TypeOK`. The
proof takes it channel by channel (`ProtectedAt`, `FitsAt`): a worker changes the state of its own channel only
(`WorkLocal`), preserves it (`WorkProtects`), and users, the API server and a restart
preserve everybody's. `OneRefPerSubscriber` needs the same statement of the
references a worker carries (`OneRef`): they come from one DeepCopy, and
`UpdateSubscriptions` leaves nothing else in the map
(`UpdateSubscriptionsKeepsRefs`).

`DeepCopy` takes an unused identity with `CHOOSE`, the only one in the models. What the
proofs need of it (there is an identity, the references carry it) is the lemma
`DeepCopyTaken`, with Zenon at its leaves; no other proof expands `DeepCopy`.

`DispatcherStatus_proofs`, for the same values and without further hypotheses:

| Theorem | Property |
|---|---|
| `SyncedAtRest` | `QuiescentSynced` |
| `ReleasedAtRest` | `QuiescentReleased` |
| `SubscribersHeard` | `SubscribedIsHeard` |

*At rest.* That all work is done says nothing of how it came to be done, so the invariants
say of each stage what remains true if nothing intervenes. The flag that they turn on is
`fresh`: a copy whose resourceVersion is the object's. Whatever changes the object takes
`fresh` away and leaves the lister behind, and the lister queues the key when it catches
up; so a worker whose key is not queued and whose channel is in `informed` works on what is
there now. `SyncedAt` adds at each stage what it has made true: the map after
`UpdateSubscriptions`, the list to report after it, the report after `UpdateStatus`. An error
ends the chain and requeues. `ReleasedAt` is the same for a deletion: a current copy of an
object being deleted is at a stage of the deletion, and past them the finalizer is gone
or there was an error. That a status may be written over a newer one, by either process,
costs the proof one argument: such a write changes the object, so it takes `fresh` from
everybody, the writer included, and the key comes back.

*Heard.* `HeardAt` says of every reference in the map of a channel that still needs its
receivers that one is open on every partition that is not flaky. Receivers are added by
the dispatcher and end with the hub or the process; the hub goes only in a deletion, and
before the name can be used again the finalizer has gone, so that the map has been emptied
(`StagesProtected`).

| Module | Theorem | Property |
|---|---|---|
| `DispatcherRefinement_proofs` | `FinalizerRefinement` | `FinalizerHonoured` |
| `FinalizerProtocol_proofs` | `HeldForExisting` | `HeldExists` of the protocol |

`FinalizerRefinement` is the step refinement for every value of the constants: opening
a session is `Acquire`, closing it and a restart are `Release`, and each of the API
server's steps has its like. It rests on `Protected` (the stages tell that a
session is opened behind the finalizer and the finalizer removed after the session)
and on `ListerFits`: a worker that is about to add the finalizer, and whose copy is
still current, copied an object that was not being deleted, and so it is not.
`HeldForExisting` needs that an object with the finalizer exists, which makes
`HeldExists` inductive.

`HubProvisioning_proofs`, for all values that satisfy `ProvisioningParameters`, hence
any number of channels, hub names, workers, failures, restarts and changes:

| Theorem | Property |
|---|---|
| `TypeCorrect` | `TypeOK` |
| `ReadyHubsComplete` | `HubReadyComplete` |
| `SessionsKeyed` | `SessionKeyed` |
| `SessionsOnOwnHubs` | `SessionOnOwnHub` |
| `GroupsAlwaysOwned` | `GroupsOwned` |

The inductive invariant has a part for each thing the properties take for
granted. `Finalized`: a worker's channel has the finalizer of its process and so exists.
`Recorded`: the name of a channel and that of a copy are in the history of names, so
that the deletion of a hub is never that of a hub another channel has alone. `StagesFit`:
a worker that deletes has a channel that is being deleted, a session stands behind
the dispatcher's finalizer, a collected channel is not ready. `HubsWhole` carries
completeness from the moment a worker has listed the keys to the session or the
status it then writes: between the two another worker, a user or Azure may act.
`OwnHubs` follows the name of an unedited channel from the object to the dispatcher's copy and
on to the session; no session or copy of an earlier channel outlasts it, as each is behind
the finalizer (`Finalized`, `StagesFit`).
`GroupsClaimed` says which channel owns a group (`Claims`): it has the controller's
finalizer, and a worker that waits for the deletion to end waits for one that has
begun. So the finalizer cannot go while the group is there. `GroupsOwned` alone is
not inductive: nothing in it keeps the channel from being collected. The proof first
shows what a step of a process may change (`StepMoves`, `ControllerMoves`,
`DispatcherMoves`, `ClaimStep`) and then takes each part through the steps of the
processes, of users, of Azure and a restart.

`ChannelLifecycle_proofs`, for all values that satisfy `LifecycleParameters`, hence any
number of incarnations, outages, changes, failures and restarts, and whether or not
channels are created with the annotation:

| Theorem | Property |
|---|---|
| `TypeCorrect` | `TypeOK` |
| `SessionsProtected` | `SessionProtected` |
| `HubReadyTrue` | `HubReadyProvisioned` |
| `FinalizerRefinement` | `FinalizerHonoured` |
| `ReadyAtRest` | `RestIsReady` |
| `ReleasedAtRest` | `RestIsReleased` |

A lagging cache is what makes the invariant hard: a process decides on a copy that may
be of an older version, even of an earlier object under the name. The parts say what a
copy is still good for. `CachesFit`, `ControllerFits` and `DispatcherFits`: a copy that
carries the object's resourceVersion agrees with the object in what its worker will
write back, so a write that the API server accepts changes only what the worker meant to
change. `FinalizerFits` is for copies that are out of date: a live copy with the
dispatcher's finalizer means that the object has it now, and once the dispatcher has seen
a deletion the finalizer is on no live object. Both hold because the dispatcher alone
writes its entry, never removes it from a live object, and sees nothing that it has not
written. `SessionProtected` follows, and the refinement uses the same facts for the steps
that the API server accepts. `HubFits` traces HubReady through every copy: it is marked
after the hub was created, then only copied, and the hub is deleted only by a worker
that took up a deleted copy, when the first object is over (`FirstIsOver`).

For the two theorems about rest, `ControllerSettles` and `DispatcherSettles` say what is known
while a process is `Calm`: its key is not queued and its cache has the object's
resourceVersion. Every write that changes the object makes both caches old (`StoreStirs`),
and a cache that catches up enqueues; so while a process is calm nobody has changed the object
since it took the key, its copy is the object, and a write of its own that leaves it calm
found nothing to change. Each stage then adds what it has seen to, up to `ControllerDone` or
`DispatcherDone`, or there is an error and the key comes back. The two are
proved together: neither process touches the queue, the errors or the copies of the other
(`ControllerApart`, `DispatcherApart`), and an outage of the deployment enqueues the controller's
key. A controller that is calm with a failed patch has an empty copy; that its
status is not ready is why `ControllerDone` is about ready channels.

| Module | Theorem | Property |
|---|---|---|
| `HubCreation_proofs` | `HubsCreatedUnderFinalizer` | `HubCreatedUnderFinalizer` |
| `NamespaceResources_proofs` | `TypeCorrect` | `TypeOK` |
| `NamespaceResources_proofs` | `FailuresShow` | `ErrorShows` |
| `NamespaceResources_proofs` | `RestTruthful` | `RestIsTruthful` |

`HubsCreatedUnderFinalizer` assumes `Annotated = {FALSE}`; for a channel created with the
annotation the property is violated (section 3). What stops a worker without its
finalizer is then `setAnnotations`: the empty copy of a failed patch has no name to
update, and a copy without the annotation either still is the object, and then carries the
finalizer, or is refused. `AnnotationFits` and `OwnershipFits` say that a live object or
copy with the annotation also has the finalizer, and that a worker past that stage has it
on the object, also when the look-up of a channel that is gone let it go on.

`TypeOK` of `NamespaceResources` is not inductive, because the owner of a channel's service
is an object that exists only as long as no channel goes while a worker has it
(`WorkersFit`). The same invariant carries `FailuresShow`: from the stage that fails to the
write of the status the copy stays not ready, whatever the copy came with.

`RestTruthful` is about every resource that a channel stands on, each seen by some worker at some
time through a lister that may have been wrong. `ListerFits` says what a lister is good for: with
no event on its way it has what is there, and a binding or a service that it has still
exists, unless its owner has gone or a user has removed it and it is in the history. `Learned` says, stage by stage, what a channel's
reconcile has learned: of a watched resource, that the lister still has it as it was seen or
that an event is on its way, which will enqueue the channel; of one that is not watched,
that it exists, or that a user has removed it and nobody has made it again. This is known from the stage on, through the end of the
reconcile, until the key is enqueued or a stage fails (`Settled`). At rest no event is on
its way and what was learned is what is there; the converse, that a channel that is not ready
lacks something, is the same statement of a reconcile that ended without an error. The
assumption `NoneIsNothing` says that the value for "nothing" is no resource and no stage.

## 6. Only model-checked

Every invariant and every action property of a passing run is proved
(`HubCreatedUnderFinalizer` under the hypothesis named above). With TLC alone stays what is out of TLAPS' reach, liveness under fairness:
`Converges` (of `DispatcherReconciler` and of `NamespaceResources`), `FinalizerReleased`,
`StatusConverges`, `ReadyDeletionSettles`, `HubsConverge` and `DeletionEnds`. For
all but the last the half that is about a state is proved. `SyncedAtRest`,
`RestTruthful`, `ReadyAtRest` and the two `ReleasedAtRest` say what is true once the system has
come to rest; that it comes to rest is what TLC checks. `SessionsOnOwnHubs`, `ReadyHubsComplete`
and `SessionsKeyed` say together what `HubsConverge` promises of a channel that is ready and
has a session. The violated properties of section 3 are counterexamples and have no proof.

## 7. Plan

In order of importance:

1. Done: `AzureDispatcher`, `DispatcherReconciler`, `ChannelLifecycle`,
   `NamespaceResources` and `HubProvisioning`, each with its proofs; `FinalizerProtocol` and
   its refinement by the dispatcher's reconciler and by the lifecycle.
2. Proofs: an abstract specification of what a subscriber is promised, implemented by
   `DispatcherReconciler`; what the generated reconciler promises of any `Reconciler`
   (a status that was computed is written or the key comes back), implemented by
   `ChannelLifecycle`.

## 8. Not modelled

Conversion of events and the HTTP server (the models have their outcomes); credentials
(present or not); logging, Kubernetes events and metrics (`pkg/reconciler/reconciler.go`,
`stats_reporter.go`: no decision depends on them); validation (stateless); what the builders
in `controller/resources` write beyond image, owner and spec; the generated clients, informers and deep copies
except for the two behaviours named above; the main packages, whose restarts are
actions; manifests and scripts.
