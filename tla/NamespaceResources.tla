------------------------- MODULE NamespaceResources -------------------------
(***************************************************************************)
(* What the controller's ReconcileKind does in one namespace: the service  *)
(* account, role bindings, deployment and service of the dispatcher, which *)
(* all channels of the namespace share, and each channel's own service.    *)
(* Several workers reconcile channels at once.  They look at listers that  *)
(* lag behind the API server and write to the API server itself.           *)
(*                                                                         *)
(* The races about the AzureChannel object are ChannelLifecycle's: here a  *)
(* channel is its uid, and its status the conditions that are True.        *)
(***************************************************************************)
EXTENDS Naturals, FiniteSets

CONSTANTS
  Channels,        \* names of channels in the namespace
  Threads,         \* workers of the controller
  Images,          \* values DISPATCHER_IMAGE may have
  MaxIncarnations, \* channels created one after the other under a name
  MaxChanges,      \* bound: changes by users, outages, restarts, resyncs
  MaxFailures,     \* bound: calls to the API server or to Azure that fail
  None             \* no resource, no condition, no error

ASSUME NamespaceParameters ==
  /\ Threads \in Nat \ {0} /\ MaxIncarnations \in Nat \ {0}
  /\ Images # {}
  /\ MaxChanges \in Nat /\ MaxFailures \in Nat

VARIABLES
  uid,     \* the object under each name, 0 when there is none
  created, \* objects created so far under each name
  status,  \* the conditions each object's status has True
  store,   \* the namespace's resources in the API server
  lister,  \* the same as the controller's informers know them
  pending, \* the resources of which an event is on its way to an informer
  lostBinding,  \* history: a user removed the second role binding...
  lostServices, \* history: ...or the service of these channels, and nobody
                \* has made it again
  image,   \* the process's dispatcherImage
  queue,   \* channels in the work queue
  pc,      \* where the worker that has the channel is
  copy,    \* the conditions True in the worker's copy of the channel
  err,     \* the stage that failed, None if none did
  changes, failures   \* counters of the bounds

channels == <<uid, created, status>>
workers == <<queue, pc, copy, err>>
history == <<lostBinding, lostServices>>
cluster == <<store, lister, pending, history>>
vars == <<channels, cluster, image, workers, changes, failures>>

Conditions == {"DispatcherReady", "ServiceReady", "EndpointsReady", "HubReady",
               "Addressable", "ChannelServiceReady"}

\* The condition set's happy condition: all of the others are True.
IsReady(conditions) == Conditions \subseteq conditions

\* available: the deployment's condition of that type, None before a first report.
Deployment == [image : Images, available : {None, "True", "False"}]

\* owner: the uid in the controller reference; spec: it is the expected one.
ChannelService == [owner : 1..MaxIncarnations, spec : BOOLEAN]

Resources ==
  [account : BOOLEAN, binding : BOOLEAN, configBinding : BOOLEAN,
   deployment : Deployment \cup {None}, service : BOOLEAN,
   channelService : [Channels -> ChannelService \cup {None}],
   endpoints : {None, "empty", "backed"}]

\* Each informer delivers one kind of resource.
Informers == {{"account"}, {"binding", "configBinding"}, {"deployment"},
              {"service", "channelService"}, {"endpoints"}}

\* GlobalResync without a watch on deployments.
UnwatchedDeployment == {"account", "binding", "service", "endpoints"}

\* The event handlers of NewController pass only what has the dispatcher's
\* name: neither the channels' services nor the second role binding.
Watched == {"account", "binding", "deployment", "service", "endpoints"}

Stages == <<"account", "binding", "configBinding", "deployment", "service",
            "endpoints", "channelService", "hub", "status">>
StageNames == {Stages[i] : i \in DOMAIN Stages}

\* Nil is told from every resource and every stage.
ASSUME NoneIsNothing == None \notin Deployment \cup ChannelService \cup StageNames

\* Every variable is of its type: in particular no condition is marked that
\* the condition set does not have (channel_lifecycle.go 26-32).
TypeOK ==
  /\ uid \in [Channels -> 0..MaxIncarnations]
  /\ created \in [Channels -> 0..MaxIncarnations]
  /\ status \in [Channels -> SUBSET Conditions]
  /\ store \in Resources /\ lister \in Resources
  /\ pending \subseteq UNION Informers
  /\ lostBinding \in BOOLEAN /\ lostServices \subseteq Channels
  /\ image \in Images
  /\ queue \subseteq Channels
  /\ pc \in [Channels -> StageNames \cup {"idle"}]
  /\ copy \in [Channels -> SUBSET Conditions]
  /\ err \in [Channels -> StageNames \cup {None}]
  /\ changes \in 0..MaxChanges /\ failures \in 0..MaxFailures

Init ==
  /\ uid = [c \in Channels |-> 0] /\ created = uid
  /\ status = [c \in Channels |-> {}]
  /\ store = [account |-> FALSE, binding |-> FALSE,
              configBinding |-> FALSE, deployment |-> None,
              service |-> FALSE, channelService |-> [c \in Channels |-> None],
              endpoints |-> None]
  /\ lister = store /\ pending = {}
  /\ lostBinding = FALSE /\ lostServices = {}
  /\ image \in Images
  /\ queue = {}
  /\ pc = [c \in Channels |-> "idle"] /\ copy = [c \in Channels |-> {}]
  /\ err = [c \in Channels |-> None]
  /\ changes = 0 /\ failures = 0

Live == {c \in Channels : uid[c] # 0}

-----------------------------------------------------------------------------
(* Helpers. *)

CallFails == failures < MaxFailures /\ failures' = failures + 1

\* A call that needs ok, or one that fails although it does not have to.
Refused(ok) == \/ ~ok /\ UNCHANGED failures
               \/ ok /\ CallFails

\* The API server stores new and tells the informers what has changed.
Write(new) ==
  /\ store' = new
  /\ pending' = pending \cup {f \in DOMAIN store : new[f] # store[f]}

\* A write that is not a user's removal of an unwatched resource.
Store(new) ==
  /\ Write(new)
  /\ lostBinding' = (lostBinding /\ ~new.configBinding)
  /\ lostServices' = {c \in lostServices : new.channelService[c] = None}

Untouched == UNCHANGED <<store, pending, history>>

Mark(c, conditions) == copy' = [copy EXCEPT ![c] = @ \cup conditions]

MarkFailed(c, conditions) == copy' = [copy EXCEPT ![c] = @ \ conditions]

\* ReconcileKind goes on with the stage after this one.
Proceed(c) ==
  /\ \E i \in DOMAIN Stages :
       Stages[i] = pc[c] /\ pc' = [pc EXCEPT ![c] = Stages[i + 1]]
  /\ UNCHANGED err

\* ReconcileKind returns an error; the status is still written.
Fail(c) ==
  /\ err' = [err EXCEPT ![c] = pc[c]]
  /\ pc' = [pc EXCEPT ![c] = "status"]

\* A step of c's worker in its stage.
At(c, stage) == pc[c] = stage /\ UNCHANGED <<channels, lister, image, queue, changes>>

\* The lister has not found a resource.  It is created, as made, unless the
\* API server has it already.
Create(c, exists, made) ==
  /\ ~exists /\ UNCHANGED failures
  /\ Store(made)
  /\ Proceed(c)

CreateFails(c, exists, conditions) ==
  /\ Refused(~exists)
  /\ MarkFailed(c, conditions)
  /\ Fail(c)
  /\ Untouched

\* The lister has what is wanted.
Found(c) == Proceed(c) /\ Untouched /\ UNCHANGED failures

-----------------------------------------------------------------------------
(* The controller. *)

\* A worker takes the channel.
Reconcile(c) ==
  /\ c \in queue /\ uid[c] # 0 /\ pc[c] = "idle"
  /\ Cardinality({d \in Channels : pc[d] # "idle"}) < Threads
  /\ queue' = queue \ {c}
  /\ pc' = [pc EXCEPT ![c] = "account"]
  /\ copy' = [copy EXCEPT ![c] = status[c]]
  /\ UNCHANGED <<channels, cluster, image, err, changes, failures>>

ReconcileServiceAccount(c) ==
  /\ At(c, "account")
  /\ \/ lister.account /\ Found(c) /\ UNCHANGED copy
     \/ /\ ~lister.account
        /\ \/ /\ Create(c, store.account, [store EXCEPT !.account = TRUE])
              /\ UNCHANGED copy
           \/ CreateFails(c, store.account, {"DispatcherReady"})

\* Two bindings, one after the other, both in the channel's namespace.
ReconcileRoleBinding(c) ==
  \E b \in {"binding", "configBinding"} :
    /\ At(c, b)
    /\ \/ lister[b] /\ Found(c) /\ UNCHANGED copy
       \/ /\ ~lister[b]
          /\ \/ /\ Create(c, store[b], [store EXCEPT ![b] = TRUE])
                /\ UNCHANGED copy
             \/ CreateFails(c, store[b], {"DispatcherReady"})

\* Marked with the type of the deployment's condition.
PropagateAvailable(c, available) ==
  copy' = IF available = "True" THEN [copy EXCEPT ![c] = @ \cup {"Available"}]
                                ELSE copy

\* A deployment without the condition leaves DispatcherReady as it was.
PropagateDispatcherStatus(c, available) ==
  copy' = [copy EXCEPT ![c] =
             CASE available = "True"  -> @ \cup {"DispatcherReady"}
               [] available = "False" -> @ \ {"DispatcherReady"}
               [] available = None    -> @]

\* The update carries no resourceVersion: it replaces whatever is there.
\* When it fails it is ServiceReady that is marked.
ReconcileDeployment(c) ==
  /\ At(c, "deployment")
  /\ LET seen == lister.deployment
         there == store.deployment
         exists == there # None IN
     \/ /\ seen = None
        /\ \/ /\ Create(c, exists, [store EXCEPT !.deployment =
                                      [image |-> image, available |-> None]])
              /\ PropagateDispatcherStatus(c, None)
           \/ CreateFails(c, exists, {"DispatcherReady"})
     \/ /\ seen # None /\ seen.image # image
        /\ \/ /\ exists /\ UNCHANGED failures
              /\ Store([store EXCEPT !.deployment.image = image])
              /\ PropagateDispatcherStatus(c, there.available)
              /\ Proceed(c)
           \/ /\ Refused(exists)
              /\ MarkFailed(c, {"ServiceReady"})
              /\ Fail(c)
              /\ Untouched
     \/ /\ seen # None /\ seen.image = image
        /\ PropagateDispatcherStatus(c, seen.available)
        /\ Found(c)

ReconcileDispatcherService(c) ==
  /\ At(c, "service")
  /\ \/ lister.service /\ Found(c) /\ Mark(c, {"ServiceReady"})
     \/ /\ ~lister.service
        /\ \/ /\ Create(c, store.service, [store EXCEPT !.service = TRUE])
              /\ Mark(c, {"ServiceReady"})
           \/ CreateFails(c, store.service, {"ServiceReady"})

\* The error returned without a mark.
EndpointsUnmarked(c) ==
  /\ At(c, "endpoints")
  /\ IF lister.endpoints = "backed" THEN Proceed(c) /\ Mark(c, {"EndpointsReady"})
                                    ELSE Fail(c) /\ UNCHANGED copy
  /\ Untouched /\ UNCHANGED failures

\* Missing endpoints, or endpoints without subsets, are an error.
CheckEndpoints(c) ==
  /\ At(c, "endpoints")
  /\ \/ /\ lister.endpoints = "backed"
        /\ Mark(c, {"EndpointsReady"})
        /\ Proceed(c)
     \/ /\ lister.endpoints # "backed"
        /\ MarkFailed(c, {"EndpointsReady"})
        /\ Fail(c)
  /\ Untouched /\ UNCHANGED failures

\* A service with another spec is rewritten first, with the resourceVersion
\* of the lister's, and only then must be the channel's own.  A failed update
\* marks nothing.
ReconcileChannelService(c) ==
  /\ At(c, "channelService")
  /\ LET seen == lister.channelService[c]
         there == store.channelService[c]
         ready == {"ChannelServiceReady", "Addressable"}
         owned == seen # None /\ seen.owner = uid[c]
         expected == [owner |-> uid[c], spec |-> TRUE]
         rewritten == [store EXCEPT !.channelService[c].spec = TRUE] IN
     \/ /\ seen = None
        /\ \/ /\ Create(c, there # None,
                        [store EXCEPT !.channelService[c] = expected])
              /\ Mark(c, ready)
           \/ CreateFails(c, there # None, {"ChannelServiceReady"})
     \/ /\ seen # None /\ ~seen.spec
        /\ \/ /\ there = seen /\ UNCHANGED failures
              /\ Store(rewritten)
              /\ \/ owned /\ Mark(c, ready) /\ Proceed(c)
                 \/ ~owned /\ MarkFailed(c, {"ChannelServiceReady"}) /\ Fail(c)
           \/ /\ Refused(there = seen)
              /\ Fail(c)
              /\ Untouched /\ UNCHANGED copy
     \/ /\ seen # None /\ seen.spec /\ owned
        /\ Mark(c, ready)
        /\ Found(c)
     \/ /\ seen # None /\ seen.spec /\ ~owned
        /\ MarkFailed(c, {"ChannelServiceReady"})
        /\ Fail(c)
        /\ Untouched /\ UNCHANGED failures

\* The hub is only looked for while HubReady is not True.
ReconcileHub(c) ==
  /\ At(c, "hub")
  /\ \/ Mark(c, {"HubReady"}) /\ Proceed(c) /\ UNCHANGED failures
     \/ "HubReady" \notin copy[c] /\ CallFails /\ Fail(c) /\ UNCHANGED copy
  /\ Untouched

Done(c) ==
  /\ pc' = [pc EXCEPT ![c] = "idle"]
  /\ copy' = [copy EXCEPT ![c] = {}]
  /\ err' = [err EXCEPT ![c] = None]

\* Errors of ReconcileKind not handed to the work queue.
ErrorsDropped(c) ==
  /\ pc[c] = "status"
  /\ status' = [status EXCEPT ![c] = copy[c]]
  /\ Done(c)
  /\ UNCHANGED <<uid, created, cluster, image, queue, changes, failures>>

\* The generated reconciler writes the status; a failure here or before
\* requeues the key.
UpdateStatus(c) ==
  /\ pc[c] = "status"
  /\ \/ /\ status' = [status EXCEPT ![c] = copy[c]]
        /\ queue' = IF err[c] = None THEN queue ELSE queue \cup {c}
        /\ UNCHANGED failures
     \/ /\ status[c] # copy[c] /\ CallFails
        /\ queue' = queue \cup {c}
        /\ UNCHANGED status
  /\ Done(c)
  /\ UNCHANGED <<uid, created, cluster, image, changes>>

-----------------------------------------------------------------------------
(* The surroundings. *)

CountChange == changes < MaxChanges /\ changes' = changes + 1

\* EXTERNAL. An informer catches up; GlobalResync enqueues every channel.
Sync(kind) ==
  /\ kind \cap pending # {}
  /\ lister' = [f \in DOMAIN lister |-> IF f \in kind THEN store[f] ELSE lister[f]]
  /\ pending' = pending \ kind
  /\ queue' = IF kind \cap pending \cap Watched # {} THEN queue \cup Live ELSE queue
  /\ UNCHANGED <<channels, store, history, image, pc, copy, err, changes,
                 failures>>

\* EXTERNAL. A user creates the channel.
CreateChannel(c) ==
  /\ uid[c] = 0 /\ created[c] < MaxIncarnations
  /\ created' = [created EXCEPT ![c] = @ + 1]
  /\ uid' = [uid EXCEPT ![c] = created[c] + 1]
  /\ queue' = queue \cup {c}
  /\ UNCHANGED <<status, cluster, image, pc, copy, err, changes, failures>>

\* EXTERNAL. A deleted channel is gone.  The controller's finalizer is on it
\* until a worker that has the key removes it, so none is reconciling it.
ChannelGone(c) ==
  /\ uid[c] # 0 /\ pc[c] = "idle"
  /\ CountChange
  /\ uid' = [uid EXCEPT ![c] = 0]
  /\ status' = [status EXCEPT ![c] = {}]
  /\ queue' = queue \ {c}
  /\ UNCHANGED <<created, cluster, image, pc, copy, err, failures>>

\* EXTERNAL. Kubernetes collects a service whose owner is gone.
CollectService(c) ==
  /\ store.channelService[c] # None /\ store.channelService[c].owner # uid[c]
  /\ Store([store EXCEPT !.channelService[c] = None])
  /\ UNCHANGED <<channels, lister, image, workers, changes, failures>>

\* EXTERNAL. What the endpoints come to.
Backed ==
  IF ~store.service THEN None
  ELSE IF store.deployment # None /\ store.deployment.available = "True"
       THEN "backed" ELSE "empty"

\* EXTERNAL. The deployment becomes available, or the endpoints follow.
ClusterProgress ==
  /\ \/ /\ store.deployment # None /\ store.deployment.available # "True"
        /\ Store([store EXCEPT !.deployment.available = "True"])
     \/ /\ store.endpoints # Backed
        /\ Store([store EXCEPT !.endpoints = Backed])
  /\ UNCHANGED <<channels, lister, image, workers, changes, failures>>

\* EXTERNAL. The deployment stops being available; a user removes one of the
\* dispatcher's resources or edits a channel's service.
Disturb ==
  /\ CountChange
  /\ \/ /\ store.deployment # None
        /\ \/ Store([store EXCEPT !.deployment.available = "False"])
           \/ Store([store EXCEPT !.deployment = None])
     \/ store.service /\ Store([store EXCEPT !.service = FALSE])
     \/ store.account /\ Store([store EXCEPT !.account = FALSE])
     \/ store.binding /\ Store([store EXCEPT !.binding = FALSE])
     \/ \E c \in Channels :
          /\ store.channelService[c] # None
          /\ Store([store EXCEPT !.channelService[c].spec = FALSE])
  /\ UNCHANGED <<channels, lister, image, workers, failures>>

\* EXTERNAL. A user removes what no event handler asks about: the second role
\* binding or a channel's service.
RemoveUnwatched ==
  /\ CountChange
  /\ \/ /\ store.configBinding
        /\ Write([store EXCEPT !.configBinding = FALSE])
        /\ lostBinding' = TRUE
        /\ UNCHANGED lostServices
     \/ \E c \in Channels :
          /\ store.channelService[c] # None
          /\ Write([store EXCEPT !.channelService[c] = None])
          /\ lostServices' = lostServices \cup {c}
          /\ UNCHANGED lostBinding
  /\ UNCHANGED <<channels, lister, image, workers, failures>>

\* EXTERNAL. An event that concerns all channels, without a change.
Resync ==
  /\ ~(Live \subseteq queue)
  /\ CountChange
  /\ queue' = queue \cup Live
  /\ UNCHANGED <<channels, cluster, image, pc, copy, err, failures>>

\* The controller restarts, perhaps with another DISPATCHER_IMAGE.
Restart ==
  /\ CountChange
  /\ image' \in Images
  /\ lister' = store /\ pending' = {}
  /\ queue' = Live
  /\ pc' = [c \in Channels |-> "idle"] /\ copy' = [c \in Channels |-> {}]
  /\ err' = [c \in Channels |-> None]
  /\ UNCHANGED <<channels, store, history, failures>>

-----------------------------------------------------------------------------
Work(c) ==
  \/ Reconcile(c) \/ ReconcileServiceAccount(c) \/ ReconcileRoleBinding(c)
  \/ ReconcileDeployment(c) \/ ReconcileDispatcherService(c)
  \/ CheckEndpoints(c) \/ ReconcileChannelService(c) \/ ReconcileHub(c)
  \/ UpdateStatus(c)

Next ==
  \/ \E c \in Channels : Work(c) \/ CreateChannel(c) \/ ChannelGone(c) \/ CollectService(c)
  \/ \E kind \in Informers : Sync(kind)
  \/ ClusterProgress \/ Disturb \/ RemoveUnwatched \/ Resync \/ Restart

\* Workers run, informers catch up, Kubernetes does its part.
Fairness ==
  /\ \A c \in Channels : WF_vars(Work(c)) /\ WF_vars(CollectService(c))
  /\ \A kind \in Informers : WF_vars(Sync(kind))
  /\ WF_vars(ClusterProgress)

Spec == Init /\ [][Next]_vars

FairSpec == Spec /\ Fairness

-----------------------------------------------------------------------------
\* What a ready channel stands on, but for what a user removed unseen.
Provisioned(c) ==
  /\ store.account /\ store.binding /\ (store.configBinding \/ lostBinding)
  /\ store.deployment = [image |-> image, available |-> "True"]
  /\ store.service /\ store.endpoints = "backed"
  /\ \/ c \in lostServices
     \/ /\ store.channelService[c] # None
        /\ store.channelService[c].owner = uid[c]

\* Nothing is left to do, for the controller or for Kubernetes.
AtRest ==
  /\ queue = {} /\ \A c \in Channels : pc[c] = "idle"
  /\ pending = {} /\ store.endpoints = Backed
  /\ store.deployment # None => store.deployment.available # None

\* When all work is done a channel is ready exactly if everything it stands
\* on is there, whatever failed, raced or was seen late on the way: a loss of
\* a watched resource comes back as an event, every failure as a retry.  What
\* may be missing is the second role binding or the channel's service, and
\* only if a user removed it and nobody has made it again: of these two the
\* event handlers pass nothing (controller/azurechannel.go 166, 174-196,
\* 250-296).
RestIsTruthful ==
  AtRest => \A c \in Live : IsReady(status[c]) <=> Provisioned(c)

\* The status that a failed reconcile is about to write is not ready ("write
\* back any status updates regardless of whether the reconcile error out",
\* controller/azurechannel.go 209-210): whatever made it fail is marked, also
\* where the copy came with everything True and nothing else would change in
\* it.  The one exception is the channel's service, whose failed update marks
\* nothing (507-511).
ErrorShows ==
  \A c \in Channels :
    pc[c] = "status" /\ IsReady(copy[c]) => err[c] \in {None, "channelService"}

\* Once users, outages and failures end, every channel of the namespace is
\* ready and stays so: workers that race for the shared resources, on
\* listers that lag, do not keep each other from it
\* (controller/azurechannel.go 350-520).
Converges == <>[](\A c \in Live : IsReady(status[c]) /\ Provisioned(c))

=============================================================================
