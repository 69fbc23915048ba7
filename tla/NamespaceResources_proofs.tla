------------------------ MODULE NamespaceResources_proofs ------------------------
(***************************************************************************)
(* Proofs about NamespaceResources for any number of channels, workers,    *)
(* incarnations, images, changes and failures.                             *)
(***************************************************************************)
EXTENDS NamespaceResources, TLAPS

(***************************************************************************)
(* What holds of a worker: its channel exists, no error is noted while     *)
(* ReconcileKind runs, and after one the copy is not ready, unless it was  *)
(* the channel's service that failed.                                      *)
(***************************************************************************)
WorkerFits(c) ==
  /\ pc[c] # "idle" => uid[c] # 0
  /\ pc[c] # "status" => err[c] = None
  /\ err[c] \in {None, "channelService"} \/ ~IsReady(copy[c])

WorkersFit == \A c \in Channels : WorkerFits(c)

-----------------------------------------------------------------------------
(* The cluster's resources. *)

LEMMA StageList ==
  /\ DOMAIN Stages = 1..9
  /\ Stages[1] = "account" /\ Stages[2] = "binding" /\ Stages[3] = "configBinding"
  /\ Stages[4] = "deployment" /\ Stages[5] = "service" /\ Stages[6] = "endpoints"
  /\ Stages[7] = "channelService" /\ Stages[8] = "hub" /\ Stages[9] = "status"
  /\ StageNames = {"account", "binding", "configBinding", "deployment", "service",
                   "endpoints", "channelService", "hub", "status"}
PROOF
  <1>1. /\ DOMAIN Stages = 1..9
        /\ Stages[1] = "account" /\ Stages[2] = "binding" /\ Stages[3] = "configBinding"
        /\ Stages[4] = "deployment" /\ Stages[5] = "service" /\ Stages[6] = "endpoints"
        /\ Stages[7] = "channelService" /\ Stages[8] = "hub" /\ Stages[9] = "status"
    BY DEF Stages
  <1> QED
    BY <1>1 DEF StageNames

\* Every field of the resources belongs to an informer.
LEMMA FieldsWatched ==
  ASSUME NEW r \in Resources
  PROVE  DOMAIN r = UNION Informers
PROOF
  BY DEF Resources, Informers

\* One resource replaced by another of its type.
LEMMA ResourceTypes ==
  ASSUME NEW r \in Resources
  PROVE  /\ r.account \in BOOLEAN /\ r.binding \in BOOLEAN
         /\ r.configBinding \in BOOLEAN /\ r.service \in BOOLEAN
         /\ r.deployment \in Deployment \cup {None}
         /\ r.channelService \in [Channels -> ChannelService \cup {None}]
         /\ \A b \in BOOLEAN :
              /\ [r EXCEPT !.account = b] \in Resources
              /\ [r EXCEPT !.binding = b] \in Resources
              /\ [r EXCEPT !["binding"] = b] \in Resources
              /\ [r EXCEPT !["configBinding"] = b] \in Resources
              /\ [r EXCEPT !.service = b] \in Resources
         /\ \A d \in Deployment \cup {None} :
              [r EXCEPT !.deployment = d] \in Resources
         /\ \A f \in [Channels -> ChannelService \cup {None}] :
              [r EXCEPT !.channelService = f] \in Resources
         /\ \A e \in {None, "empty", "backed"} :
              [r EXCEPT !.endpoints = e] \in Resources
PROOF
  BY DEF Resources

\* One channel's service replaced.
LEMMA ServiceTypes ==
  ASSUME NEW r \in Resources, NEW c \in Channels,
         NEW s \in ChannelService \cup {None}
  PROVE  [r EXCEPT !.channelService[c] = s] \in Resources
PROOF
  <1>1. [r.channelService EXCEPT ![c] = s] \in [Channels -> ChannelService \cup {None}]
    BY ResourceTypes
  <1> QED
    BY <1>1 DEF Resources

\* A deployment with another image or another availability, a channel's
\* service with another spec.
LEMMA EditedResources ==
  ASSUME NEW r \in Resources
  PROVE  /\ r.deployment # None =>
              /\ \A i \in Images : [r EXCEPT !.deployment.image = i] \in Resources
              /\ \A a \in {None, "True", "False"} :
                   [r EXCEPT !.deployment.available = a] \in Resources
         /\ \A c \in Channels, b \in BOOLEAN :
              r.channelService[c] # None =>
                [r EXCEPT !.channelService[c].spec = b] \in Resources
PROOF
  <1>1. ASSUME r.deployment # None
        PROVE  /\ \A i \in Images : [r EXCEPT !.deployment.image = i] \in Resources
               /\ \A a \in {None, "True", "False"} :
                    [r EXCEPT !.deployment.available = a] \in Resources
    <2>1. r.deployment \in Deployment
      BY <1>1, ResourceTypes
    <2>2. /\ \A i \in Images : [r.deployment EXCEPT !.image = i] \in Deployment
          /\ \A a \in {None, "True", "False"} :
               [r.deployment EXCEPT !.available = a] \in Deployment
      BY <2>1 DEF Deployment
    <2> QED
      BY <2>2 DEF Resources
  <1>2. ASSUME NEW c \in Channels, NEW b \in BOOLEAN, r.channelService[c] # None
        PROVE  [r EXCEPT !.channelService[c].spec = b] \in Resources
    <2>1. r.channelService[c] \in ChannelService
      BY <1>2, ResourceTypes
    <2>2. [r.channelService[c] EXCEPT !.spec = b] \in ChannelService
      BY <2>1 DEF ChannelService
    <2>3. [r.channelService EXCEPT ![c] = [r.channelService[c] EXCEPT !.spec = b]]
            \in [Channels -> ChannelService \cup {None}]
      BY <2>2, ResourceTypes
    <2> QED
      BY <2>3 DEF Resources
  <1> QED
    BY <1>1, <1>2

\* The variables that a write to the API server changes.
ClusterType ==
  /\ store \in Resources /\ pending \subseteq UNION Informers
  /\ lostBinding \in BOOLEAN /\ lostServices \subseteq Channels

LEMMA StoreType ==
  ASSUME TypeOK, NEW new \in Resources, Store(new)
  PROVE  ClusterType'
PROOF
  BY FieldsWatched DEF TypeOK, Store, Write, ClusterType

-----------------------------------------------------------------------------
(* Type correctness. *)

LEMMA TypeInit == Init => TypeOK
PROOF
  <1> SUFFICES ASSUME Init PROVE TypeOK
    OBVIOUS
  <1>1. store \in Resources
    BY DEF Init, Resources
  <1>2. /\ changes \in 0..MaxChanges /\ failures \in 0..MaxFailures
        /\ 0 \in 0..MaxIncarnations
    BY NamespaceParameters DEF Init
  <1>3. "idle" \in StageNames \cup {"idle"} /\ None \in StageNames \cup {None}
    OBVIOUS
  <1> QED
    BY <1>1, <1>2, <1>3 DEF Init, TypeOK

\* How a worker leaves its stage.
LEMMA LeavesType ==
  ASSUME TypeOK, NEW c \in Channels, NEW stage \in StageNames \ {"status"},
         pc[c] = stage, Proceed(c) \/ Fail(c)
  PROVE  /\ pc' \in [Channels -> StageNames \cup {"idle"}]
         /\ err' \in [Channels -> StageNames \cup {None}]
PROOF
  <1>1. CASE Fail(c)
    BY <1>1, StageList DEF Fail, TypeOK
  <1>2. CASE Proceed(c)
    <2>1. PICK i \in 1..9 : Stages[i] = pc[c] /\ pc' = [pc EXCEPT ![c] = Stages[i + 1]]
      BY <1>2, StageList DEF Proceed
    <2>2. i \in 1..8
      BY <2>1, StageList
    <2>3. Stages[i + 1] \in StageNames
      BY <2>2, StageList
    <2> QED
      BY <1>2, <2>1, <2>3 DEF Proceed, TypeOK
  <1> QED
    BY <1>1, <1>2

LEMMA MarksType ==
  ASSUME TypeOK, NEW c \in Channels, NEW conditions \in SUBSET Conditions,
         Mark(c, conditions) \/ MarkFailed(c, conditions)
  PROVE  copy' \in [Channels -> SUBSET Conditions]
PROOF
  BY DEF TypeOK, Mark, MarkFailed

LEMMA PropagatesType ==
  ASSUME TypeOK, NEW c \in Channels, NEW available \in {None, "True", "False"},
         PropagateDispatcherStatus(c, available)
  PROVE  copy' \in [Channels -> SUBSET Conditions]
PROOF
  BY DEF TypeOK, PropagateDispatcherStatus, Conditions

LEMMA FailuresType ==
  ASSUME TypeOK, NEW ok, Refused(ok) \/ CallFails \/ UNCHANGED failures
  PROVE  failures' \in 0..MaxFailures
PROOF
  BY NamespaceParameters DEF TypeOK, Refused, CallFails

\* What all stages of ReconcileKind have in common.
StageMoves(c, stage) ==
  /\ At(c, stage)
  /\ \/ Proceed(c)
     \/ Fail(c) /\ (stage = "channelService" \/ ~IsReady(copy'[c]))
  /\ Untouched \/ \E new \in Resources : Store(new)
  /\ CallFails \/ UNCHANGED failures
  /\ copy' \in [Channels -> SUBSET Conditions]
  /\ \A d \in Channels \ {c} : copy'[d] = copy[d]

LEMMA StageType ==
  ASSUME TypeOK, NEW c \in Channels, NEW stage \in StageNames \ {"status"},
         StageMoves(c, stage)
  PROVE  TypeOK'
PROOF
  <1>1. /\ pc' \in [Channels -> StageNames \cup {"idle"}]
        /\ err' \in [Channels -> StageNames \cup {None}]
    BY LeavesType DEF StageMoves, At
  <1>2. ClusterType'
    BY StoreType DEF StageMoves, Untouched, history, TypeOK, ClusterType
  <1>3. failures' \in 0..MaxFailures
    BY FailuresType DEF StageMoves
  <1> QED
    BY <1>1, <1>2, <1>3 DEF StageMoves, At, channels, TypeOK, ClusterType

\* A creation, one that fails, and a resource that is there already.
LEMMA CreateMoves ==
  ASSUME TypeOK, NEW c \in Channels, NEW stage \in StageNames \ {"status"},
         At(c, stage), NEW exists \in BOOLEAN, NEW made \in Resources,
         NEW conditions \in SUBSET Conditions, conditions # {},
         NEW marked \in SUBSET Conditions,
         \/ Found(c) /\ (UNCHANGED copy \/ Mark(c, marked))
         \/ Create(c, exists, made) /\ (UNCHANGED copy \/ Mark(c, marked))
         \/ CreateFails(c, exists, conditions)
  PROVE  StageMoves(c, stage)
PROOF
  <1>1. CASE Found(c) \/ Create(c, exists, made)
    <2>1. UNCHANGED copy \/ Mark(c, marked) \/ MarkFailed(c, conditions)
      BY <1>1 DEF CreateFails
    <2>2. copy' \in [Channels -> SUBSET Conditions]
      BY <2>1, MarksType DEF TypeOK
    <2>3. \A d \in Channels \ {c} : copy'[d] = copy[d]
      BY <2>1 DEF Mark, MarkFailed, TypeOK
    <2> QED
      BY <1>1, <2>2, <2>3 DEF Found, Create, StageMoves
  <1>2. CASE CreateFails(c, exists, conditions)
    <2>1. MarkFailed(c, conditions)
      BY <1>2 DEF CreateFails
    <2>2. copy' \in [Channels -> SUBSET Conditions]
      BY <2>1, MarksType
    <2>3. ~IsReady(copy'[c]) /\ \A d \in Channels \ {c} : copy'[d] = copy[d]
      BY <2>1 DEF MarkFailed, TypeOK, IsReady
    <2>4. CallFails \/ UNCHANGED failures
      BY <1>2 DEF CreateFails, Refused
    <2> QED
      BY <1>2, <2>2, <2>3, <2>4 DEF CreateFails, StageMoves
  <1> QED
    BY <1>1, <1>2

LEMMA AccountMoves ==
  ASSUME TypeOK, NEW c \in Channels, ReconcileServiceAccount(c)
  PROVE  StageMoves(c, "account")
PROOF
  <1>1. /\ store.account \in BOOLEAN /\ [store EXCEPT !.account = TRUE] \in Resources
        /\ {"DispatcherReady"} \in SUBSET Conditions /\ {"DispatcherReady"} # {}
        /\ "account" \in StageNames \ {"status"}
    BY StageList, ResourceTypes DEF TypeOK, Conditions
  <1> QED
    BY <1>1, CreateMoves DEF ReconcileServiceAccount

LEMMA BindingMoves ==
  ASSUME TypeOK, NEW c \in Channels, ReconcileRoleBinding(c)
  PROVE  StageMoves(c, "binding") \/ StageMoves(c, "configBinding")
PROOF
  <1>1. PICK b \in {"binding", "configBinding"} :
          /\ At(c, b)
          /\ \/ Found(c) /\ UNCHANGED copy
             \/ /\ Create(c, store[b], [store EXCEPT ![b] = TRUE])
                /\ UNCHANGED copy
             \/ CreateFails(c, store[b], {"DispatcherReady"})
    BY DEF ReconcileRoleBinding
  <1>2. /\ store[b] \in BOOLEAN /\ [store EXCEPT ![b] = TRUE] \in Resources
    <2>1. CASE b = "binding"
      BY <2>1, ResourceTypes DEF TypeOK
    <2>2. CASE b = "configBinding"
      BY <2>2, ResourceTypes DEF TypeOK
    <2> QED
      BY <2>1, <2>2
  <1>3. /\ {"DispatcherReady"} \in SUBSET Conditions /\ {"DispatcherReady"} # {}
        /\ b \in StageNames \ {"status"}
    BY StageList DEF Conditions
  <1>4. StageMoves(c, b)
    BY <1>1, <1>2, <1>3, CreateMoves
  <1> QED
    BY <1>4

LEMMA ServiceMoves ==
  ASSUME TypeOK, NEW c \in Channels, ReconcileDispatcherService(c)
  PROVE  StageMoves(c, "service")
PROOF
  <1>1. /\ store.service \in BOOLEAN /\ [store EXCEPT !.service = TRUE] \in Resources
        /\ {"ServiceReady"} \in SUBSET Conditions /\ {"ServiceReady"} # {}
        /\ "service" \in StageNames \ {"status"}
    BY StageList, ResourceTypes DEF TypeOK, Conditions
  <1> QED
    BY <1>1, CreateMoves DEF ReconcileDispatcherService

LEMMA EndpointsMoves ==
  ASSUME TypeOK, NEW c \in Channels, CheckEndpoints(c)
  PROVE  StageMoves(c, "endpoints")
PROOF
  <1>1. {"EndpointsReady"} \in SUBSET Conditions
    BY DEF Conditions
  <1>2. copy' \in [Channels -> SUBSET Conditions]
    BY <1>1, MarksType DEF CheckEndpoints
  <1>3. /\ \A d \in Channels \ {c} : copy'[d] = copy[d]
        /\ MarkFailed(c, {"EndpointsReady"}) => ~IsReady(copy'[c])
    BY DEF CheckEndpoints, Mark, MarkFailed, TypeOK, IsReady, Conditions
  <1> QED
    BY <1>2, <1>3 DEF CheckEndpoints, StageMoves

LEMMA HubMoves ==
  ASSUME TypeOK, NEW c \in Channels, ReconcileHub(c)
  PROVE  StageMoves(c, "hub")
PROOF
  <1>1. {"HubReady"} \in SUBSET Conditions
    BY DEF Conditions
  <1>2. copy' \in [Channels -> SUBSET Conditions]
    BY <1>1, MarksType DEF ReconcileHub, TypeOK
  <1>3. \A d \in Channels \ {c} : copy'[d] = copy[d]
    BY DEF ReconcileHub, Mark, TypeOK
  <1>4. "HubReady" \notin copy[c] /\ UNCHANGED copy => ~IsReady(copy'[c])
    BY DEF IsReady, Conditions
  <1> QED
    BY <1>2, <1>3, <1>4 DEF ReconcileHub, StageMoves

LEMMA DeploymentMoves ==
  ASSUME TypeOK, NEW c \in Channels, ReconcileDeployment(c)
  PROVE  StageMoves(c, "deployment")
PROOF
  <1> DEFINE seen == lister.deployment
             there == store.deployment
             fresh == [store EXCEPT !.deployment = [image |-> image, available |-> None]]
             updated == [store EXCEPT !.deployment.image = image]
  <1>1. /\ At(c, "deployment") /\ "deployment" \in StageNames \ {"status"}
        /\ {"DispatcherReady"} \in SUBSET Conditions /\ {"DispatcherReady"} # {}
        /\ {"ServiceReady"} \in SUBSET Conditions /\ {"ServiceReady"} # {}
    BY StageList DEF ReconcileDeployment, Conditions
  <1>2. /\ seen # None => seen.available \in {None, "True", "False"}
        /\ there # None => /\ there.available \in {None, "True", "False"}
                          /\ updated \in Resources
        /\ fresh \in Resources
    <2>1. /\ seen \in Deployment \cup {None} /\ there \in Deployment \cup {None}
          /\ [image |-> image, available |-> None] \in Deployment
      BY ResourceTypes DEF TypeOK, Deployment
    <2>2. fresh \in Resources
      BY <2>1, ResourceTypes DEF TypeOK
    <2>3. there # None => updated \in Resources
      BY EditedResources DEF TypeOK
    <2> QED
      BY <2>1, <2>2, <2>3 DEF Deployment
  <1>3. ASSUME NEW a \in {None, "True", "False"}, PropagateDispatcherStatus(c, a)
        PROVE  /\ copy' \in [Channels -> SUBSET Conditions]
               /\ \A d \in Channels \ {c} : copy'[d] = copy[d]
    BY <1>3, PropagatesType DEF PropagateDispatcherStatus, TypeOK
  <1>4. ASSUME NEW x, MarkFailed(c, {x}), {x} \in SUBSET Conditions
        PROVE  /\ copy' \in [Channels -> SUBSET Conditions]
               /\ \A d \in Channels \ {c} : copy'[d] = copy[d]
               /\ ~IsReady(copy'[c])
    BY <1>4, MarksType DEF MarkFailed, TypeOK, IsReady
  <1> HIDE DEF fresh, updated, seen, there
  <1>5. CASE Create(c, there # None, fresh) /\ PropagateDispatcherStatus(c, None)
    BY <1>1, <1>2, <1>3, <1>5 DEF Create, StageMoves
  <1>6. CASE CreateFails(c, there # None, {"DispatcherReady"})
    <2>1. /\ MarkFailed(c, {"DispatcherReady"}) /\ Fail(c) /\ Untouched
          /\ CallFails \/ UNCHANGED failures
      BY <1>6 DEF CreateFails, Refused
    <2> QED
      BY <1>1, <1>4, <2>1 DEF StageMoves
  <1>7. CASE /\ there # None /\ UNCHANGED failures
             /\ Store(updated)
             /\ PropagateDispatcherStatus(c, there.available)
             /\ Proceed(c)
    BY <1>1, <1>2, <1>3, <1>7 DEF StageMoves
  <1>8. CASE /\ Refused(there # None)
             /\ MarkFailed(c, {"ServiceReady"})
             /\ Fail(c)
             /\ Untouched
    <2>1. CallFails \/ UNCHANGED failures
      BY <1>8 DEF Refused
    <2> QED
      BY <1>1, <1>4, <1>8, <2>1 DEF StageMoves
  <1>9. CASE /\ seen # None
             /\ PropagateDispatcherStatus(c, seen.available)
             /\ Found(c)
    BY <1>1, <1>2, <1>3, <1>9 DEF Found, StageMoves
  <1> QED
    BY <1>5, <1>6, <1>7, <1>8, <1>9 DEF ReconcileDeployment, fresh, updated, seen, there

LEMMA ChannelServiceMoves ==
  ASSUME TypeOK, NEW c \in Channels, ReconcileChannelService(c), uid[c] # 0
  PROVE  StageMoves(c, "channelService")
PROOF
  <1> DEFINE seen == lister.channelService[c]
             there == store.channelService[c]
             made == [store EXCEPT !.channelService[c] = [owner |-> uid[c], spec |-> TRUE]]
             rewritten == [store EXCEPT !.channelService[c].spec = TRUE]
             ready == {"ChannelServiceReady", "Addressable"}
  <1>1. At(c, "channelService")
    BY DEF ReconcileChannelService
  <1>2. /\ made \in Resources
        /\ there # None => rewritten \in Resources
    <2>1. [owner |-> uid[c], spec |-> TRUE] \in ChannelService
      <3>1. uid[c] \in 1..MaxIncarnations
        BY NamespaceParameters DEF TypeOK
      <3> QED
        BY <3>1 DEF ChannelService
    <2> QED
      BY <2>1, ServiceTypes, EditedResources DEF TypeOK
  <1>3. /\ Mark(c, ready) \/ MarkFailed(c, {"ChannelServiceReady"}) \/ UNCHANGED copy
        /\ CallFails \/ UNCHANGED failures
        /\ Proceed(c) \/ Fail(c)
        /\ \/ Untouched \/ Store(made)
           \/ there # None /\ Store(rewritten)
    BY DEF ReconcileChannelService, Create, CreateFails, Found, Refused
  <1>4. ready \in SUBSET Conditions /\ {"ChannelServiceReady"} \in SUBSET Conditions
    BY DEF Conditions
  <1>5. copy' \in [Channels -> SUBSET Conditions]
    BY <1>3, <1>4, MarksType DEF TypeOK
  <1>6. \A d \in Channels \ {c} : copy'[d] = copy[d]
    BY <1>3 DEF Mark, MarkFailed, TypeOK
  <1> QED
    BY <1>1, <1>2, <1>3, <1>5, <1>6 DEF StageMoves

LEMMA ReconcileKindMoves ==
  ASSUME TypeOK, WorkersFit, NEW c \in Channels,
         \/ ReconcileServiceAccount(c) \/ ReconcileRoleBinding(c)
         \/ ReconcileDeployment(c) \/ ReconcileDispatcherService(c)
         \/ CheckEndpoints(c) \/ ReconcileChannelService(c) \/ ReconcileHub(c)
  PROVE  \E stage \in StageNames \ {"status"} : StageMoves(c, stage)
PROOF
  <1>1. {"account", "binding", "configBinding", "deployment", "service", "endpoints",
         "channelService", "hub"} = StageNames \ {"status"}
    BY StageList
  <1>2. ReconcileChannelService(c) => uid[c] # 0
    BY DEF ReconcileChannelService, At, WorkersFit, WorkerFits
  <1> QED
    BY <1>1, <1>2, AccountMoves, BindingMoves, DeploymentMoves, ServiceMoves,
       EndpointsMoves, ChannelServiceMoves, HubMoves

LEMMA StageFits ==
  ASSUME TypeOK, WorkersFit, NEW c \in Channels, NEW stage \in StageNames \ {"status"},
         StageMoves(c, stage)
  PROVE  WorkersFit'
PROOF
  <1> SUFFICES ASSUME NEW d \in Channels PROVE WorkerFits(d)'
    BY DEF WorkersFit
  <1>0. WorkerFits(c) /\ WorkerFits(d)
    BY DEF WorkersFit
  <1>1. /\ pc[c] = stage /\ stage # "status" /\ stage # "idle" /\ err[c] = None
        /\ uid' = uid /\ pc \in [Channels -> StageNames \cup {"idle"}]
        /\ err \in [Channels -> StageNames \cup {None}]
    BY <1>0, StageList DEF StageMoves, At, channels, TypeOK, WorkerFits
  <1>2. CASE d # c
    <2>1. pc'[d] = pc[d] /\ err'[d] = err[d] /\ copy'[d] = copy[d]
      BY <1>1, <1>2 DEF StageMoves, Proceed, Fail
    <2> QED
      BY <1>0, <1>1, <2>1 DEF WorkerFits
  <1>3. CASE d = c /\ Proceed(c)
    <2>1. err'[c] = None
      BY <1>1, <1>3 DEF Proceed
    <2> QED
      BY <1>0, <1>1, <1>3, <2>1 DEF WorkerFits
  <1>4. CASE d = c /\ Fail(c) /\ (stage = "channelService" \/ ~IsReady(copy'[c]))
    <2>1. err'[c] = stage /\ pc'[c] = "status"
      BY <1>1, <1>4 DEF Fail
    <2> QED
      BY <1>0, <1>1, <1>4, <2>1 DEF WorkerFits
  <1> QED
    BY <1>2, <1>3, <1>4 DEF StageMoves

\* A status that is written is a copy that fits.
LEMMA WrittenStatus ==
  ASSUME TypeOK, WorkersFit, NEW c \in Channels, UpdateStatus(c)
  PROVE  TypeOK' /\ WorkersFit'
PROOF
  <1>1. /\ UNCHANGED <<uid, created, store, lister, pending, lostBinding,
                       lostServices, image, changes>>
        /\ status' = [status EXCEPT ![c] = copy[c]] \/ UNCHANGED status
        /\ queue' = queue \/ queue' = queue \cup {c}
        /\ CallFails \/ UNCHANGED failures
        /\ pc' = [pc EXCEPT ![c] = "idle"] /\ copy' = [copy EXCEPT ![c] = {}]
        /\ err' = [err EXCEPT ![c] = None]
    BY DEF UpdateStatus, Done, cluster, history
  <1>2. failures' \in 0..MaxFailures
    BY <1>1, FailuresType
  <1>3. TypeOK'
    BY <1>1, <1>2 DEF TypeOK
  <1>4. WorkersFit'
    BY <1>1 DEF TypeOK, WorkersFit, WorkerFits
  <1> QED
    BY <1>3, <1>4

LEMMA TakenFits ==
  ASSUME TypeOK, WorkersFit, NEW c \in Channels, Reconcile(c)
  PROVE  TypeOK' /\ WorkersFit'
PROOF
  <1>1. /\ UNCHANGED <<uid, created, status, store, lister, pending, lostBinding,
                       lostServices, image, err, changes, failures>>
        /\ uid[c] # 0 /\ pc[c] = "idle" /\ queue' = queue \ {c}
        /\ pc' = [pc EXCEPT ![c] = "account"]
        /\ copy' = [copy EXCEPT ![c] = status[c]]
    BY DEF Reconcile, channels, cluster, history
  <1>2. TypeOK'
    BY <1>1, StageList DEF TypeOK
  <1>3. WorkersFit'
    <2> SUFFICES ASSUME NEW d \in Channels PROVE WorkerFits(d)'
      BY DEF WorkersFit
    <2>1. WorkerFits(d) /\ WorkerFits(c)
      BY DEF WorkersFit
    <2>2. CASE d = c
      <3>1. err'[c] = None /\ uid'[c] # 0 /\ pc'[c] = "account"
        BY <1>1, <2>1 DEF WorkerFits, TypeOK
      <3> QED
        BY <2>2, <3>1 DEF WorkerFits
    <2>3. CASE d # c
      BY <1>1, <2>1, <2>3 DEF WorkerFits, TypeOK
    <2> QED
      BY <2>2, <2>3
  <1> QED
    BY <1>2, <1>3

LEMMA WorkFits ==
  ASSUME TypeOK, WorkersFit, NEW c \in Channels, Work(c)
  PROVE  TypeOK' /\ WorkersFit'
PROOF
  <1>1. CASE Reconcile(c)
    BY <1>1, TakenFits
  <1>2. CASE UpdateStatus(c)
    BY <1>2, WrittenStatus
  <1>3. CASE \E stage \in StageNames \ {"status"} : StageMoves(c, stage)
    BY <1>3, StageType, StageFits
  <1> QED
    BY <1>1, <1>2, <1>3, ReconcileKindMoves DEF Work

-----------------------------------------------------------------------------
(* The surroundings. *)

\* The informers' reading of some kinds of resources.
LEMMA SyncType ==
  ASSUME NEW r \in Resources, NEW s \in Resources, NEW kind
  PROVE  [f \in DOMAIN r |-> IF f \in kind THEN s[f] ELSE r[f]] \in Resources
PROOF
  BY DEF Resources

\* Steps that touch no worker's channel, stage, copy or error.
Aside(c) ==
  /\ pc'[c] = pc[c] /\ copy'[c] = copy[c] /\ err'[c] = err[c]
  /\ pc[c] # "idle" => uid'[c] = uid[c]

LEMMA AsideFits ==
  ASSUME WorkersFit, \A c \in Channels : Aside(c)
  PROVE  WorkersFit'
PROOF
  BY DEF WorkersFit, WorkerFits, Aside

Surroundings ==
  \/ \E c \in Channels : CreateChannel(c) \/ ChannelGone(c) \/ CollectService(c)
  \/ \E kind \in Informers : Sync(kind)
  \/ ClusterProgress \/ Disturb \/ RemoveUnwatched \/ Resync \/ Restart

LEMMA SurroundingsFit ==
  ASSUME TypeOK, WorkersFit, Surroundings
  PROVE  TypeOK' /\ WorkersFit'
PROOF
  <1> USE DEF channels, cluster, history, workers
  <1>c. CountChange => changes' \in 0..MaxChanges
    BY NamespaceParameters DEF CountChange, TypeOK
  <1>s. ASSUME NEW new \in Resources, Store(new) PROVE ClusterType'
    BY <1>s, StoreType
  <1>1. ASSUME NEW c \in Channels, CreateChannel(c)
        PROVE  TypeOK' /\ WorkersFit'
    <2>1. created[c] + 1 \in 0..MaxIncarnations
      BY <1>1, NamespaceParameters DEF CreateChannel, TypeOK
    <2>2. TypeOK'
      BY <1>1, <2>1 DEF CreateChannel, TypeOK
    <2>3. \A d \in Channels : Aside(d)
      BY <1>1, <2>1, NamespaceParameters DEF CreateChannel, Aside, WorkersFit, WorkerFits,
         TypeOK
    <2> QED
      BY <2>2, <2>3, AsideFits
  <1>2. ASSUME NEW c \in Channels, ChannelGone(c)
        PROVE  TypeOK' /\ WorkersFit'
    <2>1. TypeOK'
      BY <1>2, <1>c, NamespaceParameters DEF ChannelGone, TypeOK
    <2>2. \A d \in Channels : Aside(d)
      BY <1>2 DEF ChannelGone, Aside, TypeOK
    <2> QED
      BY <2>1, <2>2, AsideFits
  <1>3. ASSUME NEW c \in Channels, CollectService(c)
        PROVE  TypeOK' /\ WorkersFit'
    <2>1. [store EXCEPT !.channelService[c] = None] \in Resources
      BY ServiceTypes DEF TypeOK
    <2>2. TypeOK'
      BY <1>3, <1>s, <2>1 DEF CollectService, TypeOK, ClusterType
    <2>3. \A d \in Channels : Aside(d)
      BY <1>3 DEF CollectService, Aside
    <2> QED
      BY <2>2, <2>3, AsideFits
  <1>4. ASSUME NEW kind \in Informers, Sync(kind)
        PROVE  TypeOK' /\ WorkersFit'
    <2>1. lister' \in Resources
      BY <1>4, SyncType DEF Sync, TypeOK
    <2>2. queue' \subseteq Channels /\ pending' \subseteq UNION Informers
      BY <1>4 DEF Sync, TypeOK, Live
    <2>3. TypeOK'
      BY <1>4, <2>1, <2>2 DEF Sync, TypeOK
    <2>4. \A d \in Channels : Aside(d)
      BY <1>4 DEF Sync, Aside
    <2> QED
      BY <2>3, <2>4, AsideFits
  <1>5. CASE ClusterProgress
    <2>1. \E new \in Resources : Store(new)
      <3>1. store.deployment # None =>
              [store EXCEPT !.deployment.available = "True"] \in Resources
        BY EditedResources DEF TypeOK
      <3>2. [store EXCEPT !.endpoints = Backed] \in Resources
        <4>1. Backed \in {None, "empty", "backed"}
          BY DEF Backed
        <4> QED
          BY <4>1, ResourceTypes DEF TypeOK
      <3> QED
        BY <1>5, <3>1, <3>2 DEF ClusterProgress
    <2>2. TypeOK'
      BY <1>5, <1>s, <2>1 DEF ClusterProgress, TypeOK, ClusterType
    <2>3. \A d \in Channels : Aside(d)
      BY <1>5 DEF ClusterProgress, Aside
    <2> QED
      BY <2>2, <2>3, AsideFits
  <1>6. CASE Disturb
    <2>1. \E new \in Resources : Store(new)
      <3>1. /\ store.deployment # None =>
                 [store EXCEPT !.deployment.available = "False"] \in Resources
            /\ [store EXCEPT !.deployment = None] \in Resources
            /\ [store EXCEPT !.service = FALSE] \in Resources
            /\ [store EXCEPT !.account = FALSE] \in Resources
            /\ [store EXCEPT !.binding = FALSE] \in Resources
            /\ \A c \in Channels : store.channelService[c] # None =>
                 [store EXCEPT !.channelService[c].spec = FALSE] \in Resources
        BY EditedResources, ResourceTypes DEF TypeOK
      <3> QED
        BY <1>6, <3>1 DEF Disturb
    <2>2. TypeOK'
      BY <1>6, <1>c, <1>s, <2>1 DEF Disturb, TypeOK, ClusterType
    <2>3. \A d \in Channels : Aside(d)
      BY <1>6 DEF Disturb, Aside
    <2> QED
      BY <2>2, <2>3, AsideFits
  <1>7. CASE Resync
    <2>1. TypeOK'
      BY <1>7, <1>c DEF Resync, TypeOK, Live
    <2>2. \A d \in Channels : Aside(d)
      BY <1>7 DEF Resync, Aside
    <2> QED
      BY <2>1, <2>2, AsideFits
  <1>8. CASE Restart
    <2>1. TypeOK'
      BY <1>8, <1>c DEF Restart, TypeOK, Live
    <2>2. WorkersFit'
      BY <1>8 DEF Restart, WorkersFit, WorkerFits
    <2> QED
      BY <2>1, <2>2
  <1>9. CASE RemoveUnwatched
    <2>1. ClusterType'
      <3>1. PICK new \in Resources : Write(new)
        <4>1. [store EXCEPT !.configBinding = FALSE] \in Resources
          BY DEF TypeOK, Resources
        <4>2. \A c \in Channels : [store EXCEPT !.channelService[c] = None] \in Resources
          BY ServiceTypes DEF TypeOK
        <4> QED
          BY <1>9, <4>1, <4>2 DEF RemoveUnwatched
      <3>2. store' \in Resources /\ pending' \subseteq UNION Informers
        BY <3>1, FieldsWatched DEF Write, TypeOK
      <3>3. lostBinding' \in BOOLEAN /\ lostServices' \subseteq Channels
        BY <1>9 DEF RemoveUnwatched, TypeOK
      <3> QED
        BY <3>2, <3>3 DEF ClusterType
    <2>2. TypeOK'
      BY <1>9, <1>c, <2>1 DEF RemoveUnwatched, TypeOK, ClusterType
    <2>3. \A d \in Channels : Aside(d)
      BY <1>9 DEF RemoveUnwatched, Aside
    <2> QED
      BY <2>2, <2>3, AsideFits
  <1> QED
    BY <1>1, <1>2, <1>3, <1>4, <1>5, <1>6, <1>7, <1>8, <1>9 DEF Surroundings

-----------------------------------------------------------------------------
(* The theorems. *)

LEMMA Invariant == Spec => [](TypeOK /\ WorkersFit)
PROOF
  <1>1. Init => TypeOK /\ WorkersFit
    BY TypeInit DEF Init, WorkersFit, WorkerFits
  <1>2. TypeOK /\ WorkersFit /\ [Next]_vars => (TypeOK /\ WorkersFit)'
    <2> SUFFICES ASSUME TypeOK, WorkersFit, [Next]_vars
                 PROVE  (TypeOK /\ WorkersFit)'
      OBVIOUS
    <2>1. CASE UNCHANGED vars
      BY <2>1 DEF vars, channels, cluster, history, workers, TypeOK, WorkersFit,
         WorkerFits
    <2>2. ASSUME NEW c \in Channels, Work(c)
          PROVE  (TypeOK /\ WorkersFit)'
      BY <2>2, WorkFits
    <2>3. CASE Surroundings
      BY <2>3, SurroundingsFit
    <2> QED
      BY <2>1, <2>2, <2>3 DEF Next, Surroundings
  <1> QED
    BY <1>1, <1>2, PTL DEF Spec

\* Every variable keeps its type, for any channels, workers, images and bounds:
\* conditions are never marked that are not in the condition set, and a
\* channel's service always names an object that has existed as its owner.
THEOREM TypeCorrect == Spec => []TypeOK
PROOF
  BY Invariant, PTL

\* The status that a failed reconcile is about to write is not ready, except
\* where updating the channel's service failed (controller/azurechannel.go
\* 209-210, 507-511), however many workers, resources and stale listers it met.
THEOREM FailuresShow == Spec => []ErrorShows
PROOF
  <1>1. WorkersFit => ErrorShows
    BY DEF WorkersFit, WorkerFits, ErrorShows
  <1> QED
    BY <1>1, Invariant, PTL

-----------------------------------------------------------------------------
(***************************************************************************)
(* What the informers know.  A resource of which no event is on its way is *)
(* known as it is; the second role binding or a channel's own service that *)
(* an informer knows of still exists, unless a user removed it and nobody  *)
(* has made it again.                                                      *)
(***************************************************************************)

OwnService(c, resources) ==
  /\ resources.channelService[c] # None
  /\ resources.channelService[c].owner = uid[c]

\* Services name objects that have existed as their owners.
OwnersExisted(resources) ==
  \A c \in Channels :
    resources.channelService[c] # None =>
      resources.channelService[c].owner <= created[c]

\* The unwatched resources are there, or a user removed them.
HasConfigBinding == store.configBinding \/ lostBinding

HasOwn(c) == OwnService(c, store) \/ c \in lostServices

ListerFits ==
  /\ \A f \in UNION Informers : f \notin pending => lister[f] = store[f]
  /\ lister.configBinding => HasConfigBinding
  /\ OwnersExisted(store) /\ OwnersExisted(lister)
  /\ \A c \in lostServices : store.channelService[c] = None
  /\ \A c \in Channels :
       /\ uid[c] <= created[c]
       /\ uid[c] # 0 /\ OwnService(c, lister) => HasOwn(c)

\* What no write takes away but that of a user who removes it.
Preserves(new) ==
  /\ store.configBinding => new.configBinding
  /\ OwnersExisted(new)
  /\ \A c \in Channels :
       /\ uid[c] # 0 /\ OwnService(c, store) => OwnService(c, new)
       /\ \/ store.channelService[c] # None
          \/ new.channelService[c] = None
          \/ OwnService(c, new)

\* The API server is not written to, or by one that takes nothing unwatched
\* away without its being noted.
Writes ==
  \/ Untouched
  \/ \E new \in Resources :
       /\ Write(new)
       /\ OwnersExisted(new)
       /\ HasConfigBinding => new.configBinding \/ lostBinding'
       /\ \A c \in lostServices' : new.channelService[c] = None
       /\ \A c \in Channels :
            uid[c] # 0 /\ HasOwn(c) => OwnService(c, new) \/ c \in lostServices'

LEMMA UntouchedWrites == Untouched => Writes
PROOF
  BY DEF Writes

LEMMA PreservingWrites ==
  ASSUME TypeOK, ListerFits, NEW new \in Resources, Preserves(new), Store(new)
  PROVE  Writes
PROOF
  <1>1. Write(new) /\ OwnersExisted(new)
    BY DEF Store, Preserves
  <1>2. HasConfigBinding => new.configBinding \/ lostBinding'
    BY DEF Store, Preserves, HasConfigBinding
  <1>3. \A c \in lostServices' : new.channelService[c] = None
    BY DEF Store
  <1>4. ASSUME NEW c \in Channels, uid[c] # 0, HasOwn(c)
        PROVE  OwnService(c, new) \/ c \in lostServices'
    BY <1>4 DEF Store, Preserves, HasOwn, ListerFits
  <1> QED
    BY <1>1, <1>2, <1>3, <1>4 DEF Writes

LEMMA PlainEdit ==
  ASSUME ListerFits, NEW new, new.channelService = store.channelService,
         store.configBinding => new.configBinding
  PROVE  Preserves(new)
PROOF
  BY DEF ListerFits, Preserves, OwnersExisted, OwnService

\* Edits that name neither a channel's service nor the second binding.
LEMMA PlainEdits ==
  ASSUME TypeOK, ListerFits, NEW v
  PROVE  /\ Preserves([store EXCEPT !.account = v])
         /\ Preserves([store EXCEPT !.binding = v])
         /\ Preserves([store EXCEPT !.service = v])
         /\ Preserves([store EXCEPT !.endpoints = v])
         /\ Preserves([store EXCEPT !.deployment = v])
         /\ Preserves([store EXCEPT !.deployment.image = v])
         /\ Preserves([store EXCEPT !.deployment.available = v])
PROOF
  <1>0. store \in Resources
    BY DEF TypeOK
  <1>1. Preserves([store EXCEPT !.account = v])
    BY <1>0, PlainEdit DEF Resources
  <1>2. Preserves([store EXCEPT !.service = v])
    BY <1>0, PlainEdit DEF Resources
  <1>3. Preserves([store EXCEPT !.endpoints = v])
    BY <1>0, PlainEdit DEF Resources
  <1>b. Preserves([store EXCEPT !.binding = v])
    BY <1>0, PlainEdit DEF Resources
  <1>4. ASSUME NEW w PROVE Preserves([store EXCEPT !.deployment = w])
    BY <1>0, PlainEdit DEF Resources
  <1>5. Preserves([store EXCEPT !.deployment.image = v])
    BY <1>4
  <1>6. Preserves([store EXCEPT !.deployment.available = v])
    BY <1>4
  <1> QED
    BY <1>1, <1>2, <1>3, <1>b, <1>4, <1>5, <1>6

LEMMA BindingEdits ==
  ASSUME TypeOK, ListerFits
  PROVE  /\ Preserves([store EXCEPT !["binding"] = TRUE])
         /\ Preserves([store EXCEPT !["configBinding"] = TRUE])
PROOF
  <1>0. store \in Resources
    BY DEF TypeOK
  <1>1. Preserves([store EXCEPT !["binding"] = TRUE])
    BY <1>0, PlainEdit DEF Resources
  <1>2. Preserves([store EXCEPT !["configBinding"] = TRUE])
    BY <1>0, PlainEdit DEF Resources
  <1> QED
    BY <1>1, <1>2

\* One channel's service replaced by one that has the same owner, or that is
\* its first or its last.
LEMMA ServiceEdit ==
  ASSUME TypeOK, ListerFits, NEW c \in Channels,
         NEW s \in ChannelService \cup {None},
         s # None => s.owner <= created[c],
         uid[c] # 0 /\ OwnService(c, store) => s # None /\ s.owner = uid[c],
         s # None /\ store.channelService[c] = None => s.owner = uid[c]
  PROVE  Preserves([store EXCEPT !.channelService[c] = s])
PROOF
  <1> DEFINE new == [store EXCEPT !.channelService[c] = s]
  <1>1. /\ new.configBinding = store.configBinding
        /\ new.channelService = [store.channelService EXCEPT ![c] = s]
    BY DEF TypeOK, Resources
  <1>2. store.channelService \in [Channels -> ChannelService \cup {None}]
    BY ResourceTypes DEF TypeOK
  <1>3. /\ new.channelService[c] = s
        /\ \A d \in Channels \ {c} : new.channelService[d] = store.channelService[d]
    BY <1>1, <1>2
  <1> HIDE DEF new
  <1>4. OwnersExisted(new)
    BY <1>3 DEF ListerFits, OwnersExisted
  <1>5. ASSUME NEW d \in Channels, uid[d] # 0, OwnService(d, store)
        PROVE  OwnService(d, new)
    BY <1>3, <1>5 DEF OwnService
  <1>6. ASSUME NEW d \in Channels, store.channelService[d] = None,
               new.channelService[d] # None
        PROVE  OwnService(d, new)
    BY <1>3, <1>6 DEF OwnService
  <1>7. Preserves(new)
    BY <1>1, <1>4, <1>5, <1>6 DEF Preserves
  <1> QED
    BY <1>7 DEF new

\* The spec of one channel's service.
LEMMA SpecEdit ==
  ASSUME TypeOK, ListerFits, NEW c \in Channels, NEW b \in BOOLEAN,
         store.channelService[c] # None
  PROVE  Preserves([store EXCEPT !.channelService[c].spec = b])
PROOF
  <1> DEFINE old == store.channelService[c]
             s == [old EXCEPT !.spec = b]
  <1>1. old \in ChannelService /\ s \in ChannelService /\ s.owner = old.owner
    <2>1. old \in ChannelService
      BY ResourceTypes DEF TypeOK
    <2> QED
      BY <2>1 DEF ChannelService
  <1>2. s # None
    BY <1>1, NoneIsNothing
  <1>3. old.owner <= created[c]
    BY DEF ListerFits, OwnersExisted
  <1>4. [store EXCEPT !.channelService[c].spec = b]
          = [store EXCEPT !.channelService[c] = s]
    OBVIOUS
  <1> HIDE DEF s
  <1>5. OwnService(c, store) => s # None /\ s.owner = uid[c]
    BY <1>1, <1>2 DEF OwnService
  <1> QED
    BY <1>1, <1>3, <1>4, <1>5, ServiceEdit

\* Every stage of ReconcileKind preserves.
LEMMA StageWrites ==
  ASSUME TypeOK, WorkersFit, ListerFits, NEW c \in Channels,
         \/ ReconcileServiceAccount(c) \/ ReconcileRoleBinding(c)
         \/ ReconcileDeployment(c) \/ ReconcileDispatcherService(c)
         \/ CheckEndpoints(c) \/ ReconcileChannelService(c) \/ ReconcileHub(c)
  PROVE  Writes
PROOF
  <1>0. store \in Resources
    BY DEF TypeOK
  <1>1. CASE ReconcileServiceAccount(c)
    <2>1. Untouched \/ Store([store EXCEPT !.account = TRUE])
      BY <1>1 DEF ReconcileServiceAccount, Found, Create, CreateFails
    <2>2. /\ [store EXCEPT !.account = TRUE] \in Resources
          /\ Preserves([store EXCEPT !.account = TRUE])
      BY <1>0, ResourceTypes, PlainEdits
    <2> QED
      BY <2>1, <2>2, PreservingWrites, UntouchedWrites
  <1>2. CASE ReconcileRoleBinding(c)
    <2>1. \/ Untouched \/ Store([store EXCEPT !["binding"] = TRUE])
          \/ Store([store EXCEPT !["configBinding"] = TRUE])
      BY <1>2 DEF ReconcileRoleBinding, Found, Create, CreateFails
    <2>2. /\ [store EXCEPT !["binding"] = TRUE] \in Resources
          /\ [store EXCEPT !["configBinding"] = TRUE] \in Resources
      BY <1>0, ResourceTypes
    <2> QED
      BY <2>1, <2>2, BindingEdits, PreservingWrites, UntouchedWrites
  <1>3. CASE ReconcileDeployment(c)
    <2> DEFINE made == [store EXCEPT !.deployment = [image |-> image, available |-> None]]
               updated == [store EXCEPT !.deployment.image = image]
    <2>1. \/ Untouched \/ Store(made)
          \/ store.deployment # None /\ Store(updated)
      BY <1>3 DEF ReconcileDeployment, Found, Create, CreateFails
    <2>2. made \in Resources
      <3>1. [image |-> image, available |-> None] \in Deployment
        BY DEF TypeOK, Deployment
      <3> QED
        BY <1>0, <3>1, ResourceTypes
    <2>3. store.deployment # None => updated \in Resources
      BY <1>0, EditedResources DEF TypeOK
    <2>4. Preserves(made)
      BY PlainEdits
    <2>5. Preserves(updated)
      BY PlainEdits
    <2> QED
      BY <2>1, <2>2, <2>3, <2>4, <2>5, PreservingWrites, UntouchedWrites
  <1>4. CASE ReconcileDispatcherService(c)
    <2>1. Untouched \/ Store([store EXCEPT !.service = TRUE])
      BY <1>4 DEF ReconcileDispatcherService, Found, Create, CreateFails
    <2>2. /\ [store EXCEPT !.service = TRUE] \in Resources
          /\ Preserves([store EXCEPT !.service = TRUE])
      BY <1>0, ResourceTypes, PlainEdits
    <2> QED
      BY <2>1, <2>2, PreservingWrites, UntouchedWrites
  <1>5. CASE CheckEndpoints(c) \/ ReconcileHub(c)
    BY <1>5, UntouchedWrites DEF CheckEndpoints, ReconcileHub
  <1>6. CASE ReconcileChannelService(c)
    <2> DEFINE expected == [owner |-> uid[c], spec |-> TRUE]
               made == [store EXCEPT !.channelService[c] = expected]
               rewritten == [store EXCEPT !.channelService[c].spec = TRUE]
    <2>1. \/ Untouched \/ Store(made)
          \/ store.channelService[c] # None /\ Store(rewritten)
      BY <1>6 DEF ReconcileChannelService, Found, Create, CreateFails
    <2>2. /\ expected \in ChannelService
          /\ expected.owner = uid[c] /\ uid[c] <= created[c]
      <3>1. uid[c] # 0
        BY <1>6 DEF ReconcileChannelService, At, WorkersFit, WorkerFits
      <3>2. uid[c] \in 1..MaxIncarnations
        BY <3>1, NamespaceParameters DEF TypeOK
      <3> QED
        BY <3>2 DEF ChannelService, ListerFits
    <2>3. Preserves(made)
      <3> HIDE DEF expected
      <3>1. expected # None
        BY <2>2, NoneIsNothing
      <3> QED
        BY <2>2, <3>1, ServiceEdit
    <2>4. made \in Resources
      BY <1>0, <2>2, ServiceTypes
    <2>5. store.channelService[c] # None =>
            rewritten \in Resources /\ Preserves(rewritten)
      BY <1>0, EditedResources, SpecEdit
    <2> QED
      BY <2>1, <2>3, <2>4, <2>5, PreservingWrites, UntouchedWrites
  <1> QED
    BY <1>1, <1>2, <1>3, <1>4, <1>5, <1>6

\* So does Kubernetes, and so do the users, who may remove what is unwatched.
LEMMA ClusterWrites ==
  ASSUME TypeOK, ListerFits,
         \/ \E c \in Channels : CollectService(c)
         \/ ClusterProgress \/ Disturb \/ RemoveUnwatched
  PROVE  Writes
PROOF
  <1>0. store \in Resources
    BY DEF TypeOK
  <1>1. ASSUME NEW c \in Channels, CollectService(c) PROVE Writes
    <2>1. /\ Store([store EXCEPT !.channelService[c] = None])
          /\ store.channelService[c].owner # uid[c]
      BY <1>1 DEF CollectService
    <2>2. Preserves([store EXCEPT !.channelService[c] = None])
      <3>1. ~OwnService(c, store) /\ None \in ChannelService \cup {None}
        BY <2>1 DEF OwnService
      <3> QED
        BY <3>1, ServiceEdit
    <2>3. [store EXCEPT !.channelService[c] = None] \in Resources
      BY <1>0, ServiceTypes
    <2> QED
      BY <2>1, <2>2, <2>3, PreservingWrites
  <1>2. CASE ClusterProgress
    <2> DEFINE up == [store EXCEPT !.deployment.available = "True"]
               followed == [store EXCEPT !.endpoints = Backed]
    <2>1. (store.deployment # None /\ Store(up)) \/ Store(followed)
      BY <1>2 DEF ClusterProgress
    <2>2. store.deployment # None => up \in Resources
      BY <1>0, EditedResources
    <2>3. followed \in Resources
      <3>1. Backed \in {None, "empty", "backed"}
        BY DEF Backed
      <3> QED
        BY <1>0, <3>1, ResourceTypes
    <2>4. Preserves(up) /\ Preserves(followed)
      BY PlainEdits
    <2> QED
      BY <2>1, <2>2, <2>3, <2>4, PreservingWrites
  <1>3. CASE Disturb
    <2> DEFINE down == [store EXCEPT !.deployment.available = "False"]
               removed == [store EXCEPT !.deployment = None]
               noService == [store EXCEPT !.service = FALSE]
               noAccount == [store EXCEPT !.account = FALSE]
               noBinding == [store EXCEPT !.binding = FALSE]
    <2>1. \/ store.deployment # None /\ (Store(down) \/ Store(removed))
          \/ Store(noService) \/ Store(noAccount) \/ Store(noBinding)
          \/ \E c \in Channels :
               /\ store.channelService[c] # None
               /\ Store([store EXCEPT !.channelService[c].spec = FALSE])
      BY <1>3 DEF Disturb
    <2>2. /\ store.deployment # None => down \in Resources
          /\ removed \in Resources /\ noService \in Resources
          /\ noAccount \in Resources /\ noBinding \in Resources
          /\ \A c \in Channels : store.channelService[c] # None =>
               [store EXCEPT !.channelService[c].spec = FALSE] \in Resources
      BY <1>0, EditedResources, ResourceTypes
    <2>3. Preserves(down) /\ Preserves(removed)
      BY PlainEdits
    <2>4. Preserves(noService) /\ Preserves(noAccount) /\ Preserves(noBinding)
      BY PlainEdits
    <2>5. \A c \in Channels : store.channelService[c] # None =>
            Preserves([store EXCEPT !.channelService[c].spec = FALSE])
      BY SpecEdit
    <2> HIDE DEF down, removed, noService, noAccount, noBinding
    <2> QED
      BY <2>1, <2>2, <2>3, <2>4, <2>5, PreservingWrites, UntouchedWrites
  <1>4. CASE RemoveUnwatched
    <2>1. CASE /\ Write([store EXCEPT !.configBinding = FALSE])
               /\ lostBinding' = TRUE /\ lostServices' = lostServices
      <3> DEFINE new == [store EXCEPT !.configBinding = FALSE]
      <3>1. new \in Resources /\ new.channelService = store.channelService
        BY <1>0 DEF Resources
      <3> HIDE DEF new
      <3>2. /\ OwnersExisted(new)
            /\ \A c \in lostServices' : new.channelService[c] = None
            /\ \A c \in Channels :
                 HasOwn(c) => OwnService(c, new) \/ c \in lostServices'
        BY <2>1, <3>1 DEF ListerFits, OwnersExisted, HasOwn, OwnService
      <3>3. Write(new)
        BY <2>1 DEF new
      <3> QED
        BY <2>1, <3>1, <3>2, <3>3 DEF Writes
    <2>2. ASSUME NEW c \in Channels,
                 Write([store EXCEPT !.channelService[c] = None]),
                 lostServices' = lostServices \cup {c}, lostBinding' = lostBinding
          PROVE  Writes
      <3> DEFINE new == [store EXCEPT !.channelService[c] = None]
      <3>1. /\ new \in Resources /\ new.configBinding = store.configBinding
            /\ new.channelService = [store.channelService EXCEPT ![c] = None]
            /\ store.channelService \in [Channels -> ChannelService \cup {None}]
        BY <1>0, ServiceTypes, ResourceTypes DEF Resources
      <3>2. Write(new)
        BY <2>2 DEF new
      <3> HIDE DEF new
      <3>3. /\ new.channelService[c] = None
            /\ \A d \in Channels \ {c} :
                 new.channelService[d] = store.channelService[d]
        BY <3>1
      <3>4. OwnersExisted(new)
        BY <3>3 DEF ListerFits, OwnersExisted
      <3>5. \A d \in lostServices' : new.channelService[d] = None
        BY <2>2, <3>3 DEF ListerFits, TypeOK
      <3>6. \A d \in Channels : HasOwn(d) => OwnService(d, new) \/ d \in lostServices'
        BY <2>2, <3>3 DEF HasOwn, OwnService
      <3>7. HasConfigBinding => new.configBinding \/ lostBinding'
        BY <2>2, <3>1 DEF HasConfigBinding
      <3> QED
        BY <3>1, <3>2, <3>4, <3>5, <3>6, <3>7 DEF Writes
    <2> QED
      BY <1>4, <2>1, <2>2 DEF RemoveUnwatched
  <1> QED
    BY <1>1, <1>2, <1>3, <1>4

\* Writes leave an event behind for each resource that they change.
LEMMA WrittenFits ==
  ASSUME TypeOK, ListerFits, Writes, UNCHANGED <<uid, created, lister>>
  PROVE  ListerFits'
PROOF
  <1>1. CASE Untouched
    BY <1>1 DEF Untouched, history, ListerFits, OwnersExisted, OwnService, HasOwn,
       HasConfigBinding
  <1>2. ASSUME NEW new \in Resources, Write(new), OwnersExisted(new),
               HasConfigBinding => new.configBinding \/ lostBinding',
               \A c \in lostServices' : new.channelService[c] = None,
               \A c \in Channels :
                 uid[c] # 0 /\ HasOwn(c) => OwnService(c, new) \/ c \in lostServices'
        PROVE  ListerFits'
    <2>0. \A f \in UNION Informers : f \notin pending => lister[f] = store[f]
      BY DEF ListerFits
    <2>2. store' = new /\ DOMAIN store = UNION Informers
      BY <1>2, FieldsWatched DEF Write, TypeOK
    <2>3. ASSUME NEW f \in UNION Informers, f \notin pending'
          PROVE  lister'[f] = store'[f]
      <3>1. f \notin pending /\ new[f] = store[f]
        BY <1>2, <2>2, <2>3 DEF Write
      <3> QED
        BY <2>0, <2>2, <2>3, <3>1
    <2>4. OwnersExisted(store)' /\ OwnersExisted(lister)'
      BY <1>2, <2>2 DEF ListerFits, OwnersExisted
    <2>5. ASSUME NEW c \in Channels, uid'[c] # 0, OwnService(c, lister)'
          PROVE  HasOwn(c)'
      <3>1. HasOwn(c)
        BY <2>5 DEF ListerFits, OwnService
      <3> QED
        BY <1>2, <2>2, <2>5, <3>1 DEF HasOwn, OwnService
    <2>6. /\ lister'.configBinding => HasConfigBinding'
          /\ \A c \in Channels : uid'[c] <= created'[c]
      BY <1>2, <2>2 DEF ListerFits, HasConfigBinding
    <2>7. \A f \in UNION Informers : f \notin pending' => lister'[f] = store'[f]
      BY <2>3
    <2>8. \A c \in lostServices' : store'.channelService[c] = None
      BY <1>2, <2>2
    <2> QED
      BY <2>4, <2>5, <2>6, <2>7, <2>8 DEF ListerFits
  <1> QED
    BY <1>1, <1>2 DEF Writes

LEMMA ListerStep ==
  ASSUME TypeOK, WorkersFit, ListerFits, [Next]_vars
  PROVE  ListerFits'
PROOF
  <1> USE DEF channels, cluster, history, workers
  <1>1. ASSUME NEW c \in Channels, Work(c) PROVE ListerFits'
    <2>1. CASE Reconcile(c) \/ UpdateStatus(c)
      <3>1. UNCHANGED <<uid, created, store, lister, pending, lostBinding, lostServices>>
        BY <2>1 DEF Reconcile, UpdateStatus
      <3> QED
        BY <3>1 DEF ListerFits, OwnersExisted, OwnService, HasOwn, HasConfigBinding
    <2>2. CASE ~(Reconcile(c) \/ UpdateStatus(c))
      <3>1. Writes
        BY <1>1, <2>2, StageWrites DEF Work
      <3>2. UNCHANGED <<uid, created, lister>>
        BY <1>1, <2>2, ReconcileKindMoves DEF Work, StageMoves, At
      <3> QED
        BY <3>1, <3>2, WrittenFits
    <2> QED
      BY <2>1, <2>2
  <1>2. ASSUME NEW c \in Channels, CreateChannel(c) PROVE ListerFits'
    <2>1. /\ UNCHANGED <<store, lister, pending, lostBinding, lostServices>>
          /\ created' = [created EXCEPT ![c] = @ + 1]
          /\ uid' = [uid EXCEPT ![c] = created[c] + 1]
          /\ created \in [Channels -> Nat] /\ uid \in [Channels -> Nat]
      BY <1>2, NamespaceParameters DEF CreateChannel, TypeOK
    <2>2. \A d \in Channels : created[d] <= created'[d] /\ uid'[d] <= created'[d]
      BY <2>1 DEF ListerFits
    <2>3. ASSUME NEW r \in Resources, OwnersExisted(r), NEW d \in Channels,
                 r.channelService[d] # None
          PROVE  r.channelService[d].owner \in Nat /\ r.channelService[d].owner <= created[d]
      <3>1. r.channelService[d] \in ChannelService
        BY <2>3, ResourceTypes
      <3> QED
        BY <2>3, <3>1 DEF ChannelService, OwnersExisted
    <2>4. store \in Resources /\ lister \in Resources /\ OwnersExisted(store)
          /\ OwnersExisted(lister)
      BY DEF TypeOK, ListerFits
    <2>5. OwnersExisted(store)' /\ OwnersExisted(lister)'
      BY <2>1, <2>2, <2>3, <2>4 DEF OwnersExisted
    <2>6. ASSUME NEW d \in Channels, uid'[d] # 0, OwnService(d, lister)'
          PROVE  HasOwn(d)'
      <3>1. d # c
        BY <2>1, <2>3, <2>4, <2>6 DEF OwnService
      <3> QED
        BY <2>1, <2>6, <3>1 DEF ListerFits, OwnService, HasOwn
    <2> QED
      BY <2>1, <2>2, <2>5, <2>6 DEF ListerFits, HasConfigBinding
  <1>3. ASSUME NEW c \in Channels, ChannelGone(c) PROVE ListerFits'
    <2>1. /\ UNCHANGED <<store, lister, pending, lostBinding, lostServices, created>>
          /\ uid' = [uid EXCEPT ![c] = 0]
          /\ created \in [Channels -> Nat] /\ uid \in [Channels -> Nat]
      BY <1>3, NamespaceParameters DEF ChannelGone, TypeOK
    <2> QED
      BY <2>1 DEF ListerFits, OwnersExisted, OwnService, HasOwn, HasConfigBinding
  <1>4. CASE \/ \E c \in Channels : CollectService(c)
             \/ ClusterProgress \/ Disturb \/ RemoveUnwatched
    <2>1. Writes
      BY <1>4, ClusterWrites
    <2>2. UNCHANGED <<uid, created, lister>>
      BY <1>4 DEF CollectService, ClusterProgress, Disturb, RemoveUnwatched
    <2> QED
      BY <2>1, <2>2, WrittenFits
  <1>5. ASSUME NEW kind \in Informers, Sync(kind) PROVE ListerFits'
    <2>1. /\ UNCHANGED <<uid, created, store, lostBinding, lostServices>>
          /\ pending' = pending \ kind
          /\ DOMAIN lister = UNION Informers
          /\ lister' = [f \in DOMAIN lister |-> IF f \in kind THEN store[f] ELSE lister[f]]
      BY <1>5, FieldsWatched DEF Sync, TypeOK
    <2>2. \A f \in UNION Informers : lister'[f] = IF f \in kind THEN store[f] ELSE lister[f]
      BY <2>1
    <2>3. \A f \in {"configBinding", "channelService"} :
            lister'[f] = store[f] \/ lister'[f] = lister[f]
      BY <2>2 DEF Informers
    <2>4. OwnersExisted(store)' /\ OwnersExisted(lister)'
      BY <2>1, <2>3 DEF ListerFits, OwnersExisted
    <2>5. ASSUME NEW c \in Channels, uid[c] # 0, OwnService(c, lister)'
          PROVE  HasOwn(c)'
      BY <2>1, <2>3, <2>5 DEF ListerFits, OwnService, HasOwn
    <2>6. \A f \in UNION Informers : f \notin pending' => lister'[f] = store'[f]
      <3>1. \A f \in UNION Informers : f \notin pending => lister[f] = store[f]
        BY DEF ListerFits
      <3> QED
        BY <2>1, <2>2, <3>1
    <2>7. /\ lister'.configBinding => HasConfigBinding'
          /\ \A c \in lostServices' : store'.channelService[c] = None
          /\ \A c \in Channels : uid'[c] <= created'[c]
      BY <2>1, <2>3 DEF ListerFits, HasConfigBinding
    <2>8. \A c \in Channels :
            uid'[c] # 0 /\ OwnService(c, lister)' => HasOwn(c)'
      BY <2>1, <2>5
    <2> QED
      BY <2>4, <2>6, <2>7, <2>8 DEF ListerFits
  <1>6. CASE Restart
    BY <1>6 DEF Restart, ListerFits, OwnersExisted, OwnService, HasOwn, HasConfigBinding
  <1>7. CASE Resync \/ UNCHANGED vars
    <2>1. UNCHANGED <<uid, created, store, lister, pending, lostBinding, lostServices>>
      BY <1>7 DEF Resync, vars
    <2> QED
      BY <2>1 DEF ListerFits, OwnersExisted, OwnService, HasOwn, HasConfigBinding
  <1> QED
    BY <1>1, <1>2, <1>3, <1>4, <1>5, <1>6, <1>7 DEF Next

-----------------------------------------------------------------------------
(***************************************************************************)
(* What a worker has learned.  After each stage the resource it looked at  *)
(* is in the lister as it was seen, or an event of it is on its way that   *)
(* will enqueue the channel; or, where the event handlers pass no event,   *)
(* it is there or a user removed it.  This is known of a channel until its *)
(* key is enqueued or a stage fails, and outlasts the worker.              *)
(***************************************************************************)

AfterHub == {"status", "idle"}
AfterChannelService == AfterHub \cup {"hub"}
AfterEndpoints == AfterChannelService \cup {"channelService"}
AfterService == AfterEndpoints \cup {"endpoints"}
AfterDeployment == AfterService \cup {"service"}
AfterConfigBinding == AfterDeployment \cup {"deployment"}
AfterBinding == AfterConfigBinding \cup {"configBinding"}
AfterAccount == AfterBinding \cup {"binding"}

\* The conditions that are, or will be, the channel's status.
Marks(c) == IF pc[c] = "idle" THEN status[c] ELSE copy[c]

Settled(c) == uid[c] # 0 /\ c \notin queue /\ err[c] = None

\* A deployment with a report of its availability is marked as reported.
DeploymentSeen(conditions) ==
  /\ lister.deployment # None
  /\ lister.deployment.image = image
  /\ lister.deployment.available # None =>
       ("DispatcherReady" \in conditions <=> lister.deployment.available = "True")

Learned(c, stage, conditions) ==
  /\ stage \in AfterAccount => "account" \in pending \/ lister.account
  /\ stage \in AfterBinding => "binding" \in pending \/ lister.binding
  /\ stage \in AfterConfigBinding => HasConfigBinding
  /\ stage \in AfterDeployment =>
       "deployment" \in pending \/ DeploymentSeen(conditions)
  /\ stage \in AfterService =>
       "ServiceReady" \in conditions /\ ("service" \in pending \/ lister.service)
  /\ stage \in AfterEndpoints =>
       /\ "EndpointsReady" \in conditions
       /\ "endpoints" \in pending \/ lister.endpoints = "backed"
  /\ stage \in AfterChannelService =>
       /\ {"ChannelServiceReady", "Addressable"} \subseteq conditions
       /\ HasOwn(c)
  /\ stage \in AfterHub => "HubReady" \in conditions

SettledAt(c) == Settled(c) => Learned(c, pc[c], Marks(c))

AllSettled == \A c \in Channels : SettledAt(c)

\* What is known of the watched resources stays known, and so do the events
\* of them that are on their way.
WatchKept ==
  /\ image' = image
  /\ \A f \in Watched : lister'[f] = lister[f] /\ (f \in pending => f \in pending')

\* Nor is the second binding taken away, or its service from the channel that
\* owns it, but by a user.
Kept(c) ==
  /\ HasConfigBinding => HasConfigBinding'
  /\ HasOwn(c) => HasOwn(c)'

LEMMA LearnedStays ==
  ASSUME NEW c, NEW stage, NEW conditions, NEW marked,
         Learned(c, stage, conditions), WatchKept, Kept(c),
         stage \in AfterDeployment =>
           /\ conditions \subseteq marked
           /\ "DispatcherReady" \in marked <=> "DispatcherReady" \in conditions
  PROVE  Learned(c, stage, marked)'
PROOF
  <1>1. /\ lister'.account = lister.account /\ lister'.binding = lister.binding
        /\ lister'.deployment = lister.deployment
        /\ lister'.service = lister.service /\ lister'.endpoints = lister.endpoints
        /\ "account" \in pending => "account" \in pending'
        /\ "binding" \in pending => "binding" \in pending'
        /\ "deployment" \in pending => "deployment" \in pending'
        /\ "service" \in pending => "service" \in pending'
        /\ "endpoints" \in pending => "endpoints" \in pending'
    BY DEF WatchKept, Watched
  <1>2. stage \in AfterService \cup AfterEndpoints \cup AfterChannelService \cup AfterHub
          => stage \in AfterDeployment
    BY DEF AfterDeployment, AfterService, AfterEndpoints, AfterChannelService, AfterHub
  <1>3. stage \in AfterDeployment =>
          "deployment" \in pending' \/ DeploymentSeen(marked)'
    BY <1>1 DEF Learned, DeploymentSeen, WatchKept
  <1>4. /\ stage \in AfterAccount => "account" \in pending' \/ lister'.account
        /\ stage \in AfterBinding => "binding" \in pending' \/ lister'.binding
        /\ stage \in AfterConfigBinding => HasConfigBinding'
    BY <1>1 DEF Learned, Kept
  <1>5. /\ stage \in AfterService =>
             "ServiceReady" \in marked /\ ("service" \in pending' \/ lister'.service)
        /\ stage \in AfterEndpoints =>
             /\ "EndpointsReady" \in marked
             /\ "endpoints" \in pending' \/ lister'.endpoints = "backed"
    BY <1>1, <1>2 DEF Learned
  <1>6. /\ stage \in AfterChannelService =>
             /\ {"ChannelServiceReady", "Addressable"} \subseteq marked
             /\ HasOwn(c)'
        /\ stage \in AfterHub => "HubReady" \in marked
    BY <1>2 DEF Learned, Kept
  <1> QED
    BY <1>3, <1>4, <1>5, <1>6 DEF Learned

\* A step that leaves a channel, its worker and its status alone.
LEMMA SettledStays ==
  ASSUME NEW c, SettledAt(c), WatchKept, uid[c] # 0 => Kept(c),
         uid'[c] = uid[c], c \in queue => c \in queue', err'[c] = err[c],
         pc'[c] = pc[c], copy'[c] = copy[c], status'[c] = status[c]
  PROVE  SettledAt(c)'
PROOF
  <1> SUFFICES ASSUME Settled(c)' PROVE Learned(c, pc[c], Marks(c))'
    BY DEF SettledAt
  <1>1. Settled(c)
    BY DEF Settled
  <1>2. Marks(c)' = Marks(c)
    BY DEF Marks
  <1>3. Learned(c, pc[c], Marks(c))
    BY <1>1 DEF SettledAt
  <1> DEFINE marks == Marks(c)
             stage == pc[c]
  <1>4. Learned(c, stage, marks)
    BY <1>3
  <1> HIDE DEF marks, stage
  <1>5. \A s, m : Learned(c, s, m) => Learned(c, s, m)'
    BY <1>1, LearnedStays DEF Settled
  <1> QED
    BY <1>2, <1>3, <1>5

\* What a write to the API server keeps.
LEMMA WrittenKept ==
  ASSUME TypeOK, Writes, UNCHANGED <<lister, image, uid>>
  PROVE  WatchKept /\ \A c \in Channels : uid[c] # 0 => Kept(c)
PROOF
  <1>1. CASE Untouched
    BY <1>1 DEF Untouched, history, WatchKept, Kept, OwnService, HasOwn, HasConfigBinding
  <1>2. ASSUME NEW new, Write(new), HasConfigBinding => new.configBinding \/ lostBinding',
               \A c \in Channels :
                 uid[c] # 0 /\ HasOwn(c) => OwnService(c, new) \/ c \in lostServices'
        PROVE  WatchKept /\ \A c \in Channels : uid[c] # 0 => Kept(c)
    <2>1. store' = new /\ pending \subseteq pending'
      BY <1>2 DEF Write
    <2>2. HasConfigBinding => HasConfigBinding'
      BY <1>2, <2>1 DEF HasConfigBinding
    <2>3. ASSUME NEW c \in Channels, uid[c] # 0, HasOwn(c) PROVE HasOwn(c)'
      BY <1>2, <2>1, <2>3 DEF HasOwn, OwnService
    <2> QED
      BY <2>1, <2>2, <2>3 DEF WatchKept, Kept
  <1> QED
    BY <1>1, <1>2 DEF Writes

\* A write that changes a resource leaves an event of it.
LEMMA ChangeSeen ==
  ASSUME TypeOK, NEW new, Store(new), NEW f \in UNION Informers, new[f] # store[f]
  PROVE  f \in pending'
PROOF
  <1>1. DOMAIN store = UNION Informers
    BY FieldsWatched DEF TypeOK
  <1> QED
    BY <1>1 DEF Store, Write

\* A stage after which the channel is settled has been passed, and what was
\* learned before it is still so.
LEMMA StagePassed ==
  ASSUME TypeOK, WorkersFit, NEW c \in Channels, NEW stage \in StageNames \ {"status"},
         At(c, stage), Proceed(c) \/ Fail(c), Writes, SettledAt(c), Settled(c)',
         stage \in AfterDeployment /\ Proceed(c) =>
           /\ copy[c] \subseteq copy'[c]
           /\ "DispatcherReady" \in copy'[c] <=> "DispatcherReady" \in copy[c]
  PROVE  /\ Learned(c, stage, copy[c])'
         /\ Proceed(c) /\ uid[c] # 0
         /\ pc'[c] # "idle" => Marks(c)' = copy'[c]
PROOF
  <1>1. pc[c] = stage /\ stage # "idle" /\ stage # "status" /\ err[c] = None
    BY StageList DEF At, WorkersFit, WorkerFits
  <1>2. Proceed(c)
    <2>1. ~Fail(c)
      BY <1>1, NoneIsNothing DEF Fail, Settled, TypeOK
    <2> QED
      BY <2>1
  <1>3. Settled(c)
    BY <1>1 DEF Settled, At, channels
  <1>4. Learned(c, stage, copy[c])
    BY <1>1, <1>3 DEF SettledAt, Marks
  <1>5. WatchKept /\ Kept(c)
    BY <1>3, WrittenKept DEF At, channels, Settled
  <1>6. Learned(c, stage, copy[c])'
    BY <1>2, <1>4, <1>5, LearnedStays
  <1>7. pc'[c] # "idle" => Marks(c)' = copy'[c]
    BY DEF Marks
  <1> QED
    BY <1>2, <1>3, <1>6, <1>7 DEF Settled

\* The stage that follows.
LEMMA NextStage ==
  ASSUME TypeOK, NEW c \in Channels, Proceed(c)
  PROVE  /\ pc[c] = "account" => pc'[c] = "binding"
         /\ pc[c] = "binding" => pc'[c] = "configBinding"
         /\ pc[c] = "configBinding" => pc'[c] = "deployment"
         /\ pc[c] = "deployment" => pc'[c] = "service"
         /\ pc[c] = "service" => pc'[c] = "endpoints"
         /\ pc[c] = "endpoints" => pc'[c] = "channelService"
         /\ pc[c] = "channelService" => pc'[c] = "hub"
         /\ pc[c] = "hub" => pc'[c] = "status"
PROOF
  <1>1. PICK i \in 1..9 : Stages[i] = pc[c] /\ pc' = [pc EXCEPT ![c] = Stages[i + 1]]
    BY StageList DEF Proceed
  <1>2. pc'[c] = Stages[i + 1]
    BY <1>1 DEF TypeOK
  <1>3. i = 1 \/ i = 2 \/ i = 3 \/ i = 4 \/ i = 5 \/ i = 6 \/ i = 7 \/ i = 8 \/ i = 9
    OBVIOUS
  <1> QED
    BY <1>1, <1>2, <1>3, StageList

LEMMA AccountSettles ==
  ASSUME TypeOK, WorkersFit, ListerFits, NEW c \in Channels, SettledAt(c), Settled(c)',
         ReconcileServiceAccount(c)
  PROVE  SettledAt(c)'
PROOF
  <1>1. /\ At(c, "account") /\ (Proceed(c) \/ Fail(c)) /\ Writes
        /\ "account" \in StageNames \ {"status"} /\ "account" \notin AfterDeployment
    BY StageList, StageWrites DEF ReconcileServiceAccount, Found, Create, CreateFails,
       AfterDeployment, AfterService, AfterEndpoints, AfterChannelService, AfterHub
  <1>2. Learned(c, "account", copy[c])' /\ Proceed(c)
    BY <1>1, StagePassed
  <1>3. pc'[c] = "binding" /\ Marks(c)' = copy'[c]
    BY <1>1, <1>2, NextStage, StagePassed DEF At
  <1>4. "account" \in pending' \/ lister'.account
    <2>1. CASE lister.account
      BY <1>1, <2>1 DEF At
    <2>2. CASE Create(c, store.account, [store EXCEPT !.account = TRUE])
      <3>1. [store EXCEPT !.account = TRUE].account # store.account
        BY <2>2 DEF Create, TypeOK, Resources
      <3>2. "account" \in UNION Informers
        BY DEF Informers
      <3> QED
        BY <2>2, <3>1, <3>2, ChangeSeen DEF Create
    <2>3. CASE CreateFails(c, store.account, {"DispatcherReady"})
      BY <1>1, <1>2, <1>3, <2>3, StageList DEF CreateFails, Fail, TypeOK
    <2> QED
      BY <2>1, <2>2, <2>3 DEF ReconcileServiceAccount
  <1>5. Learned(c, "binding", copy[c])'
    BY <1>2, <1>4 DEF Learned, AfterAccount, AfterBinding, AfterConfigBinding,
       AfterDeployment, AfterService, AfterEndpoints, AfterChannelService, AfterHub
  <1> QED
    BY <1>3, <1>5 DEF SettledAt

LEMMA BindingSettles ==
  ASSUME TypeOK, WorkersFit, ListerFits, NEW c \in Channels, SettledAt(c), Settled(c)',
         ReconcileRoleBinding(c)
  PROVE  SettledAt(c)'
PROOF
  <1>0. PICK b \in {"binding", "configBinding"} :
          /\ At(c, b)
          /\ \/ lister[b] /\ Found(c) /\ UNCHANGED copy
             \/ /\ ~lister[b]
                /\ \/ /\ Create(c, store[b], [store EXCEPT ![b] = TRUE])
                      /\ UNCHANGED copy
                   \/ CreateFails(c, store[b], {"DispatcherReady"})
    BY DEF ReconcileRoleBinding
  <1>1. /\ At(c, b) /\ (Proceed(c) \/ Fail(c)) /\ Writes
        /\ b \in StageNames \ {"status"} /\ b \notin AfterDeployment
    BY <1>0, StageList, StageWrites DEF Found, Create, CreateFails,
       AfterDeployment, AfterService, AfterEndpoints, AfterChannelService, AfterHub
  <1>2. Learned(c, b, copy[c])' /\ Proceed(c)
    BY <1>1, StagePassed
  <1>3. /\ b = "binding" => pc'[c] = "configBinding"
        /\ b = "configBinding" => pc'[c] = "deployment"
        /\ Marks(c)' = copy'[c]
    BY <1>1, <1>2, NextStage, StagePassed DEF At
  <1>4. /\ b = "binding" => "binding" \in pending' \/ lister'.binding
        /\ b = "configBinding" => HasConfigBinding'
    <2>1. CASE lister[b] /\ Found(c)
      BY <1>1, <2>1 DEF At, Found, Untouched, history, ListerFits, HasConfigBinding
    <2>2. CASE Create(c, store[b], [store EXCEPT ![b] = TRUE])
      <3>1. CASE b = "binding"
        <4>1. [store EXCEPT !["binding"] = TRUE].binding # store.binding
          BY <2>2, <3>1 DEF Create, TypeOK, Resources
        <4>2. "binding" \in UNION Informers
          BY DEF Informers
        <4> QED
          BY <2>2, <3>1, <4>1, <4>2, ChangeSeen DEF Create
      <3>2. CASE b = "configBinding"
        <4>1. store'.configBinding
          BY <2>2, <3>2 DEF Create, Store, Write, TypeOK, Resources
        <4> QED
          BY <3>2, <4>1 DEF HasConfigBinding
      <3> QED
        BY <3>1, <3>2
    <2>3. CASE CreateFails(c, store[b], {"DispatcherReady"})
      BY <1>1, <1>3, <2>3, StageList DEF CreateFails, Fail, TypeOK
    <2> QED
      BY <1>0, <2>1, <2>2, <2>3
  <1>5. /\ b = "binding" => Learned(c, "configBinding", copy[c])'
        /\ b = "configBinding" => Learned(c, "deployment", copy[c])'
    BY <1>2, <1>4 DEF Learned, AfterAccount, AfterBinding, AfterConfigBinding,
       AfterDeployment, AfterService, AfterEndpoints, AfterChannelService, AfterHub
  <1> QED
    BY <1>3, <1>5 DEF SettledAt

\* A condition that is marked joins those marked before.
LEMMA Marked ==
  ASSUME TypeOK, NEW c \in Channels, NEW conditions, Mark(c, conditions)
  PROVE  /\ copy'[c] = copy[c] \cup conditions
PROOF
  BY DEF Mark, TypeOK

LEMMA DeploymentSettles ==
  ASSUME TypeOK, WorkersFit, ListerFits, NEW c \in Channels, SettledAt(c), Settled(c)',
         ReconcileDeployment(c)
  PROVE  SettledAt(c)'
PROOF
  <1> DEFINE seen == lister.deployment
             there == store.deployment
             made == [image |-> image, available |-> None]
             updated == [store EXCEPT !.deployment.image = image]
  <1>1. /\ At(c, "deployment") /\ (Proceed(c) \/ Fail(c)) /\ Writes
        /\ "deployment" \in StageNames \ {"status"} /\ "deployment" \notin AfterDeployment
    BY StageList, StageWrites DEF ReconcileDeployment, Found, Create, CreateFails,
       AfterDeployment, AfterService, AfterEndpoints, AfterChannelService, AfterHub
  <1>2. Learned(c, "deployment", copy[c])' /\ Proceed(c)
    BY <1>1, StagePassed
  <1>3. pc'[c] = "service" /\ Marks(c)' = copy'[c] /\ ~Fail(c)
    <2>1. pc'[c] = "service"
      BY <1>1, <1>2, NextStage DEF At
    <2>2. ~Fail(c)
      BY <2>1 DEF Fail, TypeOK
    <2> QED
      BY <1>1, <2>1, <2>2, StagePassed
  <1>4. seen \in Deployment \cup {None} /\ there \in Deployment \cup {None}
    BY ResourceTypes DEF TypeOK
  <1>5. "deployment" \in pending' \/ DeploymentSeen(copy[c])'
    <2>1. CASE Create(c, there # None, [store EXCEPT !.deployment = made])
      <3>1. made # None
        <4>1. made \in Deployment
          BY DEF TypeOK, Deployment
        <4> QED
          BY <4>1, NoneIsNothing
      <3>2. [store EXCEPT !.deployment = made].deployment # store.deployment
        <4> HIDE DEF made
        <4> QED
          BY <2>1, <3>1 DEF Create, TypeOK, Resources
      <3>3. "deployment" \in UNION Informers
        BY DEF Informers
      <3> QED
        BY <2>1, <3>2, <3>3, ChangeSeen DEF Create
    <2>2. CASE seen.image # image /\ seen # None /\ there # None /\ Store(updated)
      <3>1. there \in Deployment
        BY <1>4, <2>2
      <3>2. updated.deployment = [there EXCEPT !.image = image]
        BY DEF TypeOK, Resources
      <3>3. updated.deployment.image = image
        BY <3>1, <3>2 DEF Deployment
      <3>4. "deployment" \in UNION Informers
        BY DEF Informers
      <3> HIDE DEF updated
      <3>5. CASE there.image = image
        <4>1. lister.deployment # store.deployment
          BY <2>2, <3>5
        <4>2. "deployment" \in pending
          BY <3>4, <4>1 DEF ListerFits
        <4> QED
          BY <2>2, <4>2 DEF Store, Write
      <3>6. CASE there.image # image
        BY <2>2, <3>3, <3>4, <3>6, ChangeSeen
      <3> QED
        BY <3>5, <3>6
    <2>3. CASE /\ seen # None /\ seen.image = image
               /\ PropagateDispatcherStatus(c, seen.available)
      <3>1. UNCHANGED <<lister, image>> /\ copy \in [Channels -> SUBSET Conditions]
        BY <1>1 DEF At, TypeOK
      <3>2. seen.available \in {None, "True", "False"}
        BY <1>4, <2>3 DEF Deployment
      <3>3. seen.available # None =>
              ("DispatcherReady" \in copy'[c] <=> seen.available = "True")
        BY <2>3, <3>1, <3>2 DEF PropagateDispatcherStatus
      <3> QED
        BY <2>3, <3>1, <3>3 DEF DeploymentSeen
    <2> HIDE DEF made, updated
    <2> QED
      BY <1>3, <2>1, <2>2, <2>3 DEF ReconcileDeployment, CreateFails, made, updated
  <1>6. Learned(c, "service", copy[c])'
    BY <1>2, <1>5 DEF Learned, AfterAccount, AfterBinding, AfterConfigBinding,
       AfterDeployment, AfterService, AfterEndpoints, AfterChannelService, AfterHub
  <1> QED
    BY <1>3, <1>6 DEF SettledAt

LEMMA ServiceSettles ==
  ASSUME TypeOK, WorkersFit, ListerFits, NEW c \in Channels, SettledAt(c), Settled(c)',
         ReconcileDispatcherService(c)
  PROVE  SettledAt(c)'
PROOF
  <1>1. /\ At(c, "service") /\ (Proceed(c) \/ Fail(c)) /\ Writes
        /\ "service" \in StageNames \ {"status"}
    BY StageList, StageWrites DEF ReconcileDispatcherService, Found, Create, CreateFails
  <1>2. ~Fail(c) => Mark(c, {"ServiceReady"})
    BY DEF ReconcileDispatcherService, CreateFails
  <1>3. Proceed(c) => ~Fail(c)
    BY <1>1, NextStage DEF Fail, At, TypeOK
  <1>4. Proceed(c) => copy'[c] = copy[c] \cup {"ServiceReady"}
    BY <1>2, <1>3, Marked
  <1>5. Learned(c, "service", copy[c])' /\ Proceed(c)
    BY <1>1, <1>4, StagePassed
  <1>6. pc'[c] = "endpoints"
    BY <1>1, <1>5, NextStage DEF At
  <1>7. Marks(c)' = copy'[c]
    BY <1>6 DEF Marks
  <1>8. "service" \in pending' \/ lister'.service
    <2>1. CASE lister.service
      BY <1>1, <2>1 DEF At
    <2>2. CASE Create(c, store.service, [store EXCEPT !.service = TRUE])
      <3>1. [store EXCEPT !.service = TRUE].service # store.service
        BY <2>2 DEF Create, TypeOK, Resources
      <3>2. "service" \in UNION Informers
        BY DEF Informers
      <3> QED
        BY <2>2, <3>1, <3>2, ChangeSeen DEF Create
    <2> QED
      BY <1>3, <1>5, <2>1, <2>2 DEF ReconcileDispatcherService, CreateFails
  <1>9. Learned(c, "endpoints", copy[c])'
    BY <1>4, <1>5, <1>8 DEF Learned, AfterAccount, AfterBinding, AfterConfigBinding,
       AfterDeployment, AfterService, AfterEndpoints, AfterChannelService, AfterHub
  <1> QED
    BY <1>6, <1>7, <1>9 DEF SettledAt

LEMMA EndpointsSettle ==
  ASSUME TypeOK, WorkersFit, ListerFits, NEW c \in Channels, SettledAt(c), Settled(c)',
         CheckEndpoints(c)
  PROVE  SettledAt(c)'
PROOF
  <1>1. /\ At(c, "endpoints") /\ (Proceed(c) \/ Fail(c)) /\ Writes
        /\ "endpoints" \in StageNames \ {"status"}
    BY StageList, StageWrites DEF CheckEndpoints
  <1>2. ~Fail(c) => lister.endpoints = "backed" /\ Mark(c, {"EndpointsReady"})
    BY DEF CheckEndpoints
  <1>3. Proceed(c) => ~Fail(c)
    BY <1>1, NextStage DEF Fail, At, TypeOK
  <1>4. Proceed(c) => copy'[c] = copy[c] \cup {"EndpointsReady"}
    BY <1>2, <1>3, Marked
  <1>5. Learned(c, "endpoints", copy[c])' /\ Proceed(c)
    BY <1>1, <1>4, StagePassed
  <1>6. pc'[c] = "channelService"
    BY <1>1, <1>5, NextStage DEF At
  <1>7. Marks(c)' = copy'[c]
    BY <1>6 DEF Marks
  <1>8. lister'.endpoints = "backed"
    BY <1>1, <1>2, <1>3, <1>5 DEF At
  <1>9. Learned(c, "channelService", copy[c])'
    BY <1>4, <1>5, <1>8 DEF Learned, AfterAccount, AfterBinding, AfterConfigBinding,
       AfterDeployment, AfterService, AfterEndpoints, AfterChannelService, AfterHub
  <1> QED
    BY <1>6, <1>7, <1>9 DEF SettledAt

LEMMA HubSettles ==
  ASSUME TypeOK, WorkersFit, ListerFits, NEW c \in Channels, SettledAt(c), Settled(c)',
         ReconcileHub(c)
  PROVE  SettledAt(c)'
PROOF
  <1>1. /\ At(c, "hub") /\ (Proceed(c) \/ Fail(c)) /\ Writes
        /\ "hub" \in StageNames \ {"status"}
    BY StageList, StageWrites DEF ReconcileHub
  <1>2. Fail(c) \/ Mark(c, {"HubReady"})
    BY DEF ReconcileHub
  <1>3. ~Fail(c)
    BY <1>1, NoneIsNothing DEF Fail, At, Settled, TypeOK
  <1>4. copy'[c] = copy[c] \cup {"HubReady"}
    BY <1>2, <1>3, Marked
  <1>5. Learned(c, "hub", copy[c])' /\ Proceed(c)
    BY <1>1, <1>4, StagePassed
  <1>6. pc'[c] = "status"
    BY <1>1, <1>5, NextStage DEF At
  <1>7. Marks(c)' = copy'[c]
    BY <1>6 DEF Marks
  <1>8. Learned(c, "status", copy[c])'
    BY <1>4, <1>5 DEF Learned, AfterAccount, AfterBinding, AfterConfigBinding,
       AfterDeployment, AfterService, AfterEndpoints, AfterChannelService, AfterHub
  <1> QED
    BY <1>6, <1>7, <1>8 DEF SettledAt

LEMMA ChannelServiceSettles ==
  ASSUME TypeOK, WorkersFit, ListerFits, NEW c \in Channels, SettledAt(c), Settled(c)',
         ReconcileChannelService(c)
  PROVE  SettledAt(c)'
PROOF
  <1> DEFINE seen == lister.channelService[c]
             there == store.channelService[c]
             ready == {"ChannelServiceReady", "Addressable"}
             expected == [owner |-> uid[c], spec |-> TRUE]
             made == [store EXCEPT !.channelService[c] = expected]
             rewritten == [store EXCEPT !.channelService[c].spec = TRUE]
  <1>1. /\ At(c, "channelService") /\ (Proceed(c) \/ Fail(c)) /\ Writes
        /\ "channelService" \in StageNames \ {"status"}
    BY StageList, StageWrites DEF ReconcileChannelService, Found, Create, CreateFails
  <1>2. ~Fail(c)
    BY <1>1, NoneIsNothing DEF Fail, At, Settled, TypeOK
  <1>3. /\ Mark(c, ready)
        /\ \/ Create(c, there # None, made)
           \/ there = seen /\ OwnService(c, lister) /\ Store(rewritten)
           \/ OwnService(c, lister) /\ Found(c)
    <2> HIDE DEF made, rewritten
    <2> QED
      BY <1>2 DEF ReconcileChannelService, CreateFails, OwnService, made, rewritten
  <1>4. copy'[c] = copy[c] \cup ready
    BY <1>3, Marked
  <1>5. Learned(c, "channelService", copy[c])' /\ Proceed(c) /\ uid[c] # 0
    BY <1>1, <1>4, StagePassed
  <1>6. pc'[c] = "hub"
    BY <1>1, <1>5, NextStage DEF At
  <1>7. Marks(c)' = copy'[c]
    BY <1>6 DEF Marks
  <1>8. HasOwn(c)'
    <2>1. uid'[c] = uid[c] /\ uid[c] \in 1..MaxIncarnations
      BY <1>1, <1>5, NamespaceParameters DEF At, channels, TypeOK
    <2>2. CASE Create(c, there # None, made)
      <3>1. expected \in ChannelService /\ expected.owner = uid[c]
        BY <2>1 DEF ChannelService
      <3> HIDE DEF expected
      <3>2. store'.channelService[c] = expected
        BY <2>2 DEF Create, Store, Write, TypeOK, Resources
      <3> QED
        BY <2>1, <3>1, <3>2, NoneIsNothing DEF OwnService, HasOwn
    <2>3. CASE ~Create(c, there # None, made)
      <3>1. OwnService(c, lister)
        BY <1>3, <2>3
      <3>2. HasOwn(c)
        BY <1>5, <3>1 DEF ListerFits
      <3>3. Kept(c)
        BY <1>1, <1>5, WrittenKept DEF At, channels
      <3> QED
        BY <3>2, <3>3 DEF Kept
    <2> QED
      BY <2>2, <2>3
  <1>9. Learned(c, "hub", copy[c])'
    <2>1. ready \subseteq copy'[c]
      BY <1>4
    <2> QED
      BY <1>5, <1>8, <2>1 DEF Learned, AfterAccount, AfterBinding, AfterConfigBinding,
         AfterDeployment, AfterService, AfterEndpoints, AfterChannelService, AfterHub
  <1> QED
    BY <1>6, <1>7, <1>9 DEF SettledAt

\* A worker settles its own channel...
LEMMA OwnSettles ==
  ASSUME TypeOK, WorkersFit, ListerFits, NEW c \in Channels, SettledAt(c), Work(c)
  PROVE  SettledAt(c)'
PROOF
  <1> SUFFICES ASSUME Settled(c)' PROVE SettledAt(c)'
    BY DEF SettledAt
  <1>1. CASE Reconcile(c)
    <2>1. pc'[c] = "account"
      BY <1>1 DEF Reconcile, TypeOK
    <2> QED
      BY <2>1 DEF SettledAt, Learned, AfterAccount, AfterBinding, AfterConfigBinding,
         AfterDeployment, AfterService, AfterEndpoints, AfterChannelService, AfterHub
  <1>2. CASE UpdateStatus(c)
    <2>1. /\ UNCHANGED <<uid, cluster, image>> /\ pc[c] = "status" /\ pc'[c] = "idle"
          /\ err[c] = None /\ c \notin queue /\ status'[c] = copy[c]
      BY <1>2 DEF UpdateStatus, Done, Settled, TypeOK
    <2>2. Learned(c, "status", copy[c])
      BY <1>2, <2>1 DEF SettledAt, Settled, Marks
    <2>3. Learned(c, "idle", copy[c])
      BY <2>2 DEF Learned, AfterAccount, AfterBinding, AfterConfigBinding,
         AfterDeployment, AfterService, AfterEndpoints, AfterChannelService, AfterHub
    <2>4. Learned(c, "idle", status[c])'
      BY <2>1, <2>3 DEF Learned, cluster, history, OwnService, HasOwn, HasConfigBinding,
         DeploymentSeen
    <2> QED
      BY <2>1, <2>4 DEF SettledAt, Marks
  <1> QED
    BY <1>1, <1>2, AccountSettles, BindingSettles, DeploymentSettles, ServiceSettles,
       EndpointsSettle, ChannelServiceSettles, HubSettles DEF Work

\* ...and leaves the others as they are.
LEMMA OthersSettled ==
  ASSUME TypeOK, WorkersFit, ListerFits, NEW c \in Channels, Work(c),
         NEW d \in Channels \ {c}, SettledAt(d)
  PROVE  SettledAt(d)'
PROOF
  <1>1. CASE Reconcile(c) \/ UpdateStatus(c)
    <2>1. /\ UNCHANGED <<uid, cluster, image>>
          /\ d \in queue' <=> d \in queue
          /\ pc'[d] = pc[d] /\ copy'[d] = copy[d] /\ err'[d] = err[d]
          /\ status'[d] = status[d]
      BY <1>1 DEF Reconcile, UpdateStatus, Done, channels, TypeOK
    <2>2. WatchKept /\ Kept(d)
      BY <2>1 DEF cluster, history, WatchKept, Kept, OwnService, HasOwn,
         HasConfigBinding
    <2> QED
      BY <2>1, <2>2, SettledStays
  <1>2. CASE ~(Reconcile(c) \/ UpdateStatus(c))
    <2>1. PICK stage \in StageNames \ {"status"} : StageMoves(c, stage)
      BY <1>2, ReconcileKindMoves DEF Work
    <2>2. /\ UNCHANGED <<uid, status, lister, image, queue>>
          /\ copy'[d] = copy[d]
      BY <2>1 DEF StageMoves, At, channels
    <2>3. pc'[d] = pc[d] /\ err'[d] = err[d]
      BY <2>1 DEF StageMoves, Proceed, Fail, TypeOK
    <2>4. WatchKept /\ (uid[d] # 0 => Kept(d))
      BY <1>2, <2>2, StageWrites, WrittenKept DEF Work
    <2> QED
      BY <2>2, <2>3, <2>4, SettledStays
  <1> QED
    BY <1>1, <1>2

\* Events enqueue every channel they may unsettle.
LEMMA SurroundingsSettled ==
  ASSUME TypeOK, ListerFits, Surroundings, NEW d \in Channels, SettledAt(d)
  PROVE  SettledAt(d)'
PROOF
  <1> USE DEF channels, cluster, history, workers
  <1>1. ASSUME NEW c \in Channels, CreateChannel(c) \/ ChannelGone(c)
        PROVE  SettledAt(d)'
    <2>1. CASE c = d
      BY <1>1, <2>1 DEF CreateChannel, ChannelGone, SettledAt, Settled, TypeOK
    <2>2. CASE c # d
      <3>1. /\ uid'[d] = uid[d]
            /\ d \in queue' <=> d \in queue
            /\ pc'[d] = pc[d] /\ copy'[d] = copy[d] /\ err'[d] = err[d]
            /\ status'[d] = status[d]
            /\ UNCHANGED <<store, lister, pending, lostBinding, lostServices, image>>
        BY <1>1, <2>2 DEF CreateChannel, ChannelGone, TypeOK
      <3>2. WatchKept /\ Kept(d)
        BY <3>1 DEF WatchKept, Kept, OwnService, HasOwn, HasConfigBinding
      <3> QED
        BY <3>1, <3>2, SettledStays
    <2> QED
      BY <2>1, <2>2
  <1>2. CASE \/ \E c \in Channels : CollectService(c)
             \/ ClusterProgress \/ Disturb \/ RemoveUnwatched
    <2>1. UNCHANGED <<uid, status, lister, image, queue, pc, copy, err>>
      BY <1>2 DEF CollectService, ClusterProgress, Disturb, RemoveUnwatched
    <2>2. WatchKept /\ (uid[d] # 0 => Kept(d))
      BY <1>2, <2>1, ClusterWrites, WrittenKept
    <2> QED
      BY <2>1, <2>2, SettledStays
  <1>3. ASSUME NEW kind \in Informers, Sync(kind) PROVE SettledAt(d)'
    <2>1. CASE kind \cap pending \cap Watched # {}
      BY <1>3, <2>1 DEF Sync, SettledAt, Settled, Live
    <2>2. CASE kind \cap pending \cap Watched = {}
      <3>1. /\ UNCHANGED <<uid, status, store, lostBinding, lostServices, image, queue,
                            pc, copy, err>>
            /\ pending' = pending \ kind /\ DOMAIN lister = UNION Informers
            /\ lister' = [f \in DOMAIN lister |-> IF f \in kind THEN store[f] ELSE lister[f]]
        BY <1>3, <2>2, FieldsWatched DEF Sync, TypeOK
      <3>2. Watched \subseteq UNION Informers
        BY DEF Watched, Informers
      <3>3. ASSUME NEW f \in Watched
            PROVE  lister'[f] = lister[f] /\ (f \in pending => f \in pending')
        <4>1. f \in kind => f \notin pending
          BY <2>2
        <4>2. f \notin pending => lister[f] = store[f]
          BY <3>2 DEF ListerFits
        <4> QED
          BY <3>1, <3>2, <4>1, <4>2
      <3>4. WatchKept /\ Kept(d)
        BY <3>1, <3>3 DEF WatchKept, Kept, OwnService, HasOwn, HasConfigBinding
      <3> QED
        BY <3>1, <3>4, SettledStays
    <2> QED
      BY <2>1, <2>2
  <1>4. CASE Resync \/ Restart
    BY <1>4 DEF Resync, Restart, SettledAt, Settled, Live
  <1> QED
    BY <1>1, <1>2, <1>3, <1>4 DEF Surroundings

LEMMA SettledAlways == Spec => [](TypeOK /\ WorkersFit /\ ListerFits /\ AllSettled)
PROOF
  <1>1. Init => ListerFits /\ AllSettled
    BY DEF Init, ListerFits, OwnersExisted, OwnService, HasOwn, HasConfigBinding, AllSettled, SettledAt, Settled
  <1>2. TypeOK /\ WorkersFit /\ ListerFits /\ AllSettled /\ [Next]_vars => AllSettled'
    <2> SUFFICES ASSUME TypeOK, WorkersFit, ListerFits, AllSettled, [Next]_vars,
                        NEW d \in Channels
                 PROVE  SettledAt(d)'
      BY DEF AllSettled
    <2>0. SettledAt(d)
      BY DEF AllSettled
    <2>1. ASSUME NEW c \in Channels, Work(c) PROVE SettledAt(d)'
      BY <2>0, <2>1, OwnSettles, OthersSettled
    <2>2. CASE Surroundings
      BY <2>0, <2>2, SurroundingsSettled
    <2>3. CASE UNCHANGED vars
      <3>1. UNCHANGED <<uid, status, store, lister, pending, lostBinding, lostServices,
                        image, queue, pc, copy, err>>
        BY <2>3 DEF vars, channels, cluster, history, workers
      <3>2. WatchKept /\ Kept(d)
        BY <3>1 DEF WatchKept, Kept, OwnService, HasOwn, HasConfigBinding
      <3> QED
        BY <2>0, <3>1, <3>2, SettledStays
    <2> QED
      BY <2>1, <2>2, <2>3 DEF Next, Surroundings
  <1>3. TypeOK /\ WorkersFit /\ ListerFits /\ [Next]_vars => ListerFits'
    BY ListerStep
  <1> QED
    BY <1>1, <1>2, <1>3, Invariant, PTL DEF Spec

\* When all work is done a channel is ready exactly if everything it stands
\* on is there, but for the second role binding or the channel's service where
\* a user removed it and nobody has made it again, for any channels, workers,
\* outages, removals and failures (controller/azurechannel.go 166, 174-196,
\* 250-296).
THEOREM RestTruthful == Spec => []RestIsTruthful
PROOF
  <1>1. TypeOK /\ WorkersFit /\ ListerFits /\ AllSettled => RestIsTruthful
    <2> SUFFICES ASSUME TypeOK, WorkersFit, ListerFits, AllSettled, AtRest,
                        NEW c \in Live
                 PROVE  IsReady(status[c]) <=> Provisioned(c)
      BY DEF RestIsTruthful
    <2>1. /\ c \in Channels /\ pc[c] = "idle" /\ Settled(c)
          /\ pending = {}
          /\ store.deployment # None => store.deployment.available # None
      BY DEF AtRest, Live, Settled, WorkersFit, WorkerFits
    <2>2. Learned(c, "idle", status[c])
      BY <2>1 DEF AllSettled, SettledAt, Marks
    <2>3. /\ lister.account = store.account /\ lister.binding = store.binding
          /\ lister.deployment = store.deployment
          /\ lister.service = store.service /\ lister.endpoints = store.endpoints
      <3>1. {"account", "binding", "deployment", "service", "endpoints"} \subseteq UNION Informers
        BY DEF Informers
      <3> QED
        BY <2>1, <3>1 DEF ListerFits
    <2>4. /\ store.account /\ store.binding /\ HasConfigBinding /\ store.service
          /\ DeploymentSeen(status[c]) /\ store.endpoints = "backed"
          /\ HasOwn(c)
          /\ Conditions \ {"DispatcherReady"} \subseteq status[c]
      BY <2>1, <2>2, <2>3 DEF Learned, AfterAccount, AfterBinding, AfterConfigBinding,
         AfterDeployment, AfterService, AfterEndpoints, AfterChannelService, AfterHub,
         Conditions
    <2>5. IsReady(status[c]) <=> store.deployment.available = "True"
      BY <2>1, <2>3, <2>4 DEF IsReady, Conditions, DeploymentSeen
    <2>6. store.deployment.available = "True" <=>
            store.deployment = [image |-> image, available |-> "True"]
      <3>1. store.deployment \in Deployment /\ store.deployment.image = image
        BY <2>3, <2>4, ResourceTypes DEF DeploymentSeen, TypeOK
      <3> QED
        BY <3>1 DEF Deployment
    <2> QED
      BY <2>4, <2>5, <2>6 DEF Provisioned, OwnService, HasOwn, HasConfigBinding
  <1> QED
    BY <1>1, SettledAlways, PTL
==================================================================================
