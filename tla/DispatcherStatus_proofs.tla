------------------------ MODULE DispatcherStatus_proofs ------------------------
(***************************************************************************)
(* Proofs about what nothing may get lost of, whatever failed, lagged or   *)
(* was done twice on the way: a channel's spec and its deletion, once its  *)
(* work is done, and the receivers behind the map of subscriptions.        *)
(***************************************************************************)
EXTENDS DispatcherReconciler_proofs

-----------------------------------------------------------------------------
(* UpdateSubscriptions. *)

\* When it reports no error, the map holds the copy's references and no other.
LEMMA Subscribed ==
  ASSUME DispatcherTypeOK, NEW c \in Channels, NEW refs \in SUBSET SubRef,
         NEW bad, NEW dropped,
         UpdateSubscriptions(c, refs, FALSE, bad, dropped),
         failedToSubscribe(c, refs, bad) = {}
  PROVE  subscriptions'[c] = refs
PROOF
  <1> DEFINE opened == {r \in Missing(c, refs) : ~SubscribeFails(c, r, bad)}
  <1> DEFINE chMap == subscriptions[c] \cup opened
  <1> DEFINE active == (refs \cap subscriptions[c]) \cup opened
  <1>1. refs # {} => subscriptions'[c] = chMap \cap active
    BY DEF UpdateSubscriptions, UnsubscribeDeleted, DispatcherTypeOK
  <1>2. refs = {} => subscriptions'[c] = {}
    BY DEF UpdateSubscriptions, DispatcherTypeOK
  <1>3. refs \subseteq chMap \cap active
    <2> SUFFICES ASSUME NEW r \in refs PROVE r \in chMap \cap active
      OBVIOUS
    <2>1. r \in Missing(c, refs) => ~SubscribeFails(c, r, bad)
      BY DEF failedToSubscribe
    <2> QED
      BY <2>1 DEF Missing
  <1>4. active \subseteq refs
    BY DEF Missing
  <1> HIDE DEF chMap, active
  <1> QED
    BY <1>1, <1>2, <1>3, <1>4

\* The subscribers of a DeepCopy are those of the lister's copy.
LEMMA DeepCopyOfSpec ==
  ASSUME NEW c \in Channels, Copies \ HeldCopies # {}
  PROVE  UIDsOf(DeepCopy(c).refs) = cached[c].spec
PROOF
  <1>1. PICK k \in Copies :
          DeepCopy(c).refs = {newSubscriptionReference(u, k) : u \in cached[c].spec}
    BY DeepCopyTaken
  <1>2. UIDsOf({newSubscriptionReference(u, k) : u \in cached[c].spec}) = cached[c].spec
    <2> DEFINE refs == {newSubscriptionReference(u, k) : u \in cached[c].spec}
    <2>1. ASSUME NEW u \in cached[c].spec PROVE u \in UIDsOf(refs)
      <3>1. /\ newSubscriptionReference(u, k) \in refs
            /\ newSubscriptionReference(u, k).uid = u
        BY DEF newSubscriptionReference
      <3> QED
        BY <3>1 DEF UIDsOf
    <2>2. ASSUME NEW u \in UIDsOf(refs) PROVE u \in cached[c].spec
      BY <2>2 DEF UIDsOf, newSubscriptionReference
    <2> QED
      BY <2>1, <2>2
  <1> QED
    BY <1>1, <1>2

-----------------------------------------------------------------------------
(***************************************************************************)
(* At rest.  A copy is current while the lister has the object as it is    *)
(* and the key is not queued again: a change leaves the lister behind, and *)
(* the lister queues the key when it catches up.  Each stage adds to what  *)
(* is true of a current copy.                                              *)
(***************************************************************************)

IsLive(c) == phase[c] = "live" /\ ready[c]

\* The map of subscriptions is that of the spec.
Synced(c) == UIDsOf(subscriptions[c]) = spec[c]

SyncedAt(c) ==
  /\ pc[c] # "idle" /\ c \notin queue /\ c \in informed => local[c].fresh
  /\ local[c].fresh => pc[c] # "idle" /\ UIDsOf(local[c].refs) = spec[c]
  /\ local[c].fresh /\ pc[c] \in {"list", "storeHostMap"} =>
       Synced(c) /\ local[c].desired = spec[c]
  /\ local[c].fresh /\ pc[c] = "updateStatus" /\ ~local[c].err /\ IsLive(c) =>
       Synced(c) /\ local[c].desired = spec[c]
  /\ AtRest(c) /\ IsLive(c) => Synced(c) /\ reported[c] = spec[c]

AllSynced == \A c \in Channels : SyncedAt(c)

\* Nothing that SyncedAt(d) reads changes.
StillAt(d) == SameAt(d) /\ (d \in queue' <=> d \in queue)

LEMMA StillSynced ==
  ASSUME NEW d \in Channels, SyncedAt(d), StillAt(d)
  PROVE  SyncedAt(d)'
PROOF
  BY DEF SyncedAt, StillAt, SameAt, Synced, IsLive, AtRest

\* A worker changes its own channel's object and its own key only.
LEMMA WorkStill ==
  ASSUME TypeOK, NEW c \in Channels, Work(c), NEW d \in Channels \ {c}
  PROVE  StillAt(d)
PROOF
  <1>1. SameAt(d)
    BY WorkLocal
  <1>2. d \in queue' <=> d \in queue
    BY DEF TypeOK, Work, ReconcileGone, Reconcile, FinalizeSubscriptions,
       FinalizeSession, RemoveFinalizer, EnsureFinalizer, EnsureSession,
       UpdateSubscriptionsStep, ListChannels, StoreHostMap, UpdateStatus
  <1> QED
    BY <1>1, <1>2 DEF StillAt

LEMMA WorkSynced ==
  ASSUME TypeOK, NEW c \in Channels, FitsAt(c), SyncedAt(c), Work(c)
  PROVE  SyncedAt(c)'
PROOF
  <1> USE DEF TypeOK, DispatcherTypeOK, Goto, Fail
  <1>0. local \in [Channels -> Local] /\ local[c] \in Local
        /\ local[c].refs \in SUBSET SubRef
    BY DEF Local
  <1>1. CASE ReconcileGone(c)
    <2>1. UNCHANGED <<objectVars, listerVars, dispatcherVars, pc, local>>
          /\ pc[c] = "idle"
      BY <1>1 DEF ReconcileGone
    <2>2. c \in informed => phase[c] # "live"
      BY <1>1 DEF ReconcileGone, Listed, FitsAt, object
    <2> QED
      BY <2>1, <2>2 DEF SyncedAt, objectVars, listerVars, dispatcherVars, IsLive,
                        AtRest
  <1>2. CASE Reconcile(c)
    <2>1. /\ local'[c] = DeepCopy(c) /\ Copies \ HeldCopies # {}
          /\ UNCHANGED <<objectVars, listerVars>>
          /\ pc'[c] \in {"unsubscribe", "ensureFinalizer"}
      BY <1>0, <1>2 DEF Reconcile
    <2>2. PICK k \in Copies :
            DeepCopy(c) =
              [refs |-> {newSubscriptionReference(u, k) : u \in cached[c].spec},
               finalizer |-> cached[c].finalizer, fresh |-> c \in informed,
               desired |-> cached[c].reported, listed |-> {}, err |-> FALSE]
      BY <2>1, DeepCopyTaken
    <2>3. local'[c].fresh = (c \in informed)
      BY <2>1, <2>2
    <2>4. c \in informed => UIDsOf(local'[c].refs) = spec'[c]
      BY <2>1, DeepCopyOfSpec DEF objectVars, FitsAt, object
    <2> QED
      BY <2>1, <2>3, <2>4 DEF SyncedAt, AtRest, listerVars
  <1>3. CASE FinalizeSubscriptions(c) \/ FinalizeSession(c)
    <2>1. /\ pc'[c] \in {"deleteSession", "removeFinalizer"} /\ pc[c] # "idle"
          /\ UNCHANGED <<spec, informed, queue, local>>
      BY <1>3 DEF FinalizeSubscriptions, FinalizeSession, objectVars, listerVars
    <2> QED
      BY <2>1 DEF SyncedAt, AtRest
  <1>4. CASE RemoveFinalizer(c)
    <2>1. /\ pc[c] = "removeFinalizer" /\ pc'[c] = "updateStatus"
          /\ local'[c].refs = local[c].refs /\ UNCHANGED <<phase, spec, queue>>
          /\ \/ local'[c].fresh = local[c].fresh /\ UNCHANGED informed
             \/ ~local'[c].fresh /\ c \notin informed'
      BY <1>0, <1>4 DEF RemoveFinalizer, Written, listerVars, Local
    <2>2. local'[c].fresh => phase'[c] = "deleting"
      BY <2>1 DEF FitsAt, Deletes
    <2> QED
      BY <2>1, <2>2 DEF SyncedAt, AtRest, IsLive
  <1>5. CASE EnsureFinalizer(c)
    <2>1. /\ pc[c] = "ensureFinalizer" /\ local'[c].refs = local[c].refs
          /\ pc'[c] = "session" \/ (pc'[c] = "updateStatus" /\ local'[c].err)
          /\ UNCHANGED <<spec, queue>>
          /\ \/ local'[c].fresh = local[c].fresh /\ UNCHANGED informed
             \/ ~local'[c].fresh /\ c \notin informed'
      BY <1>0, <1>5 DEF EnsureFinalizer, Written, listerVars, Local
    <2> QED
      BY <2>1 DEF SyncedAt, AtRest
  <1>6. CASE EnsureSession(c)
    <2>1. /\ local'[c].refs = local[c].refs /\ local'[c].fresh = local[c].fresh
          /\ UNCHANGED <<spec, queue, informed>> /\ pc[c] = "session"
          /\ \/ pc'[c] = "updateSubscriptions"
             \/ pc'[c] = "updateStatus" /\ local'[c].err
      BY <1>0, <1>6 DEF EnsureSession, Local, objectVars, listerVars
    <2> QED
      BY <2>1 DEF SyncedAt, AtRest
  <1>7. CASE UpdateSubscriptionsStep(c)
    <2> DEFINE refs == local[c].refs
    <2>1. PICK bad \in SUBSET refs, dropped \in SUBSET (refs \X FlakyPartitions) :
            LET errs == failedToSubscribe(c, refs, bad) IN
            /\ UpdateSubscriptions(c, refs, FALSE, bad, dropped)
            /\ local' = [local EXCEPT
                 ![c] = [@ EXCEPT !.desired = createSubscribableStatus(refs, errs),
                                  !.err = errs # {}]]
            /\ Goto(c, IF errs = {} THEN "list" ELSE "updateStatus")
      BY <1>7 DEF UpdateSubscriptionsStep
    <2> DEFINE errs == failedToSubscribe(c, refs, bad)
               des == createSubscribableStatus(refs, errs)
    <2>2. errs = {} => subscriptions'[c] = refs /\ des = UIDsOf(refs)
      BY <1>0, <2>1, Subscribed DEF createSubscribableStatus
    <2>3. /\ local'[c].refs = refs /\ local'[c].fresh = local[c].fresh
          /\ local'[c].desired = des /\ local'[c].err = (errs # {})
          /\ pc'[c] = IF errs = {} THEN "list" ELSE "updateStatus"
      <3> HIDE DEF errs, des
      <3>1. local'[c] = [local[c] EXCEPT !.desired = des, !.err = (errs # {})]
        BY <1>0, <2>1 DEF errs, des
      <3>2. pc'[c] = IF errs = {} THEN "list" ELSE "updateStatus"
        BY <2>1 DEF errs
      <3> QED
        BY <1>0, <3>1, <3>2 DEF Local
    <2>4. UNCHANGED <<spec, queue, informed>> /\ pc[c] = "updateSubscriptions"
      BY <1>7 DEF UpdateSubscriptionsStep, objectVars, listerVars
    <2> HIDE DEF errs, des
    <2>5. /\ c \notin queue' /\ c \in informed' => local'[c].fresh
          /\ local'[c].fresh => UIDsOf(local'[c].refs) = spec'[c]
      BY <2>3, <2>4 DEF SyncedAt
    <2>6. CASE errs = {}
      <3>1. /\ pc'[c] = "list"
            /\ local'[c].fresh => Synced(c)' /\ local'[c].desired = spec'[c]
        BY <2>2, <2>3, <2>5, <2>6 DEF Synced
      <3> QED
        BY <2>5, <3>1 DEF SyncedAt, AtRest
    <2>7. CASE errs # {}
      BY <2>3, <2>5, <2>7 DEF SyncedAt, AtRest
    <2> QED
      BY <2>6, <2>7
  <1>8. CASE ListChannels(c) \/ StoreHostMap(c)
    <2>1. /\ local'[c].refs = local[c].refs /\ local'[c].fresh = local[c].fresh
          /\ local'[c].desired = local[c].desired
          /\ UNCHANGED <<spec, queue, informed, subscriptions>>
          /\ pc[c] \in {"list", "storeHostMap"}
          /\ pc'[c] \in {"storeHostMap", "updateStatus"}
      BY <1>0, <1>8 DEF ListChannels, StoreHostMap, Local, objectVars, listerVars,
         dispatcherVars
    <2> QED
      BY <2>1 DEF SyncedAt, Synced, AtRest
  <1>9. CASE UpdateStatus(c)
    <2>1. /\ pc[c] = "updateStatus" /\ pc'[c] = "idle" /\ ~local'[c].fresh
          /\ UNCHANGED <<phase, spec, subscriptions>>
      BY <1>9 DEF UpdateStatus, NoLocal, dispatcherVars
    <2>2. SUFFICES ASSUME AtRest(c)', IsLive(c)'
                   PROVE  Synced(c)' /\ reported'[c] = spec'[c]
      BY <2>1 DEF SyncedAt
    <2>3. StatusSame(c) /\ c \notin queue /\ ~local[c].err
      <3>1. c \notin queue' /\ c \in informed'
        BY <2>2 DEF AtRest
      <3>2. ~StatusStored(c)
        BY <3>1 DEF StatusStored, Written
      <3> QED
        BY <1>9, <3>1, <3>2 DEF UpdateStatus
    <2>4. /\ c \in informed /\ UNCHANGED <<ready, reported>>
          /\ cached[c].reported = local[c].desired
      BY <2>2, <2>3 DEF StatusSame, StatusDiffers, AtRest, listerVars
    <2>5. reported[c] = local[c].desired /\ local[c].fresh /\ IsLive(c)
      BY <2>1, <2>2, <2>3, <2>4 DEF FitsAt, object, SyncedAt, IsLive
    <2> QED
      BY <2>1, <2>3, <2>4, <2>5 DEF SyncedAt, Synced
  <1> QED
    BY <1>1, <1>2, <1>3, <1>4, <1>5, <1>6, <1>7, <1>8, <1>9 DEF Work

\* A change leaves the lister behind and a change seen queues the key.
LEMMA SurroundingsDisturb ==
  ASSUME TypeOK, NEW c \in Channels, Surroundings(c)
  PROVE  /\ UNCHANGED <<pc, subscriptions>>
         /\ \/ c \notin informed' /\ ~local'[c].fresh
            \/ c \in queue' /\ local' = local /\ UNCHANGED objectVars
            \/ UNCHANGED <<queue, local, objectVars, listerVars>>
PROOF
  <1> USE DEF TypeOK, Changed, Written
  <1>0. local[c] \in Local
    OBVIOUS
  <1>1. CASE CreateChannel(c) \/ SetSubscribers(c) \/ ControllerStatus(c)
             \/ DeleteChannel(c) \/ Collect(c)
    <2>1. Changed(c) /\ UNCHANGED subscriptions
      BY <1>1 DEF CreateChannel, SetSubscribers, ControllerStatus, DeleteChannel,
         Collect, dispatcherVars
    <2> QED
      BY <1>0, <2>1 DEF Local
  <1>2. CASE Resync(c) \/ HubDeleted(c) \/ Observe(c)
    BY <1>2 DEF Resync, HubDeleted, Observe, dispatcherVars, workerVars
  <1> QED
    BY <1>1, <1>2 DEF Surroundings

LEMMA SurroundingsSynced ==
  ASSUME TypeOK, NEW c \in Channels, Surroundings(c), SyncedAt(c)
  PROVE  SyncedAt(c)'
PROOF
  <1>1. UNCHANGED <<pc, subscriptions>>
    BY SurroundingsDisturb
  <1>2. CASE c \notin informed' /\ ~local'[c].fresh
    BY <1>2 DEF SyncedAt, AtRest
  <1>3. CASE c \in queue' /\ local' = local /\ UNCHANGED objectVars
    BY <1>1, <1>3 DEF SyncedAt, AtRest, objectVars, Synced, IsLive
  <1>4. CASE UNCHANGED <<queue, local, objectVars, listerVars>>
    BY <1>1, <1>4 DEF SyncedAt, AtRest, objectVars, listerVars, Synced, IsLive
  <1> QED
    BY <1>2, <1>3, <1>4, SurroundingsDisturb

\* The receiver leaves everything of a channel alone.
LEMMA ReceiverStill ==
  ASSUME (\E m \in Posts : Receive(m) \/ SendFails(m)) \/ UNCHANGED vars,
         NEW d \in Channels
  PROVE  StillAt(d)
PROOF
  <1>1. UNCHANGED <<dispatcherVars, objectVars, listerVars, workerVars>>
    BY DEF Receive, SendFails, Resolve, NoSession, Publish, PublishFails, vars
  <1> QED
    BY <1>1 DEF StillAt, SameAt, dispatcherVars, objectVars, listerVars, workerVars

LEMMA RestartSynced ==
  ASSUME NEW d \in Channels, ProcessRestart
  PROVE  SyncedAt(d)'
PROOF
  BY DEF ProcessRestart, SyncedAt, NoLocal, IsLive, Exists, objectVars, AtRest

LEMMA SyncedStep ==
  TypeOK /\ Protected /\ AllSynced /\ [Next]_vars => AllSynced'
PROOF
  <1> SUFFICES ASSUME TypeOK, Protected, AllSynced, [Next]_vars,
                      NEW d \in Channels
               PROVE  SyncedAt(d)'
    BY DEF AllSynced
  <1>0. SyncedAt(d) /\ FitsAt(d)
    BY ProtectedEverywhere DEF AllSynced
  <1>1. ASSUME NEW c \in Channels, Work(c) PROVE SyncedAt(d)'
    <2>1. CASE c = d
      BY <1>0, <1>1, <2>1, WorkSynced
    <2>2. CASE c # d
      BY <1>0, <1>1, <2>2, WorkStill, StillSynced
    <2> QED
      BY <2>1, <2>2
  <1>2. ASSUME NEW c \in Channels, Surroundings(c) PROVE SyncedAt(d)'
    <2>1. CASE c = d
      BY <1>0, <1>2, <2>1, SurroundingsSynced
    <2>2. CASE c # d
      BY <1>0, <1>2, <2>2, SurroundingsLocal, StillSynced DEF StillAt
    <2> QED
      BY <2>1, <2>2
  <1>3. CASE (\E m \in Posts : Receive(m) \/ SendFails(m)) \/ UNCHANGED vars
    BY <1>0, <1>3, ReceiverStill, StillSynced
  <1>4. CASE Restart \/ ConcurrentMapFault
    BY <1>4, RestartSynced DEF Restart, ConcurrentMapFault
  <1> QED
    BY <1>1, <1>2, <1>3, <1>4 DEF Next

LEMMA SyncedAlways == Spec => [](TypeOK /\ Protected /\ AllSynced)
PROOF
  <1>1. Init => AllSynced
    BY DEF Init, AllSynced, SyncedAt, NoLocal, IsLive
  <1> QED
    BY <1>1, TypeInit, TypeStep, ProtectedInit, ProtectedStep, SyncedStep, PTL
    DEF Spec

\* When nothing is due for a live ready channel, its subscriptions and its
\* reported status are those of its spec, for any number of workers, however
\* late the lister and whatever failed or was overwritten on the way.
THEOREM SyncedAtRest == Spec => []QuiescentSynced
PROOF
  <1>1. AllSynced => QuiescentSynced
    BY DEF AllSynced, SyncedAt, QuiescentSynced, IsLive, Synced
  <1> QED
    BY <1>1, SyncedAlways, PTL

-----------------------------------------------------------------------------
(***************************************************************************)
(* The finalizer at rest.  A current copy of an object that is being       *)
(* deleted is at one of the stages of the deletion, and past them without  *)
(* an error the finalizer is gone.                                         *)
(***************************************************************************)

ReleasedAt(c) ==
  phase[c] = "deleting" =>
    /\ local[c].fresh => pc[c] \in Deletes \cup {"updateStatus"}
    /\ local[c].fresh /\ pc[c] = "updateStatus" /\ ~local[c].err => ~finalizer[c]
    /\ AtRest(c) => ~finalizer[c]

Released == \A c \in Channels : ReleasedAt(c)

LEMMA WorkReleases ==
  ASSUME TypeOK, NEW c \in Channels, FitsAt(c), SyncedAt(c), ReleasedAt(c), Work(c)
  PROVE  ReleasedAt(c)'
PROOF
  <1> USE DEF TypeOK, DispatcherTypeOK, Goto, Fail
  <1>0. local \in [Channels -> Local] /\ local[c] \in Local
    OBVIOUS
  <1>1. CASE ReconcileGone(c)
    <2>1. UNCHANGED <<objectVars, listerVars, pc, local>> /\ pc[c] = "idle"
      BY <1>1 DEF ReconcileGone
    <2>2. c \in informed => phase[c] # "deleting"
      BY <1>1 DEF ReconcileGone, Listed, FitsAt, object
    <2> QED
      BY <2>1, <2>2 DEF ReleasedAt, SyncedAt, AtRest, objectVars, listerVars
  <1>2. CASE Reconcile(c)
    <2>1. /\ local'[c] = DeepCopy(c) /\ Copies \ HeldCopies # {}
          /\ UNCHANGED <<objectVars, listerVars>>
          /\ pc'[c] = IF cached[c].phase = "deleting" THEN "unsubscribe"
                      ELSE "ensureFinalizer"
      BY <1>0, <1>2 DEF Reconcile
    <2>2. PICK k \in Copies :
            DeepCopy(c) =
              [refs |-> {newSubscriptionReference(u, k) : u \in cached[c].spec},
               finalizer |-> cached[c].finalizer, fresh |-> c \in informed,
               desired |-> cached[c].reported, listed |-> {}, err |-> FALSE]
      BY <2>1, DeepCopyTaken
    <2>3. local'[c].fresh = (c \in informed)
      BY <2>1, <2>2
    <2>4. local'[c].fresh /\ phase'[c] = "deleting" => pc'[c] = "unsubscribe"
      <3>1. c \in informed => cached[c].phase = phase[c]
        BY DEF FitsAt, object
      <3>2. phase'[c] = phase[c]
        BY <2>1 DEF objectVars
      <3>3. cached[c].phase = "deleting" => pc'[c] = "unsubscribe"
        BY <2>1
      <3> QED
        BY <2>3, <3>1, <3>2, <3>3
    <2>5. pc'[c] \in {"unsubscribe", "ensureFinalizer"}
      BY <2>1
    <2> QED
      BY <2>4, <2>5 DEF ReleasedAt, Deletes, AtRest
  <1>3. CASE FinalizeSubscriptions(c) \/ FinalizeSession(c)
    <2>1. /\ pc'[c] \in {"deleteSession", "removeFinalizer"}
      BY <1>3 DEF FinalizeSubscriptions, FinalizeSession
    <2> QED
      BY <2>1 DEF ReleasedAt, Deletes, AtRest
  <1>4. CASE RemoveFinalizer(c)
    <2>1. /\ pc'[c] = "updateStatus"
          /\ local'[c].fresh /\ ~local'[c].err => ~finalizer'[c]
      BY <1>0, <1>4 DEF RemoveFinalizer, Refused, Written, Local
    <2> QED
      BY <2>1 DEF ReleasedAt, AtRest
  <1>5. CASE EnsureFinalizer(c) \/ EnsureSession(c) \/ UpdateSubscriptionsStep(c)
             \/ ListChannels(c) \/ StoreHostMap(c)
    <2>1. /\ pc[c] \notin Deletes \cup {"updateStatus", "idle"}
          /\ pc'[c] # "idle" /\ phase'[c] = phase[c]
      BY <1>5 DEF EnsureFinalizer, EnsureSession, UpdateSubscriptionsStep,
         ListChannels, StoreHostMap, objectVars, Deletes
    <2>2. local'[c].fresh => local[c].fresh
      <3>1. CASE EnsureFinalizer(c) \/ EnsureSession(c) \/ ListChannels(c)
                 \/ StoreHostMap(c)
        <4>1. \/ local' = local
              \/ local' = [local EXCEPT ![c].err = TRUE]
              \/ local' = [local EXCEPT ![c].fresh = FALSE]
              \/ \E L : local' = [local EXCEPT ![c].listed = L]
          BY <3>1 DEF EnsureFinalizer, EnsureSession, ListChannels, StoreHostMap
        <4> QED
          BY <1>0, <4>1 DEF Local
      <3>2. ASSUME NEW D, NEW e,
                   local' = [local EXCEPT ![c] = [@ EXCEPT !.desired = D, !.err = e]]
            PROVE  local'[c].fresh = local[c].fresh
        BY <1>0, <3>2 DEF Local
      <3> QED
        BY <1>5, <3>1, <3>2 DEF UpdateSubscriptionsStep
    <2> QED
      BY <2>1, <2>2 DEF ReleasedAt, AtRest
  <1>6. CASE UpdateStatus(c)
    <2>1. /\ pc[c] = "updateStatus" /\ ~local'[c].fresh
          /\ UNCHANGED <<phase, finalizer>>
      BY <1>6 DEF UpdateStatus, NoLocal
    <2>2. ASSUME AtRest(c)', phase[c] = "deleting" PROVE ~finalizer[c]
      <3>1. c \notin queue' /\ c \in informed'
        BY <2>2 DEF AtRest
      <3>2. ~StatusStored(c)
        BY <3>1 DEF StatusStored, Written
      <3>3. StatusSame(c) /\ c \notin queue /\ ~local[c].err
        BY <1>6, <3>1, <3>2 DEF UpdateStatus
      <3>4. c \in informed
        BY <3>1, <3>3 DEF StatusSame, listerVars
      <3> QED
        BY <2>1, <2>2, <3>3, <3>4 DEF SyncedAt, ReleasedAt
    <2> QED
      BY <2>1, <2>2 DEF ReleasedAt
  <1> QED
    BY <1>1, <1>2, <1>3, <1>4, <1>5, <1>6 DEF Work

LEMMA ReleasedStep ==
  TypeOK /\ Protected /\ AllSynced /\ Released /\ [Next]_vars => Released'
PROOF
  <1> SUFFICES ASSUME TypeOK, Protected, AllSynced, Released, [Next]_vars,
                      NEW d \in Channels
               PROVE  ReleasedAt(d)'
    BY DEF Released
  <1>0. FitsAt(d) /\ SyncedAt(d) /\ ReleasedAt(d)
    BY ProtectedEverywhere DEF AllSynced, Released
  <1>s. ASSUME StillAt(d) PROVE ReleasedAt(d)'
    BY <1>0, <1>s DEF StillAt, SameAt, ReleasedAt, AtRest
  <1>1. ASSUME NEW c \in Channels, Work(c) PROVE ReleasedAt(d)'
    <2>1. CASE c = d
      BY <1>0, <1>1, <2>1, WorkReleases
    <2>2. CASE c # d
      BY <1>1, <1>s, <2>2, WorkStill
    <2> QED
      BY <2>1, <2>2
  <1>2. ASSUME NEW c \in Channels, Surroundings(c) PROVE ReleasedAt(d)'
    <2>1. CASE c # d
      BY <1>2, <1>s, <2>1, SurroundingsLocal DEF StillAt
    <2>2. CASE c = d
      <3>1. UNCHANGED <<pc, subscriptions>>
            /\ \/ d \notin informed' /\ ~local'[d].fresh
               \/ d \in queue' /\ local' = local /\ UNCHANGED objectVars
               \/ UNCHANGED <<queue, local, objectVars, listerVars>>
        BY <1>2, <2>2, SurroundingsDisturb
      <3> QED
        BY <1>0, <3>1 DEF ReleasedAt, AtRest, objectVars, listerVars
    <2> QED
      BY <2>1, <2>2
  <1>3. CASE (\E m \in Posts : Receive(m) \/ SendFails(m)) \/ UNCHANGED vars
    BY <1>3, <1>s, ReceiverStill
  <1>4. CASE Restart \/ ConcurrentMapFault
    <2>1. /\ ~local'[d].fresh /\ phase'[d] = phase[d]
          /\ phase[d] = "deleting" => d \in queue'
      BY <1>4 DEF Restart, ConcurrentMapFault, ProcessRestart, NoLocal, Exists,
         objectVars
    <2> QED
      BY <2>1 DEF ReleasedAt, AtRest
  <1> QED
    BY <1>1, <1>2, <1>3, <1>4 DEF Next

\* When nothing is due for a channel that is being deleted, it does not keep
\* the dispatcher's finalizer, for any number of workers and whatever
\* interrupted the deletion.
THEOREM ReleasedAtRest == Spec => []QuiescentReleased
PROOF
  <1>1. Init => Released
    BY DEF Init, Released, ReleasedAt
  <1>2. Released => QuiescentReleased
    BY DEF Released, ReleasedAt, QuiescentReleased
  <1> QED
    BY <1>1, <1>2, SyncedAlways, ReleasedStep, PTL DEF Spec

-----------------------------------------------------------------------------
(***************************************************************************)
(* Receivers.  They end with the hub of a deleted channel, which the       *)
(* dispatcher does not notice; the map is behind the session and the       *)
(* session behind the finalizer, so it is empty when a channel is created. *)
(***************************************************************************)

HeardAt(c) ==
  phase[c] = "live" =>
    \A r \in subscriptions[c], q \in Partitions \ FlakyPartitions :
      [channel |-> c, partition |-> q, ref |-> r] \in listeners

\* UpdateSubscriptions closes no receiver and opens one on each partition that
\* is not dropped for what it adds to the map.
LEMMA OpensReceivers ==
  ASSUME DispatcherTypeOK, NEW c \in Channels, NEW refs \in SUBSET SubRef,
         NEW isFinalizer \in BOOLEAN, NEW bad,
         NEW dropped \in SUBSET (refs \X FlakyPartitions),
         UpdateSubscriptions(c, refs, isFinalizer, bad, dropped)
  PROVE  /\ listeners \subseteq listeners'
         /\ \A r \in subscriptions'[c] \ subscriptions[c],
               q \in Partitions \ FlakyPartitions :
               [channel |-> c, partition |-> q, ref |-> r] \in listeners'
PROOF
  <1>1. CASE refs = {} \/ isFinalizer
    BY <1>1 DEF UpdateSubscriptions, DispatcherTypeOK
  <1>2. CASE ~(refs = {} \/ isFinalizer)
    <2> DEFINE opened == {r \in Missing(c, refs) : ~SubscribeFails(c, r, bad)}
    <2> DEFINE chMap == subscriptions[c] \cup opened
    <2> DEFINE active == (refs \cap subscriptions[c]) \cup opened
    <2>1. /\ subscriptions'[c] = chMap \cap active
          /\ listeners' = listeners \cup subscribe(c, opened, dropped)
      BY <1>2 DEF UpdateSubscriptions, UnsubscribeDeleted, DispatcherTypeOK
    <2> HIDE DEF opened
    <2>2. ASSUME NEW r \in opened, NEW q \in Partitions \ FlakyPartitions
          PROVE  [channel |-> c, partition |-> q, ref |-> r]
                   \in subscribe(c, opened, dropped)
      <3> DEFINE l == [channel |-> c, partition |-> q, ref |-> r]
      <3>1. l \in [channel : {c}, partition : Partitions, ref : opened]
        OBVIOUS
      <3>2. <<l.ref, l.partition>> \notin dropped
        OBVIOUS
      <3> HIDE DEF l
      <3> QED
        BY <3>1, <3>2 DEF subscribe, l
    <2> QED
      BY <2>1, <2>2
  <1> QED
    BY <1>1, <1>2

LEMMA WorkHeard ==
  ASSUME TypeOK, NEW c \in Channels, HeardAt(c), Work(c)
  PROVE  HeardAt(c)' /\ listeners \subseteq listeners'
PROOF
  <1> USE DEF TypeOK
  <1>0. local[c].refs \in SUBSET SubRef /\ DispatcherTypeOK
    BY DEF Local
  <1>1. phase' = phase
    BY DEF Work, ReconcileGone, Reconcile, FinalizeSubscriptions, FinalizeSession,
       RemoveFinalizer, EnsureFinalizer, EnsureSession, UpdateSubscriptionsStep,
       ListChannels, StoreHostMap, UpdateStatus, objectVars
  <1>2. CASE FinalizeSubscriptions(c)
    <2>1. UpdateSubscriptions(c, local[c].refs, TRUE, {}, {})
      BY <1>2 DEF FinalizeSubscriptions
    <2> QED
      BY <1>0, <2>1 DEF UpdateSubscriptions, DispatcherTypeOK, HeardAt
  <1>3. CASE UpdateSubscriptionsStep(c)
    <2>1. PICK bad \in SUBSET local[c].refs,
               dropped \in SUBSET (local[c].refs \X FlakyPartitions) :
            UpdateSubscriptions(c, local[c].refs, FALSE, bad, dropped)
      BY <1>3 DEF UpdateSubscriptionsStep
    <2>2. /\ listeners \subseteq listeners'
          /\ \A r \in subscriptions'[c] \ subscriptions[c],
                q \in Partitions \ FlakyPartitions :
                [channel |-> c, partition |-> q, ref |-> r] \in listeners'
      BY <1>0, <2>1, OpensReceivers
    <2> QED
      BY <1>1, <2>2 DEF HeardAt
  <1>4. CASE ~FinalizeSubscriptions(c) /\ ~UpdateSubscriptionsStep(c)
    <2>1. UNCHANGED <<listeners, subscriptions>>
      BY <1>4 DEF Work, ReconcileGone, Reconcile, FinalizeSession, RemoveFinalizer,
         EnsureFinalizer, EnsureSession, ListChannels, StoreHostMap, UpdateStatus,
         dispatcherVars
    <2> QED
      BY <1>1, <2>1 DEF HeardAt
  <1> QED
    BY <1>2, <1>3, <1>4

LEMMA SurroundingsHeard ==
  ASSUME TypeOK, NEW c \in Channels, Surroundings(c),
         NEW d \in Channels, ProtectedAt(d), HeardAt(d)
  PROVE  HeardAt(d)'
PROOF
  <1> USE DEF TypeOK
  <1>1. UNCHANGED subscriptions
    BY SurroundingsDisturb
  <1>2. CASE HubDeleted(c) \/ Collect(c)
    <2>1. /\ phase[c] = "deleting" /\ phase'[c] # "live"
          /\ \A e \in Channels \ {c} : phase'[e] = phase[e]
          /\ \A l \in listeners : l.channel # c => l \in listeners'
      BY <1>2 DEF HubDeleted, Collect, objectVars
    <2>2. CASE d = c
      BY <2>1, <2>2 DEF HeardAt
    <2>3. CASE d # c
      BY <1>1, <2>1, <2>3 DEF HeardAt
    <2> QED
      BY <2>2, <2>3
  <1>3. CASE CreateChannel(c)
    <2>1. /\ UNCHANGED listeners /\ ~Exists(c)
          /\ \A e \in Channels \ {c} : phase'[e] = phase[e]
      BY <1>3 DEF CreateChannel, dispatcherVars, Exists
    <2>2. CASE d = c
      <3>1. subscriptions[d] = {}
        BY <2>1, <2>2 DEF ProtectedAt
      <3> QED
        BY <1>1, <3>1 DEF HeardAt
    <2>3. CASE d # c
      BY <1>1, <2>1, <2>3 DEF HeardAt
    <2> QED
      BY <2>2, <2>3
  <1>4. CASE SetSubscribers(c) \/ ControllerStatus(c) \/ DeleteChannel(c)
             \/ Resync(c) \/ Observe(c)
    <2>1. UNCHANGED listeners /\ (phase'[d] = "live" => phase[d] = "live")
      BY <1>4 DEF SetSubscribers, ControllerStatus, DeleteChannel, Resync, Observe,
         dispatcherVars, objectVars
    <2> QED
      BY <1>1, <2>1 DEF HeardAt
  <1> QED
    BY <1>2, <1>3, <1>4 DEF Surroundings

LEMMA HeardStep ==
  TypeOK /\ Protected /\ SubscribedIsHeard /\ [Next]_vars => SubscribedIsHeard'
PROOF
  <1> SUFFICES ASSUME TypeOK, Protected, SubscribedIsHeard, [Next]_vars,
                      NEW d \in Channels
               PROVE  HeardAt(d)'
    BY DEF SubscribedIsHeard, HeardAt
  <1>0. HeardAt(d) /\ ProtectedAt(d)
    BY ProtectedEverywhere DEF SubscribedIsHeard, HeardAt
  <1>1. ASSUME NEW c \in Channels, Work(c) PROVE HeardAt(d)'
    <2>1. HeardAt(c)' /\ listeners \subseteq listeners'
      BY <1>1, WorkHeard DEF SubscribedIsHeard, HeardAt
    <2>2. CASE c # d
      BY <1>0, <1>1, <2>1, <2>2, WorkLocal DEF HeardAt, SameAt
    <2> QED
      BY <2>1, <2>2
  <1>2. ASSUME NEW c \in Channels, Surroundings(c) PROVE HeardAt(d)'
    BY <1>0, <1>2, SurroundingsHeard
  <1>3. CASE (\E m \in Posts : Receive(m) \/ SendFails(m)) \/ UNCHANGED vars
    <2>1. UNCHANGED <<subscriptions, listeners, phase>>
      BY <1>3 DEF Receive, SendFails, Resolve, NoSession, Publish, PublishFails,
         vars, dispatcherVars, objectVars
    <2> QED
      BY <1>0, <2>1 DEF HeardAt
  <1>4. CASE Restart \/ ConcurrentMapFault
    BY <1>4 DEF Restart, ConcurrentMapFault, ProcessRestart, DispatcherLost, HeardAt
  <1> QED
    BY <1>1, <1>2, <1>3, <1>4 DEF Next

\* Whatever partitions fail, names come back and processes restart: for every
\* subscriber in the map of a live channel a receiver is open on each of the
\* partitions that do not fail.
THEOREM SubscribersHeard == Spec => []SubscribedIsHeard
PROOF
  <1>1. Init => SubscribedIsHeard
    BY DEF Init, NewDispatcher, SubscribedIsHeard
  <1> QED
    BY <1>1, ProtectedAlways, HeardStep, PTL DEF Spec

=============================================================================
