--------------------- MODULE DispatcherReconciler_proofs ---------------------
(***************************************************************************)
(* Proofs about DispatcherReconciler for every set of channels,            *)
(* subscribers, partitions and messages, every number of workers and every *)
(* bound.                                                                  *)
(***************************************************************************)
EXTENDS DispatcherReconciler, TLAPS

-----------------------------------------------------------------------------
(* The operations of AzureDispatcher keep its types. *)

\* While a copy identity is free, DeepCopy has the subscribers of the lister's
\* copy under one such identity, whichever it is.
LEMMA DeepCopyTaken ==
  ASSUME NEW c \in Channels, Copies \ HeldCopies # {}
  PROVE  \E k \in Copies :
           DeepCopy(c) =
             [refs |-> {newSubscriptionReference(u, k) : u \in cached[c].spec},
              finalizer |-> cached[c].finalizer, fresh |-> c \in informed,
              desired |-> cached[c].reported, listed |-> {}, err |-> FALSE]
PROOF
  <1> DEFINE k == CHOOSE x \in Copies : x \notin HeldCopies
  <1>1. PICK x \in Copies : x \notin HeldCopies
    OBVIOUS
  <1>2. k \in Copies
    BY <1>1, Zenon
  <1>3. DeepCopy(c) =
          [refs |-> {newSubscriptionReference(u, k) : u \in cached[c].spec},
           finalizer |-> cached[c].finalizer, fresh |-> c \in informed,
           desired |-> cached[c].reported, listed |-> {}, err |-> FALSE]
    BY Zenon DEF DeepCopy
  <1> HIDE DEF k
  <1> QED
    BY <1>2, <1>3

\* It is a worker's state.
LEMMA DeepCopyType ==
  ASSUME TypeOK, NEW c \in Channels, Copies \ HeldCopies # {}
  PROVE  DeepCopy(c) \in Local
PROOF
  <1>0. cached[c] \in Object
    BY DEF TypeOK
  <1>1. PICK k \in Copies :
          DeepCopy(c) =
            [refs |-> {newSubscriptionReference(u, k) : u \in cached[c].spec},
             finalizer |-> cached[c].finalizer, fresh |-> c \in informed,
             desired |-> cached[c].reported, listed |-> {}, err |-> FALSE]
    BY DeepCopyTaken
  <1>2. {newSubscriptionReference(u, k) : u \in cached[c].spec} \subseteq SubRef
    BY <1>0 DEF Object, newSubscriptionReference, SubRef
  <1>3. cached[c].reported \subseteq SubUIDs /\ cached[c].finalizer \in BOOLEAN
    BY <1>0 DEF Object
  <1> QED
    BY <1>1, <1>2, <1>3 DEF Local

\* UpdateSubscriptions keeps the map and the listeners well typed.
LEMMA UpdateSubscriptionsType ==
  ASSUME DispatcherTypeOK, NEW c \in Channels, NEW refs \in SUBSET SubRef,
         NEW isFinalizer \in BOOLEAN, NEW bad, NEW dropped,
         UpdateSubscriptions(c, refs, isFinalizer, bad, dropped)
  PROVE  /\ subscriptions' \in [Channels -> SUBSET SubRef]
         /\ listeners' \subseteq Listener
PROOF
  <1>1. CASE refs = {} \/ isFinalizer
    BY <1>1 DEF DispatcherTypeOK, UpdateSubscriptions
  <1>2. CASE ~(refs = {} \/ isFinalizer)
    <2> DEFINE opened == {r \in Missing(c, refs) : ~SubscribeFails(c, r, bad)}
    <2> DEFINE chMap == subscriptions[c] \cup opened
    <2> DEFINE active == (refs \cap subscriptions[c]) \cup opened
    <2>1. opened \subseteq SubRef
      BY DEF Missing
    <2>2. UnsubscribeDeleted(chMap, active) \subseteq SubRef
      BY <2>1 DEF DispatcherTypeOK, UnsubscribeDeleted
    <2>3. subscribe(c, opened, dropped) \subseteq Listener
      BY <2>1 DEF subscribe, Listener
    <2>4. /\ subscriptions' = [subscriptions EXCEPT
                                 ![c] = UnsubscribeDeleted(chMap, active)]
          /\ listeners' = listeners \cup subscribe(c, opened, dropped)
      BY <1>2 DEF UpdateSubscriptions
    <2> HIDE DEF opened, chMap, active
    <2> QED
      BY <2>2, <2>3, <2>4 DEF DispatcherTypeOK
  <1> QED
    BY <1>1, <1>2

-----------------------------------------------------------------------------
(* Type correctness. *)

LEMMA ObjectType ==
  ASSUME NEW c \in Channels,
         phase \in [Channels -> {"new", "live", "deleting", "gone"}],
         ready \in [Channels -> BOOLEAN], spec \in [Channels -> SUBSET SubUIDs],
         finalizer \in [Channels -> BOOLEAN],
         reported \in [Channels -> SUBSET SubUIDs]
  PROVE  object(c) \in Object
PROOF
  BY DEF object, Object

LEMMA TypeInit == Init => TypeOK
PROOF
  <1>1. NoLocal \in Local
    BY DEF NoLocal, Local
  <1>2. NoPost \in PostRecord
    BY DEF NoPost, PostRecord
  <1>3. ASSUME Init PROVE cached \in [Channels -> Object]
    <2>1. \A c \in Channels : object(c) \in Object
      BY <1>3 DEF Init, object, Object
    <2> QED
      BY <1>3, <2>1 DEF Init
  <1> QED
    BY <1>1, <1>2, <1>3, ParametersOK
    DEF Init, NewDispatcher, TypeOK, DispatcherTypeOK, Stages

\* What is left of TypeOK when a step leaves the dispatcher's memory, the
\* messages and the counters alone.
LEMMA ObjectStepType ==
  ASSUME TypeOK, UNCHANGED <<dispatcherVars, post, cached, changes, restarts>>,
         failures' = failures \/ CallFails,
         UNCHANGED <<phase, spec>>,
         finalizer' \in [Channels -> BOOLEAN], ready' \in [Channels -> BOOLEAN],
         reported' \in [Channels -> SUBSET SubUIDs],
         reports' \in [Channels -> SUBSET SUBSET SubUIDs],
         informed' \subseteq Channels, queue' \subseteq Channels,
         pc' \in [Channels -> Stages], local' \in [Channels -> Local]
  PROVE  TypeOK'
PROOF
  BY ParametersOK DEF TypeOK, DispatcherTypeOK, dispatcherVars, CallFails

\* A worker's state in which one of the two flags is set stays one.
LEMMA FlagsType ==
  ASSUME local \in [Channels -> Local], NEW c \in Channels, NEW b \in BOOLEAN
  PROVE  /\ [local EXCEPT ![c].err = b] \in [Channels -> Local]
         /\ [local EXCEPT ![c].fresh = b] \in [Channels -> Local]
PROOF
  <1>1. local[c] \in Local
    OBVIOUS
  <1>2. /\ [local[c] EXCEPT !.err = b] \in Local
        /\ [local[c] EXCEPT !.fresh = b] \in Local
    BY <1>1 DEF Local
  <1> QED
    BY <1>2

\* One worker's step keeps the types.
LEMMA WorkType ==
  ASSUME TypeOK, NEW c \in Channels, Work(c)
  PROVE  TypeOK'
PROOF
  <1> USE DEF Goto
  <1>0. /\ local \in [Channels -> Local]
        /\ local[c].refs \subseteq SubRef
        /\ local[c].desired \subseteq SubUIDs
        /\ local[c].listed \subseteq Channels
        /\ [local EXCEPT ![c].err = TRUE] \in [Channels -> Local]
        /\ [local EXCEPT ![c].fresh = FALSE] \in [Channels -> Local]
    <2>1. local \in [Channels -> Local] /\ local[c] \in Local
      BY DEF TypeOK
    <2> QED
      BY <2>1, FlagsType DEF Local
  <1>1. CASE ReconcileGone(c)
    BY <1>1 DEF ReconcileGone, TypeOK, DispatcherTypeOK, objectVars,
                listerVars, dispatcherVars, counters
  <1>2. CASE Reconcile(c)
    <2>1. DeepCopy(c) \in Local
      BY <1>2, DeepCopyType DEF Reconcile
    <2> QED
      BY <1>2, <2>1 DEF Reconcile, TypeOK, DispatcherTypeOK, objectVars,
                        listerVars, dispatcherVars, counters, Stages
  <1>3. CASE FinalizeSubscriptions(c)
    <2>1. /\ subscriptions' \in [Channels -> SUBSET SubRef]
          /\ listeners' \subseteq Listener
      BY <1>0, <1>3, UpdateSubscriptionsType DEF TypeOK, FinalizeSubscriptions
    <2> QED
      BY <1>3, <2>1 DEF FinalizeSubscriptions, TypeOK, DispatcherTypeOK,
                        objectVars, listerVars, counters, Stages
  <1>4. CASE FinalizeSession(c)
    BY <1>4 DEF FinalizeSession, DeleteAzureSession, TypeOK, DispatcherTypeOK,
                objectVars, listerVars, counters, Stages
  <1>5. CASE RemoveFinalizer(c)
    <2>1. /\ finalizer' \in [Channels -> BOOLEAN] /\ informed' \subseteq Channels
          /\ pc' \in [Channels -> Stages] /\ local' \in [Channels -> Local]
          /\ cached' = cached /\ (failures' = failures \/ CallFails)
      BY <1>0, <1>5 DEF RemoveFinalizer, Refused, Written, Fail, TypeOK, Stages,
                       listerVars
    <2> QED
      BY <1>5, <2>1, ObjectStepType DEF RemoveFinalizer, TypeOK
  <1>6. CASE EnsureFinalizer(c)
    <2>1. /\ finalizer' \in [Channels -> BOOLEAN] /\ informed' \subseteq Channels
          /\ pc' \in [Channels -> Stages] /\ local' \in [Channels -> Local]
          /\ cached' = cached /\ (failures' = failures \/ CallFails)
      BY <1>0, <1>6 DEF EnsureFinalizer, Refused, Written, Fail, TypeOK, Stages,
                       listerVars
    <2> QED
      BY <1>6, <2>1, ObjectStepType DEF EnsureFinalizer, TypeOK
  <1>7. CASE EnsureSession(c)
    <2>1. /\ azureSessions' \subseteq Channels
          /\ pc' \in [Channels -> Stages] /\ local' \in [Channels -> Local]
          /\ failures' \in 0..MaxFailures
      <3>1. azureSessions' \subseteq Channels
        BY <1>7 DEF EnsureSession, CreateAzureSession, TypeOK, DispatcherTypeOK
      <3>2. local' \in [Channels -> Local]
        <4>1. local' = local \/ local' = [local EXCEPT ![c].err = TRUE]
          BY <1>7 DEF EnsureSession, Fail
        <4> QED
          BY <1>0, <4>1
      <3>3. failures' \in 0..MaxFailures
        BY <1>7, ParametersOK DEF EnsureSession, CallFails, TypeOK
      <3>4. pc' \in [Channels -> Stages]
        BY <1>7 DEF EnsureSession, Fail, TypeOK, Stages
      <3> QED
        BY <3>1, <3>2, <3>3, <3>4
    <2> QED
      BY <1>7, <2>1 DEF EnsureSession, TypeOK, DispatcherTypeOK, objectVars,
         listerVars
  <1>8. CASE UpdateSubscriptionsStep(c)
    <2> DEFINE refs == local[c].refs
    <2>1. PICK bad \in SUBSET refs, dropped \in SUBSET (refs \X FlakyPartitions) :
            /\ UpdateSubscriptions(c, refs, FALSE, bad, dropped)
            /\ local' = [local EXCEPT
                 ![c] = [@ EXCEPT
                   !.desired = createSubscribableStatus(refs,
                                 failedToSubscribe(c, refs, bad)),
                   !.err = failedToSubscribe(c, refs, bad) # {}]]
            /\ Goto(c, IF failedToSubscribe(c, refs, bad) = {}
                       THEN "list" ELSE "updateStatus")
            /\ IF bad = {} /\ dropped = {} THEN UNCHANGED failures ELSE CallFails
      BY <1>8 DEF UpdateSubscriptionsStep
    <2>2. /\ subscriptions' \in [Channels -> SUBSET SubRef]
          /\ listeners' \subseteq Listener
      BY <1>0, <2>1, UpdateSubscriptionsType DEF TypeOK
    <2>3. createSubscribableStatus(refs, failedToSubscribe(c, refs, bad))
            \in SUBSET SubUIDs
      BY <1>0 DEF createSubscribableStatus, UIDsOf, SubRef
    <2>4. local' \in [Channels -> Local]
      <3> DEFINE des == createSubscribableStatus(refs,
                          failedToSubscribe(c, refs, bad))
      <3> DEFINE err == failedToSubscribe(c, refs, bad) # {}
      <3>1. local[c] \in Local
        BY <1>0
      <3>2. [local[c] EXCEPT !.desired = des, !.err = err] \in Local
        <4> HIDE DEF des, err
        <4>1. des \in SUBSET SubUIDs /\ err \in BOOLEAN
          BY <2>3 DEF des, err
        <4> QED
          BY <3>1, <4>1 DEF Local
      <3> QED
        BY <1>0, <2>1, <3>2
    <2>5. failures' \in 0..MaxFailures
      BY <2>1, ParametersOK DEF TypeOK, CallFails
    <2> QED
      BY <1>8, <2>1, <2>2, <2>4, <2>5 DEF UpdateSubscriptionsStep, TypeOK,
         DispatcherTypeOK, objectVars, listerVars, Stages
  <1>9. CASE ListChannels(c)
    <2>1. local' \in [Channels -> Local]
      BY <1>0, <1>9 DEF ListChannels, Local
    <2> QED
      BY <1>9, <2>1 DEF ListChannels, TypeOK, DispatcherTypeOK, objectVars,
                        listerVars, dispatcherVars, counters, Stages
  <1>10. CASE StoreHostMap(c)
    BY <1>0, <1>10 DEF StoreHostMap, UpdateHostToChannelMap, TypeOK,
                       DispatcherTypeOK, objectVars, listerVars, counters, Stages
  <1>11. CASE UpdateStatus(c)
    <2>1. /\ ready' \in [Channels -> BOOLEAN] /\ informed' \subseteq Channels
          /\ reported' \in [Channels -> SUBSET SubUIDs]
          /\ reports' \in [Channels -> SUBSET SUBSET SubUIDs]
          /\ cached' = cached /\ (failures' = failures \/ CallFails)
      <3>1. CASE StatusStored(c)
        <4>1. reports[c] \cup {local[c].desired} \in SUBSET SUBSET SubUIDs
          BY <1>0 DEF TypeOK
        <4>2. reports' \in [Channels -> SUBSET SUBSET SubUIDs]
          BY <3>1, <4>1 DEF StatusStored, TypeOK
        <4> QED
          BY <1>0, <3>1, <4>2 DEF StatusStored, Written, TypeOK
      <3>2. CASE StatusSame(c) \/ StatusRefused(c)
        <4>1. /\ UNCHANGED <<ready, reported, reports, listerVars>>
              /\ failures' = failures \/ CallFails
          BY <3>2 DEF StatusSame, StatusRefused
        <4> QED
          BY <4>1 DEF TypeOK, listerVars
      <3> QED
        BY <1>11, <3>1, <3>2 DEF UpdateStatus
    <2>3. queue' \subseteq Channels
      BY <1>11 DEF UpdateStatus, TypeOK
    <2>2. pc' \in [Channels -> Stages] /\ local' \in [Channels -> Local]
      BY <1>0, <1>11 DEF UpdateStatus, TypeOK, Stages, NoLocal, Local
    <2> QED
      BY <1>11, <2>1, <2>2, <2>3, ObjectStepType DEF UpdateStatus, TypeOK
  <1> QED
    BY <1>1, <1>2, <1>3, <1>4, <1>5, <1>6, <1>7, <1>8, <1>9, <1>10, <1>11
    DEF Work

\* A restart of the process keeps the types.
LEMMA RestartType ==
  ASSUME TypeOK, ProcessRestart, changes' = changes, failures' = failures,
         restarts' \in 0..MaxRestarts
  PROVE  TypeOK'
PROOF
  <1>1. NoLocal \in Local
    BY DEF NoLocal, Local
  <1>2. post' \in [Posts -> PostRecord]
    <2>1. ASSUME NEW m \in Posts
          PROVE  [post[m] EXCEPT !.stage = "rejected"] \in PostRecord
      <3>1. post[m] \in PostRecord
        BY DEF TypeOK
      <3> QED
        BY <3>1 DEF PostRecord
    <2> QED
      BY <2>1 DEF ProcessRestart, TypeOK
  <1>3. cached' \in [Channels -> Object]
    BY ObjectType DEF ProcessRestart, TypeOK
  <1> QED
    BY <1>1, <1>2, <1>3 DEF ProcessRestart, DispatcherLost, TypeOK,
       DispatcherTypeOK, objectVars, Stages

\* Changes of the API objects keep the types.
LEMMA SurroundingsType ==
  ASSUME TypeOK, NEW c \in Channels, Surroundings(c)
  PROVE  TypeOK'
PROOF
  <1>1. [local EXCEPT ![c].fresh = FALSE] \in [Channels -> Local]
    BY FlagsType DEF TypeOK
  <1>2. CASE Collect(c)
    BY <1>1, <1>2 DEF Collect, Changed, Written, TypeOK, DispatcherTypeOK
  <1>3. CASE Resync(c)
    BY <1>3, ParametersOK DEF Resync, CountChange, TypeOK, DispatcherTypeOK,
       objectVars, listerVars, dispatcherVars
  <1>4. CASE HubDeleted(c)
    BY <1>4 DEF HubDeleted, TypeOK, DispatcherTypeOK, objectVars, listerVars,
       workerVars, counters
  <1>5. CASE Observe(c)
    <2>1. cached' \in [Channels -> Object]
      BY <1>5, ObjectType DEF Observe, TypeOK
    <2> QED
      BY <1>5, <2>1 DEF Observe, TypeOK, DispatcherTypeOK, objectVars,
         dispatcherVars, counters
  <1>6. CASE CreateChannel(c) \/ SetSubscribers(c) \/ ControllerStatus(c)
             \/ DeleteChannel(c)
    <2>1. /\ UNCHANGED <<dispatcherVars, post, cached, failures, restarts, pc, queue>>
          /\ informed' \subseteq Channels /\ local' \in [Channels -> Local]
          /\ changes' \in 0..MaxChanges
      <3>1. CountChange /\ Changed(c) /\ UNCHANGED dispatcherVars
        BY <1>6 DEF CreateChannel, SetSubscribers, ControllerStatus, DeleteChannel
      <3> QED
        BY <1>1, <3>1, ParametersOK DEF Changed, Written, CountChange, TypeOK
    <2>2. /\ phase' \in [Channels -> {"new", "live", "deleting", "gone"}]
          /\ ready' \in [Channels -> BOOLEAN]
          /\ spec' \in [Channels -> SUBSET SubUIDs]
          /\ finalizer' = finalizer /\ reports' = reports
          /\ reported' \in [Channels -> SUBSET SubUIDs]
      BY <1>6 DEF CreateChannel, SetSubscribers, ControllerStatus, DeleteChannel,
         TypeOK
    <2> QED
      BY <2>1, <2>2 DEF TypeOK, DispatcherTypeOK, dispatcherVars
  <1> QED
    BY <1>2, <1>3, <1>4, <1>5, <1>6 DEF Surroundings

\* The receiver keeps the types.
LEMMA ReceiverType ==
  ASSUME TypeOK, NEW m \in Posts, Receive(m) \/ SendFails(m)
  PROVE  TypeOK'
PROOF
  <1>1. post' \in [Posts -> PostRecord]
    <2> USE DEF TypeOK, DispatcherTypeOK, PostRecord
    <2>1. CASE \E c \in Channels : Resolve(m, c)
      <3>1. PICK c \in Channels : Resolve(m, c)
        BY <2>1
      <3> DEFINE stage == IF c \in hostToChannelMap THEN "resolved" ELSE "rejected"
      <3>2. stage \in {"resolved", "rejected"}
        OBVIOUS
      <3>3. post' = [post EXCEPT ![m] = [@ EXCEPT !.stage = stage, !.channel = c]]
        BY <3>1 DEF Resolve
      <3> HIDE DEF stage
      <3>4. post[m] \in PostRecord
        OBVIOUS
      <3>5. [post[m] EXCEPT !.stage = stage, !.channel = c] \in PostRecord
        BY <3>2, <3>4
      <3> QED
        BY <3>3, <3>5
    <2>2. CASE NoSession(m)
      BY <2>2 DEF NoSession
    <2>3. CASE PublishFails(m)
      BY <2>3 DEF PublishFails
    <2>4. CASE Publish(m)
      <3> DEFINE c == post[m].channel
      <3>1. PICK q \in Partitions :
              post' = [post EXCEPT
                ![m] = [@ EXCEPT !.stage = "accepted", !.published = TRUE,
                                 !.got = {l.ref : l \in Open(c, q)}]]
        BY <2>4 DEF Publish
      <3> DEFINE got == {l.ref : l \in Open(c, q)}
      <3>2. got \subseteq SubRef
        BY DEF Listener, Open
      <3> HIDE DEF got
      <3>3. [post[m] EXCEPT !.stage = "accepted", !.published = TRUE,
                            !.got = got] \in PostRecord
        BY <3>2
      <3> QED
        BY <3>1, <3>3 DEF got
    <2> QED
      BY <2>1, <2>2, <2>3, <2>4 DEF Receive, SendFails
  <1>2. UNCHANGED <<dispatcherVars, objectVars, listerVars, workerVars, changes,
                    restarts>>
    BY DEF Receive, SendFails, Resolve, NoSession, Publish, PublishFails, counters
  <1>3. failures' \in 0..MaxFailures
    BY ParametersOK DEF TypeOK, Receive, SendFails, CallFails, counters
  <1> QED
    BY <1>1, <1>2, <1>3 DEF TypeOK, DispatcherTypeOK, dispatcherVars,
       objectVars, listerVars, workerVars

\* Every step keeps the types.
LEMMA TypeStep == TypeOK /\ [Next]_vars => TypeOK'
PROOF
  <1> SUFFICES ASSUME TypeOK, [Next]_vars PROVE TypeOK'
    OBVIOUS
  <1>1. CASE \E c \in Channels : Work(c) \/ Surroundings(c)
    BY <1>1, WorkType, SurroundingsType
  <1>2. CASE \E m \in Posts : Receive(m) \/ SendFails(m)
    BY <1>2, ReceiverType
  <1>3. CASE Restart
    BY <1>3, RestartType, ParametersOK DEF Restart, TypeOK
  <1>4. CASE ConcurrentMapFault
    BY <1>4, RestartType DEF ConcurrentMapFault, counters, TypeOK
  <1>5. CASE UNCHANGED vars
    BY <1>5 DEF vars, TypeOK, DispatcherTypeOK, dispatcherVars, objectVars,
       listerVars, workerVars, counters
  <1> QED
    BY <1>1, <1>2, <1>3, <1>4, <1>5 DEF Next

\* Every reachable state of the dispatcher and its reconciler is well typed.
THEOREM TypeCorrect == Spec => []TypeOK
PROOF
  BY TypeInit, TypeStep, PTL DEF Spec

-----------------------------------------------------------------------------
(***************************************************************************)
(* Finalization.  SubscriptionHasSession and MemoryIsFinalized say that    *)
(* subscriptions lean on a session and a session on the finalizer.  Alone  *)
(* they are not inductive: whether EnsureSession may add a session, or     *)
(* RemoveFinalizer take the finalizer away, depends on what the worker did *)
(* before, which is what StagesProtected remembers, and on what a lister   *)
(* that lags may still show, which is ListerFits: a live copy with the     *)
(* dispatcher's finalizer means that the object has it now, because only   *)
(* the dispatcher removes it, and not before the lister shows the          *)
(* deletion.                                                               *)
(***************************************************************************)

Adding == {"ensureFinalizer"}
Deletes == {"unsubscribe", "deleteSession", "removeFinalizer"}

ListerFits ==
  \A c \in Channels :
    /\ c \in informed => cached[c] = object(c)
    /\ cached[c].phase = "live" /\ cached[c].finalizer => finalizer[c]
    /\ local[c].fresh => c \in informed
    /\ local[c].fresh /\ pc[c] \in Adding => phase[c] = "live"
    /\ local[c].fresh /\ pc[c] \in Deletes => phase[c] = "deleting"

Protected ==
  SubscriptionHasSession /\ MemoryIsFinalized /\ StagesProtected /\ ListerFits

\* Protected, for one channel.
ProtectedAt(c) ==
  /\ subscriptions[c] # {} => c \in azureSessions
  /\ c \in azureSessions => finalizer[c]
  /\ finalizer[c] => Exists(c)
  /\ pc[c] = "ensureFinalizer" /\ local[c].finalizer => finalizer[c]
  /\ pc[c] \in {"session", "updateSubscriptions"} => finalizer[c]
  /\ pc[c] = "updateSubscriptions" => c \in azureSessions
  /\ pc[c] \in {"deleteSession", "removeFinalizer"} => subscriptions[c] = {}
  /\ pc[c] = "removeFinalizer" => c \notin azureSessions

FitsAt(c) ==
  /\ c \in informed => cached[c] = object(c)
  /\ cached[c].phase = "live" /\ cached[c].finalizer => finalizer[c]
  /\ local[c].fresh => c \in informed
  /\ local[c].fresh /\ pc[c] \in Adding => phase[c] = "live"
  /\ local[c].fresh /\ pc[c] \in Deletes => phase[c] = "deleting"

\* Nothing of channel d changes but whether its key is queued.
SameAt(d) ==
  /\ subscriptions'[d] = subscriptions[d]
  /\ d \in azureSessions' <=> d \in azureSessions
  /\ phase'[d] = phase[d] /\ finalizer'[d] = finalizer[d]
  /\ spec'[d] = spec[d] /\ ready'[d] = ready[d] /\ reported'[d] = reported[d]
  /\ cached'[d] = cached[d]
  /\ d \in informed' <=> d \in informed
  /\ pc'[d] = pc[d] /\ local'[d] = local[d]

LEMMA ProtectedEverywhere ==
  Protected <=> \A c \in Channels : ProtectedAt(c) /\ FitsAt(c)
PROOF
  BY DEF Protected, SubscriptionHasSession, MemoryIsFinalized, StagesProtected,
     ListerFits, ProtectedAt, FitsAt, AzureSessionExist

LEMMA SameProtected ==
  ASSUME NEW d \in Channels, ProtectedAt(d), FitsAt(d), SameAt(d)
  PROVE  ProtectedAt(d)' /\ FitsAt(d)'
PROOF
  BY DEF ProtectedAt, FitsAt, SameAt, Exists, object

\* UpdateSubscriptions touches the entry of its own channel only.
LEMMA UpdateSubscriptionsLocal ==
  ASSUME DispatcherTypeOK, NEW c \in Channels, NEW d \in Channels \ {c},
         NEW refs, NEW isFinalizer, NEW bad, NEW dropped,
         UpdateSubscriptions(c, refs, isFinalizer, bad, dropped)
  PROVE  subscriptions'[d] = subscriptions[d]
PROOF
  BY DEF UpdateSubscriptions, DispatcherTypeOK

\* A worker's step changes only its own channel's part of the state.
LEMMA WorkLocal ==
  ASSUME TypeOK, NEW c \in Channels, Work(c), NEW d \in Channels \ {c}
  PROVE  SameAt(d)
PROOF
  <1> USE DEF SameAt, TypeOK, DispatcherTypeOK, Goto, Fail, objectVars, listerVars
  <1>1. CASE ReconcileGone(c) \/ Reconcile(c)
    BY <1>1 DEF ReconcileGone, Reconcile, dispatcherVars
  <1>2. CASE FinalizeSubscriptions(c)
    BY <1>2, UpdateSubscriptionsLocal DEF FinalizeSubscriptions
  <1>3. CASE FinalizeSession(c)
    BY <1>3 DEF FinalizeSession, DeleteAzureSession
  <1>4. CASE RemoveFinalizer(c) \/ EnsureFinalizer(c)
    BY <1>4 DEF RemoveFinalizer, EnsureFinalizer, Written, dispatcherVars
  <1>5. CASE EnsureSession(c)
    BY <1>5 DEF EnsureSession, CreateAzureSession
  <1>6. CASE UpdateSubscriptionsStep(c)
    BY <1>6, UpdateSubscriptionsLocal DEF UpdateSubscriptionsStep
  <1>7. CASE ListChannels(c) \/ StoreHostMap(c)
    BY <1>7 DEF ListChannels, StoreHostMap, dispatcherVars
  <1>8. CASE UpdateStatus(c)
    BY <1>8 DEF UpdateStatus, StatusSame, StatusStored, StatusRefused, Written,
                dispatcherVars
  <1> QED
    BY <1>1, <1>2, <1>3, <1>4, <1>5, <1>6, <1>7, <1>8 DEF Work

\* A worker's step protects its own channel.
LEMMA WorkProtects ==
  ASSUME TypeOK, NEW c \in Channels, ProtectedAt(c), FitsAt(c), Work(c)
  PROVE  ProtectedAt(c)'
PROOF
  <1> USE DEF ProtectedAt, Exists, TypeOK, DispatcherTypeOK, Goto, Fail
  <1>0. /\ local \in [Channels -> Local] /\ local[c] \in Local
        /\ cached[c] \in Object
    OBVIOUS
  <1>1. CASE ReconcileGone(c)
    BY <1>1 DEF ReconcileGone, objectVars, dispatcherVars
  <1>2. CASE Reconcile(c)
    <2>1. local'[c].finalizer = cached[c].finalizer
      BY <1>0, <1>2, DeepCopyTaken DEF Reconcile
    <2>2. /\ pc'[c] \in {"unsubscribe", "ensureFinalizer"}
          /\ pc'[c] = "ensureFinalizer" => cached[c].phase = "live"
      BY <1>2 DEF Reconcile, Listed
    <2>3. UNCHANGED <<subscriptions, azureSessions, finalizer, phase>>
      BY <1>2 DEF Reconcile, objectVars, dispatcherVars
    <2> QED
      BY <2>1, <2>2, <2>3 DEF FitsAt
  <1>3. CASE FinalizeSubscriptions(c)
    BY <1>3 DEF FinalizeSubscriptions, UpdateSubscriptions, objectVars
  <1>4. CASE FinalizeSession(c)
    BY <1>4 DEF FinalizeSession, DeleteAzureSession, objectVars
  <1>5. CASE RemoveFinalizer(c)
    BY <1>0, <1>5 DEF RemoveFinalizer, dispatcherVars, Local
  <1>6. CASE EnsureFinalizer(c)
    <2>1. /\ UNCHANGED <<subscriptions, azureSessions, phase>>
          /\ \/ local[c].finalizer /\ finalizer' = finalizer /\ pc'[c] = "session"
             \/ local[c].fresh /\ finalizer'[c] /\ pc'[c] = "session"
             \/ finalizer' = finalizer /\ pc'[c] = "updateStatus"
          /\ pc[c] = "ensureFinalizer"
      BY <1>6 DEF EnsureFinalizer, dispatcherVars
    <2> QED
      BY <2>1 DEF FitsAt, Adding
  <1>7. CASE EnsureSession(c)
    BY <1>0, <1>7 DEF EnsureSession, AzureSessionExist, CreateAzureSession,
                      objectVars, Local
  <1>8. CASE UpdateSubscriptionsStep(c)
    <2>1. c \in azureSessions /\ finalizer[c] /\ Exists(c)
      BY <1>8 DEF UpdateSubscriptionsStep
    <2>2. pc'[c] \in {"list", "updateStatus"}
      BY <1>8 DEF UpdateSubscriptionsStep
    <2> QED
      BY <1>8, <2>1, <2>2 DEF UpdateSubscriptionsStep, objectVars
  <1>9. CASE ListChannels(c)
    BY <1>0, <1>9 DEF ListChannels, dispatcherVars, objectVars, Local
  <1>10. CASE StoreHostMap(c)
    BY <1>10 DEF StoreHostMap, objectVars
  <1>11. CASE UpdateStatus(c)
    BY <1>11 DEF UpdateStatus, dispatcherVars, NoLocal
  <1> QED
    BY <1>1, <1>2, <1>3, <1>4, <1>5, <1>6, <1>7, <1>8, <1>9, <1>10, <1>11
    DEF Work

\* A worker's step leaves behind what it must of its channel's copies.
LEMMA WorkFits ==
  ASSUME TypeOK, NEW c \in Channels, ProtectedAt(c), FitsAt(c), Work(c)
  PROVE  FitsAt(c)'
PROOF
  <1> USE DEF FitsAt, TypeOK, Goto, Fail, Adding, Deletes
  <1>0. /\ local \in [Channels -> Local] /\ local[c] \in Local
        /\ cached[c] \in Object
    OBVIOUS
  <1>1. CASE ReconcileGone(c)
    BY <1>1 DEF ReconcileGone, objectVars, listerVars, object
  <1>2. CASE Reconcile(c)
    <2>1. local'[c].fresh = (c \in informed)
      <3>1. local'[c] = DeepCopy(c) /\ Copies \ HeldCopies # {}
        BY <1>0, <1>2 DEF Reconcile
      <3>2. PICK k \in Copies :
              DeepCopy(c) =
                [refs |-> {newSubscriptionReference(u, k) : u \in cached[c].spec},
                 finalizer |-> cached[c].finalizer, fresh |-> c \in informed,
                 desired |-> cached[c].reported, listed |-> {}, err |-> FALSE]
        BY <3>1, DeepCopyTaken
      <3>3. DeepCopy(c).fresh = (c \in informed)
        BY <3>2
      <3> QED
        BY <3>1, <3>3
    <2>2. /\ pc'[c] = IF cached[c].phase = "deleting" THEN "unsubscribe"
                      ELSE "ensureFinalizer"
          /\ cached[c].phase \in {"live", "deleting"}
          /\ UNCHANGED <<objectVars, listerVars>>
      BY <1>2 DEF Reconcile, Listed
    <2>3. c \in informed => cached[c].phase = phase[c]
      BY DEF object
    <2> QED
      BY <2>1, <2>2, <2>3 DEF objectVars, listerVars, object
  <1>3. CASE FinalizeSubscriptions(c) \/ FinalizeSession(c)
    BY <1>3 DEF FinalizeSubscriptions, FinalizeSession, objectVars, listerVars,
                object
  <1>4. CASE RemoveFinalizer(c)
    <2>1. CASE finalizer' = finalizer
      BY <1>0, <1>4, <2>1 DEF RemoveFinalizer, Written, listerVars, object, Local
    <2>2. CASE finalizer' # finalizer
      <3>1. /\ local[c].fresh /\ pc[c] = "removeFinalizer" /\ cached' = cached
            /\ c \notin informed' /\ ~local'[c].fresh
        BY <1>0, <1>4, <2>2 DEF RemoveFinalizer, Refused, Written, Local
      <3>2. cached[c].phase = "deleting"
        BY <3>1 DEF object
      <3> QED
        BY <3>1, <3>2
    <2> QED
      BY <2>1, <2>2
  <1>5. CASE EnsureFinalizer(c)
    <2>1. CASE finalizer' = finalizer /\ UNCHANGED <<cached, informed>>
      <3>1. local'[c].fresh => local[c].fresh
        BY <1>0, <1>5 DEF EnsureFinalizer, Local
      <3>2. UNCHANGED <<phase, ready, spec, reported>>
            /\ pc[c] = "ensureFinalizer" /\ pc'[c] \in {"session", "updateStatus"}
        BY <1>0, <1>5 DEF EnsureFinalizer
      <3> QED
        BY <2>1, <3>1, <3>2 DEF object
    <2>2. CASE ~(finalizer' = finalizer /\ UNCHANGED <<cached, informed>>)
      <3>1. /\ finalizer'[c] /\ cached' = cached
            /\ c \notin informed' /\ ~local'[c].fresh
        BY <1>0, <1>5, <2>2 DEF EnsureFinalizer, Written, listerVars, Local
      <3> QED
        BY <3>1
    <2> QED
      BY <2>1, <2>2
  <1>6. CASE EnsureSession(c) \/ UpdateSubscriptionsStep(c) \/ ListChannels(c)
             \/ StoreHostMap(c)
    <2>1. /\ pc'[c] \notin Adding \cup Deletes
          /\ UNCHANGED <<objectVars, listerVars>>
      BY <1>6 DEF EnsureSession, UpdateSubscriptionsStep, ListChannels, StoreHostMap
    <2>2. local'[c].fresh = local[c].fresh
      <3>1. CASE EnsureSession(c) \/ ListChannels(c) \/ StoreHostMap(c)
        BY <1>0, <3>1 DEF EnsureSession, ListChannels, StoreHostMap, Local
      <3>2. ASSUME NEW D, NEW e, local' = [local EXCEPT ![c] = [@ EXCEPT !.desired = D, !.err = e]]
            PROVE  local'[c].fresh = local[c].fresh
        BY <1>0, <3>2 DEF Local
      <3> QED
        BY <1>6, <3>1, <3>2 DEF UpdateSubscriptionsStep
    <2> QED
      BY <2>1, <2>2 DEF objectVars, listerVars, object
  <1>7. CASE UpdateStatus(c)
    <2>1. /\ UNCHANGED <<phase, spec, finalizer>> /\ cached' = cached
          /\ ~local'[c].fresh
          /\ c \notin informed' \/ UNCHANGED <<ready, reported, informed>>
      BY <1>7 DEF UpdateStatus, StatusSame, StatusStored, StatusRefused, Written,
                  listerVars, NoLocal
    <2> QED
      BY <2>1 DEF object
  <1> QED
    BY <1>1, <1>2, <1>3, <1>4, <1>5, <1>6, <1>7 DEF Work

\* What a step of the surroundings changes of another channel than its own: nothing.
LEMMA SurroundingsLocal ==
  ASSUME TypeOK, NEW c \in Channels, Surroundings(c), NEW d \in Channels \ {c}
  PROVE  SameAt(d) /\ (d \in queue' <=> d \in queue)
PROOF
  <1> USE DEF SameAt, TypeOK, DispatcherTypeOK, Changed, Written, objectVars,
              listerVars, dispatcherVars, workerVars
  <1>1. CASE CreateChannel(c) \/ SetSubscribers(c) \/ DeleteChannel(c)
    BY <1>1 DEF CreateChannel, SetSubscribers, DeleteChannel
  <1>2. CASE ControllerStatus(c)
    BY <1>2 DEF ControllerStatus
  <1>3. CASE Resync(c) \/ HubDeleted(c)
    BY <1>3 DEF Resync, HubDeleted
  <1>4. CASE Collect(c) \/ Observe(c)
    BY <1>4 DEF Collect, Observe
  <1> QED
    BY <1>1, <1>2, <1>3, <1>4 DEF Surroundings

\* A change of the API object, and the news of it, protect its channel.
LEMMA SurroundingsProtect ==
  ASSUME TypeOK, NEW c \in Channels, Surroundings(c),
         ProtectedAt(c), FitsAt(c)
  PROVE  ProtectedAt(c)' /\ FitsAt(c)'
PROOF
  <1> USE DEF ProtectedAt, FitsAt, Exists, TypeOK, DispatcherTypeOK
  <1>0. local[c] \in Local
    OBVIOUS
  <1>1. CASE CreateChannel(c) \/ SetSubscribers(c) \/ ControllerStatus(c)
             \/ DeleteChannel(c) \/ Collect(c)
    <2>1. /\ UNCHANGED <<azureSessions, subscriptions, pc, cached, finalizer>>
          /\ c \notin informed' /\ ~local'[c].fresh
          /\ local'[c].finalizer = local[c].finalizer
      BY <1>0, <1>1 DEF CreateChannel, SetSubscribers, ControllerStatus,
         DeleteChannel, Collect, Changed, Written, dispatcherVars, Local
    <2>2. finalizer[c] => phase'[c] \in {"live", "deleting"}
      BY <1>1 DEF CreateChannel, SetSubscribers, ControllerStatus, DeleteChannel,
         Collect
    <2> QED
      BY <2>1, <2>2
  <1>2. CASE Resync(c) \/ HubDeleted(c)
    BY <1>2 DEF Resync, HubDeleted, objectVars, listerVars, dispatcherVars,
       workerVars, object
  <1>3. CASE Observe(c)
    <2>1. /\ UNCHANGED <<azureSessions, subscriptions, pc, local>>
          /\ UNCHANGED <<phase, ready, spec, finalizer, reported>>
          /\ cached'[c] = object(c) /\ c \in informed'
      BY <1>3 DEF Observe, objectVars, dispatcherVars
    <2> QED
      BY <2>1 DEF object
  <1> QED
    BY <1>1, <1>2, <1>3 DEF Surroundings

\* A restart forgets all that needed protection, and lists anew.
LEMMA RestartProtects ==
  ASSUME NEW d \in Channels, ProtectedAt(d), ProcessRestart
  PROVE  ProtectedAt(d)' /\ FitsAt(d)'
PROOF
  BY DEF ProcessRestart, DispatcherLost, objectVars, ProtectedAt, FitsAt, Exists,
     NoLocal, object

LEMMA ProtectedInit == Init => Protected
PROOF
  BY DEF Init, NewDispatcher, Protected, SubscriptionHasSession,
     MemoryIsFinalized, StagesProtected, ListerFits, AzureSessionExist, NoLocal,
     object

LEMMA ProtectedStep == TypeOK /\ Protected /\ [Next]_vars => Protected'
PROOF
  <1> SUFFICES ASSUME TypeOK, Protected, [Next]_vars, NEW d \in Channels
               PROVE  ProtectedAt(d)' /\ FitsAt(d)'
    BY DEF Protected, SubscriptionHasSession, MemoryIsFinalized,
           StagesProtected, ListerFits, ProtectedAt, FitsAt, AzureSessionExist
  <1>0. ProtectedAt(d) /\ FitsAt(d)
    BY ProtectedEverywhere
  <1>1. ASSUME NEW c \in Channels, Work(c) PROVE ProtectedAt(d)' /\ FitsAt(d)'
    <2>1. CASE c = d
      BY <1>0, <1>1, <2>1, WorkProtects, WorkFits
    <2>2. CASE c # d
      <3>1. SameAt(d)
        BY <1>1, <2>2, WorkLocal
      <3> QED
        BY <1>0, <3>1, SameProtected
    <2> QED
      BY <2>1, <2>2
  <1>2. ASSUME NEW c \in Channels, Surroundings(c)
        PROVE  ProtectedAt(d)' /\ FitsAt(d)'
    <2>1. CASE c = d
      BY <1>0, <1>2, <2>1, SurroundingsProtect
    <2>2. CASE c # d
      <3>1. SameAt(d)
        BY <1>2, <2>2, SurroundingsLocal
      <3> QED
        BY <1>0, <3>1, SameProtected
    <2> QED
      BY <2>1, <2>2
  <1>3. CASE (\E m \in Posts : Receive(m) \/ SendFails(m)) \/ UNCHANGED vars
    <2>1. UNCHANGED <<dispatcherVars, objectVars, listerVars, workerVars>>
      BY <1>3 DEF Receive, SendFails, Resolve, NoSession, Publish, PublishFails,
         vars
    <2>2. SameAt(d)
      BY <2>1 DEF SameAt, dispatcherVars, objectVars, listerVars, workerVars
    <2> QED
      BY <1>0, <2>2, SameProtected
  <1>4. CASE Restart \/ ConcurrentMapFault
    BY <1>0, <1>4, RestartProtects DEF Restart, ConcurrentMapFault
  <1> QED
    BY <1>1, <1>2, <1>3, <1>4 DEF Next

THEOREM ProtectedAlways == Spec => [](TypeOK /\ Protected)
PROOF
  BY TypeInit, TypeStep, ProtectedInit, ProtectedStep, PTL DEF Spec

\* A channel with subscriptions always has a session.
THEOREM SubscriptionsProtected == Spec => []SubscriptionHasSession
PROOF
  <1>1. Protected => SubscriptionHasSession
    BY DEF Protected
  <1> QED
    BY <1>1, ProtectedAlways, PTL

\* A session is always backed by the finalizer on an existing object.
THEOREM SessionsProtected == Spec => []MemoryIsFinalized
PROOF
  <1>1. Protected => MemoryIsFinalized
    BY DEF Protected
  <1> QED
    BY <1>1, ProtectedAlways, PTL

\* Where a worker stands always tells what it may rely on.
THEOREM StagesSafe == Spec => []StagesProtected
PROOF
  <1>1. Protected => StagesProtected
    BY DEF Protected
  <1> QED
    BY <1>1, ProtectedAlways, PTL

-----------------------------------------------------------------------------
(***************************************************************************)
(* One reference a subscriber.  What UpdateSubscriptions leaves in the map *)
(* is part of the worker's DeepCopy, whose references all point to one     *)
(* copy; so the worker's references are part of the invariant.             *)
(***************************************************************************)

OnePerUID(refs) == \A r, s \in refs : r.uid = s.uid => r = s

OneRef ==
  \A c \in Channels : OnePerUID(subscriptions[c]) /\ OnePerUID(local[c].refs)

\* UpdateSubscriptions leaves nothing in the map that is not of its copy.
LEMMA UpdateSubscriptionsKeepsRefs ==
  ASSUME DispatcherTypeOK, NEW c \in Channels, NEW refs \in SUBSET SubRef,
         NEW isFinalizer, NEW bad, NEW dropped,
         UpdateSubscriptions(c, refs, isFinalizer, bad, dropped)
  PROVE  subscriptions'[c] \subseteq refs
PROOF
  BY DEF UpdateSubscriptions, DispatcherTypeOK, UnsubscribeDeleted, Missing

\* The references of one DeepCopy differ in their UIDs.
LEMMA DeepCopyOnePerUID ==
  ASSUME NEW c \in Channels, Copies \ HeldCopies # {}
  PROVE  OnePerUID(DeepCopy(c).refs)
PROOF
  <1>1. PICK k \in Copies :
          DeepCopy(c).refs =
            {newSubscriptionReference(u, k) : u \in cached[c].spec}
    BY DeepCopyTaken
  <1> QED
    BY <1>1 DEF OnePerUID, newSubscriptionReference

\* A worker's step on its own channel.
LEMMA WorkOneRef ==
  ASSUME TypeOK, NEW c \in Channels, Work(c),
         OnePerUID(subscriptions[c]), OnePerUID(local[c].refs)
  PROVE  OnePerUID(subscriptions'[c]) /\ OnePerUID(local'[c].refs)
PROOF
  <1> USE DEF TypeOK, DispatcherTypeOK
  <1>0. local \in [Channels -> Local] /\ local[c] \in Local
        /\ local[c].refs \in SUBSET SubRef
    BY DEF Local
  <1>1. CASE Reconcile(c)
    BY <1>0, <1>1, DeepCopyOnePerUID DEF Reconcile, dispatcherVars
  <1>2. CASE FinalizeSubscriptions(c)
    <2>1. subscriptions'[c] \subseteq local[c].refs /\ local' = local
      BY <1>0, <1>2, UpdateSubscriptionsKeepsRefs DEF FinalizeSubscriptions
    <2> QED
      BY <2>1 DEF OnePerUID
  <1>3. CASE UpdateSubscriptionsStep(c)
    <2>1. subscriptions'[c] \subseteq local[c].refs
      BY <1>0, <1>3, UpdateSubscriptionsKeepsRefs DEF UpdateSubscriptionsStep
    <2>2. local'[c].refs = local[c].refs
      BY <1>0, <1>3 DEF UpdateSubscriptionsStep, Local
    <2> QED
      BY <2>1, <2>2 DEF OnePerUID
  <1>4. CASE ReconcileGone(c) \/ FinalizeSession(c) \/ RemoveFinalizer(c)
             \/ EnsureFinalizer(c) \/ EnsureSession(c) \/ ListChannels(c)
             \/ StoreHostMap(c)
    <2>1. subscriptions' = subscriptions
      BY <1>4 DEF ReconcileGone, FinalizeSession, RemoveFinalizer,
         EnsureFinalizer, EnsureSession, ListChannels, StoreHostMap,
         dispatcherVars
    <2>2. local'[c].refs = local[c].refs
      BY <1>0, <1>4 DEF ReconcileGone, FinalizeSession, RemoveFinalizer,
         EnsureFinalizer, EnsureSession, ListChannels, StoreHostMap, Fail, Local
    <2> QED
      BY <2>1, <2>2
  <1>5. CASE UpdateStatus(c)
    BY <1>0, <1>5 DEF UpdateStatus, dispatcherVars, NoLocal, OnePerUID
  <1> QED
    BY <1>1, <1>2, <1>3, <1>4, <1>5 DEF Work

LEMMA OneRefStep == TypeOK /\ OneRef /\ [Next]_vars => OneRef'
PROOF
  <1> SUFFICES ASSUME TypeOK, OneRef, [Next]_vars, NEW d \in Channels
               PROVE  OnePerUID(subscriptions'[d]) /\ OnePerUID(local'[d].refs)
    BY DEF OneRef, OnePerUID
  <1>0. /\ OnePerUID(subscriptions[d]) /\ OnePerUID(local[d].refs)
        /\ local \in [Channels -> Local]
    BY DEF OneRef, TypeOK
  <1>1. ASSUME subscriptions'[d] = subscriptions[d],
               local'[d].refs = local[d].refs
        PROVE  OnePerUID(subscriptions'[d]) /\ OnePerUID(local'[d].refs)
    BY <1>0, <1>1
  <1>2. ASSUME NEW c \in Channels, Work(c)
        PROVE  OnePerUID(subscriptions'[d]) /\ OnePerUID(local'[d].refs)
    <2>1. CASE c = d
      BY <1>0, <1>2, <2>1, WorkOneRef
    <2>2. CASE c # d
      BY <1>1, <1>2, <2>2, WorkLocal DEF SameAt
    <2> QED
      BY <2>1, <2>2
  <1>3. ASSUME NEW c \in Channels, Surroundings(c)
        PROVE  OnePerUID(subscriptions'[d]) /\ OnePerUID(local'[d].refs)
    <2>1. subscriptions' = subscriptions
      BY <1>3 DEF Surroundings, CreateChannel, SetSubscribers, ControllerStatus,
         DeleteChannel, Changed, Resync, HubDeleted, Collect, Observe,
         dispatcherVars
    <2>2. local' = local \/ local' = [local EXCEPT ![c].fresh = FALSE]
      BY <1>3 DEF Surroundings, CreateChannel, SetSubscribers, ControllerStatus,
         DeleteChannel, Changed, Resync, HubDeleted, Collect, Observe, workerVars
    <2>3. local'[d].refs = local[d].refs
      BY <1>0, <2>2 DEF Local
    <2> QED
      BY <1>1, <2>1, <2>3
  <1>4. CASE Restart \/ ConcurrentMapFault
    BY <1>4 DEF Restart, ConcurrentMapFault, ProcessRestart, DispatcherLost,
       NoLocal, OnePerUID
  <1>5. CASE (\E m \in Posts : Receive(m) \/ SendFails(m)) \/ UNCHANGED vars
    <2>1. subscriptions' = subscriptions /\ local' = local
      BY <1>5 DEF Receive, SendFails, Resolve, NoSession, Publish, PublishFails,
         vars, dispatcherVars, workerVars
    <2> QED
      BY <1>1, <2>1
  <1> QED
    BY <1>2, <1>3, <1>4, <1>5 DEF Next

\* The map never holds two references to one subscriber.
THEOREM OneReference == Spec => []OneRefPerSubscriber
PROOF
  <1>1. Init => OneRef
    BY DEF Init, NewDispatcher, NoLocal, OneRef, OnePerUID
  <1>2. OneRef => OneRefPerSubscriber
    BY DEF OneRef, OnePerUID, OneRefPerSubscriber
  <1> QED
    BY <1>1, <1>2, TypeInit, TypeStep, OneRefStep, PTL DEF Spec

=============================================================================
