------------------------ MODULE HubProvisioning_proofs ------------------------
(***************************************************************************)
(* Proofs about HubProvisioning for every set of channels and hub names,   *)
(* every number of workers, failures, restarts and changes, and whatever a *)
(* deletion of a missing group does.                                       *)
(***************************************************************************)
EXTENDS HubProvisioning, TLAPS

-----------------------------------------------------------------------------
(* Type correctness. *)

LEMMA TypeInit == Init => TypeOK
PROOF
  BY ProvisioningParameters
  DEF Init, TypeOK, Stages, Actors, Nothing, Rule

WorkersType ==
  /\ at \in [Actors -> [Channels -> Stages]]
  /\ copy \in [Actors -> [Channels -> Names \cup {None}]]
  /\ \A a \in Actors, c \in Channels : at[a][c] = "idle" <=> copy[a][c] = None

\* A worker that takes a channel, goes on or returns is well typed.
LEMMA GotoType ==
  ASSUME TypeOK, NEW a \in Actors, NEW c \in Channels, at[a][c] # "idle",
         NEW stage \in Stages \ {"idle"}, Goto(a, c, stage)
  PROVE  WorkersType'
PROOF
  BY DEF TypeOK, Goto, WorkersType

LEMMA ReturnType ==
  ASSUME TypeOK, NEW a \in Actors, NEW c \in Channels, Return(a, c)
  PROVE  WorkersType'
PROOF
  BY DEF TypeOK, Return, WorkersType, Stages

LEMMA TakeType ==
  ASSUME TypeOK, NEW a \in Actors, NEW c \in Channels, hubName[c] \in Names,
         NEW stage \in Stages \ {"idle"}, Take(a, c, stage)
  PROVE  TypeOK'
PROOF
  <1>1. WorkersType'
    <2>1. CASE UNCHANGED workers
      BY <2>1 DEF TypeOK, workers, WorkersType
    <2>2. CASE /\ at' = [at EXCEPT ![a][c] = stage]
               /\ copy' = [copy EXCEPT ![a][c] = hubName[c]]
      BY <2>2, ProvisioningParameters DEF TypeOK, WorkersType
    <2> QED
      BY <2>1, <2>2 DEF Take, Connect, NoConnection
  <1>2. faults' \in 0..MaxFaults
    BY ProvisioningParameters
    DEF TypeOK, Take, Connect, NoConnection, CallFails, Fault
  <1>3. fins' \in [Channels -> SUBSET Actors]
    BY DEF TypeOK, Take
  <1> QED
    BY <1>1, <1>2, <1>3
    DEF TypeOK, Take, WorkersType, azure, dispatcher, history

\* The requests of CreateOrUpdateHub.
LEMMA RequestType ==
  ASSUME TypeOK, NEW a \in Actors, NEW c \in Channels,
         NEW stage \in Stages \ {"idle"}, NEW next \in Stages \ {"idle"},
         NEW needs \in Nothing..Rule, NEW reaches \in Nothing..Rule,
         Request(a, c, stage, needs, reaches, next),
         strays' \subseteq Names
  PROVE  TypeOK'
PROOF
  <1>1. WorkersType'
    BY GotoType, ReturnType DEF Request
  <1>2. level' \in [Names -> Nothing..Rule]
    BY DEF TypeOK, Request, Nothing, Rule
  <1>3. faults' \in 0..MaxFaults
    BY ProvisioningParameters DEF TypeOK, Request, CallFails, Fault
  <1> QED
    BY <1>1, <1>2, <1>3 DEF TypeOK, Request, WorkersType, objects, dispatcher

LEMMA CreateOrUpdateHubType ==
  ASSUME TypeOK, NEW a \in Actors, NEW c \in Channels, CreateOrUpdateHub(a, c)
  PROVE  TypeOK'
PROOF
  <1> USE DEF Nothing, Group, Creating, Namespace, Hub, Rule
  <1>0. at[a][c] # "idle" => copy[a][c] \in Names
    BY DEF TypeOK
  <1>1. CASE CreateGroup(a, c)
    <2>1. strays' \subseteq Names
      BY <1>0, <1>1 DEF CreateGroup, Request, TypeOK
    <2> QED
      BY <1>1, <2>1, RequestType DEF CreateGroup, Stages
  <1>2. CASE CreateNamespace(a, c)
    <2>1. strays' \subseteq Names
      BY <1>2 DEF CreateNamespace, TypeOK
    <2> QED
      BY <1>2, <2>1, RequestType DEF CreateNamespace, Stages
  <1>3. CASE AwaitNamespace(a, c)
    <2>1. WorkersType'
      BY <1>3, GotoType, ReturnType DEF AwaitNamespace, Stages
    <2>2. faults' \in 0..MaxFaults
      BY <1>3, ProvisioningParameters DEF AwaitNamespace, TypeOK, CallFails, Fault
    <2> QED
      BY <1>3, <2>1, <2>2
      DEF AwaitNamespace, TypeOK, WorkersType, objects, azure, dispatcher, history
  <1>4. CASE CreateHub(a, c)
    <2>1. strays' \subseteq Names
      BY <1>4 DEF CreateHub, TypeOK
    <2> QED
      BY <1>4, <2>1, RequestType DEF CreateHub, Stages
  <1>5. CASE CreateRule(a, c)
    <2>1. strays' \subseteq Names
      BY <1>5 DEF CreateRule, TypeOK
    <2> QED
      BY <1>5, <2>1, RequestType DEF CreateRule, Stages
  <1>6. CASE ListKeys(a, c)
    <2>1. WorkersType'
      BY <1>6, GotoType, ReturnType DEF ListKeys, Stages
    <2>2. faults' \in 0..MaxFaults
      BY <1>6, ProvisioningParameters DEF ListKeys, TypeOK, CallFails, Fault
    <2>3. session' \in [Channels -> Names \cup {None}]
      BY <1>0, <1>6 DEF ListKeys, TypeOK
    <2> QED
      BY <1>6, <2>1, <2>2, <2>3
      DEF ListKeys, TypeOK, WorkersType, objects, azure, history
  <1> QED
    BY <1>1, <1>2, <1>3, <1>4, <1>5, <1>6 DEF CreateOrUpdateHub

LEMMA ControllerType ==
  ASSUME TypeOK, NEW c \in Channels, Controller(c),
         phase[c] # "absent" => hubName[c] \in Names
  PROVE  TypeOK'
PROOF
  <1>0. "ctl" \in Actors /\ (at["ctl"][c] # "idle" => copy["ctl"][c] \in Names)
    BY DEF TypeOK, Actors
  <1>1. CASE CtlReconcile(c)
    BY <1>0, <1>1, TakeType DEF CtlReconcile, Stages
  <1>2. CASE CreateOrUpdateHub("ctl", c)
    BY <1>0, <1>2, CreateOrUpdateHubType
  <1>3. CASE PollHub(c)
    <2>1. WorkersType'
      BY <1>0, <1>3, GotoType, ReturnType DEF PollHub, Stages
    <2>2. faults' \in 0..MaxFaults
      BY <1>3, ProvisioningParameters DEF PollHub, TypeOK, CallFails, Fault
    <2> QED
      BY <1>3, <2>1, <2>2
      DEF PollHub, TypeOK, WorkersType, objects, azure, dispatcher, history
  <1>4. CASE MarkHubTrue(c)
    <2>1. WorkersType'
      BY <1>0, <1>4, ReturnType DEF MarkHubTrue
    <2>2. faults' \in 0..MaxFaults
      BY <1>4, ProvisioningParameters DEF MarkHubTrue, TypeOK, CallFails, Fault
    <2>3. hubReady' \in [Channels -> BOOLEAN]
      BY <1>4 DEF MarkHubTrue, TypeOK
    <2> QED
      BY <1>4, <2>1, <2>2, <2>3
      DEF MarkHubTrue, TypeOK, WorkersType, azure, dispatcher, history
  <1>5. CASE FinalizeKind(c)
    BY <1>0, <1>5, TakeType DEF FinalizeKind, Stages
  <1>6. CASE SecretUnreadable(c)
    <2>1. faults' \in 0..MaxFaults /\ fins' \in [Channels -> SUBSET Actors]
          /\ strays' \subseteq Names
      BY <1>6, ProvisioningParameters
      DEF SecretUnreadable, TypeOK, CallFails, Fault
    <2> QED
      BY <1>6, <2>1 DEF SecretUnreadable, TypeOK, azure, workers, dispatcher
  <1>7. CASE DeleteHub(c)
    <2>1. WorkersType'
      BY <1>0, <1>7, GotoType, ReturnType DEF DeleteHub, Stages
    <2>2. faults' \in 0..MaxFaults
      BY <1>7, ProvisioningParameters DEF DeleteHub, TypeOK, CallFails, Fault
    <2>3. removing' \in [Names -> BOOLEAN]
      BY <1>7 DEF DeleteHub, TypeOK
    <2> QED
      BY <1>7, <2>1, <2>2, <2>3
      DEF DeleteHub, TypeOK, WorkersType, objects, dispatcher, history
  <1>8. CASE ClearFinalizer(c)
    <2>1. WorkersType'
      BY <1>0, <1>8, ReturnType DEF ClearFinalizer
    <2>2. faults' \in 0..MaxFaults /\ fins' \in [Channels -> SUBSET Actors]
      BY <1>8, ProvisioningParameters DEF ClearFinalizer, TypeOK, CallFails, Fault
    <2> QED
      BY <1>8, <2>1, <2>2
      DEF ClearFinalizer, TypeOK, WorkersType, azure, dispatcher, history
  <1> QED
    BY <1>1, <1>2, <1>3, <1>4, <1>5, <1>6, <1>7, <1>8 DEF Controller

\* The dispatcher's own steps.
LEMMA DispatcherType ==
  ASSUME TypeOK, NEW c \in Channels, Dispatcher(c),
         phase[c] # "absent" => hubName[c] \in Names
  PROVE  TypeOK'
PROOF
  <1>0. "disp" \in Actors
    BY DEF Actors
  <1>1. CASE CreateAzureSession(c)
    BY <1>0, <1>1, TakeType DEF CreateAzureSession, Stages
  <1>2. CASE CreateOrUpdateHub("disp", c)
    BY <1>0, <1>2, CreateOrUpdateHubType
  <1>3. CASE CloseSession(c)
    <2>1. faults' \in 0..MaxFaults
      BY <1>3, ProvisioningParameters DEF CloseSession, TypeOK, CallFails, Fault
    <2>2. /\ fins' \in [Channels -> SUBSET Actors] /\ cut' \subseteq Channels
          /\ session' \in [Channels -> Names \cup {None}]
      BY <1>3 DEF CloseSession, TypeOK
    <2> QED
      BY <1>3, <2>1, <2>2 DEF CloseSession, TypeOK, azure, workers, history
  <1> QED
    BY <1>1, <1>2, <1>3 DEF Dispatcher

LEMMA AzureType ==
  ASSUME TypeOK, NEW h \in Names, Azure(h)
  PROVE  TypeOK'
PROOF
  <1> USE DEF TypeOK, objects, workers, dispatcher, history, counters,
          Nothing, Creating, Namespace, Hub, Rule
  <1>1. CASE NamespaceCreated(h)
    BY <1>1 DEF NamespaceCreated
  <1>2. CASE HubActive(h)
    BY <1>2 DEF HubActive
  <1>3. CASE GroupRemoved(h)
    BY <1>3 DEF GroupRemoved
  <1> QED
    BY <1>1, <1>2, <1>3 DEF Azure

\* What users, the API server and a late status do.
User(c) ==
  \/ CreateChannel(c) \/ EditHubName(c) \/ DeleteChannel(c) \/ Collect(c)
  \/ StatusTakenBack(c)

LEMMA UserType ==
  ASSUME TypeOK, NEW c \in Channels, User(c),
         phase[c] # "absent" => hubName[c] \in Names
  PROVE  TypeOK'
PROOF
  <1> USE DEF objects, azure, workers, dispatcher, history, counters
  <1>1. changes' \in 0..MaxChanges
    BY ProvisioningParameters
    DEF User, CreateChannel, EditHubName, DeleteChannel, Collect,
        StatusTakenBack, CountChange, TypeOK
  <1>2. CASE CreateChannel(c)
    BY <1>1, <1>2 DEF CreateChannel, TypeOK
  <1>3. CASE EditHubName(c)
    BY <1>1, <1>3 DEF EditHubName, TypeOK
  <1>4. CASE DeleteChannel(c)
    BY <1>1, <1>4 DEF DeleteChannel, TypeOK
  <1>5. CASE Collect(c)
    BY <1>1, <1>5 DEF Collect, TypeOK
  <1>6. CASE StatusTakenBack(c)
    BY <1>6, ProvisioningParameters DEF StatusTakenBack, Fault, TypeOK
  <1> QED
    BY <1>2, <1>3, <1>4, <1>5, <1>6 DEF User

LEMMA RestartType ==
  ASSUME TypeOK, NEW a \in Actors, Restart(a)
  PROVE  TypeOK'
PROOF
  <1>1. WorkersType'
    BY DEF Restart, TypeOK, WorkersType, Stages
  <1>2. faults' \in 0..MaxFaults
    BY ProvisioningParameters DEF Restart, TypeOK, Fault
  <1>3. session' \in [Channels -> Names \cup {None}] /\ cut' \subseteq Channels
    BY DEF Restart, TypeOK, dispatcher
  <1> QED
    BY <1>1, <1>2, <1>3 DEF Restart, TypeOK, WorkersType, objects, azure, history

\* A step of a process on behalf of one channel.
Step(a, c) ==
  \/ a = "ctl" /\ Controller(c)
  \/ a = "disp" /\ Dispatcher(c)

\* Every step is one of these.
LEMMA NextCases ==
  Next => \/ \E a \in Actors, c \in Channels : Step(a, c)
          \/ \E c \in Channels : User(c)
          \/ \E h \in Names : Azure(h)
          \/ \E a \in Actors : Restart(a)
PROOF
  <1>1. ASSUME NEW c \in Channels, Controller(c)
        PROVE  \E a \in Actors : Step(a, c)
    <2>1. Step("ctl", c)
      BY <1>1 DEF Step
    <2> QED
      BY <2>1 DEF Actors
  <1>2. ASSUME NEW c \in Channels, Dispatcher(c)
        PROVE  \E a \in Actors : Step(a, c)
    <2>1. Step("disp", c)
      BY <1>2 DEF Step
    <2> QED
      BY <2>1 DEF Actors
  <1> QED
    BY <1>1, <1>2 DEF Next, User

-----------------------------------------------------------------------------
(***************************************************************************)
(* The inductive invariant, part by part.                                  *)
(***************************************************************************)

\* A channel with a finalizer exists, and a worker's channel has the
\* finalizer of its process.
Finalized ==
  \A c \in Channels :
    /\ fins[c] # {} => phase[c] # "absent"
    /\ \A a \in Actors : at[a][c] # "idle" => a \in fins[c]

\* The history of names has the name of a channel and that of a copy.
Recorded ==
  \A c \in Channels :
    /\ phase[c] # "absent" => hubName[c] \in Names /\ c \in named[hubName[c]]
    /\ \A a \in Actors :
         at[a][c] # "idle" => copy[a][c] \in Names /\ c \in named[copy[a][c]]

\* What a worker's stage tells of its channel, and a session of its own.
StagesFit ==
  \A c \in Channels :
    /\ at["ctl"][c] \in {"delete", "deleteWait"} => phase[c] = "deleting"
    /\ at["disp"][c] # "idle" => session[c] = None
    /\ at["ctl"][c] # "idle" /\ c \notin edited => copy["ctl"][c] = hubName[c]
    /\ session[c] # None => "disp" \in fins[c]
    /\ session[c] = None => c \notin cut
    /\ phase[c] = "absent" => ~hubReady[c]

Whole(h) == level[h] = Rule /\ ~removing[h]

\* A hub that one channel names stays whole while the channel lives and has a
\* session, from the moment its creation is complete until the worker that
\* created it returns, and while the channel lives and is ready.
HubsWhole ==
  \A c \in Channels :
    /\ phase[c] = "live" /\ session[c] # None /\ Alone(c, session[c])
         => c \notin cut /\ Whole(session[c])
    /\ at["ctl"][c] \in {"poll", "status"} /\ Alone(c, copy["ctl"][c])
         => Whole(copy["ctl"][c])
    /\ at["ctl"][c] = "status" /\ Alone(c, copy["ctl"][c])
         => active[copy["ctl"][c]]
    /\ phase[c] = "live" /\ hubReady[c] /\ c \notin edited /\ Alone(c, hubName[c])
         => Complete(hubName[c])

\* Channel c will see to the deletion of hub h: its finalizer keeps it, and a
\* worker that is deleting is deleting h and has not finished.
Claims(c, h) ==
  /\ phase[c] # "absent" /\ hubName[c] = h /\ "ctl" \in fins[c]
  /\ at["ctl"][c] \in {"delete", "deleteWait"} => copy["ctl"][c] = h
  /\ at["ctl"][c] = "deleteWait" => removing[h]

\* Every group is claimed by a channel, unless it is a stray.
GroupsClaimed ==
  \A h \in Names : level[h] # Nothing /\ h \notin strays =>
    \E c \in Channels : Claims(c, h)

-----------------------------------------------------------------------------
(* What a step of a process may change. *)

\* The worker of a on c is the only one that moves.  It begins with the
\* channel's name and keeps it until it returns.
WorkerMoves(a, c) ==
  /\ \A b \in Actors, d \in Channels : b # a \/ d # c =>
       at'[b][d] = at[b][d] /\ copy'[b][d] = copy[b][d]
  /\ at'[a][c] # "idle" =>
       copy'[a][c] = IF at[a][c] = "idle" THEN hubName[c] ELSE copy[a][c]

LEMMA MovesGoto ==
  ASSUME TypeOK, NEW a \in Actors, NEW c \in Channels, NEW stage,
         at[a][c] # "idle", Goto(a, c, stage)
  PROVE  WorkerMoves(a, c) /\ at'[a][c] = stage /\ copy' = copy
PROOF
  BY DEF TypeOK, Goto, WorkerMoves

LEMMA MovesReturn ==
  ASSUME TypeOK, NEW a \in Actors, NEW c \in Channels, Return(a, c)
  PROVE  WorkerMoves(a, c) /\ at'[a][c] = "idle"
PROOF
  BY DEF TypeOK, Return, WorkerMoves

LEMMA MovesTake ==
  ASSUME TypeOK, NEW a \in Actors, NEW c \in Channels, NEW stage,
         Take(a, c, stage)
  PROVE  WorkerMoves(a, c) /\ at'[a][c] \in {"idle", stage}
PROOF
  BY DEF TypeOK, Take, Connect, NoConnection, workers, WorkerMoves

\* The finalizers: only a's on c is touched, put on as the worker begins and
\* removed as it returns or before.
FinalizerMoves(a, c) ==
  /\ \A d \in Channels \ {c} : fins'[d] = fins[d]
  /\ \A b \in Actors \ {a} : b \in fins'[c] <=> b \in fins[c]
  /\ at'[a][c] # "idle" =>
       IF at[a][c] = "idle" THEN a \in fins'[c] ELSE fins'[c] = fins[c]
  /\ phase[c] = "absent" => fins'[c] \subseteq fins[c]

\* The hubs: nothing that is complete becomes less so, and a deletion is begun
\* by a worker of the controller for the name in its copy.
HubMoves(a, c) ==
  /\ UNCHANGED active
  /\ \A h \in Names : level[h] = Rule => level'[h] = Rule
  /\ \A h \in Names : removing'[h] # removing[h] =>
       /\ a = "ctl" /\ at[a][c] = "delete" /\ h = copy[a][c]
       /\ removing'[h] = (level[h] # Nothing)

\* The requests of CreateOrUpdateHub.
LEMMA CreateMoves ==
  ASSUME TypeOK, NEW a \in Actors, NEW c \in Channels, CreateOrUpdateHub(a, c)
  PROVE  /\ WorkerMoves(a, c) /\ FinalizerMoves(a, c) /\ HubMoves(a, c)
         /\ UNCHANGED <<objects, removing, cut, named, edited>>
         /\ at'[a][c] \in Stages \ {"status", "delete", "deleteWait"}
         /\ \A d \in Channels \ {c} : session'[d] = session[d]
PROOF
  <1>1. ASSUME NEW stage, NEW needs, NEW reaches,
               reaches \in Nothing..Rule,
               NEW next \in Stages \ {"idle", "status", "delete", "deleteWait"},
               stage # "idle", Request(a, c, stage, needs, reaches, next)
        PROVE  /\ WorkerMoves(a, c) /\ HubMoves(a, c)
               /\ UNCHANGED <<objects, removing, dispatcher, named, edited>>
               /\ at[a][c] # "idle"
               /\ at'[a][c] \in Stages \ {"status", "delete", "deleteWait"}
    <2>1. at[a][c] # "idle" /\ (Goto(a, c, next) \/ Return(a, c))
      BY <1>1 DEF Request
    <2>2. WorkerMoves(a, c) /\ at'[a][c] \in {next, "idle"}
      BY <2>1, MovesGoto, MovesReturn
    <2>3. \A h \in Names : level[h] = Rule => level'[h] = Rule
      BY <1>1 DEF Request, TypeOK, Nothing, Rule
    <2> QED
      BY <1>1, <2>1, <2>2, <2>3 DEF Request, HubMoves, Stages
  <1>2. CASE CreateGroup(a, c) \/ CreateNamespace(a, c) \/ CreateHub(a, c)
             \/ CreateRule(a, c)
    <2>1. /\ WorkerMoves(a, c) /\ HubMoves(a, c)
          /\ UNCHANGED <<objects, removing, dispatcher, named, edited>>
          /\ at[a][c] # "idle"
          /\ at'[a][c] \in Stages \ {"status", "delete", "deleteWait"}
      BY <1>1, <1>2
      DEF CreateGroup, CreateNamespace, CreateHub, CreateRule, Stages,
          Nothing, Group, Creating, Hub, Rule
    <2> QED
      BY <2>1 DEF FinalizerMoves, objects, dispatcher
  <1>3. CASE AwaitNamespace(a, c)
    <2>1. WorkerMoves(a, c) /\ at[a][c] # "idle" /\ at'[a][c] \in {"hub", "idle"}
      BY <1>3, MovesGoto, MovesReturn DEF AwaitNamespace
    <2> QED
      BY <1>3, <2>1 DEF AwaitNamespace, FinalizerMoves, HubMoves, objects,
         azure, dispatcher, history, Stages
  <1>4. CASE ListKeys(a, c)
    <2>1. WorkerMoves(a, c) /\ at[a][c] # "idle" /\ at'[a][c] \in {"poll", "idle"}
      BY <1>4, MovesGoto, MovesReturn DEF ListKeys
    <2>2. \A d \in Channels \ {c} : session'[d] = session[d]
      BY <1>4 DEF ListKeys, TypeOK
    <2> QED
      BY <1>4, <2>1, <2>2 DEF ListKeys, FinalizerMoves, HubMoves, objects,
         azure, history, Stages
  <1> QED
    BY <1>2, <1>3, <1>4 DEF CreateOrUpdateHub

\* Every step of a process.
LEMMA StepMoves ==
  ASSUME TypeOK, NEW a \in Actors, NEW c \in Channels, Step(a, c)
  PROVE  /\ WorkerMoves(a, c) /\ FinalizerMoves(a, c) /\ HubMoves(a, c)
         /\ UNCHANGED <<phase, hubName, named, edited>>
         /\ \A d \in Channels \ {c} :
              /\ session'[d] = session[d] /\ (d \in cut' <=> d \in cut)
              /\ hubReady'[d] = hubReady[d]
PROOF
  <1> USE DEF objects, azure, workers, dispatcher, history
  <1>1. ASSUME NEW stage, phase[c] # "absent", Take(a, c, stage), stage # "idle"
        PROVE  /\ WorkerMoves(a, c) /\ FinalizerMoves(a, c) /\ HubMoves(a, c)
               /\ UNCHANGED <<phase, hubName, hubReady, dispatcher, named, edited>>
    <2>1. WorkerMoves(a, c)
      BY <1>1, MovesTake
    <2>2. FinalizerMoves(a, c)
      BY <1>1 DEF Take, FinalizerMoves, TypeOK
    <2> QED
      BY <1>1, <2>1, <2>2 DEF Take, HubMoves
  <1>2. CASE CreateOrUpdateHub(a, c)
    BY <1>2, CreateMoves
  <1>3. CASE a = "ctl" /\ (CtlReconcile(c) \/ FinalizeKind(c))
    BY <1>1, <1>3 DEF CtlReconcile, FinalizeKind
  <1>4. CASE a = "disp" /\ CreateAzureSession(c)
    BY <1>1, <1>4 DEF CreateAzureSession
  <1>5. CASE a = "ctl" /\ PollHub(c)
    <2>1. WorkerMoves(a, c) /\ at[a][c] # "idle"
      BY <1>5, MovesGoto, MovesReturn DEF PollHub
    <2> QED
      BY <1>5, <2>1 DEF PollHub, FinalizerMoves, HubMoves
  <1>6. CASE a = "ctl" /\ MarkHubTrue(c)
    <2>1. WorkerMoves(a, c) /\ at'[a][c] = "idle"
      BY <1>6, MovesReturn DEF MarkHubTrue
    <2>2. \A d \in Channels \ {c} : hubReady'[d] = hubReady[d]
      BY <1>6 DEF MarkHubTrue, TypeOK
    <2> QED
      BY <1>6, <2>1, <2>2 DEF MarkHubTrue, FinalizerMoves, HubMoves
  <1>7. CASE a = "ctl" /\ SecretUnreadable(c)
    <2>1. WorkerMoves(a, c) /\ at'[a][c] = "idle"
      BY <1>7 DEF SecretUnreadable, WorkerMoves
    <2>2. FinalizerMoves(a, c)
      BY <1>7, <2>1 DEF SecretUnreadable, FinalizerMoves, TypeOK
    <2> QED
      BY <1>7, <2>1, <2>2 DEF SecretUnreadable, HubMoves
  <1>8. CASE a = "ctl" /\ DeleteHub(c)
    <2>1. WorkerMoves(a, c) /\ at[a][c] # "idle"
      BY <1>8, MovesGoto, MovesReturn DEF DeleteHub
    <2>2. HubMoves(a, c)
      BY <1>8 DEF DeleteHub, HubMoves, TypeOK
    <2> QED
      BY <1>8, <2>1, <2>2 DEF DeleteHub, FinalizerMoves
  <1>9. CASE a = "ctl" /\ ClearFinalizer(c)
    <2>1. WorkerMoves(a, c) /\ at'[a][c] = "idle"
      BY <1>9, MovesReturn DEF ClearFinalizer
    <2>2. FinalizerMoves(a, c)
      BY <1>9, <2>1 DEF ClearFinalizer, FinalizerMoves, TypeOK
    <2> QED
      BY <1>9, <2>1, <2>2 DEF ClearFinalizer, HubMoves
  <1>10. CASE a = "disp" /\ CloseSession(c)
    <2>1. WorkerMoves(a, c) /\ at'[a][c] = "idle"
      BY <1>10 DEF CloseSession, WorkerMoves
    <2>2. FinalizerMoves(a, c)
      BY <1>10, <2>1 DEF CloseSession, FinalizerMoves, TypeOK
    <2>3. \A d \in Channels \ {c} :
            session'[d] = session[d] /\ (d \in cut' <=> d \in cut)
      BY <1>10 DEF CloseSession, TypeOK
    <2> QED
      BY <1>10, <2>1, <2>2, <2>3 DEF CloseSession, HubMoves
  <1> QED
    BY <1>2, <1>3, <1>4, <1>5, <1>6, <1>7, <1>8, <1>9, <1>10
    DEF Step, Controller, Dispatcher

-----------------------------------------------------------------------------
(* Bookkeeping: TypeOK, Finalized and Recorded. *)

LEMMA FinalizedStep == TypeOK /\ Finalized /\ [Next]_vars => Finalized'
PROOF
  <1> SUFFICES ASSUME TypeOK, Finalized, [Next]_vars, NEW d \in Channels
               PROVE  /\ fins'[d] # {} => phase'[d] # "absent"
                      /\ \A b \in Actors : at'[b][d] # "idle" => b \in fins'[d]
    BY DEF Finalized
  <1>0. /\ fins[d] # {} => phase[d] # "absent"
        /\ \A b \in Actors : at[b][d] # "idle" => b \in fins[d]
        /\ fins \in [Channels -> SUBSET Actors]
        /\ phase \in [Channels -> {"absent", "live", "deleting"}]
    BY DEF Finalized, TypeOK
  <1>1. ASSUME NEW a \in Actors, NEW c \in Channels, Step(a, c)
        PROVE  /\ fins'[d] # {} => phase'[d] # "absent"
               /\ \A b \in Actors : at'[b][d] # "idle" => b \in fins'[d]
    <2>1. WorkerMoves(a, c) /\ FinalizerMoves(a, c) /\ UNCHANGED phase
      BY <1>1, StepMoves
    <2> QED
      BY <1>0, <2>1 DEF WorkerMoves, FinalizerMoves
  <1>2. ASSUME NEW c \in Channels, User(c)
        PROVE  /\ fins'[d] # {} => phase'[d] # "absent"
               /\ \A b \in Actors : at'[b][d] # "idle" => b \in fins'[d]
    BY <1>0, <1>2 DEF User, CreateChannel, EditHubName, DeleteChannel, Collect, StatusTakenBack,
       workers
  <1>3. CASE (\E h \in Names : Azure(h)) \/ UNCHANGED vars
    BY <1>0, <1>3 DEF Azure, NamespaceCreated, HubActive, GroupRemoved, objects,
       workers, vars
  <1>4. ASSUME NEW a \in Actors, Restart(a)
        PROVE  /\ fins'[d] # {} => phase'[d] # "absent"
               /\ \A b \in Actors : at'[b][d] # "idle" => b \in fins'[d]
    BY <1>0, <1>4 DEF Restart, objects, TypeOK
  <1> QED
    BY <1>1, <1>2, <1>3, <1>4, NextCases

LEMMA RecordedStep ==
  TypeOK /\ Finalized /\ Recorded /\ [Next]_vars => Recorded'
PROOF
  <1> DEFINE Rec(d) ==
        /\ phase[d] # "absent" => hubName[d] \in Names /\ d \in named[hubName[d]]
        /\ \A b \in Actors :
             at[b][d] # "idle" => copy[b][d] \in Names /\ d \in named[copy[b][d]]
  <1> SUFFICES ASSUME TypeOK, Finalized, Recorded, [Next]_vars,
                      NEW d \in Channels
               PROVE  Rec(d)'
    BY DEF Recorded
  <1>0. /\ Rec(d) /\ phase \in [Channels -> {"absent", "live", "deleting"}]
        /\ hubName \in [Channels -> Names \cup {None}]
        /\ named \in [Names -> SUBSET Channels]
    BY DEF Recorded, TypeOK
  <1>1. ASSUME NEW a \in Actors, NEW c \in Channels, Step(a, c) PROVE Rec(d)'
    <2>1. WorkerMoves(a, c) /\ UNCHANGED <<phase, hubName, named>>
      BY <1>1, StepMoves
    <2>2. at[a][c] = "idle" /\ at'[a][c] # "idle" => phase[c] # "absent"
      <3>1. FinalizerMoves(a, c)
        BY <1>1, StepMoves
      <3> QED
        BY <3>1 DEF FinalizerMoves, Finalized
    <2> QED
      BY <1>0, <2>1, <2>2 DEF WorkerMoves
  <1>2. ASSUME NEW c \in Channels, CreateChannel(c) \/ EditHubName(c)
        PROVE  Rec(d)'
    <2>1. /\ UNCHANGED <<at, copy>>
          /\ \A h \in Names : named[h] \subseteq named'[h]
          /\ hubName'[c] \in Names /\ c \in named'[hubName'[c]]
          /\ d # c => hubName'[d] = hubName[d] /\ phase'[d] = phase[d]
      BY <1>0, <1>2 DEF CreateChannel, EditHubName, workers
    <2> QED
      BY <1>0, <2>1
  <1>3. ASSUME NEW c \in Channels,
               DeleteChannel(c) \/ Collect(c) \/ StatusTakenBack(c)
        PROVE  Rec(d)'
    BY <1>0, <1>3 DEF DeleteChannel, Collect, StatusTakenBack, workers, history
  <1>4. CASE (\E h \in Names : Azure(h)) \/ UNCHANGED vars
    BY <1>0, <1>4 DEF Azure, NamespaceCreated, HubActive, GroupRemoved, objects,
       workers, history, vars
  <1>5. ASSUME NEW a \in Actors, Restart(a) PROVE Rec(d)'
    BY <1>0, <1>5 DEF Restart, objects, history, TypeOK
  <1> QED
    BY <1>1, <1>2, <1>3, <1>4, <1>5, NextCases DEF User

LEMMA TypeStep == TypeOK /\ Recorded /\ [Next]_vars => TypeOK'
PROOF
  <1> SUFFICES ASSUME TypeOK, Recorded, [Next]_vars PROVE TypeOK'
    OBVIOUS
  <1>0. \A c \in Channels : phase[c] # "absent" => hubName[c] \in Names
    BY DEF Recorded
  <1>1. ASSUME NEW a \in Actors, NEW c \in Channels, Step(a, c) PROVE TypeOK'
    BY <1>0, <1>1, ControllerType, DispatcherType DEF Step
  <1>2. ASSUME NEW c \in Channels, User(c) PROVE TypeOK'
    BY <1>0, <1>2, UserType
  <1>3. CASE UNCHANGED vars
    BY <1>3 DEF vars, objects, azure, workers, dispatcher, history, counters,
       TypeOK
  <1> QED
    BY <1>1, <1>2, <1>3, AzureType, RestartType, NextCases

Bookkeeping == TypeOK /\ Finalized /\ Recorded

LEMMA BookkeepingInvariant == Spec => []Bookkeeping
PROOF
  <1>1. Init => Bookkeeping
    BY TypeInit DEF Init, Bookkeeping, Finalized, Recorded
  <1>2. Bookkeeping /\ [Next]_vars => Bookkeeping'
    BY TypeStep, FinalizedStep, RecordedStep DEF Bookkeeping
  <1> QED
    BY <1>1, <1>2, PTL DEF Spec

\* Every reachable state is well typed, and no worker is without a name
\* (HubProvisioning's TypeOK; azurechannel.go 222-239, 298-331).
THEOREM TypeCorrect == Spec => []TypeOK
PROOF
  <1>1. Bookkeeping => TypeOK
    BY DEF Bookkeeping
  <1> QED
    BY <1>1, BookkeepingInvariant, PTL

-----------------------------------------------------------------------------
(* What the steps of each process depend on. *)

\* The controller: which stage follows which, and what was seen on the way.
StageMoves(c) ==
  LET h == copy["ctl"][c] IN
  /\ at'["ctl"][c] = "poll" =>
       at["ctl"][c] = "keys" /\ level[h] >= Rule /\ ~removing[h]
  /\ at'["ctl"][c] = "status" => at["ctl"][c] = "poll" /\ active[h]
  /\ at'["ctl"][c] = "delete" => at["ctl"][c] = "idle" /\ phase[c] = "deleting"
  /\ at'["ctl"][c] = "deleteWait" =>
       at["ctl"][c] = "delete" /\ removing'[h] = (level[h] # Nothing)
  /\ hubReady'[c] = hubReady[c] \/ at["ctl"][c] = "status"
  /\ session' = session /\ cut' = cut

LEMMA ControllerMoves ==
  ASSUME TypeOK, NEW c \in Channels, Controller(c)
  PROVE  StageMoves(c)
PROOF
  <1> USE DEF objects, azure, workers, dispatcher, history
  <1>0. "ctl" \in Actors
    BY DEF Actors
  <1>1. ASSUME NEW stage, Take("ctl", c, stage)
        PROVE  /\ at["ctl"][c] = "idle" /\ at'["ctl"][c] \in {"idle", stage}
               /\ hubReady' = hubReady /\ session' = session /\ cut' = cut
    BY <1>0, <1>1, MovesTake DEF Take
  <1>2. CASE CtlReconcile(c)
    BY <1>1, <1>2 DEF CtlReconcile, StageMoves
  <1>3. CASE FinalizeKind(c)
    BY <1>1, <1>3 DEF FinalizeKind, StageMoves
  <1>4. CASE CreateGroup("ctl", c) \/ CreateNamespace("ctl", c)
             \/ CreateHub("ctl", c) \/ CreateRule("ctl", c)
    <2>1. ASSUME NEW stage, NEW needs, NEW reaches, NEW next, stage # "idle",
                 Request("ctl", c, stage, needs, reaches, next)
          PROVE  /\ at'["ctl"][c] \in {"idle", next}
                 /\ hubReady' = hubReady /\ session' = session /\ cut' = cut
      <3>1. at["ctl"][c] # "idle" /\ (Goto("ctl", c, next) \/ Return("ctl", c))
        BY <2>1 DEF Request
      <3> QED
        BY <1>0, <2>1, <3>1, MovesGoto, MovesReturn DEF Request
    <2>2. /\ at'["ctl"][c] \in {"idle", "namespace", "wait", "rule", "keys"}
          /\ hubReady' = hubReady /\ session' = session /\ cut' = cut
      BY <1>4, <2>1 DEF CreateGroup, CreateNamespace, CreateHub, CreateRule
    <2> QED
      BY <2>2 DEF StageMoves
  <1>5. CASE AwaitNamespace("ctl", c)
    <2>1. at'["ctl"][c] \in {"hub", "idle"}
      BY <1>0, <1>5, MovesGoto, MovesReturn DEF AwaitNamespace
    <2> QED
      BY <1>5, <2>1 DEF AwaitNamespace, StageMoves
  <1>6. CASE ListKeys("ctl", c)
    <2>1. CASE Return("ctl", c)
      <3>1. at'["ctl"][c] = "idle"
        BY <1>0, <2>1, MovesReturn
      <3> QED
        BY <1>6, <3>1 DEF ListKeys, StageMoves
    <2>2. CASE Goto("ctl", c, "poll") /\ ~Return("ctl", c)
      <3>1. at'["ctl"][c] = "poll"
        BY <1>0, <1>6, <2>2, MovesGoto DEF ListKeys
      <3> QED
        BY <1>6, <2>2, <3>1 DEF ListKeys, StageMoves
    <2> QED
      BY <1>6, <2>1, <2>2 DEF ListKeys
  <1>7. CASE PollHub(c)
    <2>1. CASE Return("ctl", c)
      <3>1. at'["ctl"][c] = "idle"
        BY <1>0, <2>1, MovesReturn
      <3> QED
        BY <1>7, <3>1 DEF PollHub, StageMoves
    <2>2. CASE Goto("ctl", c, "status") /\ ~Return("ctl", c)
      <3>1. at'["ctl"][c] = "status"
        BY <1>0, <1>7, <2>2, MovesGoto DEF PollHub
      <3> QED
        BY <1>7, <2>2, <3>1 DEF PollHub, StageMoves
    <2> QED
      BY <1>7, <2>1, <2>2 DEF PollHub
  <1>8. CASE MarkHubTrue(c)
    <2>1. at'["ctl"][c] = "idle"
      BY <1>0, <1>8, MovesReturn DEF MarkHubTrue
    <2> QED
      BY <1>8, <2>1 DEF MarkHubTrue, StageMoves
  <1>9. CASE SecretUnreadable(c)
    BY <1>9 DEF SecretUnreadable, StageMoves
  <1>10. CASE DeleteHub(c)
    <2>1. CASE Return("ctl", c)
      <3>1. at'["ctl"][c] = "idle"
        BY <1>0, <2>1, MovesReturn
      <3> QED
        BY <1>10, <3>1 DEF DeleteHub, StageMoves
    <2>2. CASE ~Return("ctl", c)
      <3>1. at'["ctl"][c] = "deleteWait"
        BY <1>0, <1>10, <2>2, MovesGoto DEF DeleteHub
      <3>2. copy["ctl"][c] \in Names
        BY <1>0, <1>10 DEF DeleteHub, TypeOK
      <3> QED
        BY <1>10, <2>2, <3>1, <3>2 DEF DeleteHub, StageMoves, TypeOK
    <2> QED
      BY <2>1, <2>2
  <1>11. CASE ClearFinalizer(c)
    <2>1. at'["ctl"][c] = "idle"
      BY <1>0, <1>11, MovesReturn DEF ClearFinalizer
    <2> QED
      BY <1>11, <2>1 DEF ClearFinalizer, StageMoves
  <1> QED
    BY <1>2, <1>3, <1>4, <1>5, <1>6, <1>7, <1>8, <1>9, <1>10, <1>11
    DEF Controller, CreateOrUpdateHub

\* The dispatcher: a session is stored by a worker that returns and has seen
\* the whole hub, and forgotten where no worker is.
SessionMoves(c) ==
  /\ \/ session'[c] = session[c] /\ (c \in cut' <=> c \in cut)
     \/ /\ at["disp"][c] # "idle" /\ at'["disp"][c] = "idle"
        /\ session'[c] = copy["disp"][c] /\ cut' = cut
        /\ level[copy["disp"][c]] >= Rule /\ ~removing[copy["disp"][c]]
        /\ UNCHANGED <<fins, level, removing>>
     \/ /\ at'["disp"][c] = "idle" /\ session'[c] = None /\ c \notin cut'
  /\ at["disp"][c] = "idle" /\ at'["disp"][c] # "idle" => session[c] = None
  /\ hubReady' = hubReady

LEMMA DispatcherMoves ==
  ASSUME TypeOK, NEW c \in Channels, Dispatcher(c)
  PROVE  SessionMoves(c)
PROOF
  <1> USE DEF objects, azure, workers, dispatcher, history
  <1>0. "disp" \in Actors
    BY DEF Actors
  <1>1. CASE CreateAzureSession(c)
    BY <1>1 DEF CreateAzureSession, Take, SessionMoves
  <1>2. CASE CreateGroup("disp", c) \/ CreateNamespace("disp", c)
             \/ CreateHub("disp", c) \/ CreateRule("disp", c)
    <2>1. at["disp"][c] # "idle" /\ UNCHANGED <<hubReady, session, cut>>
      BY <1>2 DEF CreateGroup, CreateNamespace, CreateHub, CreateRule, Request
    <2> QED
      BY <2>1 DEF SessionMoves
  <1>3. CASE AwaitNamespace("disp", c)
    BY <1>3 DEF AwaitNamespace, SessionMoves
  <1>4. CASE ListKeys("disp", c)
    <2>1. CASE session' = session
      BY <1>4, <2>1 DEF ListKeys, SessionMoves
    <2>2. CASE session' # session
      <3>1. /\ session' = [session EXCEPT ![c] = copy["disp"][c]]
            /\ Return("disp", c) /\ level[copy["disp"][c]] >= Rule
            /\ ~removing[copy["disp"][c]]
        BY <1>4, <2>2 DEF ListKeys
      <3>2. at'["disp"][c] = "idle" /\ session'[c] = copy["disp"][c]
        BY <1>0, <3>1, MovesReturn DEF TypeOK
      <3> QED
        BY <1>4, <3>1, <3>2 DEF ListKeys, SessionMoves
    <2> QED
      BY <2>1, <2>2
  <1>5. CASE CloseSession(c)
    BY <1>5 DEF CloseSession, SessionMoves, TypeOK
  <1> QED
    BY <1>1, <1>2, <1>3, <1>4, <1>5 DEF Dispatcher, CreateOrUpdateHub

-----------------------------------------------------------------------------
(* StagesFit. *)

\* StagesFit, for one channel.
FitAt(d) ==
  /\ at["ctl"][d] \in {"delete", "deleteWait"} => phase[d] = "deleting"
  /\ at["disp"][d] # "idle" => session[d] = None
  /\ at["ctl"][d] # "idle" /\ d \notin edited => copy["ctl"][d] = hubName[d]
  /\ session[d] # None => "disp" \in fins[d]
  /\ session[d] = None => d \notin cut
  /\ phase[d] = "absent" => ~hubReady[d]

LEMMA StagesFitStep == Bookkeeping /\ StagesFit /\ [Next]_vars => StagesFit'
PROOF
  <1> SUFFICES ASSUME Bookkeeping, StagesFit, [Next]_vars, NEW d \in Channels
               PROVE  FitAt(d)'
    BY DEF StagesFit, FitAt
  <1>0. /\ FitAt(d) /\ TypeOK
        /\ fins[d] # {} => phase[d] # "absent"
        /\ at["ctl"][d] # "idle" => "ctl" \in fins[d]
        /\ at["disp"][d] # "idle" => "disp" \in fins[d] /\ copy["disp"][d] \in Names
        /\ "ctl" \in Actors /\ "disp" \in Actors
        /\ None \notin Names
    BY ProvisioningParameters
    DEF StagesFit, FitAt, Bookkeeping, Finalized, Recorded, Actors
  <1>1. ASSUME NEW c \in Channels, NEW a \in Actors, Step(a, c)
        PROVE  FitAt(d)'
    <2>0. /\ WorkerMoves(a, c) /\ FinalizerMoves(a, c)
          /\ UNCHANGED <<phase, hubName, named, edited>>
          /\ \A e \in Channels \ {c} :
               /\ session'[e] = session[e] /\ (e \in cut' <=> e \in cut)
               /\ hubReady'[e] = hubReady[e]
      BY <1>0, <1>1, StepMoves
    <2>1. CASE d # c
      BY <1>0, <2>0, <2>1 DEF WorkerMoves, FinalizerMoves, FitAt
    <2>2. CASE d = c /\ a = "ctl"
      <3>1. StageMoves(d)
        BY <1>0, <1>1, <2>2, ControllerMoves DEF Step
      <3>2. /\ at'["disp"][d] = at["disp"][d]
            /\ "disp" \in fins'[d] <=> "disp" \in fins[d]
        BY <1>0, <2>0, <2>2 DEF WorkerMoves, FinalizerMoves
      <3> QED
        BY <1>0, <2>0, <2>2, <3>1, <3>2 DEF StageMoves, WorkerMoves, FitAt
    <2>3. CASE d = c /\ a = "disp"
      <3>1. SessionMoves(d)
        BY <1>0, <1>1, <2>3, DispatcherMoves DEF Step
      <3>2. at'["ctl"][d] = at["ctl"][d] /\ copy'["ctl"][d] = copy["ctl"][d]
        BY <1>0, <2>0, <2>3 DEF WorkerMoves
      <3>3. session'[d] # None => "disp" \in fins'[d]
        <4>1. CASE CreateAzureSession(d)
          BY <1>0, <4>1 DEF CreateAzureSession, Take, TypeOK
        <4>2. CASE CreateOrUpdateHub("disp", d)
          <5>1. at["disp"][d] # "idle"
            BY <4>2 DEF CreateOrUpdateHub, CreateGroup, CreateNamespace,
               AwaitNamespace, CreateHub, CreateRule, ListKeys, Request
          <5>2. fins' = fins
            BY <1>0, <4>2, CreateMoves DEF objects
          <5> QED
            BY <1>0, <5>1, <5>2
        <4>3. CASE CloseSession(d)
          BY <1>0, <4>3 DEF CloseSession, TypeOK
        <4> QED
          BY <1>1, <2>3, <4>1, <4>2, <4>3 DEF Step, Dispatcher
      <3> QED
        BY <1>0, <2>0, <3>1, <3>2, <3>3 DEF SessionMoves, FitAt
    <2> QED
      BY <2>1, <2>2, <2>3 DEF Actors
  <1>2. ASSUME NEW c \in Channels, User(c) PROVE FitAt(d)'
    BY <1>0, <1>2 DEF User, CreateChannel, EditHubName, DeleteChannel, Collect, StatusTakenBack,
       workers, dispatcher, history, TypeOK, FitAt
  <1>3. CASE (\E h \in Names : Azure(h)) \/ UNCHANGED vars
    <2>1. /\ UNCHANGED <<objects, workers, session, edited>>
          /\ session[d] = None => (d \in cut' <=> d \in cut)
      BY <1>0, <1>3 DEF Azure, NamespaceCreated, HubActive, GroupRemoved,
         dispatcher, history, vars
    <2> QED
      BY <1>0, <2>1 DEF objects, workers, FitAt
  <1>4. ASSUME NEW a \in Actors, Restart(a) PROVE FitAt(d)'
    BY <1>0, <1>4 DEF Restart, objects, dispatcher, history, TypeOK, FitAt, Actors
  <1> QED
    BY <1>1, <1>2, <1>3, <1>4, NextCases

-----------------------------------------------------------------------------
(* Sessions on the channel's own hub. *)

\* The dispatcher's copy of a channel that was never edited, and the session
\* made from it, have the channel's hub name.
OwnHubAt(d) ==
  phase[d] # "absent" /\ d \notin edited =>
    /\ at["disp"][d] # "idle" => copy["disp"][d] = hubName[d]
    /\ session[d] # None => session[d] = hubName[d]

OwnHubs == \A c \in Channels : OwnHubAt(c)

LEMMA OwnHubsStep == Bookkeeping /\ StagesFit /\ OwnHubs /\ [Next]_vars => OwnHubs'
PROOF
  <1> SUFFICES ASSUME Bookkeeping, StagesFit, OwnHubs, [Next]_vars, NEW d \in Channels
               PROVE  OwnHubAt(d)'
    BY DEF OwnHubs
  <1>0. /\ OwnHubAt(d) /\ TypeOK
        /\ fins[d] # {} => phase[d] # "absent"
        /\ at["disp"][d] # "idle" => "disp" \in fins[d]
        /\ session[d] # None => "disp" \in fins[d]
        /\ "ctl" \in Actors /\ "disp" \in Actors
    BY DEF OwnHubs, StagesFit, Bookkeeping, Finalized, Actors
  <1>1. ASSUME NEW c \in Channels, NEW a \in Actors, Step(a, c)
        PROVE  OwnHubAt(d)'
    <2>0. /\ WorkerMoves(a, c) /\ UNCHANGED <<phase, hubName, edited>>
          /\ d # c => session'[d] = session[d]
      BY <1>0, <1>1, StepMoves
    <2>1. at'["disp"][d] # "idle" =>
            copy'["disp"][d] = IF at["disp"][d] = "idle" THEN hubName[d]
                                                         ELSE copy["disp"][d]
      BY <1>0, <2>0 DEF WorkerMoves
    <2>2. \/ session'[d] \in {session[d], None}
          \/ at["disp"][d] # "idle" /\ session'[d] = copy["disp"][d]
      <3>1. CASE d # c
        BY <2>0, <3>1
      <3>2. CASE d = c /\ a = "ctl"
        BY <1>0, <1>1, <3>2, ControllerMoves DEF Step, StageMoves
      <3>3. CASE d = c /\ a = "disp"
        BY <1>0, <1>1, <3>3, DispatcherMoves DEF Step, SessionMoves
      <3> QED
        BY <3>1, <3>2, <3>3 DEF Actors
    <2> QED
      BY <1>0, <2>0, <2>1, <2>2 DEF OwnHubAt
  <1>2. ASSUME NEW c \in Channels, User(c) PROVE OwnHubAt(d)'
    BY <1>0, <1>2 DEF User, CreateChannel, EditHubName, DeleteChannel, Collect, StatusTakenBack,
       workers, dispatcher, history, TypeOK, OwnHubAt
  <1>3. CASE (\E h \in Names : Azure(h)) \/ UNCHANGED vars
    <2>1. UNCHANGED <<objects, workers, session, edited>>
      BY <1>3 DEF Azure, NamespaceCreated, HubActive, GroupRemoved, dispatcher,
         history, vars
    <2> QED
      BY <1>0, <2>1 DEF objects, workers, OwnHubAt
  <1>4. ASSUME NEW a \in Actors, Restart(a) PROVE OwnHubAt(d)'
    BY <1>0, <1>4 DEF Restart, objects, dispatcher, history, TypeOK, OwnHubAt
  <1> QED
    BY <1>1, <1>2, <1>3, <1>4, NextCases

-----------------------------------------------------------------------------
(* HubsWhole. *)

\* A deletion is begun by a worker on a channel that is being deleted, for a
\* name that channel had: it is not the hub of another channel that is alone.
LEMMA WholeKept ==
  ASSUME Bookkeeping, StagesFit, NEW a \in Actors, NEW c \in Channels,
         Step(a, c), NEW d \in Channels, NEW h \in Names,
         Alone(d, h), Whole(h),
         c = d => ~(a = "ctl" /\ at["ctl"][c] = "delete")
  PROVE  Whole(h)' /\ active'[h] = active[h]
PROOF
  <1>1. HubMoves(a, c)
    BY StepMoves DEF Bookkeeping
  <1>2. removing'[h] = removing[h]
    BY <1>1 DEF HubMoves, Bookkeeping, Recorded, Alone
  <1> QED
    BY <1>1, <1>2 DEF HubMoves, Whole

\* HubsWhole, for one channel.
SessionAt(d) ==
  phase[d] = "live" /\ session[d] # None /\ Alone(d, session[d])
    => d \notin cut /\ Whole(session[d])
WorkerAt(d) ==
  /\ at["ctl"][d] \in {"poll", "status"} /\ Alone(d, copy["ctl"][d])
       => Whole(copy["ctl"][d])
  /\ at["ctl"][d] = "status" /\ Alone(d, copy["ctl"][d])
       => active[copy["ctl"][d]]
ReadyAt(d) ==
  phase[d] = "live" /\ hubReady[d] /\ d \notin edited /\ Alone(d, hubName[d])
    => Complete(hubName[d])

LEMMA HubsWholeEverywhere ==
  HubsWhole <=> \A d \in Channels : SessionAt(d) /\ WorkerAt(d) /\ ReadyAt(d)
PROOF
  BY DEF HubsWhole, SessionAt, WorkerAt, ReadyAt

LEMMA HubsWholeProcess ==
  ASSUME Bookkeeping, StagesFit, HubsWhole,
         NEW a \in Actors, NEW c \in Channels, Step(a, c), NEW d \in Channels
  PROVE  SessionAt(d)' /\ WorkerAt(d)' /\ ReadyAt(d)'
PROOF
  <1>0. /\ TypeOK /\ SessionAt(d) /\ WorkerAt(d) /\ ReadyAt(d) /\ FitAt(d)
        /\ phase[d] # "absent" => hubName[d] \in Names
        /\ at["ctl"][d] # "idle" => copy["ctl"][d] \in Names
        /\ at["disp"][d] # "idle" => copy["disp"][d] \in Names
        /\ session[d] # None => session[d] \in Names
        /\ "ctl" \in Actors /\ "disp" \in Actors
    BY HubsWholeEverywhere
    DEF Bookkeeping, Recorded, StagesFit, FitAt, Actors, TypeOK
  <1>1. /\ WorkerMoves(a, c) /\ HubMoves(a, c)
        /\ UNCHANGED <<phase, hubName, named, edited>>
        /\ c # d => /\ session'[d] = session[d] /\ (d \in cut' <=> d \in cut)
                    /\ hubReady'[d] = hubReady[d]
    BY <1>0, StepMoves
  <1>2. ASSUME NEW h \in Names, named[h] \subseteq {d}, level[h] = Rule,
               ~removing[h], c = d /\ a = "ctl" => at["ctl"][d] # "delete"
        PROVE  level'[h] = Rule /\ ~removing'[h] /\ active'[h] = active[h]
    BY <1>2, WholeKept DEF Alone, Whole
  <1>3. SessionAt(d)'
    <2> SUFFICES ASSUME phase[d] = "live", session'[d] # None,
                        named[session'[d]] \subseteq {d}
                 PROVE  /\ d \notin cut' /\ level'[session'[d]] = Rule
                        /\ ~removing'[session'[d]]
      BY <1>1 DEF SessionAt, Alone, Whole
    <2>0. at["ctl"][d] # "delete"
      BY <1>0 DEF FitAt
    <2>1. CASE session'[d] = session[d] /\ (d \in cut' <=> d \in cut)
      BY <1>0, <1>2, <2>0, <2>1 DEF SessionAt, Alone, Whole
    <2>2. CASE ~(session'[d] = session[d] /\ (d \in cut' <=> d \in cut))
      <3>1. SessionMoves(d)
        BY <1>0, <1>1, <2>2, ControllerMoves, DispatcherMoves
        DEF Step, StageMoves
      <3> QED
        BY <1>0, <2>2, <3>1 DEF SessionMoves, FitAt, TypeOK, Rule
    <2> QED
      BY <2>1, <2>2
  <1>4. WorkerAt(d)'
    <2> SUFFICES ASSUME at'["ctl"][d] \in {"poll", "status"},
                        named[copy'["ctl"][d]] \subseteq {d}
                 PROVE  /\ level'[copy'["ctl"][d]] = Rule
                        /\ ~removing'[copy'["ctl"][d]]
                        /\ at'["ctl"][d] = "status" => active'[copy'["ctl"][d]]
      BY <1>1 DEF WorkerAt, Alone, Whole
    <2>1. CASE c # d \/ a # "ctl"
      <3>1. at'["ctl"][d] = at["ctl"][d] /\ copy'["ctl"][d] = copy["ctl"][d]
        BY <1>0, <1>1, <2>1 DEF WorkerMoves
      <3> QED
        BY <1>0, <1>2, <2>1, <3>1 DEF WorkerAt, Alone, Whole
    <2>2. CASE c = d /\ a = "ctl"
      <3>1. StageMoves(d)
        BY <1>0, <1>1, <2>2, ControllerMoves DEF Step
      <3>2. at["ctl"][d] \in {"keys", "poll"} /\ copy'["ctl"][d] = copy["ctl"][d]
        BY <1>1, <2>2, <3>1 DEF StageMoves, WorkerMoves
      <3>3. level[copy["ctl"][d]] = Rule /\ ~removing[copy["ctl"][d]]
        BY <1>0, <3>1, <3>2 DEF StageMoves, WorkerAt, Alone, Whole, TypeOK, Rule
      <3>4. at'["ctl"][d] = "status" => active[copy["ctl"][d]]
        BY <3>1 DEF StageMoves
      <3> QED
        BY <1>0, <1>2, <2>2, <3>2, <3>3, <3>4
    <2> QED
      BY <2>1, <2>2
  <1>5. ReadyAt(d)'
    <2> SUFFICES ASSUME phase[d] = "live", hubReady'[d], d \notin edited,
                        named[hubName[d]] \subseteq {d}
                 PROVE  /\ level'[hubName[d]] = Rule /\ active'[hubName[d]]
                        /\ ~removing'[hubName[d]]
      BY <1>1 DEF ReadyAt, Alone, Complete
    <2>1. level[hubName[d]] = Rule /\ active[hubName[d]] /\ ~removing[hubName[d]]
      <3>1. CASE hubReady[d]
        BY <1>0, <3>1 DEF ReadyAt, Alone, Complete
      <3>2. CASE ~hubReady[d]
        <4>1. c = d /\ a = "ctl"
          BY <1>0, <1>1, <3>2, DispatcherMoves DEF Step, SessionMoves
        <4>2. at["ctl"][d] = "status"
          BY <1>0, <1>1, <3>2, <4>1, ControllerMoves DEF Step, StageMoves
        <4> QED
          BY <1>0, <4>2 DEF WorkerAt, FitAt, Alone, Whole
      <3> QED
        BY <3>1, <3>2
    <2>2. at["ctl"][d] # "delete"
      BY <1>0 DEF FitAt
    <2> QED
      BY <1>0, <1>2, <2>1, <2>2
  <1> QED
    BY <1>3, <1>4, <1>5

\* Users only make a hub's name less one channel's own.
LEMMA HubsWholeUser ==
  ASSUME Bookkeeping, StagesFit, HubsWhole,
         NEW c \in Channels, User(c), NEW d \in Channels
  PROVE  SessionAt(d)' /\ WorkerAt(d)' /\ ReadyAt(d)'
PROOF
  <1>0. /\ TypeOK /\ SessionAt(d) /\ WorkerAt(d) /\ ReadyAt(d) /\ FitAt(d)
        /\ phase[d] # "absent" => hubName[d] \in Names
        /\ at["ctl"][d] # "idle" => copy["ctl"][d] \in Names
        /\ session[d] # None => session[d] \in Names
        /\ phase[d] = "absent" => fins[d] = {} /\ at["ctl"][d] = "idle"
        /\ "ctl" \in Actors
    BY HubsWholeEverywhere
    DEF Bookkeeping, Recorded, Finalized, StagesFit, FitAt, Actors, TypeOK
  <1>1. /\ UNCHANGED <<azure, workers, dispatcher>>
        /\ \A h \in Names : named[h] \subseteq named'[h]
    <2>1. CASE CreateChannel(c)
      BY <1>0, <2>1 DEF CreateChannel, TypeOK
    <2>2. CASE EditHubName(c)
      BY <1>0, <2>2 DEF EditHubName, TypeOK
    <2>3. CASE DeleteChannel(c) \/ Collect(c) \/ StatusTakenBack(c)
      BY <2>3 DEF DeleteChannel, Collect, StatusTakenBack, history
    <2> QED
      BY <2>1, <2>2, <2>3 DEF User
  <1>2. phase'[d] = "live" =>
          \/ hubName'[d] = hubName[d] /\ phase[d] = "live"
             /\ (hubReady'[d] => hubReady[d]) /\ (d \in edited' <=> d \in edited)
          \/ session[d] = None /\ ~hubReady'[d]
          \/ d \in edited' /\ phase[d] = "live"
    <2>1. CASE d # c
      BY <1>0, <2>1 DEF User, CreateChannel, EditHubName, DeleteChannel,
         Collect, StatusTakenBack, history, TypeOK
    <2>2. CASE d = c /\ CreateChannel(c)
      BY <1>0, <2>2 DEF CreateChannel, FitAt
    <2>3. CASE d = c /\ EditHubName(c)
      BY <1>0, <2>3 DEF EditHubName
    <2>4. CASE d = c /\ (DeleteChannel(c) \/ Collect(c) \/ StatusTakenBack(c))
      BY <1>0, <2>4 DEF DeleteChannel, Collect, StatusTakenBack, history, TypeOK
    <2> QED
      BY <2>1, <2>2, <2>3, <2>4 DEF User
  <1>3. SessionAt(d)'
    BY <1>0, <1>1, <1>2 DEF SessionAt, Alone, Whole, azure, dispatcher
  <1>4. WorkerAt(d)'
    BY <1>0, <1>1 DEF WorkerAt, Alone, Whole, azure, workers
  <1>5. ReadyAt(d)'
    BY <1>0, <1>1, <1>2 DEF ReadyAt, Alone, Complete, azure
  <1> QED
    BY <1>3, <1>4, <1>5

LEMMA HubsWholeStep ==
  Bookkeeping /\ StagesFit /\ HubsWhole /\ [Next]_vars => HubsWhole'
PROOF
  <1> SUFFICES ASSUME Bookkeeping, StagesFit, HubsWhole, [Next]_vars,
                      NEW d \in Channels
               PROVE  SessionAt(d)' /\ WorkerAt(d)' /\ ReadyAt(d)'
    BY DEF HubsWhole, SessionAt, WorkerAt, ReadyAt
  <1>0. /\ TypeOK /\ SessionAt(d) /\ WorkerAt(d) /\ ReadyAt(d)
        /\ phase[d] # "absent" => hubName[d] \in Names
        /\ at["ctl"][d] # "idle" => copy["ctl"][d] \in Names
        /\ session[d] # None => session[d] \in Names
        /\ "ctl" \in Actors
    BY HubsWholeEverywhere DEF Bookkeeping, Recorded, Actors, TypeOK
  <1>1. ASSUME NEW a \in Actors, NEW c \in Channels, Step(a, c)
        PROVE  SessionAt(d)' /\ WorkerAt(d)' /\ ReadyAt(d)'
    BY <1>1, HubsWholeProcess
  <1>2. ASSUME NEW c \in Channels, User(c)
        PROVE  SessionAt(d)' /\ WorkerAt(d)' /\ ReadyAt(d)'
    BY <1>2, HubsWholeUser
  \* A group that goes is not whole: its deletion had begun.
  <1>3. ASSUME NEW h \in Names, Azure(h)
        PROVE  SessionAt(d)' /\ WorkerAt(d)' /\ ReadyAt(d)'
    <2>1. /\ UNCHANGED <<objects, workers, session, named, edited>>
          /\ \A g \in Names : level[g] = Rule /\ ~removing[g] =>
               /\ level'[g] = Rule /\ ~removing'[g]
               /\ active[g] => active'[g]
          /\ d \in cut' => d \in cut \/ removing[session[d]]
      BY <1>0, <1>3 DEF Azure, NamespaceCreated, HubActive, GroupRemoved,
         dispatcher, history, TypeOK, Creating, Rule
    <2>2. SessionAt(d)'
      BY <1>0, <2>1 DEF SessionAt, Alone, Whole, objects
    <2>3. WorkerAt(d)'
      BY <1>0, <2>1 DEF WorkerAt, Alone, Whole, workers
    <2>4. ReadyAt(d)'
      BY <1>0, <2>1 DEF ReadyAt, Alone, Complete, objects
    <2> QED
      BY <2>2, <2>3, <2>4
  <1>4. ASSUME NEW a \in Actors, Restart(a)
        PROVE  SessionAt(d)' /\ WorkerAt(d)' /\ ReadyAt(d)'
    <2>1. /\ UNCHANGED <<objects, azure, history>>
          /\ \/ session'[d] = None
             \/ session'[d] = session[d] /\ (d \in cut' <=> d \in cut)
          /\ \/ at'["ctl"][d] = "idle"
             \/ at'["ctl"][d] = at["ctl"][d] /\ copy'["ctl"][d] = copy["ctl"][d]
      BY <1>0, <1>4 DEF Restart, dispatcher, TypeOK
    <2>2. SessionAt(d)'
      BY <1>0, <2>1 DEF SessionAt, Alone, Whole, objects, azure, history
    <2>3. WorkerAt(d)'
      BY <1>0, <2>1 DEF WorkerAt, Alone, Whole, azure, history
    <2>4. ReadyAt(d)'
      BY <1>0, <2>1 DEF ReadyAt, Alone, Complete, objects, azure, history
    <2> QED
      BY <2>2, <2>3, <2>4
  <1>5. CASE UNCHANGED vars
    BY <1>0, <1>5 DEF vars, objects, azure, workers, dispatcher, history,
       SessionAt, WorkerAt, ReadyAt, Alone, Whole, Complete
  <1> QED
    BY <1>1, <1>2, <1>3, <1>4, <1>5, NextCases

-----------------------------------------------------------------------------
(* GroupsClaimed. *)

\* A process brings a group into being only by CreateGroup, and takes the
\* controller's finalizer away for two reasons.
ClaimMoves(a, c) ==
  /\ strays \subseteq strays'
  /\ \A h \in Names : level'[h] # Nothing =>
       \/ level[h] # Nothing
       \/ CreateGroup(a, c) /\ h = copy[a][c]
  /\ "ctl" \in fins[c] /\ "ctl" \notin fins'[c] =>
       \/ hubName[c] \in strays'
       \/ at["ctl"][c] = "deleteWait" /\ ~removing[copy["ctl"][c]]

LEMMA ClaimStep ==
  ASSUME TypeOK, NEW a \in Actors, NEW c \in Channels, Step(a, c)
  PROVE  ClaimMoves(a, c)
PROOF
  <1> USE DEF objects, azure, workers, dispatcher, history
  <1>1. ASSUME NEW stage, Take(a, c, stage) PROVE ClaimMoves(a, c)
    BY <1>1 DEF Take, ClaimMoves, TypeOK
  <1>2. CASE CreateGroup(a, c)
    <2>1. level' \in {level, [level EXCEPT ![copy[a][c]] =
                               IF @ < Group THEN Group ELSE @]}
          /\ fins' = fins
      BY <1>2 DEF CreateGroup, Request
    <2>2. strays \subseteq strays'
      BY <1>2 DEF CreateGroup
    <2> QED
      BY <1>2, <2>1, <2>2 DEF ClaimMoves, TypeOK, Nothing, Group
  <1>3. ASSUME NEW stage, NEW needs \in Group..Rule, NEW reaches \in Group..Rule,
               NEW next, Request(a, c, stage, needs, reaches, next),
               UNCHANGED strays
        PROVE  ClaimMoves(a, c)
    <2>1. /\ level' = level \/ (level[copy[a][c]] >= needs
             /\ level' = [level EXCEPT ![copy[a][c]] =
                            IF @ < reaches THEN reaches ELSE @])
          /\ fins' = fins
      BY <1>3 DEF Request
    <2> QED
      BY <1>3, <2>1 DEF ClaimMoves, TypeOK, Nothing, Group, Rule
  <1>4. CASE CreateNamespace(a, c) \/ CreateHub(a, c) \/ CreateRule(a, c)
    BY <1>3, <1>4 DEF CreateNamespace, CreateHub, CreateRule, Group, Creating,
       Namespace, Hub, Rule
  <1>5. CASE AwaitNamespace(a, c) \/ ListKeys(a, c)
    BY <1>5 DEF AwaitNamespace, ListKeys, ClaimMoves
  <1>6. CASE a = "ctl" /\ (CtlReconcile(c) \/ FinalizeKind(c))
    BY <1>1, <1>6 DEF CtlReconcile, FinalizeKind
  <1>7. CASE a = "ctl" /\ (PollHub(c) \/ MarkHubTrue(c) \/ DeleteHub(c))
    BY <1>7 DEF PollHub, MarkHubTrue, DeleteHub, ClaimMoves
  <1>8. CASE a = "ctl" /\ SecretUnreadable(c)
    BY <1>8 DEF SecretUnreadable, ClaimMoves
  <1>9. CASE a = "ctl" /\ ClearFinalizer(c)
    BY <1>9 DEF ClearFinalizer, ClaimMoves
  <1>10. CASE a = "disp" /\ CreateAzureSession(c)
    BY <1>1, <1>10 DEF CreateAzureSession
  <1>11. CASE a = "disp" /\ CloseSession(c)
    BY <1>11 DEF CloseSession, ClaimMoves, TypeOK
  <1> QED
    BY <1>2, <1>4, <1>5, <1>6, <1>7, <1>8, <1>9, <1>10, <1>11
    DEF Step, Controller, Dispatcher, CreateOrUpdateHub

LEMMA GroupsClaimedProcess ==
  ASSUME Bookkeeping, GroupsClaimed, NEW a \in Actors, NEW c \in Channels,
         Step(a, c), NEW h \in Names, level'[h] # Nothing, h \notin strays'
  PROVE  \E e \in Channels : Claims(e, h)'
PROOF
  <1>0. /\ TypeOK /\ "ctl" \in Actors /\ "disp" \in Actors
        /\ \A e \in Channels : at["ctl"][e] # "idle" => "ctl" \in fins[e]
        /\ \A e \in Channels : fins[e] # {} => phase[e] # "absent"
    BY DEF Bookkeeping, Finalized, Actors
  <1>1. /\ WorkerMoves(a, c) /\ FinalizerMoves(a, c) /\ HubMoves(a, c)
        /\ ClaimMoves(a, c) /\ UNCHANGED <<phase, hubName>>
    BY <1>0, StepMoves, ClaimStep
  <1>2. CASE level[h] # Nothing
    <2>1. PICK e \in Channels : Claims(e, h)
      BY <1>1, <1>2 DEF ClaimMoves, GroupsClaimed
    <2>2. removing[h] => removing'[h]
      BY <1>0, <1>1, <1>2 DEF HubMoves, TypeOK
    <2>3. CASE e # c \/ a # "ctl"
      <3>1. /\ at'["ctl"][e] = at["ctl"][e] /\ copy'["ctl"][e] = copy["ctl"][e]
            /\ "ctl" \in fins'[e]
        BY <1>0, <1>1, <2>1, <2>3 DEF WorkerMoves, FinalizerMoves, Claims
      <3>2. Claims(e, h)'
        BY <1>1, <2>1, <2>2, <3>1 DEF Claims
      <3> QED
        BY <3>2
    <2>4. CASE e = c /\ a = "ctl"
      <3>1. StageMoves(e)
        BY <1>0, <2>4, ControllerMoves DEF Step
      <3>2. "ctl" \in fins'[e]
        BY <1>1, <2>1, <2>4 DEF ClaimMoves, Claims
      <3>3. at'["ctl"][e] \in {"delete", "deleteWait"} => copy'["ctl"][e] = h
        BY <1>1, <2>1, <2>4, <3>1 DEF StageMoves, WorkerMoves, Claims
      <3>4. at'["ctl"][e] = "deleteWait" => removing'[h]
        BY <1>2, <2>1, <3>1 DEF StageMoves, Claims
      <3>5. Claims(e, h)'
        BY <1>1, <2>1, <3>2, <3>3, <3>4 DEF Claims
      <3> QED
        BY <3>5
    <2> QED
      BY <2>3, <2>4
  \* A new group: the worker that creates it is the controller's, for the name
  \* of its channel.
  <1>3. CASE level[h] = Nothing
    <2>1. CreateGroup(a, c) /\ h = copy[a][c]
      BY <1>1, <1>3 DEF ClaimMoves
    <2>2. a = "ctl" /\ h = hubName[c]
      BY <1>0, <1>3, <2>1 DEF CreateGroup
    <2>3. at["ctl"][c] = "group" /\ fins' = fins
      BY <2>1, <2>2 DEF CreateGroup, Request, objects
    <2>4. at'["ctl"][c] \notin {"delete", "deleteWait"}
      <3>1. CreateOrUpdateHub(a, c)
        BY <2>1 DEF CreateOrUpdateHub
      <3> QED
        BY <1>0, <2>2, <3>1, CreateMoves
    <2>5. Claims(c, h)'
      BY <1>0, <1>1, <2>2, <2>3, <2>4 DEF Claims
    <2> QED
      BY <2>5
  <1> QED
    BY <1>2, <1>3

LEMMA GroupsClaimedStep ==
  Bookkeeping /\ GroupsClaimed /\ [Next]_vars => GroupsClaimed'
PROOF
  <1> SUFFICES ASSUME Bookkeeping, GroupsClaimed, [Next]_vars,
                      NEW h \in Names, level'[h] # Nothing, h \notin strays'
               PROVE  \E e \in Channels : Claims(e, h)'
    BY DEF GroupsClaimed
  <1>0. TypeOK /\ "ctl" \in Actors
    BY DEF Bookkeeping, Actors
  <1>1. ASSUME NEW a \in Actors, NEW c \in Channels, Step(a, c)
        PROVE  \E e \in Channels : Claims(e, h)'
    BY <1>1, GroupsClaimedProcess
  <1>2. ASSUME NEW c \in Channels, User(c)
        PROVE  \E e \in Channels : Claims(e, h)'
    <2>1. /\ UNCHANGED <<fins, level, removing, at, copy>>
          /\ strays \subseteq strays'
      BY <1>0, <1>2 DEF User, CreateChannel, EditHubName, DeleteChannel, Collect, StatusTakenBack,
         azure, workers, history
    <2>2. PICK e \in Channels : Claims(e, h)
      BY <2>1 DEF GroupsClaimed
    <2>3. phase'[e] # "absent" /\ hubName'[e] = h
      BY <1>0, <1>2, <2>2 DEF User, CreateChannel, EditHubName, DeleteChannel,
         Collect, StatusTakenBack, Claims, TypeOK
    <2>4. Claims(e, h)'
      BY <2>1, <2>2, <2>3 DEF Claims
    <2> QED
      BY <2>4
  <1>3. ASSUME NEW g \in Names, Azure(g)
        PROVE  \E e \in Channels : Claims(e, h)'
    <2>1. /\ UNCHANGED <<objects, workers>>
          /\ level[h] # Nothing /\ h \notin strays
          /\ removing'[h] = removing[h]
      BY <1>0, <1>3 DEF Azure, NamespaceCreated, HubActive, GroupRemoved,
         history, TypeOK, Nothing, Creating, Namespace
    <2>2. PICK e \in Channels : Claims(e, h)
      BY <2>1 DEF GroupsClaimed
    <2>3. Claims(e, h)'
      BY <2>1, <2>2 DEF Claims, objects, workers
    <2> QED
      BY <2>3
  <1>4. ASSUME NEW a \in Actors, Restart(a)
        PROVE  \E e \in Channels : Claims(e, h)'
    <2>1. UNCHANGED <<objects, azure, history>>
      BY <1>4 DEF Restart
    <2>2. PICK e \in Channels : Claims(e, h)
      BY <2>1 DEF GroupsClaimed, azure, history
    <2>3. \/ at'["ctl"][e] = "idle"
          \/ at'["ctl"][e] = at["ctl"][e] /\ copy'["ctl"][e] = copy["ctl"][e]
      BY <1>0, <1>4 DEF Restart, TypeOK
    <2>4. Claims(e, h)'
      BY <2>1, <2>2, <2>3 DEF Claims, objects, azure
    <2> QED
      BY <2>4
  <1>5. CASE UNCHANGED vars
    <2>1. UNCHANGED <<objects, azure, workers, history>>
      BY <1>5 DEF vars
    <2>2. PICK e \in Channels : Claims(e, h)
      BY <2>1 DEF GroupsClaimed, azure, history
    <2>3. Claims(e, h)'
      BY <2>1, <2>2 DEF Claims, objects, azure, workers
    <2> QED
      BY <2>3
  <1> QED
    BY <1>1, <1>2, <1>3, <1>4, <1>5, NextCases

-----------------------------------------------------------------------------
(***************************************************************************)
(* The theorems.                                                           *)
(***************************************************************************)

\* The inductive invariant.
IInv == Bookkeeping /\ StagesFit /\ OwnHubs /\ HubsWhole /\ GroupsClaimed

LEMMA IInvInit == Init => IInv
PROOF
  <1> SUFFICES ASSUME Init PROVE IInv
    OBVIOUS
  <1>1. Bookkeeping
    BY TypeInit DEF Init, Bookkeeping, Finalized, Recorded
  <1>2. StagesFit /\ OwnHubs /\ HubsWhole
    BY DEF Init, StagesFit, OwnHubs, OwnHubAt, HubsWhole, Actors
  <1>3. GroupsClaimed
    BY DEF Init, GroupsClaimed
  <1> QED
    BY <1>1, <1>2, <1>3 DEF IInv

LEMMA IInvInvariant == Spec => []IInv
PROOF
  <1>1. Bookkeeping /\ [Next]_vars => Bookkeeping'
    BY TypeStep, FinalizedStep, RecordedStep DEF Bookkeeping
  <1>2. IInv /\ [Next]_vars => IInv'
    BY <1>1, StagesFitStep, OwnHubsStep, HubsWholeStep, GroupsClaimedStep DEF IInv
  <1> QED
    BY <1>2, IInvInit, PTL DEF Spec

\* For every number of channels, workers and failures: HubReady of a live
\* channel that has its hub to itself says that the whole hub exists and is
\* active (controller/azurechannel.go 298-330, util.go 79-171).
THEOREM ReadyHubsComplete == Spec => []HubReadyComplete
PROOF
  <1>1. IInv => HubReadyComplete
    BY DEF IInv, HubsWhole, HubReadyComplete
  <1> QED
    BY <1>1, IInvInvariant, PTL

\* The session of a live channel whose hub no other channel named has the keys
\* of that hub as it is (dispatcher.go 298-322, util.go 155-187).
THEOREM SessionsKeyed == Spec => []SessionKeyed
PROOF
  <1>1. IInv => SessionKeyed
    BY DEF IInv, HubsWhole, Whole, SessionKeyed
  <1> QED
    BY <1>1, IInvInvariant, PTL

\* A channel whose hub name was never edited has its session on that hub, also
\* where the name of the channel was used before with another hub
\* (dispatcher.go 298-322, reconciler/dispatcher/azurechannel.go 163-192).
THEOREM SessionsOnOwnHubs == Spec => []SessionOnOwnHub
PROOF
  <1>1. IInv => SessionOnOwnHub
    BY DEF IInv, OwnHubs, OwnHubAt, SessionOnOwnHub
  <1> QED
    BY <1>1, IInvInvariant, PTL

\* Every resource group belongs to a channel that exists, strays apart: no
\* interleaving of creations, failed deletions and restarts forgets one
\* (controller/azurechannel.go 222-239, util.go 173-187).
THEOREM GroupsAlwaysOwned == Spec => []GroupsOwned
PROOF
  <1>1. IInv => GroupsOwned
    BY DEF IInv, GroupsClaimed, Claims, GroupsOwned
  <1> QED
    BY <1>1, IInvInvariant, PTL

=============================================================================
