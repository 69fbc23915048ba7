--------------------------- MODULE HubProvisioning ---------------------------
(***************************************************************************)
(* What becomes of the event hubs in Azure: several channels whose hubs    *)
(* the controller creates, waits for and deletes (ReconcileKind and        *)
(* FinalizeKind), and to which the dispatcher connects by the same         *)
(* CreateOrUpdateHub.  That call is five requests to Azure, each of which  *)
(* may fail, before or after it took effect, and between any two of them   *)
(* the other process, a worker on another channel with the same hub name,  *)
(* or a user may act.                                                      *)
(*                                                                         *)
(* A channel is queued while there is something to do for it, and what a   *)
(* worker starts from is current: queues, lagging caches and conflicts are *)
(* in ChannelLifecycle.  What they may do to the object, take HubReady     *)
(* back (a status written after a conflict is that of an older copy),      *)
(* happens here as well, but no status goes to a successor of the name.    *)
(* The region is left out.                                                 *)
(***************************************************************************)
EXTENDS Naturals, FiniteSets

CONSTANTS
  Channels,
  Names,           \* event hub names
  Stuck,           \* EXTERNAL: names whose hub never becomes active
  None,            \* no name
  Threads,         \* workers of each process (knative runs 2)
  DeleteOfMissingFails, \* EXTERNAL: does deleting an absent group fail?
  MaxChanges,      \* bound: channels created, edited and deleted
  MaxFaults        \* bound: failing calls, conflicts and restarts

ASSUME ProvisioningParameters ==
  /\ Stuck \subseteq Names /\ None \notin Names
  /\ Threads \in Nat \ {0}
  /\ DeleteOfMissingFails \in BOOLEAN
  /\ MaxChanges \in Nat /\ MaxFaults \in Nat

Actors == {"ctl", "disp"}

VARIABLES
  phase,     \* API object: absent, live, deleting
  hubName,   \* API object: spec.eventHubName
  fins,      \* API object: whose finalizers it carries
  hubReady,  \* API object: the condition HubReady is True
  level,     \* EXTERNAL: how far the hub of this name exists in Azure
  active,    \* EXTERNAL: the hub's status is Active
  removing,  \* EXTERNAL: its resource group is being deleted
  at,        \* where each process's worker on this channel is
  copy,      \* the hub name in that worker's copy of the channel
  session,   \* the hub name the dispatcher's session is connected to
  cut,       \* channels whose session has the keys of a removed hub
  named,     \* history: the channels that ever had this hub name
  edited,    \* history: channels whose hub name was edited
  strays,    \* history: hubs that no finalizer will delete, see GroupsOwned
  changes, faults   \* counters of the bounds

objects == <<phase, hubName, fins, hubReady>>
azure == <<level, active, removing>>
workers == <<at, copy>>
dispatcher == <<session, cut>>
history == <<named, edited, strays>>
counters == <<changes, faults>>
vars == <<objects, azure, workers, dispatcher, history, counters>>

\* The levels of a hub: each request of CreateOrUpdateHub needs one and
\* reaches the next; a namespace is created in the background.
Nothing == 0
Group == 1
Creating == 2
Namespace == 3
Hub == 4
Rule == 5

Stages == {"idle", "group", "namespace", "wait", "hub", "rule",
           "keys", "poll", "status", "delete", "deleteWait"}

\* Every variable is of its type; in particular no worker is at a stage
\* without the hub name of its copy.
TypeOK ==
  /\ phase \in [Channels -> {"absent", "live", "deleting"}]
  /\ hubName \in [Channels -> Names \cup {None}]
  /\ fins \in [Channels -> SUBSET Actors]
  /\ hubReady \in [Channels -> BOOLEAN]
  /\ level \in [Names -> Nothing..Rule]
  /\ active \in [Names -> BOOLEAN] /\ removing \in [Names -> BOOLEAN]
  /\ at \in [Actors -> [Channels -> Stages]]
  /\ copy \in [Actors -> [Channels -> Names \cup {None}]]
  /\ \A a \in Actors, c \in Channels : at[a][c] = "idle" <=> copy[a][c] = None
  /\ session \in [Channels -> Names \cup {None}]
  /\ cut \subseteq Channels
  /\ named \in [Names -> SUBSET Channels]
  /\ edited \subseteq Channels /\ strays \subseteq Names
  /\ changes \in 0..MaxChanges
  /\ faults \in 0..MaxFaults

Init ==
  /\ phase = [c \in Channels |-> "absent"]
  /\ hubName = [c \in Channels |-> None]
  /\ fins = [c \in Channels |-> {}]
  /\ hubReady = [c \in Channels |-> FALSE]
  /\ level = [h \in Names |-> Nothing]
  /\ active = [h \in Names |-> FALSE] /\ removing = [h \in Names |-> FALSE]
  /\ at = [a \in Actors |-> [c \in Channels |-> "idle"]]
  /\ copy = [a \in Actors |-> [c \in Channels |-> None]]
  /\ session = [c \in Channels |-> None] /\ cut = {}
  /\ named = [h \in Names |-> {}] /\ edited = {} /\ strays = {}
  /\ changes = 0 /\ faults = 0

-----------------------------------------------------------------------------
(* Helpers. *)

Busy(a) == {c \in Channels : at[a][c] # "idle"}

Goto(a, c, stage) == at' = [at EXCEPT ![a][c] = stage] /\ UNCHANGED copy

\* The worker ends and its copy stays.
ReturnKeepingCopy(a, c) ==
  /\ at' = [at EXCEPT ![a][c] = "idle"]
  /\ UNCHANGED copy

\* The worker is done with this copy, with an error or without.
Return(a, c) ==
  /\ at' = [at EXCEPT ![a][c] = "idle"]
  /\ copy' = [copy EXCEPT ![a][c] = None]

Fault == faults < MaxFaults /\ faults' = faults + 1

CallFails == Fault

\* No connection: the secret cannot be read, lacks a key, or Connect finds no
\* authorizer.  The reconcile ends before anything has happened in Azure.
NoConnection == CallFails /\ UNCHANGED workers

\* connect, and the beginning of newClient.
Connect(a, c, stage) ==
  \/ /\ at' = [at EXCEPT ![a][c] = stage]
     /\ copy' = [copy EXCEPT ![a][c] = hubName[c]]
     /\ UNCHANGED faults
  \/ NoConnection

\* One worker a process.
OneWorker(a) == Busy(a) = {}

WorkerFree(a) == Cardinality(Busy(a)) < Threads

\* A worker takes a channel: with its finalizer persisted and a connection, it
\* goes to stage.
Take(a, c, stage) ==
  /\ at[a][c] = "idle" /\ WorkerFree(a)
  /\ fins' = [fins EXCEPT ![c] = @ \cup {a}]
  /\ Connect(a, c, stage)
  /\ UNCHANGED <<phase, hubName, hubReady, azure, dispatcher, history, changes>>

-----------------------------------------------------------------------------
(* CreateOrUpdateHub, which both processes call. *)

\* One request: it is refused unless the hub is at level needs and its group
\* not on its way out, and takes the hub to level reaches.  A request that
\* fails may have taken effect, and nothing is undone.
Request(a, c, stage, needs, reaches, next) ==
  LET h == copy[a][c]
      raised == [level EXCEPT ![h] = IF @ < reaches THEN reaches ELSE @]
      ok == level[h] >= needs /\ ~removing[h] IN
  /\ at[a][c] = stage
  /\ \/ ok /\ level' = raised /\ Goto(a, c, next) /\ UNCHANGED faults
     \/ ~ok /\ Return(a, c) /\ UNCHANGED <<level, faults>>
     \/ ok /\ CallFails /\ level' \in {level, raised} /\ Return(a, c)
  /\ UNCHANGED <<objects, active, removing, dispatcher, named, edited,
                 changes>>

\* The group a worker creates is a stray if nobody is to delete it.
CreateGroup(a, c) ==
  LET h == copy[a][c]
      owned == a = "ctl" /\ h = hubName[c] IN
  /\ Request(a, c, "group", Nothing, Group, "namespace")
  /\ strays' = IF level'[h] = level[h] \/ owned THEN strays ELSE strays \cup {h}

CreateNamespace(a, c) ==
  /\ Request(a, c, "namespace", Group, Creating, "wait")
  /\ UNCHANGED strays

\* WaitForCompletionRef polls until the namespace exists or is no more.
AwaitNamespace(a, c) ==
  LET h == copy[a][c] IN
  /\ at[a][c] = "wait"
  /\ \/ level[h] >= Namespace /\ Goto(a, c, "hub") /\ UNCHANGED faults
     \/ level[h] < Creating /\ Return(a, c) /\ UNCHANGED faults
     \/ CallFails /\ Return(a, c)
  /\ UNCHANGED <<objects, azure, dispatcher, history, changes>>

CreateHub(a, c) ==
  /\ Request(a, c, "hub", Namespace, Hub, "rule")
  /\ UNCHANGED strays

CreateRule(a, c) ==
  /\ Request(a, c, "rule", Hub, Rule, "keys")
  /\ UNCHANGED strays

\* ListKeys and a client for the connection string.  The controller keeps it
\* no longer than its copy; the dispatcher stores it as the session.
ListKeys(a, c) ==
  LET h == copy[a][c]
      ok == level[h] >= Rule /\ ~removing[h] IN
  /\ at[a][c] = "keys"
  /\ \/ /\ ok /\ a = "ctl"
        /\ Goto(a, c, "poll")
        /\ UNCHANGED <<session, faults>>
     \/ /\ ok /\ a = "disp"
        /\ session' = [session EXCEPT ![c] = h]
        /\ Return(a, c)
        /\ UNCHANGED faults
     \/ ~ok /\ Return(a, c) /\ UNCHANGED <<session, faults>>
     \/ ok /\ CallFails /\ Return(a, c) /\ UNCHANGED session
  /\ UNCHANGED <<objects, azure, cut, history, changes>>

CreateOrUpdateHub(a, c) ==
  \/ CreateGroup(a, c) \/ CreateNamespace(a, c) \/ AwaitNamespace(a, c)
  \/ CreateHub(a, c) \/ CreateRule(a, c) \/ ListKeys(a, c)

-----------------------------------------------------------------------------
(* The controller. *)

\* ReconcileKind comes to the hub only while HubReady is not True.
CtlReconcile(c) ==
  /\ phase[c] = "live" /\ ~hubReady[c]
  /\ Take("ctl", c, "group")

\* HubReady marked as soon as CreateOrUpdateHub has returned.
PollOnce(c) ==
  /\ at["ctl"][c] = "poll"
  /\ Goto("ctl", c, "status")
  /\ UNCHANGED <<objects, azure, dispatcher, history, counters>>

\* Get until the status is Active.  Nothing else ends the loop: the ticker of
\* three minutes is asked once, when it is new.
PollHub(c) ==
  LET h == copy["ctl"][c] IN
  /\ at["ctl"][c] = "poll"
  /\ \/ level[h] >= Hub /\ active[h] /\ Goto("ctl", c, "status") /\ UNCHANGED faults
     \/ level[h] < Hub /\ Return("ctl", c) /\ UNCHANGED faults
     \/ CallFails /\ Return("ctl", c)
  /\ UNCHANGED <<objects, azure, dispatcher, history, changes>>

\* MarkHubTrue and the write of the status.
MarkHubTrue(c) ==
  /\ at["ctl"][c] = "status"
  /\ \/ hubReady' = [hubReady EXCEPT ![c] = TRUE] /\ UNCHANGED faults
     \/ CallFails /\ UNCHANGED hubReady
  /\ Return("ctl", c)
  /\ UNCHANGED <<phase, hubName, fins, azure, dispatcher, history,
                 changes>>

\* The status of a channel, also of one that is being deleted, is replaced as
\* a whole by the one in a worker's copy from before HubReady was True.
StatusTakenBack(c) ==
  /\ phase[c] # "absent" /\ hubReady[c] /\ Fault
  /\ hubReady' = [hubReady EXCEPT ![c] = FALSE]
  /\ UNCHANGED <<phase, hubName, fins, azure, workers, dispatcher, history,
                 changes>>

\* Nothing to delete unless the hub was ready.
FinalizeReady(c) ==
  /\ phase[c] = "deleting" /\ "ctl" \in fins[c] /\ hubReady[c]
  /\ Take("ctl", c, "delete")

FinalizeKind(c) ==
  /\ phase[c] = "deleting" /\ "ctl" \in fins[c]
  /\ Take("ctl", c, "delete")

\* The secret cannot be read, or none is named: nothing is deleted, no error
\* returned, and the finalizer goes.
SecretUnreadable(c) ==
  /\ phase[c] = "deleting" /\ "ctl" \in fins[c]
  /\ at["ctl"][c] = "idle" /\ WorkerFree("ctl")
  /\ CallFails
  /\ fins' = [fins EXCEPT ![c] = @ \ {"ctl"}]
  /\ strays' = strays \cup {hubName[c]}
  /\ UNCHANGED <<phase, hubName, hubReady, azure, workers, dispatcher, named,
                 edited, changes>>

\* The finalizer goes whatever the request said.
DeleteUnchecked(c) ==
  /\ at["ctl"][c] = "delete"
  /\ \/ removing' = [removing EXCEPT ![copy["ctl"][c]] = level[copy["ctl"][c]] # Nothing]
        /\ UNCHANGED faults
     \/ CallFails /\ UNCHANGED removing
  /\ Goto("ctl", c, "deleteWait")
  /\ UNCHANGED <<objects, level, active, dispatcher, history, changes>>

\* DeleteHub: the request to delete the group...
DeleteHub(c) ==
  LET h == copy["ctl"][c]
      exists == level[h] # Nothing
      begun == [removing EXCEPT ![h] = exists]
      ok == exists \/ ~DeleteOfMissingFails IN
  /\ at["ctl"][c] = "delete"
  /\ \/ ok /\ removing' = begun /\ Goto("ctl", c, "deleteWait") /\ UNCHANGED faults
     \/ ~ok /\ Return("ctl", c) /\ UNCHANGED <<removing, faults>>
     \/ ok /\ CallFails /\ removing' \in {removing, begun} /\ Return("ctl", c)
  /\ UNCHANGED <<objects, level, active, dispatcher, history, changes>>

\* ...and, when its deletion has ended, the controller's finalizer goes.
ClearFinalizer(c) ==
  /\ at["ctl"][c] = "deleteWait"
  /\ \/ /\ ~removing[copy["ctl"][c]]
        /\ fins' = [fins EXCEPT ![c] = @ \ {"ctl"}]
        /\ UNCHANGED faults
     \/ CallFails /\ UNCHANGED fins
  /\ Return("ctl", c)
  /\ UNCHANGED <<phase, hubName, hubReady, azure, dispatcher, history,
                 changes>>

Controller(c) ==
  \/ CtlReconcile(c) \/ CreateOrUpdateHub("ctl", c)
  \/ PollHub(c) \/ MarkHubTrue(c)
  \/ FinalizeKind(c) \/ SecretUnreadable(c) \/ DeleteHub(c)
  \/ ClearFinalizer(c)

-----------------------------------------------------------------------------
(* The dispatcher. *)

\* A session is created for a channel that is ready and has none; one that is
\* there stays, whatever hub the channel names by now.
CreateAzureSession(c) ==
  /\ phase[c] = "live" /\ hubReady[c] /\ session[c] = None
  /\ Take("disp", c, "group")

\* Only the finalizer is removed.
LeaveSession(c) ==
  /\ phase[c] = "deleting" /\ hubReady[c] /\ "disp" \in fins[c]
  /\ at["disp"][c] = "idle" /\ WorkerFree("disp")
  /\ fins' = [fins EXCEPT ![c] = @ \ {"disp"}]
  /\ UNCHANGED <<phase, hubName, hubReady, azure, workers, dispatcher, history,
                 counters>>

\* The session of a ready channel is closed, then its finalizer removed.
CloseSession(c) ==
  /\ phase[c] = "deleting" /\ hubReady[c] /\ "disp" \in fins[c]
  /\ at["disp"][c] = "idle" /\ WorkerFree("disp")
  /\ session' = [session EXCEPT ![c] = None] /\ cut' = cut \ {c}
  /\ \/ fins' = [fins EXCEPT ![c] = @ \ {"disp"}] /\ UNCHANGED faults
     \/ CallFails /\ UNCHANGED fins
  /\ UNCHANGED <<phase, hubName, hubReady, azure, workers, history,
                 changes>>

Dispatcher(c) ==
  \/ CreateAzureSession(c) \/ CreateOrUpdateHub("disp", c)
  \/ CloseSession(c)

-----------------------------------------------------------------------------
(* The surroundings. *)

\* EXTERNAL. A namespace that was requested comes into being.
NamespaceCreated(h) ==
  /\ level[h] = Creating
  /\ level' = [level EXCEPT ![h] = Namespace]
  /\ UNCHANGED <<objects, active, removing, workers, dispatcher, history, counters>>

\* EXTERNAL. A hub becomes active, unless it is one that never does.
HubActive(h) ==
  /\ level[h] >= Hub /\ ~active[h] /\ h \notin Stuck
  /\ active' = [active EXCEPT ![h] = TRUE]
  /\ UNCHANGED <<objects, level, removing, workers, dispatcher, history, counters>>

\* EXTERNAL. The deletion of a group ends: everything in it is gone, and the
\* keys that sessions hold are void.
GroupRemoved(h) ==
  /\ removing[h]
  /\ removing' = [removing EXCEPT ![h] = FALSE]
  /\ level' = [level EXCEPT ![h] = Nothing]
  /\ active' = [active EXCEPT ![h] = FALSE]
  /\ cut' = cut \cup {c \in Channels : session[c] = h}
  /\ strays' = strays \ {h}
  /\ UNCHANGED <<objects, workers, session, named, edited, counters>>

Azure(h) == NamespaceCreated(h) \/ HubActive(h) \/ GroupRemoved(h)

CountChange == changes < MaxChanges /\ changes' = changes + 1

\* EXTERNAL. A user creates a channel with any hub name, also one in use.
CreateChannel(c) ==
  /\ phase[c] = "absent" /\ CountChange
  /\ \E h \in Names :
       /\ hubName' = [hubName EXCEPT ![c] = h]
       /\ named' = [named EXCEPT ![h] = @ \cup {c}]
  /\ phase' = [phase EXCEPT ![c] = "live"]
  /\ edited' = edited \ {c}
  /\ UNCHANGED <<fins, hubReady, azure, workers, dispatcher, strays,
                 faults>>

\* EXTERNAL. A user gives the channel another hub name.
EditHubName(c) ==
  /\ phase[c] # "absent" /\ CountChange
  /\ \E h \in Names \ {hubName[c]} :
       /\ hubName' = [hubName EXCEPT ![c] = h]
       /\ named' = [named EXCEPT ![h] = @ \cup {c}]
  /\ edited' = edited \cup {c}
  /\ strays' = strays \cup {hubName[c]}
  /\ UNCHANGED <<phase, fins, hubReady, azure, workers, dispatcher,
                 faults>>

\* EXTERNAL. A user deletes the channel.
DeleteChannel(c) ==
  /\ phase[c] = "live" /\ CountChange
  /\ phase' = [phase EXCEPT ![c] = "deleting"]
  /\ UNCHANGED <<hubName, fins, hubReady, azure, workers, dispatcher, history,
                 faults>>

\* EXTERNAL. The API server removes a deleted channel without finalizers.
Collect(c) ==
  /\ phase[c] = "deleting" /\ fins[c] = {}
  /\ phase' = [phase EXCEPT ![c] = "absent"]
  /\ hubName' = [hubName EXCEPT ![c] = None]
  /\ hubReady' = [hubReady EXCEPT ![c] = FALSE]
  /\ UNCHANGED <<fins, azure, workers, dispatcher, history, counters>>

\* A process restarts: its workers stop where they are and, of the
\* dispatcher, the sessions are gone.
Restart(a) ==
  /\ Fault
  /\ at' = [at EXCEPT ![a] = [c \in Channels |-> "idle"]]
  /\ copy' = [copy EXCEPT ![a] = [c \in Channels |-> None]]
  /\ IF a = "disp" THEN session' = [c \in Channels |-> None] /\ cut' = {}
                   ELSE UNCHANGED dispatcher
  /\ UNCHANGED <<objects, azure, history, changes>>

-----------------------------------------------------------------------------
Next ==
  \/ \E c \in Channels :
       \/ Controller(c) \/ Dispatcher(c) \/ StatusTakenBack(c)
       \/ CreateChannel(c) \/ EditHubName(c) \/ DeleteChannel(c) \/ Collect(c)
  \/ \E h \in Names : Azure(h)
  \/ \E a \in Actors : Restart(a)

\* Workers run, Azure ends what it has begun and the API server collects.
\* With fewer workers than channels the first in the queue would have to be
\* taken first as well.
Fairness ==
  /\ \A c \in Channels : WF_vars(Controller(c)) /\ WF_vars(Dispatcher(c))
                         /\ WF_vars(Collect(c))
  /\ \A h \in Names : WF_vars(Azure(h))

Spec == Init /\ [][Next]_vars

FairSpec == Spec /\ Fairness

-----------------------------------------------------------------------------
(***************************************************************************)
(* Safety.                                                                 *)
(***************************************************************************)

\* No other channel ever had this hub name.
Alone(c, h) == named[h] \subseteq {c}

Complete(h) == level[h] = Rule /\ active[h] /\ ~removing[h]

\* HubReady of a channel that has its hub to itself says that every part of
\* the hub exists and is active, whatever failed on the way, however often
\* the creation was begun again and whatever an earlier channel of that name
\* left behind (controller/azurechannel.go 298-330, util.go 79-171).
HubReadyComplete ==
  \A c \in Channels :
    phase[c] = "live" /\ hubReady[c] /\ c \notin edited /\ Alone(c, hubName[c])
      => Complete(hubName[c])

\* The session of a live channel has the keys of the hub as it is, also after
\* the channel was edited: nothing cuts a channel off from a hub that no other
\* channel names (dispatcher.go 298-322, util.go 155-187).
SessionKeyed ==
  \A c \in Channels :
    phase[c] = "live" /\ session[c] # None /\ Alone(c, session[c])
      => c \notin cut /\ level[session[c]] = Rule

\* The session of a channel whose name was never edited is on the hub that the
\* channel names, also when it was created again under its name with another
\* hub while a worker or a session of the earlier one was about
\* (dispatcher.go 298-322, reconciler/dispatcher/azurechannel.go 163-192).
SessionOnOwnHub ==
  \A c \in Channels :
    phase[c] # "absent" /\ c \notin edited /\ session[c] # None
      => session[c] = hubName[c]

\* A resource group in Azure belongs to a channel that exists, however far its
\* creation came and however often its deletion failed.  Three things leave
\* one that nobody will delete: an edit of the name, a secret that cannot be
\* read at the end, and the dispatcher, which creates a deleted group again
\* (controller/azurechannel.go 222-239, util.go 173-187).
GroupsOwned ==
  \A h \in Names : level[h] # Nothing /\ h \notin strays =>
    \E c \in Channels : phase[c] # "absent" /\ hubName[c] = h

(***************************************************************************)
(* Liveness, under FairSpec.                                               *)
(***************************************************************************)

\* A channel that stays, with a hub of its own that can become active, is
\* ready and has a session on that hub, although the wait for another
\* channel's hub may never end (controller/azurechannel.go 311-328).
HubsConverge ==
  \A c \in Channels : <>[](
    phase[c] = "live" /\ c \notin edited /\ Alone(c, hubName[c])
      /\ hubName[c] \notin Stuck
      => hubReady[c] /\ session[c] = hubName[c] /\ c \notin cut)

\* What a deletion can wait for in vain: the controller's finalizer for a
\* worker that polls for a hub which never becomes active, or for the deletion
\* of a group that is gone; the dispatcher's for a channel that has lost
\* HubReady, which the dispatcher refuses to finalize.
Hangs(c) ==
  \/ "ctl" \in fins[c] /\ at["ctl"][c] = "poll" /\ copy["ctl"][c] \in Stuck
  \/ "ctl" \in fins[c] /\ DeleteOfMissingFails /\ level[hubName[c]] = Nothing
  \/ "disp" \in fins[c] /\ ~hubReady[c]

\* Nothing else keeps a deleted channel for ever: not a creation that stopped
\* half way, a shared or edited name, a failure or a restart
\* (controller/azurechannel.go 222-239,
\* reconciler/dispatcher/azurechannel.go 140-176, util.go 173-187).
DeletionEnds ==
  \A c \in Channels : <>[](phase[c] = "deleting" => Hangs(c))

(***************************************************************************)
(* What the documentation says and the code does not do.                   *)
(***************************************************************************)

\* "When the AzureChannel is removed, the controller removes all the resources
\* created in step 2" (README.md 11): when no channel is left, and none of
\* them was given another hub name, no resource group is.
RemovedWithResources ==
  (\A c \in Channels : phase[c] = "absent" /\ c \notin edited)
    => \A h \in Names : level[h] = Nothing

=============================================================================
