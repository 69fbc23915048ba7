--------------------------- MODULE AzureDispatcher ---------------------------
(***************************************************************************)
(* The state that one dispatcher process keeps in memory                   *)
(* (pkg/dispatcher/dispatcher.go, type AzureDispatcher) and the operations *)
(* that the reconciler and the message receiver perform on it.  Every      *)
(* operation that takes s.mux is one step: nothing else reads what it      *)
(* guards while the lock is held.                                          *)
(*                                                                         *)
(* A subscriber is known by its UID.  subscriptionReference, the key of    *)
(* the subscriptions map, also holds the two *apis.URL POINTERS of the     *)
(* spec it was made from, and Go compares pointers by address.  Each       *)
(* DeepCopy of a channel allocates new URLs, so a key is modelled by the   *)
(* UID and by the copy whose URLs it points to.                            *)
(***************************************************************************)
EXTENDS FiniteSets, Naturals

CONSTANTS
  Channels,    \* the AzureChannel objects the dispatcher may see
  SubUIDs,     \* UIDs of subscribers
  Partitions,  \* partitions of every Event Hub (util.go asks for 4)
  Copies,      \* identities of DeepCopy results: as many as can be in the
               \* map of subscriptions and in workers at a time
  Posts,       \* messages that producers post to the receiver
  NoChannel    \* the channel of a message that has not arrived yet

VARIABLES
  azureSessions,    \* channels with an entry in s.azureSessions
  subscriptions,    \* s.subscriptions: channel -> the keys of its inner map
  hostToChannelMap, \* channels whose host name s.hostToChannelMap resolves
  listeners,        \* EXTERNAL: receivers opened on the hub by Hub.Receive
  post              \* what became of each message (see PostRecord)

dispatcherVars == <<azureSessions, subscriptions, hostToChannelMap, listeners>>

SubRef == [uid : SubUIDs, copy : Copies]
Listener == [channel : Channels, partition : Partitions, ref : SubRef]

\* A missing entry and an empty one are the same to the code: both loops over
\* the inner map do nothing and the entry is deleted as soon as it is empty.
DispatcherTypeOK ==
  /\ azureSessions \subseteq Channels
  /\ subscriptions \in [Channels -> SUBSET SubRef]
  /\ hostToChannelMap \subseteq Channels
  /\ listeners \subseteq Listener

NewDispatcher ==
  /\ azureSessions = {}
  /\ subscriptions = [c \in Channels |-> {}]
  /\ hostToChannelMap = {}
  /\ listeners = {}

\* What a process restart leaves of all this.
DispatcherLost ==
  /\ azureSessions' = {}
  /\ subscriptions' = [c \in Channels |-> {}]
  /\ hostToChannelMap' = {}
  /\ listeners' = {}

UIDsOf(refs) == {r.uid : r \in refs}

newSubscriptionReference(uid, copy) == [uid |-> uid, copy |-> copy]

-----------------------------------------------------------------------------
(***************************************************************************)
(* UpdateSubscriptions and the calls it makes, for the subscribers refs of *)
(* one copy of channel c.  failed are the references for which             *)
(* GetRuntimeInformation fails; dropped are the <<reference, partition>>   *)
(* pairs whose Hub.Receive fails, which subscribe only logs.  The handle   *)
(* that Receive returns is discarded, so nothing can close a listener.     *)
(***************************************************************************)

\* subscribe: refuses without a session, else opens one listener a partition.
SubscribeFails(c, ref, failed) == c \notin azureSessions \/ ref \in failed

subscribe(c, refs, dropped) ==
  {l \in [channel : {c}, partition : Partitions, ref : refs] :
      <<l.ref, l.partition>> \notin dropped}

\* References the loop over the spec finds no key for.
Missing(c, refs) == refs \ subscriptions[c]

\* The bookkeeping without its second loop.
KeepDeleted(chMap, activeSubs) == chMap

\* Unsubscribe of every key the new spec has no reference to.
UnsubscribeDeleted(chMap, activeSubs) == chMap \cap activeSubs

\* isFinalizer overlooked: only a channel without subscribers lets go of them.
KeepWhenFinalizing(c, refs, isFinalizer, failed, dropped) ==
  LET opened == {r \in Missing(c, refs) : ~SubscribeFails(c, r, failed)}
      chMap == subscriptions[c] \cup opened
      activeSubs == (refs \cap subscriptions[c]) \cup opened
  IN  IF refs = {}
      THEN /\ subscriptions' = [subscriptions EXCEPT ![c] = {}]
           /\ UNCHANGED listeners
      ELSE /\ subscriptions' = [subscriptions EXCEPT
                                  ![c] = UnsubscribeDeleted(chMap, activeSubs)]
           /\ listeners' = listeners \cup subscribe(c, opened, dropped)

UpdateSubscriptions(c, refs, isFinalizer, failed, dropped) ==
  LET opened == {r \in Missing(c, refs) : ~SubscribeFails(c, r, failed)}
      chMap == subscriptions[c] \cup opened
      activeSubs == (refs \cap subscriptions[c]) \cup opened
  IN  IF refs = {} \/ isFinalizer
      THEN /\ subscriptions' = [subscriptions EXCEPT ![c] = {}]
           /\ UNCHANGED listeners
      ELSE /\ subscriptions' = [subscriptions EXCEPT
                                  ![c] = UnsubscribeDeleted(chMap, activeSubs)]
           /\ listeners' = listeners \cup subscribe(c, opened, dropped)

\* failedToSubscribe: the subscribers UpdateSubscriptions reports an error for.
failedToSubscribe(c, refs, failed) ==
  {r.uid : r \in {x \in Missing(c, refs) : SubscribeFails(c, x, failed)}}

-----------------------------------------------------------------------------
(***************************************************************************)
(* Sessions and the host map.                                              *)
(***************************************************************************)

AzureSessionExist(c) == c \in azureSessions

CreateAzureSession(c) == azureSessions' = azureSessions \cup {c}

DeleteAzureSession(c) == azureSessions' = azureSessions \ {c}

\* The map with an entry for the zero reference.
EmptyRoute(ready) == hostToChannelMap' = ready \cup {NoChannel}

\* The new map is built from the given channels alone and replaces the old
\* one.  Host names are the names of the channels' services, unique in a
\* cluster, so the duplicate check of createHostToChannelMap never fires.
UpdateHostToChannelMap(ready) == hostToChannelMap' = ready

-----------------------------------------------------------------------------
(***************************************************************************)
(* The message receiver: one goroutine a request.                          *)
(***************************************************************************)

PostRecord ==
  [stage : {"new", "resolved", "rejected", "accepted"},
   channel : Channels \cup {NoChannel},
   published : BOOLEAN,     \* Hub.Send succeeded
   got : SUBSET SubRef]     \* references whose handler was given the event

NoPost == [stage |-> "new", channel |-> NoChannel, published |-> FALSE,
           got |-> {}]

\* A message for channel c's host arrives; the host map decides.
Resolve(m, c) ==
  /\ post[m].stage = "new"
  /\ post' = [post EXCEPT
       ![m] = [@ EXCEPT !.stage = IF c \in hostToChannelMap
                                  THEN "resolved" ELSE "rejected",
                        !.channel = c]]
  /\ UNCHANGED dispatcherVars

\* No session: the error is logged and `return err` returns the nil of the
\* last successful call, so the producer is told that the message was taken.
NoSession(m) ==
  /\ post[m].stage = "resolved"
  /\ ~AzureSessionExist(post[m].channel)
  /\ post' = [post EXCEPT ![m].stage = "accepted"]
  /\ UNCHANGED dispatcherVars

\* The receivers open on partition q of channel c's hub.
Open(c, q) == {l \in listeners : l.channel = c /\ l.partition = q}

\* Hub.Send puts the event on some partition q; every listener open there
\* runs its handler, which dispatches to the subscriber of its reference.
Publish(m) ==
  /\ post[m].stage = "resolved"
  /\ AzureSessionExist(post[m].channel)
  /\ \E q \in Partitions :
       post' = [post EXCEPT
         ![m] = [@ EXCEPT !.stage = "accepted",
                          !.published = TRUE,
                          !.got = {l.ref : l \in Open(post[m].channel, q)}]]
  /\ UNCHANGED dispatcherVars

\* Hub.Send fails and the producer gets the error.
PublishFails(m) ==
  /\ post[m].stage = "resolved"
  /\ AzureSessionExist(post[m].channel)
  /\ post' = [post EXCEPT ![m].stage = "rejected"]
  /\ UNCHANGED dispatcherVars

=============================================================================
