--------------------------- MODULE FinalizerProtocol ---------------------------
(***************************************************************************)
(* What the dispatcher promises of its finalizer, as Kubernetes means one  *)
(* to be used: the process holds something for an object (a session, with  *)
(* the hub behind it) only while its finalizer is on the object, puts the  *)
(* finalizer on no object that is being deleted, and takes it off only     *)
(* when it holds nothing any more; the API server keeps an object until    *)
(* then.  Caches, copies, conflicts, retries and the order of the calls    *)
(* that achieve this are left to the specifications that implement it.     *)
(***************************************************************************)
CONSTANT Objects

VARIABLES
  phase,     \* of each object: absent, live or deleting
  finalizer, \* the objects that carry the finalizer
  held       \* the objects for which the process holds something

vars == <<phase, finalizer, held>>

TypeOK ==
  /\ phase \in [Objects -> {"absent", "live", "deleting"}]
  /\ finalizer \subseteq Objects
  /\ held \subseteq Objects

Init ==
  /\ phase = [o \in Objects |-> "absent"]
  /\ finalizer = {}
  /\ held = {}

Create(o) ==
  /\ phase[o] = "absent"
  /\ phase' = [phase EXCEPT ![o] = "live"]
  /\ UNCHANGED <<finalizer, held>>

Delete(o) ==
  /\ phase[o] = "live"
  /\ phase' = [phase EXCEPT ![o] = "deleting"]
  /\ UNCHANGED <<finalizer, held>>

AddFinalizer(o) ==
  /\ phase[o] = "live"
  /\ finalizer' = finalizer \cup {o}
  /\ UNCHANGED <<phase, held>>

Acquire(o) ==
  /\ o \in finalizer
  /\ held' = held \cup {o}
  /\ UNCHANGED <<phase, finalizer>>

\* What is held is let go of, or lost with the process.
Release(S) ==
  /\ held' = held \ S
  /\ UNCHANGED <<phase, finalizer>>

RemoveFinalizer(o) ==
  /\ o \notin held
  /\ finalizer' = finalizer \ {o}
  /\ UNCHANGED <<phase, held>>

Collect(o) ==
  /\ phase[o] = "deleting" /\ o \notin finalizer
  /\ phase' = [phase EXCEPT ![o] = "absent"]
  /\ UNCHANGED <<finalizer, held>>

Next ==
  \/ \E o \in Objects :
       \/ Create(o) \/ Delete(o) \/ AddFinalizer(o) \/ Acquire(o)
       \/ RemoveFinalizer(o) \/ Collect(o)
  \/ \E S \in SUBSET Objects : Release(S)

Spec == Init /\ [][Next]_vars

\* The object whose hub a session uses is there as long as the session.
HeldExists == \A o \in held : o \in finalizer /\ phase[o] # "absent"

=============================================================================
