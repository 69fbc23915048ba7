----------------------- MODULE MCDispatcherReconciler -----------------------
(* Small instances of DispatcherReconciler for TLC. *)
EXTENDS DispatcherReconciler, TLC

\* Channels, subscribers and messages are interchangeable; Copies are not,
\* because DeepCopy picks the first free one.
Symmetry ==
  Permutations(Channels) \cup Permutations(SubUIDs) \cup Permutations(Posts)

=============================================================================
