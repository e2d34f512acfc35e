---------------------------- MODULE MCSignature ----------------------------
(* Small instances of Signature for TLC.                                   *)
EXTENDS Signature, TLC

\* Handlers, files and envelopes are interchangeable.
Symmetry ==
  Permutations(Procs) \cup Permutations(Files) \cup Permutations(Envelopes)

=============================================================================
