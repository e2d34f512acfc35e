----------------------------- MODULE MCListings -----------------------------
(* Listings for TLC.                                                       *)
EXTENDS Listings, FiniteSets, TLC

MCFiles == Photos \cup Reports

\* The list of properties, the reports and the interests meet in the removal
\* of the property, and nowhere else: each with it, not with one another; the
\* interests also with the list, of which they are counted.
\* An update of the property is for its list alone.  Two photos are for a
\* removal that meets an upload, two reports for a removal or a cancellation
\* that does.  No row depends on the cache, late pages are asked nothing, and
\* the activation of a contract or a failure makes late what is listed.
Apart ==
  LET listed == tracked # {}
      reported == used \cap Reports # {}
      wanted == \E i \in Interests : interest[i] # "absent" \/ told[i] # {}
  IN  /\ listed => ~reported /\ ~contract /\ crashes = 0
      /\ listed \/ reported => Cardinality(used \cap Photos) <= 1
      /\ Cardinality(used \cap Reports) = 2 => used \cap Photos = {}
      /\ wanted => used = {} /\ ~contract
      /\ available = FALSE \/ updates > 0 => ~contract /\ ~reported /\ ~wanted
      /\ ~late

Symmetry ==
  Permutations(Procs) \cup Permutations(Photos) \cup Permutations(Reports)

=============================================================================
