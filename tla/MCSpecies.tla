----------------------------- MODULE MCSpecies -----------------------------
(* Model values for Species. *)
EXTENDS Species, TLC

CONSTANTS a

\* Two pages that repeat a species: the client keeps the first record of an id.
ListedTwice == <<a, a>>

\* One page of one species.
ListedOnce == <<a>>

\* The runs are interchangeable.
Runs == Permutations(Syncs)
=============================================================================
