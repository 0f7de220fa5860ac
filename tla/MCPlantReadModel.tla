-------------------------- MODULE MCPlantReadModel --------------------------
(* Symmetry for PlantReadModel. *)
EXTENDS PlantReadModel, TLC

\* The requests are interchangeable, and so are the places.
Symmetry == Permutations(Requests) \cup Permutations(Locations)
=============================================================================
