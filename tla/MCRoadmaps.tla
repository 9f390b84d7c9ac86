----------------------------- MODULE MCRoadmaps ------------------------------
(* Model-checking instance of Roadmaps.                                      *)
EXTENDS Roadmaps, TLC

Symmetry == Permutations(RoadmapIds) \cup Permutations(Handlers) \cup Permutations(Courses)
=============================================================================
