------------------------------ MODULE MCCatalog ------------------------------
(* Model-checking instance of Catalog: courses are interchangeable.          *)
EXTENDS Catalog, TLC

Symmetry == Permutations(Courses)
=============================================================================
