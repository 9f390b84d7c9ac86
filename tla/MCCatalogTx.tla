----------------------------- MODULE MCCatalogTx -----------------------------
(* Model-checking instance of CatalogTx.                                     *)
EXTENDS CatalogTx, TLC

Symmetry == Permutations(Tx)
=============================================================================
