----------------------------- MODULE MCImporter -----------------------------
(* Instances of Importer for TLC: the keys are model values of the cfg.    *)
EXTENDS Importer
=============================================================================
