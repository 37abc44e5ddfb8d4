-------------------------- MODULE MCAnalysisWorker --------------------------
(* AnalysisWorker on small instances.  The modules of the project are       *)
(* interchangeable wherever Analysed is all of them.                        *)
EXTENDS AnalysisWorker, TLC

ModuleSymmetry == Permutations(Modules)
=============================================================================
