---------------------------- MODULE MCMoaiPipeline ----------------------------
\* Model-checking instances of MoaiPipeline
EXTENDS MoaiPipeline, TLC

MCSymmetry == Permutations(Conns)
=============================================================================
