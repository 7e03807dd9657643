----------------------------- MODULE MCMoaiServer -----------------------------
\* Model-checking instances of MoaiServer
EXTENDS MoaiServer, TLC

\* FD_CLR(-1) tells the descriptors of Alias from the others.
MCSymmetry == Permutations(Socks \ Alias) \cup Permutations(Recs)

\* Without is SelectSeq: on every sequence of up to four of five entries.
ASSUME WithoutIsSelectSeq ==
  \A n \in 0..4 : \A q \in [1..n -> 1..5], S \in SUBSET (1..5) :
    Without(q, S) = SelectSeq(q, LAMBDA x : x \notin S)
=============================================================================
