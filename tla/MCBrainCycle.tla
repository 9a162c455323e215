---------------------------- MODULE MCBrainCycle ----------------------------
EXTENDS BrainCycle

FactoryWeights == <<35, 35, 30>>
SomeTimeouts == {300, 2400}

\* Committees share nothing: one at a time stands for their interleavings.
CouncilsApart == \A c, d \in Cycle :
  c # d => council[c] = NoCouncil \/ council[d] = NoCouncil
=============================================================================
