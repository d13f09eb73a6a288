------------------------- MODULE MCSessionLifecycle -------------------------
EXTENDS SessionLifecycle, TLC

CONSTANTS p1, p2, c1, c2

OnePipeline == {p1}
TwoPipelines == {p1, p2}
NoCallback == {}
OneCallback == {c1}
TwoCallbacks == {c1, c2}

Symmetry == Permutations(Pipelines) \cup Permutations(Callbacks)
=============================================================================
