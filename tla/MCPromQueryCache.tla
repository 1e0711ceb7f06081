------------------------- MODULE MCPromQueryCache -------------------------
EXTENDS PromQueryCache

CONSTANTS A, B, up, load

MCTargets == <<A, B>>
MCOneTarget == <<A>>
=============================================================================
