--------------------------- MODULE MCMjpegPlayback ---------------------------
EXTENDS MjpegPlayback, TLC
CONSTANTS p1, p2

MCInstance == {p1, p2}
MCTask == 1..3

\* The instances are launched in any order, and nothing else tells them apart.
InstanceSymmetry == Permutations(MCInstance)
==============================================================================
