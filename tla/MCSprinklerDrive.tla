-------------------------- MODULE MCSprinklerDrive --------------------------
(* SprinklerDrive for TLC: an activation may have no limit, a configured    *)
(* one that changes, or one of its own that is shorter or longer.           *)
EXTENDS SprinklerDrive, TLC

SomeLimits    == {{}, {1}, {3}}
SomeOverrides == {{}, {0}, {2}}

CallerSymmetry == Permutations(Callers)
=============================================================================
