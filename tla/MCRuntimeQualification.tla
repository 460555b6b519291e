----------------------- MODULE MCRuntimeQualification -----------------------
(* Two of the four ANGLE settings; process ids that are soon used again;     *)
(* three game processes: before, after, and one more.                        *)
EXTENDS RuntimeQualification

TwoPids == {1, 2}
=============================================================================
