------------------------- MODULE MCAutoreleasePool -------------------------
(* The objects are interchangeable.                                        *)
EXTENDS AutoreleasePool

MCSymmetry == Permutations(Obj)

Process(allocation, missing, leaves) ==
  [DebugPoolAllocation |-> allocation, DebugMissingPools |-> missing, LeavesPools |-> leaves]

(* A normal process, and one in each of the debugging modes.               *)
MCModes == {Process(FALSE, FALSE, TRUE), Process(FALSE, TRUE, TRUE), Process(TRUE, FALSE, FALSE)}

(* The mode in which every pool starts a page, with a -release that leaves *)
(* a pool behind.                                                          *)
MCDebugLeaving == {Process(TRUE, FALSE, TRUE)}
=============================================================================
