--------------------------- MODULE MCRescueStore ---------------------------
(* Values for the constants of RescueStore. *)
EXTENDS RescueStore, TLC

CONSTANTS p1, p2, s1, s2, c1, c2, c3, h1, h2

\* c1 and c2 collide on one handle.
MCOneHandle == (c1 :> h1 @@ c2 :> h1)
MCOneSize   == (c1 :> 1 @@ c2 :> 1)

\* Two handles; the contents do not fit the cap of one together.
MCTwoHandles == (c1 :> h1 @@ c3 :> h2)
MCTwoSizes   == (c1 :> 1 @@ c3 :> 1)
MCUnevenSizes == (c1 :> 1 @@ c3 :> 2)

MCClientAndKeeper ==
  (p1 :> {"put", "fetch"} @@ p2 :> {"sweep", "reconcile"})
MCPutAndSweep == (p1 :> {"put"} @@ p2 :> {"put", "sweep"})
MCPutAndKeep == (p1 :> {"put"} @@ p2 :> {"put", "sweep", "reconcile"})

SessionSymmetry == Permutations({s1, s2})
=============================================================================
