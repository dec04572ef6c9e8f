--------------------------- MODULE MCHermesGuard ---------------------------
(* HermesGuard with four calls: two of the host's without an id and for    *)
(* the same action, a protected one and one of the host's with ids.        *)
EXTENDS HermesGuard, TLC

CONSTANTS n1, n2, p1, p2

TwoCalls == {n1, n2}
NoId == n1 :> None @@ n2 :> None
FourCalls == {n1, n2, p1, p2}
NativeCalls == {n1, n2, p2}
Twins == Permutations(TwoCalls)
GivenIds == {"id1", "id2"}
Given == (n1 :> None @@ n2 :> None @@ p1 :> "id1" @@ p2 :> "id2")
Does == (n1 :> "read" @@ n2 :> "read" @@ p1 :> "read" @@ p2 :> "write")
=============================================================================
