---------------------------- MODULE MCSendQueue ----------------------------
(* Instances of SendQueue: one connection and two or three packages; or    *)
(* two for one client and one for another, which only reads.               *)
EXTENDS SendQueue, TLC
CONSTANTS c1, c2, m1, m2, m3, n1
MCConns == {c1, c2}
MCMsgs == {m1, m2, n1}
MCConnOf == (m1 :> c1) @@ (m2 :> c1) @@ (n1 :> c2)
Symm == Permutations({m1, m2})
MCConnsOne == {c1}
MCMsgsTwo == {m1, m2}
MCConnOfTwo == (m1 :> c1) @@ (m2 :> c1)
MCMsgsOne == {m1, m2, m3}
MCConnOfOne == MCConnOfTwo @@ (m3 :> c1)
=============================================================================
