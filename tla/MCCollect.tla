----------------------------- MODULE MCCollect -----------------------------
(***************************************************************************)
(* Small instances of Collect: two sessions, each with one path, of which  *)
(* the second may be under WSL; or one session with two paths, so that its *)
(* transcript may move.                                                    *)
(***************************************************************************)
EXTENDS Collect, TLC

CONSTANTS p1, p2, p3, s1, s2, r1, n1, n2, w1, k1

TwoSessions == (p1 :> s1) @@ (p2 :> s2)
(* p3 is where the transcript of p2 may move to.                           *)
MoveSessions == TwoSessions @@ (p3 :> s2)

OneSession  == (p1 :> s1) @@ (p2 :> s1)

OneLine    == {[req |-> r1, out |-> 1, calls |-> {}, results |-> {}]}
PlainLines == {[req |-> r1, out |-> o, calls |-> {}, results |-> {}] : o \in 0..1}
=============================================================================
