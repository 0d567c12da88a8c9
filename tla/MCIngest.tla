------------------------------ MODULE MCIngest ------------------------------
(***************************************************************************)
(* Small instances of Ingest: one path, for two calls that race on it; or  *)
(* two paths of one session, the second in the slow tier, so that its      *)
(* transcript may move.  A request is streamed as two lines with a growing *)
(* count and makes a tool call whose result arrives with the second line.  *)
(***************************************************************************)
EXTENDS Ingest, TLC

CONSTANTS p1, p2, s1, r1, c1, n1, n2, w1, k1

OnePath  == (p1 :> s1)
TwoPaths == (p1 :> s1) @@ (p2 :> s1)

MCLines == {[req |-> r1, out |-> 0, calls |-> {c1}, results |-> {}],
            [req |-> r1, out |-> 1, calls |-> {}, results |-> {c1}]}
=============================================================================
