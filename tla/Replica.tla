------------------------------ MODULE Replica ------------------------------
(***************************************************************************)
(* What the store promises its readers: a grow-only replica.  truth is     *)
(* everything the transcripts ever said, copy what the store knows of it.  *)
(* Facts are downward closed: a request that reached 300 output tokens     *)
(* also reached 200, so a count that is lowered would lose a fact.         *)
(***************************************************************************)
VARIABLES truth, copy

Init == truth = {} /\ copy = {}

(* An agent adds to its transcript.                                        *)
Say == truth \subseteq truth' /\ copy' = copy

(* A store transaction learns some of it, and forgets nothing.             *)
Learn == copy \subseteq copy' /\ copy' \subseteq truth /\ truth' = truth

Next == Say \/ Learn

Spec == Init /\ [][Next]_<<truth, copy>>
=============================================================================
