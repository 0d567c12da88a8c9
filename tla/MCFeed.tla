------------------------------- MODULE MCFeed -------------------------------
(***************************************************************************)
(* Small instances of the three watching mechanisms: two roots for the     *)
(* Windows reads, one of them with two nested directories for fsnotify,    *)
(* the other under WSL for the polls.  One run checks all three: a         *)
(* behaviour follows one of them.                                          *)
(***************************************************************************)
EXTENDS WinWatch, TreeWatch, PollWatch, TLC

CONSTANTS r1, r2, d1, d2, f1, f2, f3

\* f1 in the root r1, f2 two directories down, f3 in the other root.
Tree == (f1 :> r1) @@ (f2 :> d2) @@ (d1 :> r1) @@ (d2 :> d1) @@ (f3 :> r2)

FeedInit == WinInit \/ TreeInit \/ PollInit

FeedNext == WinNext \/ TreeNext \/ PollNext

FeedSpec ==
    /\ FeedInit /\ [][FeedNext]_backendVars
    /\ WinFairness /\ TreeFairness /\ PollFairness

TreeOnly == TreeSpec /\ TreeFairness
=============================================================================
