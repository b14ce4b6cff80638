------------------------------- MODULE MCClient -------------------------------
(***************************************************************************)
(* Instances of Client for TLC.  Rounds have as many prompts as the        *)
(* partner has texts to fill: none in a round without scripts, and the     *)
(* same number in two rounds of seeded scripts.                            *)
(***************************************************************************)
EXTENDS Client

NoneThenSome == 1 :> 0 @@ 2 :> 1
SameEachRound == 1 :> 1 @@ 2 :> 1
=============================================================================
