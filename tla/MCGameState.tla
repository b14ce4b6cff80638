---------------------------- MODULE MCGameState ----------------------------
(***************************************************************************)
(* GameState on a small instance: three names, a set of two prompts, a set *)
(* of none (the code accepts one), and every index up to one past the      *)
(* longest deck.                                                           *)
(***************************************************************************)
EXTENDS GameState

CONSTANTS ann, bob, cyd, news, mime, yes, no

MCName        == {ann, bob, cyd}
MCPromptSetId == {news, mime}
MCPromptSets  == <<news, mime>>
MCPrompts     == [id \in MCPromptSetId |-> IF id = news THEN 2 ELSE 0]
MCText        == {yes, no}
MCItemCount   == 0 .. 2
MCSlideIndex  == 0 .. 16
=============================================================================
