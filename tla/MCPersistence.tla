---------------------------- MODULE MCPersistence ----------------------------
(***************************************************************************)
(* Persistence with two players, one text, two room codes, two rounds and  *)
(* up to two faults, and a prompt set without prompts.                     *)
(***************************************************************************)
EXTENDS Persistence

CONSTANTS ann, bob, news, yes

MCName        == {ann, bob}
MCPromptSetId == {news}
MCPromptSets  == <<news>>
MCPrompts     == [id \in MCPromptSetId |-> 0]
MCText        == {yes}
MCItemCount   == {0}
MCSlideIndex  == {5, 8}

MCIdentity ==
  {[role |-> "host", name |-> None]}
    \cup {[role |-> "player", name |-> n] : n \in Name}

\* The reaction is history: no step reads it but the one that sets it, which
\* copies its effects to `pending`.  States that differ in it only are one
\* state here, but for the Pong that PongMeansDurable is about.
WithoutReaction ==
  <<phase, players, current_slide, reaction.direct = <<pong>>,
    code, pending, responses, archive, round, final, faults>>
=============================================================================
