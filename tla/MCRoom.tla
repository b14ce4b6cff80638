-------------------------------- MODULE MCRoom --------------------------------
(***************************************************************************)
(* Room on a small instance: two names, one prompt set of one prompt, and  *)
(* connections of every role, with a player of each name and a player who  *)
(* joined without a name.  A deck of two players has eleven slides; the    *)
(* indices asked for reach the ends, the middle and one past the deck.     *)
(***************************************************************************)
EXTENDS RoomView

CONSTANTS ann, bob, news, yes

MCName        == {ann, bob}
MCPromptSetId == {news}
MCPromptSets  == <<news>>
MCPrompts     == [id \in MCPromptSetId |-> 1]
MCText        == {yes}
MCItemCount   == 0 .. 1
MCSlideIndex  == {0, 4, 10, 11}

MCIdentity ==
  {[role |-> "host", name |-> None], [role |-> "display", name |-> None]}
    \cup {[role |-> "player", name |-> n] : n \in MCName \cup {None}}
=============================================================================
