------------------------------- MODULE RoomView -------------------------------
(***************************************************************************)
(* The room of Room as one of its players sees it: PlayerView with its     *)
(* variables read off the state of the room.                               *)
(***************************************************************************)
EXTENDS Room

CONSTANT Viewer  \* the player who looks

ASSUME ViewerAssumption == Viewer \in Name

Listed(list) == \E k \in DOMAIN list : list[k].name = Viewer
Ticked(list) == \E k \in DOMAIN list : list[k].name = Viewer /\ list[k].submitted

\* What the viewer's page takes from a broadcast.
AsSeen(msg) ==
  CASE msg.type = "room_state" ->
         [type |-> msg.type, phase |-> msg.room.phase,
          on |-> Listed(msg.room.players), done |-> Ticked(msg.room.players)]
    [] msg.type = "submission_progress" ->
         [type |-> msg.type,
          on |-> Listed(msg.players), done |-> Ticked(msg.players)]
    [] msg.type = "slide_changed" ->
         [type |-> msg.type, mine |-> msg.controller = Viewer]
    [] OTHER -> [type |-> msg.type]

View ==
  INSTANCE PlayerView WITH
    on    <- Viewer \in Roster,
    done  <- \E i \in Seat : players[i].name = Viewer /\ submitted(i),
    mine  <- phase = "performing" /\ current_controller = Viewer,
    heard <- [k \in DOMAIN reaction.broadcasts |-> AsSeen(reaction.broadcasts[k])]

-----------------------------------------------------------------------------
(* Property *)

\* Whatever anybody sends, one player's view of the room moves by the steps of
\* PlayerView, and the broadcasts of each command say this player exactly what
\* the step did: the page of src/static/index.html is modelled on that.
ImplementsPlayerView == View!ViewSpec
=============================================================================
