------------------------------ MODULE PlayerView ------------------------------
(***************************************************************************)
(* A room as one player sees it: what `apply` of src/room.rs does to the   *)
(* phase, to this player's own entry on the roster and to the right to     *)
(* turn the slide, and what every connection is told of it.                *)
(*                                                                         *)
(* Room implements this specification (RoomView), and Client builds the    *)
(* page of a browser on it.                                                *)
(***************************************************************************)
EXTENDS Naturals, Sequences

VARIABLES
  phase,  \* the phase of the room
  on,     \* the player is on the roster
  done,   \* and has submitted
  mine,   \* the slide on stage is this player's to turn
  heard   \* the broadcasts of the last command, as far as they say this

viewVars == <<phase, on, done, mine, heard>>

\* The parts of the messages this player's page reads.
RoomState    == [type |-> "room_state", phase |-> phase, on |-> on, done |-> done]
Progress     == [type |-> "submission_progress", on |-> on, done |-> done]
SlideChanged == [type |-> "slide_changed", mine |-> mine]
GameStarted  == [type |-> "game_started"]

ViewInit ==
  /\ phase = "lobby"
  /\ on = FALSE
  /\ done = FALSE
  /\ mine = FALSE
  /\ heard = <<>>

\* add_player by the host, or the self-registration of a join.
Enlist ==
  /\ phase = "lobby" /\ ~on
  /\ on' = TRUE
  /\ UNCHANGED <<phase, done, mine>>
  /\ heard' = <<RoomState', Progress'>>

Strike ==
  /\ phase = "lobby" /\ on
  /\ on' = FALSE
  /\ UNCHANGED <<phase, done, mine>>
  /\ heard' = <<RoomState', Progress'>>

\* The same for somebody else: the room is told, this player is not affected.
OtherRoster ==
  /\ phase = "lobby"
  /\ UNCHANGED <<phase, on, done, mine>>
  /\ heard' = <<RoomState', Progress'>>

OpenSubmissions ==
  /\ phase = "lobby"
  /\ phase' = "collecting"
  /\ UNCHANGED <<on, done, mine>>
  /\ heard' = <<RoomState', Progress'>>

\* A first submission, or a new one over it.
Answer ==
  /\ phase = "collecting" /\ on
  /\ done' = TRUE
  /\ UNCHANGED <<phase, on, mine>>
  /\ heard' = <<Progress', RoomState'>>

OtherAnswer ==
  /\ phase = "collecting"
  /\ UNCHANGED <<phase, on, done, mine>>
  /\ heard' = <<Progress', RoomState'>>

Perform ==
  /\ phase = "collecting"
  /\ on => done
  /\ phase' = "performing"
  /\ mine' \in {FALSE, on}
  /\ UNCHANGED <<on, done>>
  /\ heard' = <<GameStarted, SlideChanged', RoomState'>>

\* next, previous or goto, by whoever may.
Turn ==
  /\ phase = "performing"
  /\ mine' \in {FALSE, on}
  /\ UNCHANGED <<phase, on, done>>
  /\ heard' = <<SlideChanged', RoomState'>>

Close ==
  /\ phase = "performing"
  /\ phase' = "archived"
  /\ mine' = FALSE
  /\ UNCHANGED <<on, done>>
  /\ heard' = <<RoomState'>>

Reopen ==
  /\ phase = "archived"
  /\ phase' = "lobby"
  /\ on' = FALSE
  /\ done' = FALSE
  /\ UNCHANGED mine
  /\ heard' = <<RoomState', Progress'>>

\* A refusal, a ping, a join that changes nothing: told to the sender alone.
Unheard == heard' = <<>> /\ UNCHANGED <<phase, on, done, mine>>

ViewNext ==
  \/ Unheard
  \/ Enlist \/ Strike \/ OtherRoster
  \/ OpenSubmissions
  \/ Answer \/ OtherAnswer
  \/ Perform \/ Turn \/ Close \/ Reopen

ViewSpec == ViewInit /\ [][ViewNext]_viewVars
=============================================================================
