--------------------------------- MODULE Room ---------------------------------
(***************************************************************************)
(* The pure reducer of the room actor: `apply` and what it calls in        *)
(* src/room.rs.  One action per ClientMsg variant.                         *)
(*                                                                         *)
(* A command carries the identity its connection holds on the server, the  *)
(* role and name adopted at join.  Which commands are queued, and from     *)
(* whom, is left open: any identity may have any command next, which is    *)
(* what the queue of a room with any number of connections amounts to.     *)
(* `reaction` is what the last command produced, with the identity it came *)
(* from: the broadcasts to every subscriber, the direct replies to the     *)
(* sender and the durable effects for the actor loop.                      *)
(***************************************************************************)
EXTENDS GameState

CONSTANT Identity   \* the [role, name] pairs connections may hold

Role == {"host", "player", "display"}

ASSUME IdentityAssumption ==
  Identity \subseteq [role : Role, name : Name \cup {None}]

VARIABLE reaction

roomVars == <<phase, players, current_slide, reaction>>

-----------------------------------------------------------------------------
(* Messages, built from the current state *)

statuses == [i \in Seat |-> [name |-> players[i].name, submitted |-> submitted(i)]]

snapshot == [phase         |-> phase,
             players       |-> statuses,
             current_slide |-> current_slide,
             total_slides  |-> total_slides]

room_state == [type |-> "room_state", room |-> snapshot]

progress == [type      |-> "submission_progress",
             submitted |-> submitted_count,
             total     |-> Len(players),
             players   |-> statuses]

\* Variant with a fault: names who may turn the slide after this one.
slide_changed_ahead == [type         |-> "slide_changed",
                        index        |-> current_slide,
                        total_slides |-> total_slides,
                        slide        |-> slide_at(current_slide),
                        controller   |-> controller_at(current_slide + 1)]

slide_changed == [type         |-> "slide_changed",
                  index        |-> current_slide,
                  total_slides |-> total_slides,
                  slide        |-> slide_at(current_slide),
                  controller   |-> current_controller]

game_started == [type |-> "game_started", total_slides |-> total_slides]

joined(role, name) == [type |-> "joined", role |-> role, name |-> name]

pong == [type |-> "pong"]

error(code) == [type |-> "error", code |-> code]

\* The targeted assignment of a player who has a partner, else no message.
assignment(name) ==
  LET holders == {i \in Seat : FirstSeat(name, i) /\ players[i].partner # None}
  IN  IF holders = {} THEN <<>>
      ELSE LET i == CHOOSE i \in holders : TRUE
           IN  <<[type    |-> "assignment",
                  partner |-> players[i].partner,
                  prompts |-> PromptCount(players[i].prompt_set_id)]>>

SaveFinalResponses(entries) == [kind |-> "save", entries |-> entries]

ArchiveRoundEffect(entries) == [kind |-> "archive", entries |-> entries]

-----------------------------------------------------------------------------
(* Reactions *)

\* The identity stamped on a first frame: the actor reads the role from the
\* intent.
Placeholder == [role |-> "display", name |-> None]

NoReaction ==
  [by |-> Placeholder, broadcasts |-> <<>>, direct |-> <<>>, effects |-> <<>>]

Reply(id, msgs) ==
  reaction' = [NoReaction EXCEPT !.by = id, !.direct = msgs]

Announce(id, msgs, effects) ==
  reaction' = [NoReaction EXCEPT !.by = id, !.broadcasts = msgs,
                                 !.effects = effects]

\* Variant with a fault: a refusal is told to the whole room.
RefuseAloud(id, code) == Announce(id, <<error(code)>>, <<>>) /\ UNCHANGED gameVars

Refuse(id, code) == Reply(id, <<error(code)>>) /\ UNCHANGED gameVars

is_host(id) == id.role = "host"

\* require_host, then the TransitionError of the operation itself.
HostRefused(id, can) ==
  \/ ~is_host(id) /\ Refuse(id, "forbidden")
  \/ is_host(id) /\ ~can /\ Refuse(id, "invalid_transition")

-----------------------------------------------------------------------------
(* Commands *)

RoomInit == GameInit /\ reaction = NoReaction

Ping(id) == Reply(id, <<pong>>) /\ UNCHANGED gameVars

\* A join with a good token answers the sender with the state after a possible
\* self-registration; only a new roster entry is announced to the room.
JoinRoom(requested, join_name, token_ok) ==
  \/ /\ requested = "host" /\ ~token_ok
     /\ Refuse(Placeholder, "forbidden")
  \/ /\ requested = "host" => token_ok
     /\ LET self_added == /\ requested = "player" /\ join_name # None
                          /\ CanAddPlayer(join_name)
        IN  /\ IF self_added THEN AddPlayer(join_name) ELSE UNCHANGED gameVars
            /\ reaction' =
                 [by |-> Placeholder,
                  direct |->
                    <<joined(requested, join_name), room_state', progress'>>
                    \o (IF requested = "player" /\ phase' = "collecting"
                        THEN assignment(join_name)' ELSE <<>>)
                    \o (IF phase' = "performing" THEN <<slide_changed'>> ELSE <<>>),
                  broadcasts |->
                    IF self_added THEN <<room_state', progress'>> ELSE <<>>,
                  effects |-> <<>>]

HostAddPlayer(id, n) ==
  \/ HostRefused(id, CanAddPlayer(n))
  \/ is_host(id) /\ AddPlayer(n) /\ Announce(id, <<room_state', progress'>>, <<>>)

HostRemovePlayer(id, n) ==
  \/ HostRefused(id, CanRemovePlayer(n))
  \/ is_host(id) /\ RemovePlayer(n) /\ Announce(id, <<room_state', progress'>>, <<>>)

HostStartCollecting(id) ==
  \/ HostRefused(id, CanStartCollecting)
  \/ is_host(id) /\ StartCollecting /\ Announce(id, <<room_state', progress'>>, <<>>)

may_submit(id) == id.role = "player" /\ id.name # None

Submit(id, items, signoff) ==
  \/ ~may_submit(id) /\ Refuse(id, "forbidden")
  \/ /\ may_submit(id) /\ ~CanSubmitResponses(id.name, items)
     /\ Refuse(id, "invalid_transition")
  \/ /\ may_submit(id)
     /\ SubmitResponses(id.name, items, signoff)
     /\ Announce(id, <<progress', room_state'>>, <<>>)

HostStartGame(id) ==
  \/ HostRefused(id, CanStartGame)
  \/ /\ is_host(id)
     /\ StartGame
     /\ Announce(id, <<game_started', slide_changed', room_state'>>,
                 <<SaveFinalResponses(round_entries')>>)

\* Variant with a fault: any player may move.
may_control_any(id) == is_host(id) \/ id.role = "player"

may_control(id) ==
  \/ is_host(id)
  \/ id.role = "player" /\ id.name # None /\ id.name = current_controller

\* control_slide around the three moves of the carousel.
MoveRefused(id, can) ==
  \/ ~may_control(id) /\ Refuse(id, "forbidden")
  \/ may_control(id) /\ ~can /\ Refuse(id, "invalid_transition")

\* Variant with a fault: the slide is described before the move.
AnnounceMoveEarly(id) == Announce(id, <<slide_changed, room_state'>>, <<>>)

AnnounceMove(id) == Announce(id, <<slide_changed', room_state'>>, <<>>)

Advance(id) ==
  \/ MoveRefused(id, CanMove)
  \/ may_control(id) /\ AdvanceSlide /\ AnnounceMove(id)

Prev(id) ==
  \/ MoveRefused(id, CanMove)
  \/ may_control(id) /\ PrevSlide /\ AnnounceMove(id)

Goto(id, index) ==
  \/ MoveRefused(id, CanGotoSlide(index))
  \/ may_control(id) /\ GotoSlide(index) /\ AnnounceMove(id)

\* Variant with a fault: nobody is told.
HostArchiveRoundQuiet(id) ==
  \/ HostRefused(id, CanArchiveRound)
  \/ is_host(id) /\ ArchiveRound /\ Announce(id, <<>>, <<ArchiveRoundEffect(players)>>)

HostArchiveRound(id) ==
  \/ HostRefused(id, CanArchiveRound)
  \/ /\ is_host(id)
     /\ ArchiveRound
     /\ Announce(id, <<room_state'>>, <<ArchiveRoundEffect(round_entries)>>)

\* Variant with a fault: the roster stays for the next round.
HostNewRoundSameRoster(id) ==
  \/ HostRefused(id, CanNewRound)
  \/ /\ is_host(id) /\ CanNewRound
     /\ phase' = "lobby" /\ current_slide' = 0 /\ UNCHANGED players
     /\ Announce(id, <<room_state', progress'>>, <<>>)

HostNewRound(id) ==
  \/ HostRefused(id, CanNewRound)
  \/ is_host(id) /\ NewRound /\ Announce(id, <<room_state', progress'>>, <<>>)

\* apply: one command, reduced.
Apply ==
  \/ \E requested \in Role, n \in Name \cup {None}, token_ok \in BOOLEAN :
       JoinRoom(requested, n, token_ok)
  \/ \E id \in Identity :
       \/ Ping(id)
       \/ \E n \in Name : HostAddPlayer(id, n)
       \/ \E n \in Name : HostRemovePlayer(id, n)
       \/ HostStartCollecting(id)
       \/ \E k \in ItemCount, t \in Text : Submit(id, k, t)
       \/ HostStartGame(id)
       \/ Advance(id)
       \/ Prev(id)
       \/ \E index \in SlideIndex : Goto(id, index)
       \/ HostArchiveRound(id)
       \/ HostNewRound(id)

RoomSpec == RoomInit /\ [][Apply]_roomVars

-----------------------------------------------------------------------------
(* Properties *)

Status == [name : Name, submitted : BOOLEAN]

\* Besides the kinds: no command causes more than three broadcasts, four replies
\* (to a join: joined, room_state, progress and one of the two that depend on the
\* phase) and one durable effect.
RoomTypeOK ==
  /\ GameTypeOK
  /\ statuses \in Seq(Status)
  /\ reaction.by \in Identity \cup {Placeholder}
  /\ {reaction.direct[k].type : k \in DOMAIN reaction.direct} \subseteq
       {"joined", "room_state", "submission_progress", "assignment",
        "slide_changed", "pong", "error"}
  /\ {reaction.broadcasts[k].type : k \in DOMAIN reaction.broadcasts} \subseteq
       {"room_state", "submission_progress", "game_started", "slide_changed"}
  /\ {reaction.effects[k].kind : k \in DOMAIN reaction.effects} \subseteq
       {"save", "archive"}
  /\ Len(reaction.broadcasts) <= 3
  /\ Len(reaction.direct) <= 4
  /\ Len(reaction.effects) <= 1

\* The actor changes the game by the operations of the state machine and in no
\* other way, each under the state machine's own conditions: RoomSpec
\* implements GameSpec (THEOREM RoomImplementsGame in Room_proofs).
ImplementsGame == GameSpec

\* "A snapshot of the room sent on join and after any state change": whoever
\* follows the broadcasts alone knows, after every command, the phase, the
\* roster, who has submitted, the slide on stage and who may turn it.
EveryChangeAnnounced ==
  [][LET told(msg) == Contains(reaction'.broadcasts, msg)
     IN  gameVars' # gameVars =>
           /\ told(room_state')
           /\ statuses' # statuses => told(progress')
           /\ phase' = "performing" => told(slide_changed')]_roomVars

\* A connection learns its identity "from the actor's first reply", and may send
\* the next command before the last one is answered: so every command is either
\* answered, to its sender, by exactly one joined, pong or error that comes ahead
\* of everything else, or announced to the room with exactly one room_state; by a
\* join that registers a player, and by no other command, both.  A command that
\* is answered has no durable effect.
AnsweredOrAnnounced ==
  [][LET direct  == reaction'.direct
         told    == reaction'.broadcasts
         answers == {k \in DOMAIN direct : direct[k].type \in {"joined", "pong", "error"}}
         states  == {k \in DOMAIN told : told[k].type = "room_state"}
     IN  /\ answers = IF direct = <<>> THEN {} ELSE {1}
         /\ Cardinality(states) = IF told = <<>> THEN 0 ELSE 1
         /\ direct # <<>> \/ told # <<>>
         /\ direct # <<>> /\ told # <<>> =>
              direct[1].type = "joined" /\ players' # players
         /\ direct # <<>> => reaction'.effects = <<>>]_roomVars

\* Nothing announced is out of date: the broadcasts of a command that carry
\* state carry the state after it, whatever their order.
BroadcastsAreCurrent ==
  \A k \in DOMAIN reaction.broadcasts :
    LET msg == reaction.broadcasts[k]
    IN  msg \in {room_state, progress, slide_changed, game_started}

\* Authority follows the identity held by the server.  Phases are changed and
\* names taken off by the host alone, answers are put in by the player they
\* belong to, and the slide is moved by the host or by somebody on the roster
\* who presents the segment on stage, or the first one while the rules show: the
\* partner of its author, as the comment of current_controller has it
\* (src/state.rs:377).  What other texts say is HostOrAuthorMoves.
WhoMayChangeWhat ==
  [][LET by == reaction'.by
         block == slide_at(current_slide)[1]
     IN  /\ phase' # phase \/ Roster \ Roster' # {} => is_host(by)
         /\ \A i \in Seat \cap Seat' :
              players'[i].responses \notin {players[i].responses, None} =>
                by = [role |-> "player", name |-> players[i].name]
         /\ phase = phase' /\ current_slide' # current_slide =>
              \/ is_host(by)
              \/ /\ by.role = "player"
                 /\ \E i \in Seat : /\ players[i].partner = by.name
                                    /\ i = IF block = 0 THEN 1 ELSE block]_roomVars

\* "Host-only actions (open submissions, start, advance slides, archive) are
\* enforced in the actor" (README.md:64), or "the `teleprompter` advances the
\* slides" (src/state.rs:91), who in build_slides is the author of the segment
\* (line 336).  The texts differ, but by each of them whoever moves the carousel
\* while a segment is on stage is a host or wrote it.  In the code the partner,
\* who reads it, may move it, and to any slide.
HostOrAuthorMoves ==
  [][LET by    == reaction'.by
         block == slide_at(current_slide)[1]
     IN  phase = phase' /\ current_slide' # current_slide /\ block \in Seat =>
           is_host(by) \/ by.name = players[block].name]_roomVars

\* "Wipe the slate from any phase back to an empty Lobby (the host's delete all
\* control)": whatever the phase, some command of the host empties the room.
\* In the code reset is reached from new_round only, that is from archived.
HostCanWipe ==
  phase # "lobby" =>
    ENABLED (Apply /\ is_host(reaction'.by) /\ phase' = "lobby" /\ players' = <<>>)
=============================================================================
