---------------------------- MODULE RoomView_proofs ----------------------------
(***************************************************************************)
(* A room, as one player sees it, is PlayerView: for every roster, every   *)
(* catalogue and every player.                                             *)
(***************************************************************************)
EXTENDS RoomView, Room_proofs

On == Viewer \in Roster

Done == \E i \in Seat : players[i].name = Viewer /\ submitted(i)

Mine == phase = "performing" /\ current_controller = Viewer

Heard(msgs) == [k \in DOMAIN msgs |-> AsSeen(msgs[k])]

SeenRoom == [type |-> "room_state", phase |-> phase, on |-> On, done |-> Done]

SeenProgress == [type |-> "submission_progress", on |-> On, done |-> Done]

SeenSlide == [type |-> "slide_changed", mine |-> Mine]

SeenStart == [type |-> "game_started"]

RoomViewInv == GameInv /\ LobbyBlank

-----------------------------------------------------------------------------
(* What the page takes from a message *)

\* The list of a message says who is on the roster and who has submitted.
LEMMA StatusesSay == Listed(statuses) = On /\ Ticked(statuses) = Done
<1>1. /\ DOMAIN statuses = Seat
      /\ \A k \in Seat : /\ statuses[k].name = players[k].name
                         /\ statuses[k].submitted = submitted(k)
  BY DEF statuses
<1>2. Listed(statuses) <=> On
  BY <1>1 DEF Listed, On, Roster
<1>3. Ticked(statuses) <=> Done
  BY <1>1 DEF Ticked, Done
<1>4. /\ Listed(statuses) \in BOOLEAN /\ On \in BOOLEAN
      /\ Ticked(statuses) \in BOOLEAN /\ Done \in BOOLEAN
  BY DEF Listed, Ticked, On, Done
<1> QED BY <1>2, <1>3, <1>4

\* Each message says this player what is so.
LEMMA MessagesSay ==
  /\ AsSeen(room_state) = SeenRoom
  /\ AsSeen(progress) = SeenProgress
  /\ phase = "performing" => AsSeen(slide_changed) = SeenSlide
  /\ AsSeen(game_started) = SeenStart
<1>1. AsSeen(room_state) = SeenRoom
  <2>1. /\ room_state.type = "room_state" /\ room_state.room.phase = phase
        /\ room_state.room.players = statuses
    BY DEF room_state, snapshot
  <2>2. AsSeen(room_state) =
          [type |-> "room_state", phase |-> phase,
           on |-> Listed(statuses), done |-> Ticked(statuses)]
    BY <2>1 DEF AsSeen
  <2> QED BY <2>2, StatusesSay DEF SeenRoom
<1>2. AsSeen(progress) = SeenProgress
  <2>1. progress.type = "submission_progress" /\ progress.players = statuses
    BY DEF progress
  <2>2. AsSeen(progress) =
          [type |-> "submission_progress",
           on |-> Listed(statuses), done |-> Ticked(statuses)]
    BY <2>1 DEF AsSeen
  <2> QED BY <2>2, StatusesSay DEF SeenProgress
<1>3. ASSUME phase = "performing" PROVE AsSeen(slide_changed) = SeenSlide
  <2>1. /\ slide_changed.type = "slide_changed"
        /\ slide_changed.controller = current_controller
    BY DEF slide_changed
  <2>2. AsSeen(slide_changed) =
          [type |-> "slide_changed", mine |-> current_controller = Viewer]
    BY <2>1 DEF AsSeen
  <2>3. (current_controller = Viewer) = Mine
    BY <1>3 DEF Mine
  <2> QED BY <2>2, <2>3 DEF SeenSlide
<1>4. AsSeen(game_started) = SeenStart
  <2>1. game_started.type = "game_started"
    BY DEF game_started
  <2> QED BY <2>1 DEF AsSeen, SeenStart
<1> QED BY <1>1, <1>2, <1>3, <1>4

\* The same of the messages built after a step.
LEMMA MessagesSayNext ==
  /\ AsSeen(room_state') = SeenRoom'
  /\ AsSeen(progress') = SeenProgress'
  /\ phase' = "performing" => AsSeen(slide_changed') = SeenSlide'
  /\ AsSeen(game_started') = SeenStart
<1>1. (AsSeen(room_state) = SeenRoom)'
  BY MessagesSay, PTL
<1>2. (AsSeen(progress) = SeenProgress)'
  BY MessagesSay, PTL
<1>3. (phase = "performing" => AsSeen(slide_changed) = SeenSlide)'
  BY MessagesSay, PTL
<1>4. (AsSeen(game_started) = SeenStart)'
  BY MessagesSay, PTL
<1> QED BY <1>1, <1>2, <1>3, <1>4 DEF AsSeen, SeenStart

\* Sequences of messages are heard one by one.
LEMMA HeardListed ==
  /\ Heard(<<>>) = <<>>
  /\ \A a : Heard(<<a>>) = <<AsSeen(a)>>
  /\ \A a, b : Heard(<<a, b>>) = <<AsSeen(a), AsSeen(b)>>
  /\ \A a, b, c : Heard(<<a, b, c>>) = <<AsSeen(a), AsSeen(b), AsSeen(c)>>
<1>1. Heard(<<>>) = <<>>
  BY DEF Heard
<1>2. ASSUME NEW a PROVE Heard(<<a>>) = <<AsSeen(a)>>
  BY DEF Heard
<1>3. ASSUME NEW a, NEW b PROVE Heard(<<a, b>>) = <<AsSeen(a), AsSeen(b)>>
  BY DEF Heard
<1>4. ASSUME NEW a, NEW b, NEW c
      PROVE  Heard(<<a, b, c>>) = <<AsSeen(a), AsSeen(b), AsSeen(c)>>
  BY DEF Heard
<1> QED BY <1>1, <1>2, <1>3, <1>4

-----------------------------------------------------------------------------
(* The invariant *)

\* The slide is a player's own only if the player is on the roster: the reader
\* of a segment is the partner handed out by start_collecting.
LEMMA MineIsOn == GameInv => (Mine => On)
<1> SUFFICES ASSUME GameInv, Mine PROVE On
  OBVIOUS
<1>1. Viewer # None
  BY ViewerAssumption, NoneAssumption
<1>2. \A slide : slide_controller(slide) = Viewer =>
                   \E i \in Seat : players[i].partner = Viewer
  BY <1>1 DEF slide_controller
<1>3. PICK i \in Seat : players[i].partner = Viewer
  BY <1>2 DEF Mine, current_controller, controller_at
<1>4. phase # "lobby" /\ Len(players) \in Nat /\ Seat = 1 .. Len(players)
  BY DEF Mine, GameInv, GameTypeOK, Seat
<1>5. NextSeat(i, Len(players)) \in Seat
  BY <1>4, NextSeatRing
<1>6. players[NextSeat(i, Len(players))].name = Viewer
  BY <1>3, <1>4 DEF GameInv, Assigned
<1> QED BY <1>5, <1>6 DEF On, Roster

\* The entries after submissions open: the same names, without answers.
LEMMA OpenedEntries ==
  ASSUME StartCollecting, GameInv
  PROVE  /\ Seat' = Seat
         /\ \A i \in Seat : /\ players'[i].name = players[i].name
                            /\ players'[i].responses = None
<1>1. Seat = 1 .. Len(players) /\ Len(players) \in Nat
  BY DEF GameInv, GameTypeOK, Seat
<1> QED BY <1>1 DEF StartCollecting, Seat

\* The entries after a submission: one of them has answered.
LEMMA AnsweredEntries ==
  ASSUME GameInv, NEW n \in Name, NEW k \in ItemCount, NEW t \in Text,
         SubmitResponses(n, k, t)
  PROVE  /\ Seat' = Seat
         /\ \A i \in Seat : players'[i].name = players[i].name
         /\ \E i \in Seat :
              /\ players[i].name = n /\ players'[i].responses # None
              /\ \A j \in Seat : j # i => players'[j].responses = players[j].responses
<1>1. PICK i \in Seat :
        /\ FirstSeat(n, i)
        /\ players' = [players EXCEPT ![i].responses = [items |-> k, signoff |-> t]]
  BY DEF SubmitResponses
<1>2. [items |-> k, signoff |-> t] # None
  BY NoneAssumption, RequestAssumption
<1>3. players \in Seq(Player) /\ \A j \in Seat : players[j] \in Player
  BY DEF GameInv, GameTypeOK, Seat
<1>4. /\ Seat' = Seat
      /\ \A j \in Seat : j # i => players'[j] = players[j]
      /\ players'[i] = [players[i] EXCEPT !.responses = [items |-> k, signoff |-> t]]
  BY <1>1, <1>3 DEF Seat
<1>5. players'[i].name = players[i].name /\ players'[i].responses # None
  BY <1>2, <1>3, <1>4 DEF Player
<1> QED BY <1>1, <1>4, <1>5 DEF FirstSeat

\* The lobby stays blank.
LEMMA BlankStep == RoomViewInv /\ [Apply]_roomVars => RoomViewInv'
<1>1. [Apply]_roomVars => [GameNext]_gameVars
  BY ApplyIsGameStep DEF roomVars, gameVars
<1> QED BY <1>1, GameStep, LobbyBlankStep DEF RoomViewInv

-----------------------------------------------------------------------------
(* Every command is a step of PlayerView *)

\* What leaves the game alone leaves this player's view of it alone.
LEMMA UnannouncedIsUnheard ==
  ASSUME UNCHANGED gameVars
  PROVE  UNCHANGED <<phase, On, Done, Mine>>
<1>1. /\ build_slides' = build_slides
      /\ phase' = phase /\ players' = players /\ current_slide' = current_slide
  BY DEF gameVars, build_slides, Closing, Segment, PromptCount, Seat
<1>2. total_slides' = total_slides
  BY <1>1 DEF total_slides
<1>3. \A index : slide_at(index)' = slide_at(index)
  BY <1>1, <1>2 DEF slide_at
<1>4. current_controller' = current_controller
  BY <1>1, <1>3 DEF current_controller, controller_at, slide_controller, Seat
<1> QED BY <1>1, <1>4 DEF On, Done, Mine, Roster, Seat, submitted

\* What the player hears of the two announcements of the lobby.
LEMMA HeardRoomProgress ==
  ASSUME reaction'.broadcasts = <<room_state', progress'>>
  PROVE  Heard(reaction'.broadcasts) = <<SeenRoom', SeenProgress'>>
<1>1. Heard(<<room_state', progress'>>) = <<AsSeen(room_state'), AsSeen(progress')>>
  BY HeardListed
<1> QED BY <1>1, MessagesSayNext

\* A change of the roster is the player's own or somebody else's.
LEMMA RosterIsView ==
  ASSUME RoomViewInv, NEW n \in Name, RosterStep(n)
  PROVE  /\ phase = "lobby" /\ phase' = "lobby" /\ Mine' = Mine
         /\ Heard(reaction'.broadcasts) = <<SeenRoom', SeenProgress'>>
         /\ \/ ~ On /\ On' = TRUE /\ Done' = Done
            \/ On /\ On' = FALSE /\ Done' = Done
            \/ On' = On /\ Done' = Done
<1>1. phase = "lobby" /\ phase' = "lobby"
  BY DEF RosterStep, AddPlayer, CanAddPlayer, RemovePlayer, CanRemovePlayer
<1>2. Mine' = Mine
  BY <1>1 DEF Mine
<1>3. Heard(reaction'.broadcasts) = <<SeenRoom', SeenProgress'>>
  BY HeardRoomProgress DEF RosterStep
<1>4. Done = FALSE
  BY <1>1 DEF Done, submitted, RoomViewInv, LobbyBlank
<1>5. Done' = FALSE
  <2>1. GameNext
    BY DEF RosterStep, GameNext
  <2>2. RoomViewInv'
    BY <2>1, GameStep, LobbyBlankStep DEF RoomViewInv
  <2> QED BY <1>1, <2>2 DEF Done, submitted, RoomViewInv, LobbyBlank
<1>6. \/ ~ On /\ On' = TRUE
      \/ On /\ On' = FALSE
      \/ On' = On
  BY DEF On
<1> QED BY <1>1, <1>2, <1>3, <1>4, <1>5, <1>6

\* Opening the submissions changes neither the names nor who has answered.
LEMMA OpeningIsView ==
  ASSUME RoomViewInv, StartCollecting
  PROVE  /\ phase = "lobby" /\ phase' = "collecting"
         /\ On' = On /\ Done' = Done /\ Mine' = Mine
<1>1. phase = "lobby" /\ phase' = "collecting"
  BY DEF StartCollecting, CanStartCollecting
<1>2. /\ Seat' = Seat
      /\ \A i \in Seat : /\ players'[i].name = players[i].name
                         /\ players'[i].responses = None
  BY OpenedEntries DEF RoomViewInv
<1>3. On' = On
  BY <1>2 DEF On, Roster
<1>4. Done = FALSE /\ Done' = FALSE
  BY <1>1, <1>2 DEF Done, submitted, RoomViewInv, LobbyBlank
<1>5. Mine' = Mine
  BY <1>1 DEF Mine
<1> QED BY <1>1, <1>3, <1>4, <1>5

\* A new round empties the roster.
LEMMA ReopeningIsView ==
  ASSUME NewRound
  PROVE  /\ phase = "archived" /\ phase' = "lobby"
         /\ On' = FALSE /\ Done' = FALSE /\ Mine' = Mine
<1>1. phase = "archived" /\ phase' = "lobby" /\ players' = <<>>
  BY DEF NewRound, CanNewRound
<1>2. Seat' = {}
  BY <1>1 DEF Seat
<1> QED BY <1>1, <1>2 DEF On, Roster, Done, Mine

\* A submission is the player's own or somebody else's.
LEMMA AnswerIsView ==
  ASSUME RoomViewInv, NEW n \in Name, NEW k \in ItemCount, NEW t \in Text,
         SubmitResponses(n, k, t)
  PROVE  /\ phase = "collecting" /\ phase' = "collecting"
         /\ On' = On /\ Mine' = Mine
         /\ (On /\ Done' = TRUE) \/ Done' = Done
<1>1. phase = "collecting" /\ phase' = "collecting"
  BY DEF SubmitResponses, CanSubmitResponses
<1>2. /\ Seat' = Seat
      /\ \A i \in Seat : players'[i].name = players[i].name
  BY AnsweredEntries DEF RoomViewInv
<1>3. PICK i \in Seat :
        /\ players[i].name = n /\ players'[i].responses # None
        /\ \A j \in Seat : j # i => players'[j].responses = players[j].responses
  BY AnsweredEntries DEF RoomViewInv
<1>4. On' = On /\ Mine' = Mine
  BY <1>1, <1>2 DEF On, Roster, Mine
<1>5. CASE n = Viewer
  <2>1. On
    BY <1>3, <1>5 DEF On, Roster
  <2>2. Done' <=> TRUE
    BY <1>2, <1>3, <1>5 DEF Done, submitted
  <2>3. Done' = TRUE
    BY <2>2 DEF Done
  <2> QED BY <1>1, <1>4, <2>1, <2>3
<1>6. CASE n # Viewer
  <2>1. Done' <=> Done
    BY <1>2, <1>3, <1>6 DEF Done, submitted
  <2>2. Done' = Done
    BY <2>1 DEF Done
  <2> QED BY <1>1, <1>4, <2>2
<1>7. (On /\ Done' = TRUE) \/ Done' = Done
  BY <1>5, <1>6
<1> QED BY <1>1, <1>4, <1>7

\* What leaves the roster alone leaves the player's own entry alone.
LEMMA SameRoster ==
  ASSUME UNCHANGED players
  PROVE  On' = On /\ Done' = Done
  BY DEF On, Done, Roster, Seat, submitted

\* The right to turn the slide is TRUE or FALSE, and the roster's.
LEMMA MineNext == GameInv' => Mine' \in {FALSE, On'}
<1>1. (GameInv => (Mine => On))'
  BY MineIsOn, PTL
<1>2. Mine' \in BOOLEAN /\ On' \in BOOLEAN
  BY DEF Mine, On
<1> QED BY <1>1, <1>2

\* Every command is one step of PlayerView, and what is broadcast says so.
LEMMA ApplyIsViewStep ==
  ASSUME RoomViewInv, Apply
  PROVE  View!ViewNext
<1> USE DEF View!ViewNext
<1>0. GameInv'
  BY ApplyIsGameStep, GameStep DEF RoomViewInv
<1> DEFINE told == Heard(reaction'.broadcasts)
<1>1. CASE Unannounced
  <2>1. UNCHANGED <<phase, On, Done, Mine>>
    BY <1>1, UnannouncedIsUnheard DEF Unannounced
  <2>2. told = <<>>
    BY <1>1, HeardListed DEF Unannounced
  <2>3. View!Unheard
    BY <2>1, <2>2 DEF View!Unheard, On, Done, Mine, Heard
  <2> QED BY <2>3
<1>2. ASSUME NEW n \in Name, RosterStep(n) PROVE View!ViewNext
  <2>1. View!Enlist \/ View!Strike \/ View!OtherRoster
    BY <1>2, RosterIsView
       DEF View!Enlist, View!Strike, View!OtherRoster, View!RoomState,
           View!Progress, SeenRoom, SeenProgress, On, Done, Mine, Heard
  <2> QED BY <2>1
<1>3. CASE LobbyStep
  <2>1. told = <<SeenRoom', SeenProgress'>>
    BY <1>3, HeardRoomProgress DEF LobbyStep
  <2>2. CASE StartCollecting
    <3>1. View!OpenSubmissions
      BY <2>1, <2>2, OpeningIsView
         DEF View!OpenSubmissions, View!RoomState, View!Progress, SeenRoom,
             SeenProgress, On, Done, Mine, Heard
    <3> QED BY <3>1
  <2>3. CASE NewRound
    <3>1. View!Reopen
      BY <2>1, <2>3, ReopeningIsView
         DEF View!Reopen, View!RoomState, View!Progress, SeenRoom, SeenProgress,
             On, Done, Mine, Heard
    <3> QED BY <3>1
  <2> QED BY <1>3, <2>2, <2>3 DEF LobbyStep
<1>4. ASSUME NEW n \in Name, NEW k \in ItemCount, NEW t \in Text, AnswerStep(n, k, t)
      PROVE  View!ViewNext
  <2>1. told = <<SeenProgress', SeenRoom'>>
    BY <1>4, HeardListed, MessagesSayNext DEF AnswerStep
  <2>2. View!Answer \/ View!OtherAnswer
    BY <1>4, <2>1, AnswerIsView
       DEF AnswerStep, View!Answer, View!OtherAnswer, View!RoomState,
           View!Progress, SeenRoom, SeenProgress, On, Done, Mine, Heard
  <2> QED BY <2>2
<1>5. CASE StartStep
  <2>1. /\ phase = "collecting" /\ phase' = "performing"
        /\ On' = On /\ Done' = Done /\ Mine' \in {FALSE, On'}
    BY <1>0, <1>5, SameRoster, MineNext DEF StartStep, StartGame, CanStartGame
  <2>2. On => Done
    BY <1>5 DEF StartStep, StartGame, CanStartGame, all_submitted, On, Roster, Done
  <2>3. told = <<SeenStart, SeenSlide', SeenRoom'>>
    BY <1>5, <2>1, HeardListed, MessagesSayNext DEF StartStep
  <2>4. View!Perform
    BY <2>1, <2>2, <2>3
       DEF View!Perform, View!GameStarted, View!SlideChanged, View!RoomState,
           SeenStart, SeenSlide, SeenRoom, On, Done, Mine, Heard
  <2> QED BY <2>4
<1>6. CASE TurnStep
  <2>1. /\ phase = "performing" /\ phase' = "performing"
        /\ On' = On /\ Done' = Done /\ Mine' \in {FALSE, On'}
    BY <1>0, <1>6, SameRoster, MineNext
       DEF TurnStep, AdvanceSlide, PrevSlide, GotoSlide, CanGotoSlide, CanMove
  <2>2. told = <<SeenSlide', SeenRoom'>>
    BY <1>6, <2>1, HeardListed, MessagesSayNext DEF TurnStep
  <2>3. View!Turn
    BY <2>1, <2>2
       DEF View!Turn, View!SlideChanged, View!RoomState, SeenSlide, SeenRoom,
           On, Done, Mine, Heard
  <2> QED BY <2>3
<1>7. CASE ArchiveStep
  <2>1. /\ phase = "performing" /\ phase' = "archived"
        /\ On' = On /\ Done' = Done /\ Mine' = FALSE
    BY <1>7, SameRoster DEF ArchiveStep, ArchiveRound, CanArchiveRound, Mine
  <2>2. told = <<SeenRoom'>>
    BY <1>7, HeardListed, MessagesSayNext DEF ArchiveStep
  <2>3. View!Close
    BY <2>1, <2>2
       DEF View!Close, View!RoomState, SeenRoom, On, Done, Mine, Heard
  <2> QED BY <2>3
<1> QED BY <1>1, <1>2, <1>3, <1>4, <1>5, <1>6, <1>7, ApplyBroadcasts

\* The room implements PlayerView, whoever looks: what the model of the browser
\* page builds on holds for every roster, catalogue and player.
THEOREM RoomIsAsSeen == RoomSpec => ImplementsPlayerView
<1>1. RoomInit => RoomViewInv /\ View!ViewInit
  <2> SUFFICES ASSUME RoomInit PROVE RoomViewInv /\ View!ViewInit
    OBVIOUS
  <2>1. phase = "lobby" /\ players = <<>> /\ reaction.broadcasts = <<>> /\ Seat = {}
    BY DEF RoomInit, GameInit, NoReaction, Seat
  <2>2. RoomViewInv
    BY <2>1, InvInit DEF RoomInit, RoomViewInv, LobbyBlank
  <2>3. Heard(reaction.broadcasts) = <<>>
    BY <2>1, HeardListed
  <2>4. View!ViewInit
    BY <2>1, <2>3 DEF View!ViewInit, Roster, Heard
  <2> QED BY <2>2, <2>4
<1>2. RoomViewInv /\ [Apply]_roomVars => [View!ViewNext]_(View!viewVars)
  <2> SUFFICES ASSUME RoomViewInv, [Apply]_roomVars
               PROVE  View!ViewNext \/ UNCHANGED View!viewVars
    OBVIOUS
  <2>1. CASE UNCHANGED roomVars
    <3>1. UNCHANGED <<phase, On, Done, Mine>> /\ UNCHANGED reaction
      BY <2>1, UnannouncedIsUnheard DEF roomVars, gameVars
    <3> QED BY <3>1 DEF View!viewVars, On, Done, Mine, AsSeen, Listed, Ticked
  <2> QED BY <2>1, ApplyIsViewStep
<1> QED BY <1>1, <1>2, BlankStep, PTL DEF RoomSpec, ImplementsPlayerView, View!ViewSpec
=============================================================================
