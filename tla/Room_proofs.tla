----------------------------- MODULE Room_proofs -----------------------------
(***************************************************************************)
(* The room actor's reducer implements the state machine of GameState, so  *)
(* what holds of every GameState behaviour holds of every room, whoever    *)
(* sends what in whichever order.                                          *)
(***************************************************************************)
EXTENDS Room, Deck_proofs

\* A command is one operation of the state machine, or leaves the game alone.
LEMMA ApplyIsGameStep == Apply => [GameNext]_gameVars
<1> SUFFICES ASSUME Apply PROVE GameNext \/ UNCHANGED gameVars
  OBVIOUS
<1> USE DEF Refuse, HostRefused, MoveRefused
<1>1. ASSUME NEW requested \in Role, NEW n \in Name \cup {None},
             NEW token_ok \in BOOLEAN, JoinRoom(requested, n, token_ok)
      PROVE  GameNext \/ UNCHANGED gameVars
  <2>1. UNCHANGED gameVars \/ (n # None /\ AddPlayer(n))
    BY <1>1 DEF JoinRoom
  <2> QED BY <2>1 DEF GameNext
<1>2. ASSUME NEW id \in Identity, Ping(id)
      PROVE  UNCHANGED gameVars
  BY <1>2 DEF Ping
<1>3. ASSUME NEW id \in Identity, NEW n \in Name,
             HostAddPlayer(id, n) \/ HostRemovePlayer(id, n)
      PROVE  GameNext \/ UNCHANGED gameVars
  BY <1>3 DEF HostAddPlayer, HostRemovePlayer, GameNext
<1>4. ASSUME NEW id \in Identity,
             \/ HostStartCollecting(id) \/ HostStartGame(id)
             \/ HostArchiveRound(id) \/ HostNewRound(id)
      PROVE  GameNext \/ UNCHANGED gameVars
  BY <1>4 DEF HostStartCollecting, HostStartGame, HostArchiveRound,
              HostNewRound, GameNext
<1>5. ASSUME NEW id \in Identity, NEW k \in ItemCount, NEW t \in Text,
             Submit(id, k, t)
      PROVE  GameNext \/ UNCHANGED gameVars
  <2>1. may_submit(id) => id.name \in Name
    BY IdentityAssumption DEF may_submit
  <2> QED BY <1>5, <2>1 DEF Submit, GameNext
<1>6. ASSUME NEW id \in Identity, Advance(id) \/ Prev(id)
      PROVE  GameNext \/ UNCHANGED gameVars
  BY <1>6 DEF Advance, Prev, GameNext
<1>7. ASSUME NEW id \in Identity, NEW index \in SlideIndex, Goto(id, index)
      PROVE  GameNext \/ UNCHANGED gameVars
  BY <1>7 DEF Goto, GameNext
<1> QED BY <1>1, <1>2, <1>3, <1>4, <1>5, <1>6, <1>7 DEF Apply

\* The actor changes the game by the operations of the state machine only.
THEOREM RoomImplementsGame == RoomSpec => ImplementsGame
<1>1. RoomInit => GameInit
  BY DEF RoomInit
<1>2. [Apply]_roomVars => [GameNext]_gameVars
  BY ApplyIsGameStep DEF roomVars, gameVars
<1> QED BY <1>1, <1>2, PTL DEF RoomSpec, GameSpec, ImplementsGame

\* In a room with any number of connections the show is complete, every player
\* presents one segment in one ring, the sets are dealt fairly, the stage is
\* handed from reader to reader, the slide index is valid, and what start_game
\* found final stays so.
THEOREM RoomKeepsTheGame ==
  RoomSpec => /\ [](PerformanceComplete /\ EveryonePresentsOnce /\ SlideInRange)
              /\ [](OneRing /\ PromptSetsBalanced /\ ReaderHandover)
              /\ RosterLocked
              /\ FinalAnswersFrozen
  BY RoomImplementsGame, AlwaysPerformedComplete, AlwaysPresentsOnce,
     SlideAlwaysInRange, AlwaysOneRing, AlwaysBalanced, AlwaysHandedOver,
     RosterStaysLocked, FinalAnswersStay, PTL
     DEF ImplementsGame

-----------------------------------------------------------------------------
(* Every change is announced *)

\* The announcements of a step, for the game as it is after the step.
Announced ==
  /\ Contains(reaction'.broadcasts, room_state')
  /\ statuses' # statuses => Contains(reaction'.broadcasts, progress')
  /\ phase' = "performing" => Contains(reaction'.broadcasts, slide_changed')

\* A sequence of two or three messages contains each of them.
LEMMA ContainsListed ==
  /\ \A m1, m2 : Contains(<<m1, m2>>, m1) /\ Contains(<<m1, m2>>, m2)
  /\ \A m1 : Contains(<<m1>>, m1)
  /\ \A m1, m2, m3 : /\ Contains(<<m1, m2, m3>>, m2)
                      /\ Contains(<<m1, m2, m3>>, m3)
<1>1. ASSUME NEW m1, NEW m2
      PROVE  Contains(<<m1, m2>>, m1) /\ Contains(<<m1, m2>>, m2)
  <2>1. 1 \in 1 .. Len(<<m1, m2>>) /\ 2 \in 1 .. Len(<<m1, m2>>)
    OBVIOUS
  <2>2. <<m1, m2>>[1] = m1 /\ <<m1, m2>>[2] = m2
    OBVIOUS
  <2> QED BY <2>1, <2>2 DEF Contains
<1>2. ASSUME NEW m1
      PROVE  Contains(<<m1>>, m1)
  <2>1. 1 \in 1 .. Len(<<m1>>) /\ <<m1>>[1] = m1
    OBVIOUS
  <2> QED BY <2>1 DEF Contains
<1>3. ASSUME NEW m1, NEW m2, NEW m3
      PROVE  Contains(<<m1, m2, m3>>, m2) /\ Contains(<<m1, m2, m3>>, m3)
  <2>1. 2 \in 1 .. Len(<<m1, m2, m3>>) /\ 3 \in 1 .. Len(<<m1, m2, m3>>)
    OBVIOUS
  <2>2. <<m1, m2, m3>>[2] = m2 /\ <<m1, m2, m3>>[3] = m3
    OBVIOUS
  <2> QED BY <2>1, <2>2 DEF Contains
<1> QED BY <1>1, <1>2, <1>3

\* What Announce puts into the reaction.
LEMMA AnnounceBroadcasts ==
  ASSUME NEW id, NEW msgs, NEW effects, Announce(id, msgs, effects)
  PROVE  reaction'.broadcasts = msgs
  BY DEF Announce, NoReaction

\* A command that is refused, or only answered, changes nothing; any other one
\* announces what it changed.
LEMMA ApplyAnnounces == Apply => Announced \/ UNCHANGED gameVars
<1> SUFFICES ASSUME Apply PROVE Announced \/ UNCHANGED gameVars
  OBVIOUS
<1> USE DEF Refuse, HostRefused, MoveRefused

\* The broadcasts of host_action and of a join that adds a player.
<1>0. ASSUME reaction'.broadcasts = <<room_state', progress'>>,
             phase' # "performing"
      PROVE  Announced
  BY <1>0, ContainsListed DEF Announced
<1>1. ASSUME NEW requested \in Role, NEW n \in Name \cup {None},
             NEW token_ok \in BOOLEAN, JoinRoom(requested, n, token_ok)
      PROVE  Announced \/ UNCHANGED gameVars
  <2> DEFINE added == /\ requested = "player" /\ n # None
                      /\ CanAddPlayer(n)
  <2>1. CASE added /\ (requested = "host" => token_ok)
    <3>1. AddPlayer(n) /\ reaction'.broadcasts = <<room_state', progress'>>
      BY <1>1, <2>1 DEF JoinRoom
    <3>2. phase' # "performing"
      BY <3>1 DEF AddPlayer, CanAddPlayer
    <3> QED BY <3>1, <3>2, <1>0
  <2>2. CASE ~(added /\ (requested = "host" => token_ok))
    BY <1>1, <2>2 DEF JoinRoom
  <2> QED BY <2>1, <2>2
<1>2. ASSUME NEW id \in Identity, Ping(id)
      PROVE  UNCHANGED gameVars
  BY <1>2 DEF Ping
<1>3. ASSUME NEW id \in Identity, NEW n \in Name,
             HostAddPlayer(id, n) \/ HostRemovePlayer(id, n)
      PROVE  Announced \/ UNCHANGED gameVars
  <2>1. \/ UNCHANGED gameVars
        \/ /\ AddPlayer(n) \/ RemovePlayer(n)
           /\ Announce(id, <<room_state', progress'>>, <<>>)
    BY <1>3 DEF HostAddPlayer, HostRemovePlayer
  <2>2. ASSUME AddPlayer(n) \/ RemovePlayer(n)
        PROVE  phase' # "performing"
    BY <2>2 DEF AddPlayer, CanAddPlayer, RemovePlayer, CanRemovePlayer
  <2> QED BY <2>1, <2>2, <1>0, AnnounceBroadcasts
<1>4. ASSUME NEW id \in Identity, HostStartCollecting(id) \/ HostNewRound(id)
      PROVE  Announced \/ UNCHANGED gameVars
  <2>1. \/ UNCHANGED gameVars
        \/ /\ StartCollecting \/ NewRound
           /\ Announce(id, <<room_state', progress'>>, <<>>)
    BY <1>4 DEF HostStartCollecting, HostNewRound
  <2>2. ASSUME StartCollecting \/ NewRound
        PROVE  phase' # "performing"
    BY <2>2 DEF StartCollecting, NewRound
  <2> QED BY <2>1, <2>2, <1>0, AnnounceBroadcasts
<1>5. ASSUME NEW id \in Identity, HostStartGame(id)
      PROVE  Announced \/ UNCHANGED gameVars
  <2>1. \/ UNCHANGED gameVars
        \/ /\ StartGame
           /\ Announce(id, <<game_started', slide_changed', room_state'>>,
                       <<SaveFinalResponses(round_entries')>>)
    BY <1>5 DEF HostStartGame
  <2>2. StartGame => statuses' = statuses
    BY DEF StartGame, statuses, submitted, Seat
  <2> QED BY <2>1, <2>2, AnnounceBroadcasts, ContainsListed DEF Announced
<1>6. ASSUME NEW id \in Identity, HostArchiveRound(id)
      PROVE  Announced \/ UNCHANGED gameVars
  <2>1. \/ UNCHANGED gameVars
        \/ /\ ArchiveRound
           /\ Announce(id, <<room_state'>>, <<ArchiveRoundEffect(round_entries)>>)
    BY <1>6 DEF HostArchiveRound
  <2>2. ArchiveRound => statuses' = statuses /\ phase' # "performing"
    BY DEF ArchiveRound, statuses, submitted, Seat
  <2> QED BY <2>1, <2>2, AnnounceBroadcasts, ContainsListed DEF Announced
<1>7. ASSUME NEW id \in Identity, NEW k \in ItemCount, NEW t \in Text,
             Submit(id, k, t)
      PROVE  Announced \/ UNCHANGED gameVars
  <2>1. \/ UNCHANGED gameVars
        \/ /\ SubmitResponses(id.name, k, t)
           /\ Announce(id, <<progress', room_state'>>, <<>>)
    BY <1>7 DEF Submit
  <2>2. SubmitResponses(id.name, k, t) => phase' # "performing"
    BY DEF SubmitResponses, CanSubmitResponses
  <2> QED BY <2>1, <2>2, AnnounceBroadcasts, ContainsListed DEF Announced
<1>8. ASSUME NEW id \in Identity,
             \/ Advance(id) \/ Prev(id)
             \/ \E index \in SlideIndex : Goto(id, index)
      PROVE  Announced \/ UNCHANGED gameVars
  <2>1. \/ UNCHANGED gameVars
        \/ UNCHANGED players /\ AnnounceMove(id)
    BY <1>8 DEF Advance, Prev, Goto, AdvanceSlide, PrevSlide, GotoSlide
  <2>2. UNCHANGED players => statuses' = statuses
    BY DEF statuses, submitted, Seat
  <2> QED BY <2>1, <2>2, AnnounceBroadcasts, ContainsListed
          DEF Announced, AnnounceMove
<1> QED BY <1>1, <1>2, <1>3, <1>4, <1>5, <1>6, <1>7, <1>8 DEF Apply

\* "A snapshot of the room sent on join and after any state change" holds of
\* every command of every behaviour, for a roster and a deck of any size.
THEOREM ChangesAreAnnounced == RoomSpec => EveryChangeAnnounced
<1>1. [Apply]_roomVars => [gameVars' # gameVars => Announced]_roomVars
  BY ApplyAnnounces
<1>2. [gameVars' # gameVars => Announced]_roomVars
        => [LET told(msg) == Contains(reaction'.broadcasts, msg)
            IN  gameVars' # gameVars =>
                  /\ told(room_state')
                  /\ statuses' # statuses => told(progress')
                  /\ phase' = "performing" => told(slide_changed')]_roomVars
  BY DEF Announced
<1> QED BY <1>1, <1>2, PTL DEF RoomSpec, EveryChangeAnnounced

-----------------------------------------------------------------------------
(* What every command tells the room *)

\* Refused or only answered, told to nobody else; or one operation of the state
\* machine, with its own announcement.
Unannounced == UNCHANGED gameVars /\ reaction'.broadcasts = <<>>

RosterStep(n) ==
  /\ AddPlayer(n) \/ RemovePlayer(n)
  /\ reaction'.broadcasts = <<room_state', progress'>>

LobbyStep ==
  /\ StartCollecting \/ NewRound
  /\ reaction'.broadcasts = <<room_state', progress'>>

AnswerStep(n, k, t) ==
  /\ SubmitResponses(n, k, t)
  /\ reaction'.broadcasts = <<progress', room_state'>>

StartStep ==
  /\ StartGame
  /\ reaction'.broadcasts = <<game_started', slide_changed', room_state'>>

TurnStep ==
  /\ AdvanceSlide \/ PrevSlide \/ \E index \in SlideIndex : GotoSlide(index)
  /\ reaction'.broadcasts = <<slide_changed', room_state'>>

ArchiveStep == ArchiveRound /\ reaction'.broadcasts = <<room_state'>>

\* A reply broadcasts nothing.
LEMMA ReplyBroadcasts ==
  ASSUME NEW id, NEW msgs, Reply(id, msgs)
  PROVE  reaction'.broadcasts = <<>>
  BY DEF Reply, NoReaction

\* Every command is of one of these kinds.
LEMMA ApplyBroadcasts ==
  Apply => \/ Unannounced
           \/ \E n \in Name : RosterStep(n)
           \/ LobbyStep
           \/ \E n \in Name, k \in ItemCount, t \in Text : AnswerStep(n, k, t)
           \/ StartStep \/ TurnStep \/ ArchiveStep
<1> DEFINE Goal == \/ Unannounced
                   \/ \E n \in Name : RosterStep(n)
                   \/ LobbyStep
                   \/ \E n \in Name, k \in ItemCount, t \in Text : AnswerStep(n, k, t)
                   \/ StartStep \/ TurnStep \/ ArchiveStep
<1> SUFFICES ASSUME Apply PROVE Goal
  OBVIOUS
<1> USE ReplyBroadcasts, AnnounceBroadcasts DEF Refuse, HostRefused, MoveRefused
<1>1. ASSUME NEW requested \in Role, NEW n \in Name \cup {None},
             NEW token_ok \in BOOLEAN, JoinRoom(requested, n, token_ok)
      PROVE  Goal
  <2> DEFINE self_added == requested = "player" /\ n # None /\ CanAddPlayer(n)
  <2>1. CASE requested = "host" /\ ~ token_ok
    BY <1>1, <2>1 DEF JoinRoom, Unannounced
  <2>2. CASE (requested = "host" => token_ok) /\ self_added
    <3>1. n \in Name
      BY <2>2
    <3>2. AddPlayer(n) /\ reaction'.broadcasts = <<room_state', progress'>>
      BY <1>1, <2>2 DEF JoinRoom
    <3> QED BY <3>1, <3>2 DEF RosterStep
  <2>3. CASE (requested = "host" => token_ok) /\ ~ self_added
    <3>1. ~ (requested = "host" /\ ~ token_ok)
      BY <2>3
    <3>2. UNCHANGED gameVars
      BY <1>1, <2>3, <3>1 DEF JoinRoom
    <3>3. \E d : reaction' = [by |-> Placeholder, direct |-> d,
                             broadcasts |-> IF self_added
                                            THEN <<room_state', progress'>> ELSE <<>>,
                             effects |-> <<>>]
      BY <1>1, <3>1, Zenon DEF JoinRoom
    <3>4. reaction'.broadcasts = <<>>
      BY <2>3, <3>3
    <3> QED BY <3>2, <3>4 DEF Unannounced
  <2> QED BY <2>1, <2>2, <2>3
<1>2. ASSUME NEW id \in Identity, Ping(id)
      PROVE  Unannounced
  BY <1>2 DEF Ping, Unannounced
<1>3. ASSUME NEW id \in Identity, NEW n \in Name,
             HostAddPlayer(id, n) \/ HostRemovePlayer(id, n)
      PROVE  Unannounced \/ RosterStep(n)
  BY <1>3 DEF HostAddPlayer, HostRemovePlayer, Unannounced, RosterStep
<1>4. ASSUME NEW id \in Identity, HostStartCollecting(id) \/ HostNewRound(id)
      PROVE  Unannounced \/ LobbyStep
  BY <1>4 DEF HostStartCollecting, HostNewRound, Unannounced, LobbyStep
<1>5. ASSUME NEW id \in Identity, NEW k \in ItemCount, NEW t \in Text,
             Submit(id, k, t)
      PROVE  Goal
  <2>1. may_submit(id) => id.name \in Name
    BY IdentityAssumption DEF may_submit
  <2>2. Unannounced \/ (may_submit(id) /\ AnswerStep(id.name, k, t))
    BY <1>5 DEF Submit, Unannounced, AnswerStep
  <2> QED BY <2>1, <2>2
<1>6. ASSUME NEW id \in Identity, HostStartGame(id)
      PROVE  Unannounced \/ StartStep
  BY <1>6 DEF HostStartGame, Unannounced, StartStep
<1>7. ASSUME NEW id \in Identity, HostArchiveRound(id)
      PROVE  Unannounced \/ ArchiveStep
  BY <1>7 DEF HostArchiveRound, Unannounced, ArchiveStep
<1>8. ASSUME NEW id \in Identity,
             Advance(id) \/ Prev(id) \/ \E index \in SlideIndex : Goto(id, index)
      PROVE  Unannounced \/ TurnStep
  BY <1>8 DEF Advance, Prev, Goto, AnnounceMove, Unannounced, TurnStep
<1> QED BY <1>1, <1>2, <1>3, <1>4, <1>5, <1>6, <1>7, <1>8 DEF Apply

\* Nothing announced is out of date, for a roster and a deck of any size.
THEOREM NothingAnnouncedIsOld == RoomSpec => []BroadcastsAreCurrent
<1>1. RoomInit => BroadcastsAreCurrent
  BY DEF RoomInit, NoReaction, BroadcastsAreCurrent
<1>2. Apply => BroadcastsAreCurrent'
  <2> SUFFICES ASSUME Apply PROVE BroadcastsAreCurrent'
    OBVIOUS
  <2> DEFINE current == {room_state', progress', slide_changed', game_started'}
  <2>1. reaction'.broadcasts \in {<<>>, <<room_state'>>, <<room_state', progress'>>,
                                 <<progress', room_state'>>,
                                 <<slide_changed', room_state'>>,
                                 <<game_started', slide_changed', room_state'>>}
    BY ApplyBroadcasts DEF Unannounced, RosterStep, LobbyStep, AnswerStep,
                           StartStep, TurnStep, ArchiveStep
  <2>2. \A a, b, c \in current :
          /\ \A k \in DOMAIN <<a>> : <<a>>[k] \in current
          /\ \A k \in DOMAIN <<a, b>> : <<a, b>>[k] \in current
          /\ \A k \in DOMAIN <<a, b, c>> : <<a, b, c>>[k] \in current
    OBVIOUS
  <2>3. /\ room_state' \in current /\ progress' \in current
        /\ slide_changed' \in current /\ game_started' \in current
    OBVIOUS
  <2> HIDE DEF current
  <2>4. \A k \in DOMAIN reaction'.broadcasts : reaction'.broadcasts[k] \in current
    BY <2>1, <2>2, <2>3
  <2> QED BY <2>4 DEF BroadcastsAreCurrent, current
<1>3. BroadcastsAreCurrent /\ UNCHANGED roomVars => BroadcastsAreCurrent'
  <2> SUFFICES ASSUME BroadcastsAreCurrent, UNCHANGED roomVars
               PROVE  BroadcastsAreCurrent'
    OBVIOUS
  <2>1. UNCHANGED <<room_state, progress, slide_changed, game_started>>
    BY DEF roomVars, room_state, snapshot, progress, slide_changed, game_started,
           statuses, submitted, submitted_count, Seat, total_slides, build_slides,
           Closing, Segment, PromptCount, slide_at, current_controller,
           controller_at, slide_controller
  <2> QED BY <2>1 DEF BroadcastsAreCurrent, roomVars
<1> QED BY <1>1, <1>2, <1>3, PTL DEF RoomSpec

-----------------------------------------------------------------------------
(* Who may change what *)

\* Nobody has answered before there is anything to answer.
LobbyBlank == phase = "lobby" => \A i \in Seat : players[i].responses = None

\* What is left after a removal was there before.
LEMMA RemovedFrom ==
  ASSUME GameTypeOK, NEW n \in Name, RemovePlayer(n)
  PROVE  \A i \in Seat' : \E j \in Seat : players'[i] = players[j]
<1>1. PICK r \in Seat : players' = RemoveAt(players, r)
  BY DEF RemovePlayer
<1>2. /\ Len(players') = Len(players) - 1 /\ players' \in Seq(Player)
      /\ \A j \in 1 .. Len(players) - 1 : players'[j] = players[IF j < r THEN j ELSE j + 1]
  BY <1>1, RemoveAtElements DEF GameTypeOK, Seat
<1> QED BY <1>2 DEF GameTypeOK, Seat

\* A new entry is blank, and so is a roster that starts again.
LEMMA LobbyBlankStep == GameInv /\ LobbyBlank /\ [GameNext]_gameVars => LobbyBlank'
<1> SUFFICES ASSUME GameInv, LobbyBlank, [GameNext]_gameVars, phase' = "lobby",
                    NEW i \in Seat'
             PROVE  players'[i].responses = None
  BY DEF LobbyBlank
<1>1. CASE phase = "lobby" /\ players' = players
  BY <1>1 DEF LobbyBlank, Seat
<1>2. ASSUME NEW n \in Name, AddPlayer(n)
      PROVE  players'[i].responses = None
  <2>1. players \in Seq(Player) /\ players' = Append(players, NewPlayer(n))
    BY <1>2 DEF AddPlayer, GameInv, GameTypeOK
  <2>2. i \in 1 .. Len(players) \/ i = Len(players) + 1
    BY <2>1 DEF Seat
  <2>3. players'[i] = IF i \in 1 .. Len(players) THEN players[i] ELSE NewPlayer(n)
    BY <2>1, <2>2
  <2>4. phase = "lobby"
    BY <1>2 DEF AddPlayer, CanAddPlayer
  <2> QED BY <2>1, <2>2, <2>3, <2>4 DEF LobbyBlank, Seat, NewPlayer
<1>3. ASSUME NEW n \in Name, RemovePlayer(n)
      PROVE  players'[i].responses = None
  <2>1. \E j \in Seat : players'[i] = players[j]
    BY <1>3, RemovedFrom DEF GameInv
  <2>2. phase = "lobby"
    BY <1>3 DEF RemovePlayer, CanRemovePlayer
  <2> QED BY <2>1, <2>2 DEF LobbyBlank
<1>4. CASE NewRound
  BY <1>4 DEF NewRound, Seat
<1>5. \/ phase = "lobby" /\ players' = players
      \/ \E n \in Name : AddPlayer(n) \/ RemovePlayer(n)
      \/ NewRound
  BY DEF GameNext, gameVars, StartCollecting, SubmitResponses, CanSubmitResponses,
         StartGame, AdvanceSlide, PrevSlide, GotoSlide, ArchiveRound
<1> QED BY <1>1, <1>2, <1>3, <1>4, <1>5

\* The roster starts blank, and stays so until submissions open.
LEMMA LobbyStaysBlank == GameSpec => []LobbyBlank
<1>1. GameInit => LobbyBlank
  BY DEF GameInit, LobbyBlank, Seat
<1> QED BY <1>1, LobbyBlankStep, GameInvariant, PTL DEF GameSpec

\* The parts of WhoMayChangeWhat: the phase and the roster, ...
PhaseByHost ==
  phase' # phase \/ Roster \ Roster' # {} => is_host(reaction'.by)

\* ... the answers, ...
AnswersByOwner ==
  \A i \in Seat \cap Seat' :
    players'[i].responses \notin {players[i].responses, None} =>
      reaction'.by = [role |-> "player", name |-> players[i].name]

\* ... and the slide.
SlideByReader ==
  phase = phase' /\ current_slide' # current_slide =>
    \/ is_host(reaction'.by)
    \/ /\ reaction'.by.role = "player"
       /\ LET block == slide_at(current_slide)[1]
          IN  \E i \in Seat : /\ players[i].partner = reaction'.by.name
                             /\ i = IF block = 0 THEN 1 ELSE block

\* A step that leaves the players alone takes nobody off and adds no answer.
LEMMA SamePlayers == players' = players => Roster' = Roster /\ AnswersByOwner
  BY DEF Roster, Seat, AnswersByOwner

\* A new entry comes last and takes nobody off.
LEMMA AddedLast ==
  ASSUME GameTypeOK, NEW n \in Name, AddPlayer(n)
  PROVE  /\ Roster \ Roster' = {} /\ AnswersByOwner
         /\ phase' = phase /\ current_slide' = current_slide
<1>1. /\ Seat \subseteq Seat' /\ \A i \in Seat : players'[i] = players[i]
      /\ phase' = phase /\ current_slide' = current_slide
  BY DEF AddPlayer, GameTypeOK, Seat
<1> QED BY <1>1 DEF Roster, AnswersByOwner

\* No command leaves a mark of somebody who may not make it.
LEMMA ApplyKeepsAuthority ==
  GameInv /\ LobbyBlank /\ Apply => PhaseByHost /\ AnswersByOwner /\ SlideByReader
<1> SUFFICES ASSUME GameInv, LobbyBlank, Apply
             PROVE  PhaseByHost /\ AnswersByOwner /\ SlideByReader
  OBVIOUS
<1> DEFINE Goal == PhaseByHost /\ AnswersByOwner /\ SlideByReader
<1> USE DEF Refuse, HostRefused, MoveRefused
<1>0. GameTypeOK
  BY DEF GameInv
<1>a. UNCHANGED gameVars => Goal
  BY SamePlayers DEF PhaseByHost, SlideByReader, gameVars
<1>b. ASSUME NEW n \in Name, AddPlayer(n) PROVE Goal
  BY <1>0, <1>b, AddedLast DEF PhaseByHost, SlideByReader
<1>c. ASSUME NEW id, NEW msgs, NEW effects, Announce(id, msgs, effects)
      PROVE  reaction'.by = id
  BY <1>c DEF Announce, NoReaction
<1>d. ASSUME is_host(reaction'.by), AnswersByOwner PROVE Goal
  BY <1>d DEF PhaseByHost, SlideByReader
<1>1. ASSUME NEW requested \in Role, NEW n \in Name \cup {None},
             NEW token_ok \in BOOLEAN, JoinRoom(requested, n, token_ok)
      PROVE  Goal
  <2>1. UNCHANGED gameVars \/ (n \in Name /\ AddPlayer(n))
    BY <1>1 DEF JoinRoom
  <2> QED BY <1>a, <1>b, <2>1
<1>2. ASSUME NEW id \in Identity, Ping(id)
      PROVE  Goal
  BY <1>2, <1>a DEF Ping
<1>3. ASSUME NEW id \in Identity, NEW n \in Name,
             HostAddPlayer(id, n) \/ HostRemovePlayer(id, n)
      PROVE  Goal
  <2>1. \/ UNCHANGED gameVars
        \/ AddPlayer(n)
        \/ is_host(id) /\ reaction'.by = id /\ RemovePlayer(n)
    BY <1>3, <1>c DEF HostAddPlayer, HostRemovePlayer
  <2>2. ASSUME RemovePlayer(n) PROVE AnswersByOwner
    <3>1. \A i \in Seat' : \E j \in Seat : players'[i] = players[j]
      BY <1>0, <2>2, RemovedFrom
    <3>2. phase = "lobby"
      BY <2>2 DEF RemovePlayer, CanRemovePlayer
    <3> QED BY <3>1, <3>2 DEF LobbyBlank, AnswersByOwner
  <2> QED BY <1>a, <1>b, <1>d, <2>1, <2>2
<1>4. ASSUME NEW id \in Identity,
             \/ HostStartCollecting(id) \/ HostStartGame(id)
             \/ HostArchiveRound(id) \/ HostNewRound(id)
      PROVE  Goal
  <2>1. \/ UNCHANGED gameVars
        \/ /\ is_host(id) /\ reaction'.by = id
           /\ StartCollecting \/ StartGame \/ ArchiveRound \/ NewRound
    BY <1>4, <1>c DEF HostStartCollecting, HostStartGame, HostArchiveRound, HostNewRound
  <2>2. StartCollecting => AnswersByOwner
    BY DEF StartCollecting, AnswersByOwner, Seat
  <2>3. StartGame \/ ArchiveRound => AnswersByOwner
    BY SamePlayers DEF StartGame, ArchiveRound
  <2>4. NewRound => AnswersByOwner
    BY DEF NewRound, AnswersByOwner, Seat
  <2> QED BY <1>a, <1>d, <2>1, <2>2, <2>3, <2>4
<1>5. ASSUME NEW id \in Identity, NEW k \in ItemCount, NEW t \in Text,
             Submit(id, k, t)
      PROVE  Goal
  <2>1. \/ UNCHANGED gameVars
        \/ may_submit(id) /\ reaction'.by = id /\ SubmitResponses(id.name, k, t)
    BY <1>5, <1>c DEF Submit
  <2>2. ASSUME may_submit(id), reaction'.by = id, SubmitResponses(id.name, k, t)
        PROVE  Goal
    <3>1. PICK r \in Seat :
            /\ FirstSeat(id.name, r)
            /\ players' = [players EXCEPT ![r].responses = [items |-> k, signoff |-> t]]
      BY <2>2 DEF SubmitResponses
    <3>2. /\ Seat' = Seat
          /\ \A i \in Seat : /\ players'[i].name = players[i].name
                             /\ i # r => players'[i].responses = players[i].responses
      BY <1>0, <3>1 DEF GameTypeOK, Seat, Player
    <3>3. id = [role |-> "player", name |-> players[r].name]
      <4>1. id \in [role : Role, name : Name \cup {None}]
        BY IdentityAssumption
      <4>2. id.role = "player" /\ id.name = players[r].name
        BY <2>2, <3>1 DEF may_submit, FirstSeat
      <4> QED BY <4>1, <4>2
    <3>4. AnswersByOwner
      BY <2>2, <3>2, <3>3 DEF AnswersByOwner
    <3>5. Roster' = Roster
      BY <3>2 DEF Roster
    <3>6. UNCHANGED <<phase, current_slide>>
      BY <2>2 DEF SubmitResponses
    <3> QED BY <3>4, <3>5, <3>6 DEF PhaseByHost, SlideByReader
  <2> QED BY <1>a, <2>1, <2>2
<1>6. ASSUME NEW id \in Identity,
             Advance(id) \/ Prev(id) \/ \E index \in SlideIndex : Goto(id, index)
      PROVE  Goal
  <2>1. \/ UNCHANGED gameVars
        \/ /\ may_control(id) /\ reaction'.by = id
           /\ phase = "performing" /\ UNCHANGED <<phase, players>>
    BY <1>6, <1>c DEF Advance, Prev, Goto, AnnounceMove, AdvanceSlide, PrevSlide,
                      GotoSlide, CanMove, CanGotoSlide
  <2>2. ASSUME may_control(id), reaction'.by = id, phase = "performing"
        PROVE  SlideByReader
    <3>1. CASE is_host(id)
      BY <2>2, <3>1 DEF SlideByReader
    <3>2. CASE ~ is_host(id)
      <4>1. id.role = "player" /\ id.name # None /\ id.name = current_controller
        BY <2>2, <3>2 DEF may_control
      <4>2. players # <<>> /\ SlideInRange
        BY <2>2 DEF GameInv, Assigned
      <4> QED BY <1>0, <2>2, <4>1, <4>2, ControllerIs DEF SlideByReader
    <3> QED BY <3>1, <3>2
  <2> QED BY <1>a, <2>1, <2>2, SamePlayers DEF PhaseByHost
<1> QED BY <1>1, <1>2, <1>3, <1>4, <1>5, <1>6 DEF Apply

\* The phase and the roster are in the host's hands, an answer in its player's,
\* the slide in the host's and the reader's, for every roster, deck and set of
\* connections.
THEOREM AuthorityIsKept == RoomSpec => WhoMayChangeWhat
<1> DEFINE Kept == PhaseByHost /\ AnswersByOwner /\ SlideByReader
<1>1. GameInv /\ LobbyBlank /\ [Apply]_roomVars => [Kept]_roomVars
  BY ApplyKeepsAuthority
<1>2. [Kept]_roomVars
        => [LET by == reaction'.by
                block == slide_at(current_slide)[1]
            IN  /\ phase' # phase \/ Roster \ Roster' # {} => is_host(by)
                /\ \A i \in Seat \cap Seat' :
                     players'[i].responses \notin {players[i].responses, None} =>
                       by = [role |-> "player", name |-> players[i].name]
                /\ phase = phase' /\ current_slide' # current_slide =>
                     \/ is_host(by)
                     \/ /\ by.role = "player"
                        /\ \E i \in Seat : /\ players[i].partner = by.name
                                           /\ i = IF block = 0 THEN 1 ELSE block]_roomVars
  BY DEF PhaseByHost, AnswersByOwner, SlideByReader
<1>3. RoomSpec => [](GameInv /\ LobbyBlank)
  BY RoomImplementsGame, GameInvariant, LobbyStaysBlank, PTL DEF ImplementsGame
<1> QED BY <1>1, <1>2, <1>3, PTL DEF RoomSpec, WhoMayChangeWhat

-----------------------------------------------------------------------------
(* Types *)

DirectTypes == {"joined", "room_state", "submission_progress", "assignment",
                "slide_changed", "pong", "error"}

BroadcastTypes == {"room_state", "submission_progress", "game_started", "slide_changed"}

\* The part of RoomTypeOK that is about the reaction.
ReactionTypeOK ==
  /\ reaction.by \in Identity \cup {Placeholder}
  /\ {reaction.direct[k].type : k \in DOMAIN reaction.direct} \subseteq DirectTypes
  /\ {reaction.broadcasts[k].type : k \in DOMAIN reaction.broadcasts} \subseteq BroadcastTypes
  /\ {reaction.effects[k].kind : k \in DOMAIN reaction.effects} \subseteq {"save", "archive"}
  /\ Len(reaction.broadcasts) <= 3
  /\ Len(reaction.direct) <= 4
  /\ Len(reaction.effects) <= 1

\* A sequence of messages of these types.
LEMMA TypesOf ==
  ASSUME NEW M, NEW s \in Seq(M), NEW T, \A m \in M : m.type \in T
  PROVE  {s[k].type : k \in DOMAIN s} \subseteq T
  OBVIOUS

\* Short sequences.
LEMMA ShortSequences ==
  /\ \A M : <<>> \in Seq(M)
  /\ \A M : \A a \in M : <<a>> \in Seq(M)
  /\ \A M : \A a, b \in M : <<a, b>> \in Seq(M)
  /\ \A M : \A a, b, c \in M : <<a, b, c>> \in Seq(M)
  /\ \A a : Len(<<a>>) = 1
  /\ \A a, b : Len(<<a, b>>) = 2
  /\ \A a, b, c : Len(<<a, b, c>>) = 3
  OBVIOUS

\* Answering and announcing.
LEMMA ReactionTypes ==
  ASSUME NEW id \in Identity \cup {Placeholder}
  PROVE  /\ \A code : Reply(id, <<error(code)>>) => ReactionTypeOK'
         /\ Reply(id, <<pong>>) => ReactionTypeOK'
         /\ \A msgs \in Seq({room_state', progress', slide_changed', game_started'}),
              effects \in {<<>>} \cup {<<SaveFinalResponses(e)>> : e \in {round_entries'}}
                              \cup {<<ArchiveRoundEffect(e)>> : e \in {round_entries}} :
              Len(msgs) <= 3 /\ Announce(id, msgs, effects) => ReactionTypeOK'
<1>1. ASSUME NEW m, m.type \in DirectTypes, Reply(id, <<m>>) PROVE ReactionTypeOK'
  <2>1. /\ reaction'.by = id /\ reaction'.direct = <<m>> /\ reaction'.broadcasts = <<>>
        /\ reaction'.effects = <<>>
    BY <1>1 DEF Reply, NoReaction
  <2>2. {<<m>>[k].type : k \in DOMAIN <<m>>} \subseteq DirectTypes
    BY <1>1
  <2> QED BY <2>1, <2>2 DEF ReactionTypeOK
<1>2. \A code : error(code).type \in DirectTypes
  BY DEF error, DirectTypes
<1>3. pong.type \in DirectTypes
  BY DEF pong, DirectTypes
<1>4. ASSUME NEW msgs \in Seq({room_state', progress', slide_changed', game_started'}),
             NEW effects \in {<<>>} \cup {<<SaveFinalResponses(e)>> : e \in {round_entries'}}
                               \cup {<<ArchiveRoundEffect(e)>> : e \in {round_entries}},
             Len(msgs) <= 3, Announce(id, msgs, effects)
      PROVE  ReactionTypeOK'
  <2>1. /\ reaction'.by = id /\ reaction'.direct = <<>> /\ reaction'.broadcasts = msgs
        /\ reaction'.effects = effects
    BY <1>4 DEF Announce, NoReaction
  <2>2. {effects[k].kind : k \in DOMAIN effects} \subseteq {"save", "archive"} /\ Len(effects) <= 1
    <3>1. effects = <<>> \/ \E e : effects = <<e>> /\ e.kind \in {"save", "archive"}
      BY <1>4 DEF SaveFinalResponses, ArchiveRoundEffect
    <3>2. CASE effects = <<>>
      BY <3>2
    <3>3. ASSUME NEW e, effects = <<e>>, e.kind \in {"save", "archive"}
          PROVE  {effects[k].kind : k \in DOMAIN effects} \subseteq {"save", "archive"} /\ Len(effects) <= 1
      <4>1. DOMAIN <<e>> = {1} /\ <<e>>[1] = e /\ Len(<<e>>) = 1
        OBVIOUS
      <4> QED BY <3>3, <4>1
    <3> QED BY <3>1, <3>2, <3>3
  <2>3. \A m \in {room_state', progress', slide_changed', game_started'} : m.type \in BroadcastTypes
    BY DEF room_state, progress, slide_changed, game_started, BroadcastTypes
  <2>4. {msgs[k].type : k \in DOMAIN msgs} \subseteq BroadcastTypes
    <3> HIDE DEF BroadcastTypes
    <3> QED BY <2>3
  <2> QED BY <1>4, <2>1, <2>2, <2>4 DEF ReactionTypeOK
<1> QED BY <1>1, <1>2, <1>3, <1>4

\* Announcing one, two or three messages of the state after the step.
LEMMA AnnounceTypes ==
  ASSUME NEW id \in Identity \cup {Placeholder},
         NEW a \in {room_state', progress', slide_changed', game_started'},
         NEW b \in {room_state', progress', slide_changed', game_started'},
         NEW c \in {room_state', progress', slide_changed', game_started'},
         NEW effects \in {<<>>, <<SaveFinalResponses(round_entries')>>,
                         <<ArchiveRoundEffect(round_entries)>>}
  PROVE  /\ Announce(id, <<a>>, effects) => ReactionTypeOK'
         /\ Announce(id, <<a, b>>, effects) => ReactionTypeOK'
         /\ Announce(id, <<a, b, c>>, effects) => ReactionTypeOK'
<1> DEFINE M == {room_state', progress', slide_changed', game_started'}
           E == {<<>>} \cup {<<SaveFinalResponses(e)>> : e \in {round_entries'}}
                       \cup {<<ArchiveRoundEffect(e)>> : e \in {round_entries}}
<1>1. a \in M /\ b \in M /\ c \in M /\ effects \in E
  OBVIOUS
<1>2. ASSUME NEW msgs \in Seq(M), Len(msgs) <= 3, Announce(id, msgs, effects)
      PROVE  ReactionTypeOK'
  BY <1>1, <1>2, ReactionTypes
<1> HIDE DEF M, E
<1>3. /\ <<a>> \in Seq(M) /\ <<a, b>> \in Seq(M) /\ <<a, b, c>> \in Seq(M)
      /\ Len(<<a>>) <= 3 /\ Len(<<a, b>>) <= 3 /\ Len(<<a, b, c>>) <= 3
  BY <1>1, ShortSequences
<1> QED BY <1>2, <1>3

\* What a join is answered with.
LEMMA JoinTypes ==
  ASSUME NEW requested \in Role, NEW n \in Name \cup {None}, NEW token_ok \in BOOLEAN,
         JoinRoom(requested, n, token_ok)
  PROVE  ReactionTypeOK'
<1>1. CASE requested = "host" /\ ~ token_ok
  BY <1>1, ReactionTypes DEF JoinRoom, Refuse
<1>2. CASE ~ (requested = "host" /\ ~ token_ok)
  <2> DEFINE told == IF requested = "player" /\ phase' = "collecting"
                     THEN assignment(n)' ELSE <<>>
             shown == IF phase' = "performing" THEN <<slide_changed'>> ELSE <<>>
             first == <<joined(requested, n), room_state', progress'>>
             added == requested = "player" /\ n # None /\ CanAddPlayer(n)
             news  == IF added THEN <<room_state', progress'>> ELSE <<>>
  <2>1. reaction' = [by |-> Placeholder, direct |-> first \o told \o shown,
                     broadcasts |-> news, effects |-> <<>>]
    BY <1>2 DEF JoinRoom
  <2> DEFINE M == {m \in {joined(requested, n), room_state', progress', slide_changed'}
                          \cup {assignment(n)'[1]} : m.type \in DirectTypes}
  <2>2. joined(requested, n) \in M /\ room_state' \in M /\ progress' \in M /\ slide_changed' \in M
    BY DEF joined, room_state, progress, slide_changed, DirectTypes
  <2>3. first \in Seq(M) /\ shown \in Seq(M)
    <3> HIDE DEF M
    <3> QED BY <2>2
  <2>4. told \in Seq(M)
    <3>1. assignment(n)' = <<>> \/ \E p, q : assignment(n)' =
                                    <<[type |-> "assignment", partner |-> p, prompts |-> q]>>
      BY DEF assignment
    <3>2. assignment(n)' # <<>> => /\ assignment(n)'[1].type \in DirectTypes
                                  /\ assignment(n)' = <<assignment(n)'[1]>>
      BY <3>1 DEF DirectTypes
    <3>3. assignment(n)' # <<>> => assignment(n)'[1] \in M
      BY <3>2
    <3> HIDE DEF M
    <3>4. assignment(n)' \in Seq(M)
      <4>1. CASE assignment(n)' = <<>>
        BY <4>1, ShortSequences
      <4>2. CASE assignment(n)' # <<>>
        BY <3>2, <3>3, <4>2, ShortSequences
      <4> QED BY <4>1, <4>2
    <3> QED BY <3>4, ShortSequences
  <2>5. first \o told \o shown \in Seq(M)
    <3> HIDE DEF M, first, told, shown
    <3> QED BY <2>3, <2>4, ConcatProperties
  <2>6. \A m \in M : m.type \in DirectTypes
    OBVIOUS
  <2> DEFINE d == first \o told \o shown
  <2>7. {d[k].type : k \in DOMAIN d} \subseteq DirectTypes
    <3>1. d \in Seq(M)
      BY <2>5
    <3> HIDE DEF M, d
    <3> QED BY <2>6, <3>1, TypesOf
  <2>8. {news[k].type : k \in DOMAIN news} \subseteq BroadcastTypes
    <3>1. room_state'.type \in BroadcastTypes /\ progress'.type \in BroadcastTypes
      BY DEF room_state, progress, BroadcastTypes
    <3> HIDE DEF added
    <3> QED BY <3>1
  <2>10. /\ Len(first) = 3 /\ Len(told) <= 1 /\ Len(shown) <= 1 /\ Len(news) <= 3
         /\ told = <<>> \/ shown = <<>>
    <3>1. Len(assignment(n)') <= 1
      BY DEF assignment
    <3> HIDE DEF added
    <3> QED BY <3>1
  <2>11. Len(d) <= 4
    <3> HIDE DEF M, first, told, shown
    <3>1. Len(first \o told) = Len(first) + Len(told) /\ first \o told \in Seq(M)
      BY <2>3, <2>4, ConcatProperties
    <3>2. Len(d) = Len(first \o told) + Len(shown)
      BY <2>3, <3>1, ConcatProperties
    <3> HIDE DEF d
    <3>3. Len(told) = 0 \/ Len(shown) = 0
      BY <2>10
    <3>4. Len(told) \in Nat /\ Len(shown) \in Nat
      BY <2>3, <2>4
    <3> QED BY <2>10, <3>1, <3>2, <3>3, <3>4
  <2> HIDE DEF first, told, shown, news
  <2>9. /\ reaction'.by = Placeholder /\ reaction'.direct = d
        /\ reaction'.broadcasts = news /\ reaction'.effects = <<>>
    BY <2>1
  <2>12. Len(<<>>) = 0
    OBVIOUS
  <2> QED BY <2>7, <2>8, <2>9, <2>10, <2>11, <2>12 DEF ReactionTypeOK
<1> QED BY <1>1, <1>2

\* Every command leaves a reaction of the right type.
LEMMA ApplyTypes == Apply => ReactionTypeOK'
<1> SUFFICES ASSUME Apply PROVE ReactionTypeOK'
  OBVIOUS
<1> USE AnnounceTypes, ReactionTypes DEF Refuse, HostRefused, MoveRefused
<1>1. ASSUME NEW requested \in Role, NEW n \in Name \cup {None},
             NEW token_ok \in BOOLEAN, JoinRoom(requested, n, token_ok)
      PROVE  ReactionTypeOK'
  BY <1>1, JoinTypes
<1>2. ASSUME NEW id \in Identity, Ping(id) PROVE ReactionTypeOK'
  BY <1>2 DEF Ping
<1>3. ASSUME NEW id \in Identity, NEW n \in Name,
             HostAddPlayer(id, n) \/ HostRemovePlayer(id, n)
      PROVE  ReactionTypeOK'
  BY <1>3 DEF HostAddPlayer, HostRemovePlayer
<1>4. ASSUME NEW id \in Identity, HostStartCollecting(id) \/ HostNewRound(id)
      PROVE  ReactionTypeOK'
  BY <1>4 DEF HostStartCollecting, HostNewRound
<1>5. ASSUME NEW id \in Identity, NEW k \in ItemCount, NEW t \in Text, Submit(id, k, t)
      PROVE  ReactionTypeOK'
  BY <1>5 DEF Submit
<1>6. ASSUME NEW id \in Identity, HostStartGame(id) PROVE ReactionTypeOK'
  BY <1>6 DEF HostStartGame
<1>7. ASSUME NEW id \in Identity, HostArchiveRound(id) PROVE ReactionTypeOK'
  BY <1>7 DEF HostArchiveRound
<1>8. ASSUME NEW id \in Identity,
             Advance(id) \/ Prev(id) \/ \E index \in SlideIndex : Goto(id, index)
      PROVE  ReactionTypeOK'
  BY <1>8 DEF Advance, Prev, Goto, AnnounceMove
<1> QED BY <1>1, <1>2, <1>3, <1>4, <1>5, <1>6, <1>7, <1>8 DEF Apply

\* The rest of RoomTypeOK is about the game.
LEMMA RoomTypeParts == GameTypeOK /\ ReactionTypeOK => RoomTypeOK
<1>1. GameTypeOK => statuses \in Seq(Status)
  <2> SUFFICES ASSUME GameTypeOK PROVE statuses \in Seq(Status)
    OBVIOUS
  <2>1. Len(players) \in Nat /\ Seat = 1 .. Len(players)
    BY DEF GameTypeOK, Seat
  <2>2. \A i \in Seat : [name |-> players[i].name, submitted |-> submitted(i)] \in Status
    <3> TAKE i \in Seat
    <3>1. submitted(i) \in BOOLEAN
      BY DEF submitted
    <3>2. players[i] \in Player
      BY DEF GameTypeOK, Seat
    <3>3. players[i].name \in Name
      BY <3>2 DEF Player
    <3> QED BY <3>1, <3>3 DEF Status
  <2>3. statuses \in [1 .. Len(players) -> Status]
    BY <2>1, <2>2 DEF statuses
  <2> QED BY <2>1, <2>3
<1> QED BY <1>1 DEF RoomTypeOK, ReactionTypeOK, DirectTypes, BroadcastTypes

\* Every room and every reaction has its type.
THEOREM RoomTypes == RoomSpec => []RoomTypeOK
<1>1. RoomInit => ReactionTypeOK
  BY DEF RoomInit, NoReaction, ReactionTypeOK
<1>2. ReactionTypeOK /\ [Apply]_roomVars => ReactionTypeOK'
  BY ApplyTypes DEF roomVars, ReactionTypeOK
<1> QED BY <1>1, <1>2, RoomTypeParts, RoomImplementsGame, TypeCorrect, PTL
        DEF RoomSpec, ImplementsGame

-----------------------------------------------------------------------------
(* One answer or one announcement *)

\* The positions of the messages of some types.
At(msgs, types) == {k \in DOMAIN msgs : msgs[k].type \in types}

AnswerTypes == {"joined", "pong", "error"}

\* The step of AnsweredOrAnnounced.
MetOnce ==
  /\ At(reaction'.direct, AnswerTypes) = IF reaction'.direct = <<>> THEN {} ELSE {1}
  /\ Cardinality(At(reaction'.broadcasts, {"room_state"}))
       = IF reaction'.broadcasts = <<>> THEN 0 ELSE 1
  /\ reaction'.direct # <<>> \/ reaction'.broadcasts # <<>>
  /\ reaction'.direct # <<>> /\ reaction'.broadcasts # <<>> =>
       reaction'.direct[1].type = "joined" /\ players' # players
  /\ reaction'.direct # <<>> => reaction'.effects = <<>>

\* Among no messages there is none of any type.
LEMMA AtNone == \A types : At(<<>>, types) = {} /\ Cardinality(At(<<>>, types)) = 0
  BY FS_EmptySet DEF At

\* The types of what the room is told.
LEMMA ToldTypes ==
  /\ room_state'.type = "room_state" /\ progress'.type = "submission_progress"
  /\ slide_changed'.type = "slide_changed" /\ game_started'.type = "game_started"
  BY DEF room_state, progress, slide_changed, game_started

\* One room_state stands in each of the announcements of the reducer.
LEMMA OneState ==
  /\ At(<<room_state'>>, {"room_state"}) = {1}
  /\ At(<<room_state', progress'>>, {"room_state"}) = {1}
  /\ At(<<progress', room_state'>>, {"room_state"}) = {2}
  /\ At(<<slide_changed', room_state'>>, {"room_state"}) = {2}
  /\ At(<<game_started', slide_changed', room_state'>>, {"room_state"}) = {3}
<1> DEFINE a == room_state'
           b == progress'
           c == slide_changed'
           d == game_started'
<1>1. /\ a.type = "room_state" /\ b.type # "room_state"
      /\ c.type # "room_state" /\ d.type # "room_state"
  BY ToldTypes
<1> HIDE DEF a, b, c, d
<1>2. At(<<a>>, {"room_state"}) = {1}
  BY <1>1 DEF At
<1>3. At(<<a, b>>, {"room_state"}) = {1}
  BY <1>1 DEF At
<1>4. At(<<b, a>>, {"room_state"}) = {2}
  BY <1>1 DEF At
<1>5. At(<<c, a>>, {"room_state"}) = {2}
  BY <1>1 DEF At
<1>6. At(<<d, c, a>>, {"room_state"}) = {3}
  BY <1>1 DEF At
<1> QED BY <1>2, <1>3, <1>4, <1>5, <1>6 DEF a, b, c, d

\* A reply of one answer is met, by nobody else.
LEMMA ReplyMet ==
  ASSUME NEW id, NEW m, m.type \in AnswerTypes, Reply(id, <<m>>)
  PROVE  MetOnce
<1>1. /\ reaction'.direct = <<m>> /\ reaction'.broadcasts = <<>> /\ reaction'.effects = <<>>
  BY DEF Reply, NoReaction
<1>2. At(<<m>>, AnswerTypes) = {1} /\ <<m>> # <<>>
  BY DEF At
<1> QED BY <1>1, <1>2, AtNone DEF MetOnce

\* The one-message replies of the reducer are answers.
LEMMA AnswersMet ==
  /\ \A id, code : Reply(id, <<error(code)>>) => MetOnce
  /\ \A id : Reply(id, <<pong>>) => MetOnce
<1>1. pong.type \in AnswerTypes /\ \A code : error(code).type \in AnswerTypes
  BY DEF pong, error, AnswerTypes
<1> HIDE DEF AnswerTypes
<1> QED BY <1>1, ReplyMet

\* An announcement with one room_state is met, and by nobody in particular.
LEMMA AnnounceMet ==
  ASSUME NEW id, NEW msgs, NEW effects, NEW k, Announce(id, msgs, effects),
         At(msgs, {"room_state"}) = {k}
  PROVE  MetOnce
<1>1. /\ reaction'.direct = <<>> /\ reaction'.broadcasts = msgs
  BY DEF Announce, NoReaction
<1>2. msgs # <<>>
  BY AtNone
<1>3. Cardinality(At(msgs, {"room_state"})) = 1
  BY FS_Singleton
<1> QED BY <1>1, <1>2, <1>3, AtNone DEF MetOnce

\* The announcements of the reducer are met.
LEMMA AnnouncementsMet ==
  \A id, effects :
    /\ Announce(id, <<room_state'>>, effects) => MetOnce
    /\ Announce(id, <<room_state', progress'>>, effects) => MetOnce
    /\ Announce(id, <<progress', room_state'>>, effects) => MetOnce
    /\ Announce(id, <<slide_changed', room_state'>>, effects) => MetOnce
    /\ Announce(id, <<game_started', slide_changed', room_state'>>, effects) => MetOnce
<1> TAKE id, effects
<1>1. Announce(id, <<room_state'>>, effects) => MetOnce
  BY AnnounceMet, OneState
<1>2. Announce(id, <<room_state', progress'>>, effects) => MetOnce
  BY AnnounceMet, OneState
<1>3. Announce(id, <<progress', room_state'>>, effects) => MetOnce
  BY AnnounceMet, OneState
<1>4. Announce(id, <<slide_changed', room_state'>>, effects) => MetOnce
  BY AnnounceMet, OneState
<1>5. Announce(id, <<game_started', slide_changed', room_state'>>, effects) => MetOnce
  BY AnnounceMet, OneState
<1> QED BY <1>1, <1>2, <1>3, <1>4, <1>5

\* What follows the answer of a join is not an answer.
LEMMA FirstIsAnswer ==
  ASSUME NEW M, NEW a \in M, NEW b \in M, NEW c \in M, NEW told \in Seq(M), NEW shown \in Seq(M),
         a.type \in AnswerTypes, b.type \notin AnswerTypes, c.type \notin AnswerTypes,
         \A k \in DOMAIN told : told[k].type \notin AnswerTypes,
         \A k \in DOMAIN shown : shown[k].type \notin AnswerTypes
  PROVE  LET d == <<a, b, c>> \o told \o shown
         IN  d # <<>> /\ d[1] = a /\ At(d, AnswerTypes) = {1}
<1> DEFINE first == <<a, b, c>>
           both  == first \o told
           d     == both \o shown
           n     == Len(told)
           m     == Len(shown)
<1>1. /\ first \in Seq(M) /\ Len(first) = 3 /\ first[1] = a /\ first[2] = b /\ first[3] = c
      /\ n \in Nat /\ m \in Nat /\ DOMAIN told = 1 .. n /\ DOMAIN shown = 1 .. m
  OBVIOUS
<1> HIDE DEF first, n, m
<1>2. /\ both \in Seq(M) /\ Len(both) = 3 + n
      /\ \A k \in 1 .. 3 + n : both[k] = IF k <= 3 THEN first[k] ELSE told[k - 3]
  <2>1. /\ both \in Seq(M) /\ Len(both) = Len(first) + Len(told)
        /\ \A k \in 1 .. Len(first) + Len(told) :
             both[k] = IF k <= Len(first) THEN first[k] ELSE told[k - Len(first)]
    BY <1>1, ConcatProperties
  <2> HIDE DEF both
  <2> QED BY <1>1, <2>1 DEF n
<1> HIDE DEF both
<1>3. /\ d \in Seq(M) /\ Len(d) = 3 + n + m
      /\ \A k \in 1 .. 3 + n + m : d[k] = IF k <= 3 + n THEN both[k] ELSE shown[k - (3 + n)]
  <2>1. /\ d \in Seq(M) /\ Len(d) = Len(both) + Len(shown)
        /\ \A k \in 1 .. Len(both) + Len(shown) :
             d[k] = IF k <= Len(both) THEN both[k] ELSE shown[k - Len(both)]
    BY <1>2, ConcatProperties
  <2> HIDE DEF d
  <2> QED BY <1>2, <2>1 DEF m
<1> HIDE DEF d
<1>4. DOMAIN d = 1 .. 3 + n + m
  BY <1>3
<1>5. d[1] = a
  BY <1>1, <1>2, <1>3
<1>6. ASSUME NEW k \in 1 .. 3 + n + m, k # 1 PROVE d[k].type \notin AnswerTypes
  <2>1. CASE k <= 3
    <3>1. k = 2 \/ k = 3
      BY <1>1, <1>6, <2>1
    <3>2. d[k] = first[k]
      BY <1>1, <1>2, <1>3, <3>1
    <3> QED BY <1>1, <3>1, <3>2
  <2>2. CASE ~ (k <= 3) /\ k <= 3 + n
    <3>1. k - 3 \in 1 .. n /\ k \in 1 .. 3 + n
      BY <1>1, <2>2
    <3>2. d[k] = told[k - 3]
      BY <1>2, <1>3, <2>2, <3>1
    <3> QED BY <1>1, <3>1, <3>2
  <2>3. CASE ~ (k <= 3 + n)
    <3>1. k - (3 + n) \in 1 .. m
      BY <1>1, <2>3
    <3>2. d[k] = shown[k - (3 + n)]
      BY <1>3, <2>3
    <3> QED BY <1>1, <3>1, <3>2
  <2> QED BY <2>1, <2>2, <2>3
<1>7. 1 \in DOMAIN d
  BY <1>1, <1>4
<1>8. At(d, AnswerTypes) = {1}
  BY <1>4, <1>5, <1>6, <1>7 DEF At
<1>9. d # <<>>
  BY <1>7
<1>10. d = <<a, b, c>> \o told \o shown
  BY DEF d, both, first
<1> QED BY <1>5, <1>8, <1>9, <1>10

\* A join is met: refused, or answered with its identity first, and announced
\* when the roster grew.
LEMMA JoinMet ==
  ASSUME GameTypeOK,
         NEW requested \in Role, NEW n \in Name \cup {None}, NEW token_ok \in BOOLEAN,
         JoinRoom(requested, n, token_ok)
  PROVE  MetOnce
<1>1. CASE requested = "host" /\ ~ token_ok
  BY <1>1, AnswersMet DEF JoinRoom, Refuse
<1>2. CASE ~ (requested = "host" /\ ~ token_ok)
  <2> DEFINE told  == IF requested = "player" /\ phase' = "collecting"
                      THEN assignment(n)' ELSE <<>>
             shown == IF phase' = "performing" THEN <<slide_changed'>> ELSE <<>>
             a     == joined(requested, n)
             d     == <<a, room_state', progress'>> \o told \o shown
             added == requested = "player" /\ n # None /\ CanAddPlayer(n)
             news  == IF added THEN <<room_state', progress'>> ELSE <<>>
  <2>1. /\ reaction' = [by |-> Placeholder, direct |-> d, broadcasts |-> news, effects |-> <<>>]
        /\ IF added THEN AddPlayer(n) ELSE UNCHANGED gameVars
    BY <1>2 DEF JoinRoom
  <2>2. /\ a.type = "joined" /\ a.type \in AnswerTypes
        /\ room_state'.type \notin AnswerTypes /\ progress'.type \notin AnswerTypes
        /\ slide_changed'.type \notin AnswerTypes
    BY DEF joined, room_state, progress, slide_changed, AnswerTypes
  <2>3. told = <<>> \/ \E m : told = <<m>> /\ m.type \notin AnswerTypes
    <3>1. assignment(n)' = <<>> \/ \E p, q : assignment(n)' =
                                    <<[type |-> "assignment", partner |-> p, prompts |-> q]>>
      BY DEF assignment
    <3>2. \A p, q : [type |-> "assignment", partner |-> p, prompts |-> q].type \notin AnswerTypes
      BY DEF AnswerTypes
    <3>3. assignment(n)' = <<>> \/ \E m : assignment(n)' = <<m>> /\ m.type \notin AnswerTypes
      <4> HIDE DEF AnswerTypes
      <4> QED BY <3>1, <3>2
    <3> QED BY <3>3
  <2> DEFINE M == {a, room_state', progress'} \cup {told[1], slide_changed'}
  <2>4. /\ told \in Seq(M) /\ shown \in Seq(M)
        /\ \A k \in DOMAIN told : told[k].type \notin AnswerTypes
        /\ \A k \in DOMAIN shown : shown[k].type \notin AnswerTypes
    <3>1. told \in Seq(M) /\ \A k \in DOMAIN told : told[k].type \notin AnswerTypes
      <4>1. told[1] \in M
        OBVIOUS
      <4> HIDE DEF told, M, AnswerTypes
      <4>2. CASE told = <<>>
        BY <4>2, ShortSequences
      <4>3. CASE told # <<>>
        <5>1. PICK m : told = <<m>> /\ m.type \notin AnswerTypes
          BY <2>3, <4>3
        <5>2. m \in M
          BY <4>1, <5>1
        <5> QED BY <5>1, <5>2
      <4> QED BY <4>2, <4>3
    <3>2. shown \in Seq(M) /\ \A k \in DOMAIN shown : shown[k].type \notin AnswerTypes
      <4>1. slide_changed' \in M
        OBVIOUS
      <4> HIDE DEF M, AnswerTypes
      <4> QED BY <2>2, <4>1, ShortSequences
    <3> QED BY <3>1, <3>2
  <2>5. a \in M /\ room_state' \in M /\ progress' \in M
    OBVIOUS
  <2>6. d # <<>> /\ d[1] = a /\ At(d, AnswerTypes) = {1}
    <3> HIDE DEF M, told, shown, a, AnswerTypes
    <3> QED BY <2>2, <2>4, <2>5, FirstIsAnswer
  <2>7. Cardinality(At(news, {"room_state"})) = IF news = <<>> THEN 0 ELSE 1
    <3>1. CASE added
      <4>1. news = <<room_state', progress'>> /\ news # <<>>
        BY <3>1
      <4>2. Cardinality({1}) = 1
        BY FS_Singleton
      <4> HIDE DEF news, added
      <4> QED BY <4>1, <4>2, OneState
    <3>2. CASE ~ added
      <4>1. news = <<>>
        BY <3>2
      <4> HIDE DEF news, added
      <4> QED BY <4>1, AtNone
    <3> QED BY <3>1, <3>2
  <2>8. news # <<>> => players' # players
    <3>1. SUFFICES ASSUME added PROVE players' # players
      OBVIOUS
    <3>2. players' = Append(players, NewPlayer(n))
      BY <2>1, <3>1 DEF AddPlayer
    <3>3. players \in Seq(Player)
      BY DEF GameTypeOK
    <3>4. Len(players') = Len(players) + 1 /\ Len(players) \in Nat
      BY <3>2, <3>3
    <3> QED BY <3>4
  <2>9. /\ reaction'.direct = d /\ reaction'.broadcasts = news /\ reaction'.effects = <<>>
    <3> HIDE DEF d, news, added
    <3> QED BY <2>1
  <2> HIDE DEF d, news, a
  <2> QED BY <2>2, <2>6, <2>7, <2>8, <2>9 DEF MetOnce
<1> QED BY <1>1, <1>2

\* Every command is met.
LEMMA ApplyMet == GameTypeOK /\ Apply => MetOnce
<1> SUFFICES ASSUME GameTypeOK, Apply PROVE MetOnce
  OBVIOUS
<1> USE AnswersMet, AnnouncementsMet DEF Refuse, HostRefused, MoveRefused
<1>1. ASSUME NEW requested \in Role, NEW n \in Name \cup {None},
             NEW token_ok \in BOOLEAN, JoinRoom(requested, n, token_ok)
      PROVE  MetOnce
  BY <1>1, JoinMet
<1>2. ASSUME NEW id \in Identity, Ping(id) PROVE MetOnce
  BY <1>2 DEF Ping
<1>3. ASSUME NEW id \in Identity, NEW n \in Name,
             HostAddPlayer(id, n) \/ HostRemovePlayer(id, n)
      PROVE  MetOnce
  BY <1>3 DEF HostAddPlayer, HostRemovePlayer
<1>4. ASSUME NEW id \in Identity, HostStartCollecting(id) \/ HostNewRound(id)
      PROVE  MetOnce
  BY <1>4 DEF HostStartCollecting, HostNewRound
<1>5. ASSUME NEW id \in Identity, NEW k \in ItemCount, NEW t \in Text, Submit(id, k, t)
      PROVE  MetOnce
  BY <1>5 DEF Submit
<1>6. ASSUME NEW id \in Identity, HostStartGame(id) PROVE MetOnce
  BY <1>6 DEF HostStartGame
<1>7. ASSUME NEW id \in Identity, HostArchiveRound(id) PROVE MetOnce
  BY <1>7 DEF HostArchiveRound
<1>8. ASSUME NEW id \in Identity,
             Advance(id) \/ Prev(id) \/ \E index \in SlideIndex : Goto(id, index)
      PROVE  MetOnce
  BY <1>8 DEF Advance, Prev, Goto, AnnounceMove
<1> QED BY <1>1, <1>2, <1>3, <1>4, <1>5, <1>6, <1>7, <1>8 DEF Apply

\* Whatever the commands and however long the roster, each command is met by one
\* answer, the first of its replies, or by one announcement: what the handshake
\* of src/ws.rs and the model of the actor in Connections rely on.
THEOREM EveryCommandMet == RoomSpec => AnsweredOrAnnounced
<1>1. GameTypeOK /\ [Apply]_roomVars => [MetOnce]_roomVars
  BY ApplyMet
<1>2. [MetOnce]_roomVars
        => [LET direct  == reaction'.direct
                told    == reaction'.broadcasts
                answers == {k \in DOMAIN direct : direct[k].type \in {"joined", "pong", "error"}}
                states  == {k \in DOMAIN told : told[k].type = "room_state"}
            IN  /\ answers = IF direct = <<>> THEN {} ELSE {1}
                /\ Cardinality(states) = IF told = <<>> THEN 0 ELSE 1
                /\ direct # <<>> \/ told # <<>>
                /\ direct # <<>> /\ told # <<>> =>
                     direct[1].type = "joined" /\ players' # players
                /\ direct # <<>> => reaction'.effects = <<>>]_roomVars
  <2>1. {k \in DOMAIN reaction'.broadcasts : reaction'.broadcasts[k].type = "room_state"}
          = At(reaction'.broadcasts, {"room_state"})
    BY DEF At
  <2>2. {k \in DOMAIN reaction'.direct : reaction'.direct[k].type \in {"joined", "pong", "error"}}
          = At(reaction'.direct, AnswerTypes)
    BY DEF At, AnswerTypes
  <2> QED BY <2>1, <2>2, Zenon DEF MetOnce
<1>3. RoomSpec => []GameTypeOK
  BY RoomImplementsGame, TypeCorrect, PTL DEF ImplementsGame
<1> QED BY <1>1, <1>2, <1>3, PTL DEF RoomSpec, AnsweredOrAnnounced
=============================================================================
