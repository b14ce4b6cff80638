------------------------------ MODULE GameState ------------------------------
(***************************************************************************)
(* The phase machine of one room: src/state.rs.                            *)
(*                                                                         *)
(*   lobby -> collecting -> performing -> archived -> lobby ...            *)
(*                                                                         *)
(* Each operation of `GameState` is an action.  What the code checks       *)
(* before it changes anything is the operator Can..., so that a module     *)
(* that calls the operation (Room) can refuse exactly when the code does.  *)
(*                                                                         *)
(* Data abstraction: the answers of a player are their number (`items`)    *)
(* and one value that tells one submission from another (`signoff`); a     *)
(* prompt set is its id and the number of its prompts.  A slide is a pair  *)
(* <<block, line>>: block 0 is the rules slide, block i in 1..n is the     *)
(* segment of the i-th player, block n+1 is the credits and the blank.     *)
(* Sequences start at 1 where the code's vectors start at 0;               *)
(* `current_slide` and slide indices keep the code's base, 0.              *)
(***************************************************************************)
EXTENDS Integers, Sequences, FiniteSets, SequencesExt

CONSTANTS
  Name,         \* names a player may have
  PromptSetId,  \* ids of prompt sets
  PromptSets,   \* `prompt_sets`: the ids the room was created with, in order
  Prompts,      \* number of prompts of each set
  Text,         \* what a submission may say
  ItemCount,    \* numbers of answers a client may send
  SlideIndex,   \* indices a client may ask for in goto_slide
  None          \* Option::None

ASSUME NoneAssumption ==
  None \notin Name \cup PromptSetId \cup [items : Nat, signoff : Text] \cup (Nat \X Nat)

ASSUME PromptSetsAssumption == PromptSets \in Seq(PromptSetId)

\* The id is the primary key of the table the sets are loaded from.
ASSUME PromptIdsAssumption ==
  \A k, l \in DOMAIN PromptSets : PromptSets[k] = PromptSets[l] => k = l

ASSUME PromptsAssumption == Prompts \in [PromptSetId -> Nat]

ASSUME RequestAssumption == ItemCount \subseteq Nat /\ SlideIndex \subseteq Nat

VARIABLES
  phase,         \* "lobby", "collecting", "performing" or "archived"
  players,       \* the roster, in the order of joining
  current_slide  \* carousel index, from 0

gameVars == <<phase, players, current_slide>>

Phase == {"lobby", "collecting", "performing", "archived"}

Responses == [items : Nat, signoff : Text]

Player == [name          : Name,
           prompt_set_id : PromptSetId \cup {None},
           partner       : Name \cup {None},
           responses     : Responses \cup {None}]

GameTypeOK ==
  /\ phase \in Phase
  /\ players \in Seq(Player)
  /\ current_slide \in Nat

-----------------------------------------------------------------------------
(* Helpers *)

NewPlayer(n) ==
  [name |-> n, prompt_set_id |-> None, partner |-> None, responses |-> None]

Seat == DOMAIN players

Roster == {players[i].name : i \in Seat}

\* player_index finds the first entry with the name.
FirstSeat(n, i) ==
  /\ i \in Seat
  /\ players[i].name = n
  /\ \A j \in 1 .. i - 1 : players[j].name # n

submitted(i) == players[i].responses # None

\* Variant with a fault: one submission is enough.
some_submitted == \E i \in Seat : submitted(i)

all_submitted == players # <<>> /\ \A i \in Seat : submitted(i)

submitted_count == Cardinality({i \in Seat : submitted(i)})

\* The number of prompts of a set; no assignment and an id the room does not
\* know both count as no prompts (the two unwrap_or of the code).
PromptCount(id) ==
  IF \E k \in DOMAIN PromptSets : PromptSets[k] = id THEN Prompts[id] ELSE 0

\* Variant with a fault: the sets in blocks rather than in turn.
AssignedSetInBlocks(i) == PromptSets[((i - 1) \div Len(PromptSets)) + 1]

\* What start_collecting gives the i-th of n players.
AssignedSet(i) == PromptSets[((i - 1) % Len(PromptSets)) + 1]

\* Variant with a fault: one seat too far.
NextSeatSkipping(i, n) == ((i + 1) % n) + 1

NextSeat(i, n) == (i % n) + 1

-----------------------------------------------------------------------------
(* The slide deck *)

Closing == Len(players) + 1

\* The intro, the greeting, one slide per prompt and the sign-off of a player.
Segment(i) ==
  [line \in 1 .. 3 + PromptCount(players[i].prompt_set_id) |-> <<i, line>>]

\* The rules, the segments in roster order, the credits and the blank.
build_slides ==
  << <<0, 1>> >>
    \o FlattenSeq([i \in Seat |-> Segment(i)])
    \o << <<Closing, 1>>, <<Closing, 2>> >>

total_slides == Len(build_slides)

slide_at(index) ==
  IF index < total_slides THEN build_slides[index + 1] ELSE None

\* The presenter of a segment is the partner its author was given.  Without a
\* partner, that is in the lobby, the code names the empty string; no slide can
\* be moved then.
slide_controller(slide) ==
  IF slide # None /\ slide[1] \in Seat THEN players[slide[1]].partner ELSE None

\* Variant with a fault: nobody but the host can leave the rules slide.
controller_after_rules(index) == slide_controller(slide_at(index))

controller_at(index) ==
  LET slide == slide_at(index)
  IN  IF slide # None /\ slide[1] = 0
      THEN slide_controller(slide_at(index + 1))
      ELSE slide_controller(slide)

current_controller == controller_at(current_slide)

-----------------------------------------------------------------------------
(* Operations *)

GameInit ==
  /\ phase = "lobby"
  /\ players = <<>>
  /\ current_slide = 0

\* Variant with a fault: no check for a duplicate.
CanAddPlayerTwice(n) == phase = "lobby"

CanAddPlayer(n) == phase = "lobby" /\ n \notin Roster

AddPlayer(n) ==
  /\ CanAddPlayer(n)
  /\ players' = Append(players, NewPlayer(n))
  /\ UNCHANGED <<phase, current_slide>>

\* Variant with a fault: in any phase.
CanRemovePlayerLate(n) == n \in Roster

CanRemovePlayer(n) == phase = "lobby" /\ n \in Roster

RemovePlayer(n) ==
  /\ CanRemovePlayer(n)
  /\ \E i \in Seat : FirstSeat(n, i) /\ players' = RemoveAt(players, i)
  /\ UNCHANGED <<phase, current_slide>>

CanStartCollecting ==
  phase = "lobby" /\ players # <<>> /\ PromptSets # <<>>

StartCollecting ==
  /\ CanStartCollecting
  /\ players' = [i \in Seat |->
                   [name          |-> players[i].name,
                    prompt_set_id |-> AssignedSet(i),
                    partner       |-> players[NextSeat(i, Len(players))].name,
                    responses     |-> None]]
  /\ phase' = "collecting"
  /\ UNCHANGED current_slide

\* Variant with a fault: in any phase.
CanSubmitLate(n, items) ==
  \E i \in Seat :
    /\ FirstSeat(n, i)
    /\ players[i].prompt_set_id # None
    /\ items = PromptCount(players[i].prompt_set_id)

CanSubmitResponses(n, items) ==
  /\ phase = "collecting"
  /\ \E i \in Seat :
       /\ FirstSeat(n, i)
       /\ players[i].prompt_set_id # None
       /\ items = PromptCount(players[i].prompt_set_id)

SubmitResponses(n, items, signoff) ==
  /\ CanSubmitResponses(n, items)
  /\ \E i \in Seat :
       /\ FirstSeat(n, i)
       /\ players' = [players EXCEPT ![i].responses =
                        [items |-> items, signoff |-> signoff]]
  /\ UNCHANGED <<phase, current_slide>>

CanStartGame == phase = "collecting" /\ all_submitted

StartGame ==
  /\ CanStartGame
  /\ phase' = "performing"
  /\ current_slide' = 0
  /\ UNCHANGED players

CanMove == phase = "performing"

AdvanceSlide ==
  /\ CanMove
  /\ current_slide' = IF current_slide < total_slides - 1
                      THEN current_slide + 1 ELSE current_slide
  /\ UNCHANGED <<phase, players>>

\* Variant with a fault: the subtraction does not saturate.
PrevSlideWraps ==
  CanMove /\ current_slide' = current_slide - 1 /\ UNCHANGED <<phase, players>>

PrevSlide ==
  /\ CanMove
  /\ current_slide' = IF current_slide > 0
                      THEN current_slide - 1 ELSE current_slide
  /\ UNCHANGED <<phase, players>>

\* Variant with a fault: one past the deck is accepted.
CanGotoSlidePastEnd(index) == CanMove /\ index <= total_slides

CanGotoSlide(index) == CanMove /\ index < total_slides

GotoSlide(index) ==
  /\ CanGotoSlide(index)
  /\ current_slide' = index
  /\ UNCHANGED <<phase, players>>

\* What persistence is given: the roster with the answers, in roster order.
round_entries == players

CanArchiveRound == phase = "performing"

ArchiveRound ==
  /\ CanArchiveRound
  /\ phase' = "archived"
  /\ UNCHANGED <<players, current_slide>>

CanNewRound == phase = "archived"

\* new_round is the only caller of reset, so the two are one action.
NewRound ==
  /\ CanNewRound
  /\ players' = <<>>
  /\ current_slide' = 0
  /\ phase' = "lobby"

GameNext ==
  \/ \E n \in Name : AddPlayer(n)
  \/ \E n \in Name : RemovePlayer(n)
  \/ StartCollecting
  \/ \E n \in Name, k \in ItemCount, t \in Text : SubmitResponses(n, k, t)
  \/ StartGame
  \/ AdvanceSlide
  \/ PrevSlide
  \/ \E index \in SlideIndex : GotoSlide(index)
  \/ ArchiveRound
  \/ NewRound

GameSpec == GameInit /\ [][GameNext]_gameVars

-----------------------------------------------------------------------------
(* Properties *)

\* Once submissions are open, every player on the roster presents exactly one
\* segment: the partners handed out by start_collecting are a permutation of
\* the roster, whatever was added and removed before.
EveryonePresentsOnce ==
  phase # "lobby" =>
    \A n \in Roster : \E i \in Seat :
      \A j \in Seat : players[j].partner = n <=> j = i

\* The partners are one ring, not several: no proper part of the roster writes
\* only for itself ("each player writes for the next; the last for the first").
OneRing ==
  phase # "lobby" =>
    \A S \in (SUBSET Roster) \ {{}} :
      (\A i \in Seat : players[i].name \in S => players[i].partner \in S)
        => S = Roster

\* The round robin is fair: no prompt set is given to two players more than
\* another one is.
PromptSetsBalanced ==
  LET given(id) == Cardinality({i \in Seat : players[i].prompt_set_id = id})
  IN  phase # "lobby" =>
        \A k, l \in DOMAIN PromptSets :
          given(PromptSets[k]) <= given(PromptSets[l]) + 1

\* On stage nothing is missing: each player has answered, with one answer per
\* prompt of the set they hold, so `responses.items.get(j)` of build_slides
\* never falls back to the empty text.
PerformanceComplete ==
  phase \in {"performing", "archived"} =>
    /\ players # <<>>
    /\ \A i \in Seat :
         /\ players[i].responses # None
         /\ players[i].responses.items = PromptCount(players[i].prompt_set_id)

\* The carousel never points past the deck, over every mix of next, previous,
\* goto and new rounds: slide_changed never needs its Blank fallback.
SlideInRange == current_slide < total_slides

\* The stage is handed from reader to reader: on every slide before the credits
\* a player of the roster may advance, each of them over one unbroken run of
\* slides, and on the credits and the blank nobody but the host may.
ReaderHandover ==
  LET reader  == [index \in 0 .. total_slides |-> controller_at(index)]
      mine(n) == {index \in DOMAIN reader : reader[index] = n}
  IN  phase = "performing" =>
        /\ mine(None) = total_slides - 2 .. total_slides
        /\ \A n \in Roster :
             /\ mine(n) # {}
             /\ \A a, c \in mine(n) : a .. c \subseteq mine(n)

\* After submissions open, who is on the roster, who writes for whom and what
\* each player was asked never changes before the room is back in the lobby.
RosterLocked ==
  [][phase # "lobby" /\ phase' # "lobby" =>
       /\ Len(players') = Len(players)
       /\ \A i \in Seat :
            /\ players'[i].name = players[i].name
            /\ players'[i].partner = players[i].partner
            /\ players'[i].prompt_set_id = players[i].prompt_set_id]_gameVars

\* What the host finalised is what is performed and archived: no answer
\* changes, appears or disappears between start_game and the next lobby.
FinalAnswersFrozen ==
  [][(phase \in {"performing", "archived"} /\ phase' # "lobby" =>
       players' = players)]_gameVars
=============================================================================
