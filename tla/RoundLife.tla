------------------------------ MODULE RoundLife ------------------------------
(***************************************************************************)
(* What becomes of the answers of a round, once its show has started:      *)
(* they lie under the code of their room while the show lasts, and then in *)
(* the archive, and each thing that fails costs one round at most.         *)
(*                                                                         *)
(* This is what the tables and the actor loop promise a reader of the      *)
(* database; Persistence implements it.                                    *)
(***************************************************************************)
EXTENDS Naturals

CONSTANTS
  Code,   \* room codes
  Round   \* rounds, of all rooms and processes; 0 is none

VARIABLES
  here,    \* the code of the running room
  stage,   \* the round whose show is on, or still to be filed; 0 if none is
  shelf,   \* the round whose answers lie under each code, or 0
  filed,   \* the rounds in the archive
  played,  \* the rounds whose show has started
  faults   \* failures so far

lifeVars == <<here, stage, shelf, filed, played, faults>>

LifeInit ==
  /\ here \in Code
  /\ stage = 0
  /\ shelf = [c \in Code |-> 0]
  /\ filed = {} /\ played = {}
  /\ faults = 0

\* start_game, of a round never shown before.
Play(r) ==
  /\ stage = 0 /\ r \notin played
  /\ stage' = r /\ played' = played \cup {r}
  /\ UNCHANGED <<here, shelf, filed, faults>>

\* The save of that round, over what the code held.
Keep ==
  /\ stage # 0
  /\ shelf' = [shelf EXCEPT ![here] = stage]
  /\ UNCHANGED <<here, stage, filed, played, faults>>

\* The archive of the round.
File ==
  /\ stage # 0
  /\ filed' = filed \cup {stage}
  /\ shelf' = [shelf EXCEPT ![here] = 0]
  /\ stage' = 0
  /\ UNCHANGED <<here, played, faults>>

\* A save or an archive is not done.
Miss ==
  /\ stage # 0
  /\ stage' \in {stage, 0}
  /\ faults' = faults + 1
  /\ UNCHANGED <<here, shelf, filed, played>>

\* The process stops; the next room may have the same code.
Stop ==
  /\ stage' = 0
  /\ here' \in Code
  /\ faults' = faults + 1
  /\ UNCHANGED <<shelf, filed, played>>

LifeNext == (\E r \in Round \ {0} : Play(r)) \/ Keep \/ File \/ Miss \/ Stop

LifeSpec == LifeInit /\ [][LifeNext]_lifeVars
=============================================================================
