----------------------------- MODULE Persistence -----------------------------
(***************************************************************************)
(* The loop of the room actor (`run`, `run_effect` in src/room.rs) around  *)
(* the reducer of Room, and the tables it writes through src/db.rs.        *)
(*                                                                         *)
(* The loop takes one command, reduces it, sends the messages and awaits   *)
(* its effects before it takes the next one.  An effect is one             *)
(* transaction: it commits as a whole or changes nothing, and its failure  *)
(* is logged and forgotten.  The process may stop between any two steps;   *)
(* the rooms are in memory only, so a restart begins with a new, empty     *)
(* room, whose random code may be one that was used before.                *)
(*                                                                         *)
(* `round` and `final` are history: they number the rounds, and remember   *)
(* what start_game found final in each, to compare the tables with.  A row *)
(* carries the number of the round it was written for.                     *)
(***************************************************************************)
EXTENDS Room

CONSTANTS
  Code,       \* room codes
  MaxRounds,  \* bound on the rounds begun (lobbies entered)
  MaxFaults   \* bound on failed effects and restarts

ASSUME PersistenceAssumption == MaxRounds \in Nat \ {0} /\ MaxFaults \in Nat

VARIABLES
  code,       \* the code of the running room
  pending,    \* effects of the last command still to be run
  responses,  \* table responses: the rows under each room code
  archive,    \* table response_archive: the batches, in order of insertion
  round,      \* history: number of the current round
  final,      \* history: the entries each round was started with
  faults      \* failed effects and restarts so far

dbVars == <<responses, archive>>
vars == <<phase, players, current_slide, reaction,
          code, pending, responses, archive, round, final, faults>>

Round == 1 .. MaxRounds

-----------------------------------------------------------------------------
(* The tables *)

Rows(r, entries) == {[round |-> r, entry |-> entries[i]] : i \in DOMAIN entries}

\* UNIQUE (room_code, name): the transaction that breaks it cannot commit.
UniqueRows(entries) ==
  \A i, j \in DOMAIN entries : entries[i].name = entries[j].name => i = j

\* Variants with a fault: the DELETE is missing, or has no WHERE.
SaveBeside(effect) ==
  /\ responses' = [responses EXCEPT ![code] =
                     @ \cup Rows(effect.round, effect.entries)]
  /\ UNCHANGED archive

SaveDeletingAll(effect) ==
  /\ responses' = [c \in Code |-> IF c = code
                                  THEN Rows(effect.round, effect.entries) ELSE {}]
  /\ UNCHANGED archive

\* save_final_responses: delete the room's rows, insert the new ones.
Save(effect) ==
  /\ UniqueRows(effect.entries)
  /\ responses' = [responses EXCEPT ![code] = Rows(effect.round, effect.entries)]
  /\ UNCHANGED archive

\* Variants with a fault: the batch is copied from the live rows, the rows are
\* kept, or only the DELETE is committed.
ArchiveFromRows(effect) ==
  /\ archive' = Append(archive, [room_code |-> code,
                                 round     |-> effect.round,
                                 entries   |->
                                   SetToSeq({row.entry : row \in responses[code]})])
  /\ responses' = [responses EXCEPT ![code] = {}]

ArchiveKeepingRows(effect) ==
  /\ archive' = Append(archive, [room_code |-> code,
                                 round     |-> effect.round,
                                 entries   |-> effect.entries])
  /\ UNCHANGED responses

ArchiveDroppingRows(effect) ==
  responses' = [responses EXCEPT ![code] = {}] /\ UNCHANGED archive

\* archive_round: insert a batch, delete the room's rows.
Archive(effect) ==
  /\ archive' = Append(archive, [room_code |-> code,
                                 round     |-> effect.round,
                                 entries   |-> effect.entries])
  /\ responses' = [responses EXCEPT ![code] = {}]

-----------------------------------------------------------------------------
(* The actor loop *)

Init ==
  /\ RoomInit
  /\ code \in Code
  /\ pending = <<>>
  /\ responses = [c \in Code |-> {}]
  /\ archive = <<>>
  /\ round = 1
  /\ final = [r \in Round |-> <<>>]
  /\ faults = 0

\* Variant with a fault: effects run beside the loop.
NotAwaited == TRUE

\* The loop is back at cmd_rx.recv: no effect of an earlier command is left.
Idle == pending = <<>>

\* Variant with a fault: the effects of a reaction are dropped.
NothingQueued(effects) == <<>>

Queued(effects) ==
  [k \in DOMAIN effects |-> [kind    |-> effects[k].kind,
                             entries |-> effects[k].entries,
                             round   |-> round]]

Receive ==
  /\ Idle
  /\ Apply
  /\ pending' = pending \o Queued(reaction'.effects)
  /\ final' = IF phase = "collecting" /\ phase' = "performing"
              THEN [final EXCEPT ![round] = players] ELSE final
  /\ round' = IF phase = "archived" /\ phase' = "lobby" THEN round + 1 ELSE round
  /\ round' \in Round
  /\ UNCHANGED <<code, dbVars, faults>>

EffectCommits ==
  /\ pending # <<>>
  /\ LET effect == Head(pending)
     IN  \/ effect.kind = "save" /\ Save(effect)
         \/ effect.kind = "archive" /\ Archive(effect)
  /\ pending' = Tail(pending)
  /\ UNCHANGED <<phase, players, current_slide, reaction,
                 code, round, final, faults>>

\* No database, or the transaction fails.
EffectFails ==
  /\ pending # <<>>
  /\ faults < MaxFaults
  /\ faults' = faults + 1
  /\ pending' = Tail(pending)
  /\ UNCHANGED <<phase, players, current_slide, reaction,
                 code, dbVars, round, final>>

\* The process stops, with or without an effect under way, and the host makes
\* a new room: registry.create_room knows nothing of the codes used before.
Restart(c) ==
  /\ faults < MaxFaults
  /\ round < MaxRounds
  /\ faults' = faults + 1
  /\ round' = round + 1
  /\ code' = c
  /\ phase' = "lobby"
  /\ players' = <<>>
  /\ current_slide' = 0
  /\ reaction' = NoReaction
  /\ pending' = <<>>
  /\ UNCHANGED <<dbVars, final>>

Next ==
  \/ Receive
  \/ EffectCommits
  \/ EffectFails
  \/ \E c \in Code : Restart(c)

Spec == Init /\ [][Next]_vars

-----------------------------------------------------------------------------
(* Properties *)

Batches == {archive[k] : k \in DOMAIN archive}

Archived(r) == \E b \in Batches : b.round = r

Live(r) == \E c \in Code : \E row \in responses[c] : row.round = r

\* Besides the shapes: a row has answers and a partner (no column of a saved
\* entry is NULL), and no effect is queued behind one still to be run, where it
\* could overtake it.
Answer == [name : Name, prompt_set_id : PromptSetId, partner : Name,
           responses : Responses]

PersistenceTypeOK ==
  /\ RoomTypeOK
  /\ code \in Code
  /\ Len(pending) <= 1
  /\ \A k \in DOMAIN pending : pending[k].kind \in {"save", "archive"}
  /\ responses \in [Code -> SUBSET [round : Round, entry : Answer]]
  /\ \A b \in Batches : b.room_code \in Code /\ b.entries \in Seq(Answer)
  /\ round \in Round
  /\ faults \in 0 .. MaxFaults

\* A batch of the archive is a whole round: every entry that was final when the
\* show started, in order, however the effects and the process failed since.
\* No round is archived twice.
ArchivedWhole ==
  /\ \A b \in Batches : b.entries = final[b.round]
  /\ \A k, l \in DOMAIN archive : archive[k].round = archive[l].round => k = l

\* The live rows of a room are those of one round, all of them: a save never
\* leaves rows of an earlier round beside its own, nor only some of its own.
RowsAreOneRound ==
  \A c \in Code :
    responses[c] # {} =>
      \E r \in Round : final[r] # <<>> /\ responses[c] = Rows(r, final[r])

\* "The responses are retained but not reused": a round that is in the archive
\* has no live rows under any code.
RetainedNotReused ==
  \A r \in Round : ~ (Archived(r) /\ Live(r))

\* While nothing fails and no effect is under way, the tables say what the room
\* in memory says: the round on stage is saved, each earlier round and an
\* archived one are in the archive, and nothing else is live.
TablesMatchRoom ==
  /\ responses[code] =
       IF phase = "performing" THEN Rows(round, players) ELSE {}
  /\ \A r \in 1 .. round : Archived(r) <=> r < round \/ phase = "archived"

DurableMatchesPhase == faults = 0 /\ Idle => TablesMatchRoom

\* "A returned Pong guarantees every previously dispatched command - and its
\* persistence - has completed": a Pong is never out while an effect is under
\* way, and then, unless something failed, the tables match the room.
PongMeansDurable ==
  reaction.direct = <<pong>> => Idle /\ (faults = 0 => TablesMatchRoom)

\* What failures can cost: with f failed effects and restarts at most f of the
\* performed rounds are in neither table (nor on the way there).
EachFaultCostsOneRound ==
  Cardinality({r \in Round : /\ final[r] # <<>>
                             /\ ~ Archived(r) /\ ~ Live(r)
                             /\ \A k \in DOMAIN pending : pending[k].round # r})
    <= faults

-----------------------------------------------------------------------------
(* What the tables promise *)

\* The round whose rows these are, all of them; 0 if there are no rows, -1 if
\* they are not one round.
RoundOf(rows, finals) ==
  LET whole == {r \in Round : finals[r] # <<>> /\ rows = Rows(r, finals[r])}
  IN  IF rows = {} THEN 0 ELSE IF whole = {} THEN -1 ELSE CHOOSE r \in whole : TRUE

Life ==
  INSTANCE RoundLife WITH
    here   <- code,
    stage  <- IF phase = "performing" \/ (phase = "archived" /\ pending # <<>>)
              THEN round ELSE 0,
    shelf  <- [c \in Code |-> RoundOf(responses[c], final)],
    filed  <- {b.round : b \in Batches},
    played <- {r \in Round : final[r] # <<>>}

\* Through failed effects, restarts and reused codes, the tables move only as
\* RoundLife says: an effect replaces what lies under the code of its own room
\* by the whole round on stage, or files that round and clears that code; a
\* failure takes away at most the round on stage.
ImplementsRoundLife == Life!LifeSpec
=============================================================================
