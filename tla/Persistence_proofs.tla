-------------------------- MODULE Persistence_proofs --------------------------
(***************************************************************************)
(* What the tables promise, for any rosters, codes, numbers of rounds and  *)
(* faults: Persistence implements RoundLife, and each of its safety        *)
(* invariants about the tables holds.                                      *)
(***************************************************************************)
EXTENDS Persistence, Room_proofs

\* The round on stage: performing, or archived and its batch not yet written.
OnStage == phase = "performing" \/ (phase = "archived" /\ pending # <<>>)

Entries == Seq(Player) \ {<<>>}

Batch == [room_code : Code, round : Round, entries : Entries]

\* History is kept up: the current round is final once its show started.
FinalUpToDate ==
  /\ round \in Round /\ code \in Code
  /\ final \in [Round -> Seq(Player)]
  /\ \A r \in Round : r > round => final[r] = <<>>
  /\ phase \in {"lobby", "collecting"} => final[round] = <<>>
  /\ phase \in {"performing", "archived"} =>
       final[round] = players /\ players # <<>>

\* One effect at most is under way, of the command that entered the phase.
PendingOfPhase ==
  pending # <<>> =>
    \E kind \in {"save", "archive"} :
      /\ pending = <<[kind |-> kind, entries |-> players, round |-> round]>>
      /\ kind = "save" => phase = "performing"
      /\ kind = "archive" => phase = "archived"

\* Every code holds a whole round that was played, and not archived, or nothing;
\* the round on stage lies nowhere but under the room's own code.
RowsWhole ==
  /\ DOMAIN responses = Code
  /\ \A c \in Code :
       responses[c] # {} =>
         \E r \in Round :
           /\ final[r] # <<>> /\ responses[c] = Rows(r, final[r])
           /\ ~ Archived(r)
           /\ r = round => c = code

\* Every batch is a whole round that was played, and there is one of each.
BatchesWhole ==
  /\ archive \in Seq(Batch)
  /\ \A k \in DOMAIN archive : final[archive[k].round] = archive[k].entries
  /\ \A k, l \in DOMAIN archive : archive[k].round = archive[l].round => k = l
  /\ OnStage => ~ Archived(round)

PersistenceInv ==
  /\ GameInv
  /\ FinalUpToDate
  /\ PendingOfPhase
  /\ RowsWhole
  /\ BatchesWhole

-----------------------------------------------------------------------------
(* Rows *)

\* The rows of a round that was played are some, and all name that round.
LEMMA RowsOfRound ==
  ASSUME NEW r, NEW e \in Entries
  PROVE  /\ Rows(r, e) # {}
         /\ \A row \in Rows(r, e) : row.round = r
<1>1. 1 \in DOMAIN e
  BY DEF Entries
<1>2. [round |-> r, entry |-> e[1]] \in Rows(r, e)
  BY <1>1 DEF Rows
<1>3. \A row \in Rows(r, e) : row.round = r
  BY DEF Rows
<1> QED
  BY <1>2, <1>3

\* The rows of a round that was played are told apart from those of any other.
LEMMA RoundOfRows ==
  ASSUME NEW r \in Round, NEW finals \in [Round -> Seq(Player)], finals[r] # <<>>
  PROVE  RoundOf(Rows(r, finals[r]), finals) = r
<1>1. /\ Rows(r, finals[r]) # {}
      /\ \A row \in Rows(r, finals[r]) : row.round = r
  BY RowsOfRound DEF Entries
<1>2. ASSUME NEW q \in Round, finals[q] # <<>>,
             Rows(r, finals[r]) = Rows(q, finals[q])
      PROVE  q = r
  <2>1. \A row \in Rows(q, finals[q]) : row.round = q
    BY <1>2, RowsOfRound DEF Entries
  <2> QED BY <1>1, <1>2, <2>1
<1>3. {q \in Round : finals[q] # <<>> /\ Rows(r, finals[r]) = Rows(q, finals[q])}
        = {r}
  BY <1>2
<1> QED
  BY <1>1, <1>3 DEF RoundOf

-----------------------------------------------------------------------------
(* What a command leaves to be done *)

\* A command saves the round it starts, archives the round it ends, or has no
\* effect and neither starts nor ends one.
Starts ==
  /\ StartGame
  /\ reaction'.effects = <<SaveFinalResponses(players)>> /\ reaction'.direct = <<>>

Ends ==
  /\ ArchiveRound
  /\ reaction'.effects = <<ArchiveRoundEffect(players)>> /\ reaction'.direct = <<>>

Continues ==
  /\ reaction'.effects = <<>>
  /\ \/ UNCHANGED gameVars
     \/ \E n \in Name : AddPlayer(n) \/ RemovePlayer(n)
     \/ StartCollecting \/ AdvanceSlide \/ PrevSlide \/ NewRound
     \/ \E n \in Name, k \in ItemCount, t \in Text : SubmitResponses(n, k, t)
     \/ \E index \in SlideIndex : GotoSlide(index)

\* A reply carries no effect, an announcement those it is given and no reply.
LEMMA AnnounceEffects ==
  /\ \A id, msgs, effects :
       Announce(id, msgs, effects) =>
         reaction'.effects = effects /\ reaction'.direct = <<>>
  /\ \A id, msgs : Reply(id, msgs) => reaction'.effects = <<>>
  BY DEF Announce, Reply, NoReaction

\* Every command is of one of the three kinds.
LEMMA ApplyEffects == Apply => Starts \/ Ends \/ Continues
<1> SUFFICES ASSUME Apply PROVE Starts \/ Ends \/ Continues
  OBVIOUS
<1> USE AnnounceEffects DEF HostRefused, MoveRefused, Refuse
<1>1. ASSUME NEW requested \in Role, NEW n \in Name \cup {None},
             NEW token_ok \in BOOLEAN, JoinRoom(requested, n, token_ok)
      PROVE  Continues
  <2> DEFINE self_added == requested = "player" /\ n # None /\ CanAddPlayer(n)
  <2>1. CASE requested = "host" /\ ~ token_ok
    BY <1>1, <2>1 DEF JoinRoom, Continues
  <2>2. CASE (requested = "host" => token_ok) /\ self_added
    <3>1. n \in Name
      BY <2>2
    <3>2. AddPlayer(n) /\ reaction'.effects = <<>>
      BY <1>1, <2>2 DEF JoinRoom
    <3> QED BY <3>1, <3>2 DEF Continues
  <2>3. CASE (requested = "host" => token_ok) /\ ~ self_added
    <3>1. ~ (requested = "host" /\ ~ token_ok)
      BY <2>3
    <3>2. UNCHANGED gameVars
      BY <1>1, <2>3, <3>1 DEF JoinRoom
    <3>3. \E d, b : reaction' = [by |-> Placeholder, direct |-> d,
                                broadcasts |-> b, effects |-> <<>>]
      BY <1>1, <3>1, Zenon DEF JoinRoom
    <3>4. reaction'.effects = <<>>
      BY <3>3
    <3> QED BY <3>2, <3>4 DEF Continues
  <2> QED BY <2>1, <2>2, <2>3
<1>2. ASSUME NEW id \in Identity, Ping(id)
      PROVE  Continues
  BY <1>2 DEF Ping, Continues
<1>3. ASSUME NEW id \in Identity, NEW n \in Name,
             HostAddPlayer(id, n) \/ HostRemovePlayer(id, n)
      PROVE  Continues
  BY <1>3 DEF HostAddPlayer, HostRemovePlayer, Continues
<1>4. ASSUME NEW id \in Identity, HostStartCollecting(id) \/ HostNewRound(id)
      PROVE  Continues
  BY <1>4 DEF HostStartCollecting, HostNewRound, Continues
<1>5. ASSUME NEW id \in Identity, NEW k \in ItemCount, NEW t \in Text,
             Submit(id, k, t)
      PROVE  Continues
  <2>1. may_submit(id) => id.name \in Name
    BY IdentityAssumption DEF may_submit
  <2> QED BY <1>5, <2>1 DEF Submit, Continues
<1>6. ASSUME NEW id \in Identity,
             Advance(id) \/ Prev(id) \/ \E index \in SlideIndex : Goto(id, index)
      PROVE  Continues
  BY <1>6 DEF Advance, Prev, Goto, AnnounceMove, Continues
<1>7. ASSUME NEW id \in Identity, HostStartGame(id)
      PROVE  Starts \/ Continues
  BY <1>7 DEF HostStartGame, Starts, Continues, StartGame, round_entries
<1>8. ASSUME NEW id \in Identity, HostArchiveRound(id)
      PROVE  Ends \/ Continues
  BY <1>8 DEF HostArchiveRound, Ends, Continues, ArchiveRound, round_entries
<1> QED BY <1>1, <1>2, <1>3, <1>4, <1>5, <1>6, <1>7, <1>8 DEF Apply

\* What a command that neither starts nor ends a show does to phase and roster.
LEMMA ContinuesPhase ==
  Continues =>
    \/ phase' = phase /\ (phase \in {"lobby", "collecting"} \/ players' = players)
    \/ phase = "lobby" /\ phase' = "collecting"
    \/ phase = "archived" /\ phase' = "lobby"
  BY DEF Continues, gameVars, AddPlayer, CanAddPlayer, RemovePlayer,
         CanRemovePlayer, StartCollecting, CanStartCollecting, AdvanceSlide,
         PrevSlide, GotoSlide, CanGotoSlide, CanMove, NewRound, CanNewRound,
         SubmitResponses, CanSubmitResponses

\* A command is taken when nothing is queued, so what is queued after it are its
\* own effects, with the number of their round.
LEMMA QueuedEffects ==
  ASSUME Receive
  PROVE  /\ reaction'.effects = <<>> => pending' = <<>>
         /\ \A kind, entries :
              reaction'.effects = <<[kind |-> kind, entries |-> entries]>> =>
                pending' = <<[kind |-> kind, entries |-> entries, round |-> round]>>
<1>1. pending' = <<>> \o Queued(reaction'.effects)
  BY DEF Receive, Idle
<1>2. ASSUME reaction'.effects = <<>> PROVE pending' = <<>>
  <2>1. Queued(<<>>) = <<>>
    BY DEF Queued
  <2> QED BY <1>1, <1>2, <2>1
<1>3. ASSUME NEW kind, NEW entries,
             reaction'.effects = <<[kind |-> kind, entries |-> entries]>>
      PROVE  pending' = <<[kind |-> kind, entries |-> entries, round |-> round]>>
  <2>1. Queued(<<[kind |-> kind, entries |-> entries]>>) =
          <<[kind |-> kind, entries |-> entries, round |-> round]>>
    BY DEF Queued
  <2> QED BY <1>1, <1>3, <2>1
<1> QED BY <1>2, <1>3

-----------------------------------------------------------------------------
(* The invariant is inductive *)

\* It holds at the start.
LEMMA PersistenceInit == Init => PersistenceInv
<1> SUFFICES ASSUME Init PROVE PersistenceInv
  OBVIOUS
<1>1. GameInv
  BY InvInit DEF Init, RoomInit
<1>2. phase = "lobby" /\ round = 1
  BY DEF Init, RoomInit, GameInit
<1>3. FinalUpToDate
  BY <1>2, PersistenceAssumption DEF FinalUpToDate, Init, Round
<1>4. PendingOfPhase
  BY DEF PendingOfPhase, Init
<1>5. RowsWhole
  BY DEF RowsWhole, Init
<1>6. BatchesWhole
  BY <1>2 DEF BatchesWhole, Init, OnStage
<1> QED BY <1>1, <1>3, <1>4, <1>5, <1>6 DEF PersistenceInv

\* A command keeps the state machine's own invariant.
LEMMA ReceiveKeepsGame == PersistenceInv /\ Receive => GameInv'
  BY ApplyIsGameStep, GameStep DEF PersistenceInv, Receive

\* The start of a show: its round is new to the tables.
LEMMA StartKeepsInv ==
  ASSUME PersistenceInv, Receive, Starts
  PROVE  PersistenceInv'
<1> USE DEF PersistenceInv
<1>1. /\ phase = "collecting" /\ phase' = "performing"
      /\ players' = players /\ players # <<>> /\ players \in Seq(Player)
  BY DEF Starts, StartGame, CanStartGame, all_submitted, GameInv, GameTypeOK
<1>2. /\ final' = [final EXCEPT ![round] = players] /\ round' = round
      /\ UNCHANGED <<code, responses, archive>>
  BY <1>1 DEF Receive, dbVars
<1>3. pending' = <<[kind |-> "save", entries |-> players, round |-> round]>>
  BY QueuedEffects DEF Starts, SaveFinalResponses
<1>4. /\ round \in Round /\ final \in [Round -> Seq(Player)]
      /\ final[round] = <<>>
  BY <1>1 DEF FinalUpToDate
<1>5. /\ final' \in [Round -> Seq(Player)] /\ final'[round] = players
      /\ \A r \in Round : r # round => final'[r] = final[r]
  BY <1>1, <1>2, <1>4
<1>6. FinalUpToDate'
  BY <1>1, <1>2, <1>4, <1>5 DEF FinalUpToDate, Round
<1>7. PendingOfPhase'
  BY <1>1, <1>2, <1>3 DEF PendingOfPhase
<1>8. \A k \in DOMAIN archive :
        /\ archive[k] \in Batch
        /\ archive[k].round \in Round /\ archive[k].round # round
  <2>1. \A k \in DOMAIN archive : archive[k] \in Batch
    BY DEF BatchesWhole
  <2>2. \A b \in Batch : b.round \in Round /\ b.entries # <<>>
    BY DEF Batch, Entries
  <2>3. \A k \in DOMAIN archive : final[archive[k].round] = archive[k].entries
    BY DEF BatchesWhole
  <2> QED BY <1>4, <2>1, <2>2, <2>3
<1>9. RowsWhole'
  <2>1. ASSUME NEW c \in Code, responses[c] # {}
        PROVE  \E r \in Round :
                 /\ final'[r] # <<>> /\ responses[c] = Rows(r, final'[r])
                 /\ ~ Archived(r)
                 /\ r = round => c = code
    <3>1. PICK r \in Round : /\ final[r] # <<>> /\ responses[c] = Rows(r, final[r])
                             /\ ~ Archived(r)
      BY <2>1 DEF RowsWhole
    <3> QED BY <1>4, <1>5, <3>1
  <2>2. \A r : Archived(r)' <=> Archived(r)
    BY <1>2 DEF Archived, Batches
  <2> QED BY <1>2, <2>1, <2>2 DEF RowsWhole
<1>10. BatchesWhole'
  <2>1. ~ Archived(round)'
    BY <1>2, <1>8 DEF Archived, Batches
  <2> QED BY <1>2, <1>5, <1>8, <2>1 DEF BatchesWhole
<1> QED BY ReceiveKeepsGame, <1>6, <1>7, <1>9, <1>10

\* The end of a show: the round stays on stage until its batch is written.
LEMMA EndKeepsInv ==
  ASSUME PersistenceInv, Receive, Ends
  PROVE  PersistenceInv'
<1> USE DEF PersistenceInv
<1>1. /\ phase = "performing" /\ phase' = "archived" /\ players' = players
  BY DEF Ends, ArchiveRound, CanArchiveRound
<1>2. UNCHANGED <<code, responses, archive, round, final>>
  BY <1>1 DEF Receive, dbVars
<1>3. pending' = <<[kind |-> "archive", entries |-> players, round |-> round]>>
  BY QueuedEffects DEF Ends, ArchiveRoundEffect
<1>4. FinalUpToDate'
  BY <1>1, <1>2 DEF FinalUpToDate
<1>5. PendingOfPhase'
  BY <1>1, <1>2, <1>3 DEF PendingOfPhase
<1>6. RowsWhole'
  BY <1>2 DEF RowsWhole, Archived, Batches
<1>7. BatchesWhole'
  BY <1>1, <1>2 DEF BatchesWhole, Archived, Batches, OnStage
<1> QED BY ReceiveKeepsGame, <1>4, <1>5, <1>6, <1>7

\* Any other command: the tables and the round on stage stay as they are, or
\* the next round begins.
LEMMA ContinueKeepsInv ==
  ASSUME PersistenceInv, Receive, Continues
  PROVE  PersistenceInv'
<1> USE DEF PersistenceInv
<1>1. /\ pending = <<>> /\ pending' = <<>>
      /\ UNCHANGED <<code, responses, archive>>
  BY QueuedEffects DEF Receive, Idle, Continues, dbVars
<1>2. PendingOfPhase'
  BY <1>1 DEF PendingOfPhase
<1>3. final' = final
  BY ContinuesPhase DEF Receive
<1>4. CASE \/ phase' = phase /\ (phase \in {"lobby", "collecting"} \/ players' = players)
           \/ phase = "lobby" /\ phase' = "collecting"
  <2>1. round' = round
    BY <1>4 DEF Receive
  <2>2. FinalUpToDate'
    BY <1>1, <1>3, <1>4, <2>1 DEF FinalUpToDate
  <2>3. RowsWhole'
    BY <1>1, <1>3, <2>1 DEF RowsWhole, Archived, Batches
  <2>4. BatchesWhole'
    BY <1>1, <1>3, <1>4, <2>1 DEF BatchesWhole, Archived, Batches, OnStage
  <2> QED BY ReceiveKeepsGame, <1>2, <2>2, <2>3, <2>4
<1>5. CASE phase = "archived" /\ phase' = "lobby"
  <2>1. round' = round + 1 /\ round' \in Round /\ round \in Nat
    BY <1>5 DEF Receive, FinalUpToDate, Round
  <2>2. final[round'] = <<>>
    BY <2>1 DEF FinalUpToDate
  <2>3. FinalUpToDate'
    BY <1>1, <1>3, <1>5, <2>1, <2>2 DEF FinalUpToDate, Round
  <2>4. RowsWhole'
    BY <1>1, <1>3, <2>2 DEF RowsWhole, Archived, Batches
  <2>5. BatchesWhole'
    BY <1>1, <1>3, <1>5 DEF BatchesWhole, Archived, Batches, OnStage
  <2> QED BY ReceiveKeepsGame, <1>2, <2>3, <2>4, <2>5
<1> QED BY ContinuesPhase, <1>4, <1>5

\* A transaction of the round on stage: its rows replace what the code held,
\* or its batch is added and the code cleared.
LEMMA CommitKeepsInv ==
  ASSUME PersistenceInv, EffectCommits
  PROVE  PersistenceInv'
<1> USE DEF PersistenceInv
<1>1. UNCHANGED <<phase, players, current_slide, code, round, final>>
  BY DEF EffectCommits
<1>2. GameInv'
  <2>1. UNCHANGED gameVars
    BY <1>1 DEF gameVars
  <2> QED BY <2>1, GameStep
<1>3. PICK kind \in {"save", "archive"} :
        /\ pending = <<[kind |-> kind, entries |-> players, round |-> round]>>
        /\ kind = "save" => phase = "performing"
        /\ kind = "archive" => phase = "archived"
  BY DEF EffectCommits, PendingOfPhase
<1>4. /\ Head(pending) = [kind |-> kind, entries |-> players, round |-> round]
      /\ pending' = <<>>
  BY <1>3 DEF EffectCommits
<1>5. PendingOfPhase'
  BY <1>4 DEF PendingOfPhase
<1>6. /\ phase \in {"performing", "archived"} /\ OnStage
      /\ round \in Round /\ code \in Code /\ final \in [Round -> Seq(Player)]
      /\ final[round] = players /\ players # <<>> /\ players \in Seq(Player)
  BY <1>3 DEF OnStage, FinalUpToDate, GameInv, GameTypeOK
<1>7. ~ Archived(round)
  BY <1>6 DEF BatchesWhole
<1>8. FinalUpToDate'
  BY <1>1 DEF FinalUpToDate
<1>9. CASE kind = "save"
  <2>1. /\ responses' = [responses EXCEPT ![code] = Rows(round, players)]
        /\ archive' = archive
    BY <1>4, <1>9 DEF EffectCommits, Save
  <2>2. \A r : Archived(r)' <=> Archived(r)
    BY <2>1 DEF Archived, Batches
  <2>3. ASSUME NEW c \in Code, responses'[c] # {}
        PROVE  \E r \in Round :
                 /\ final[r] # <<>> /\ responses'[c] = Rows(r, final[r])
                 /\ ~ Archived(r)
                 /\ r = round => c = code
    <3>1. CASE c = code
      <4>1. responses'[c] = Rows(round, final[round])
        BY <1>6, <2>1, <3>1 DEF RowsWhole
      <4> QED BY <1>6, <1>7, <3>1, <4>1
    <3>2. CASE c # code
      <4>1. responses'[c] = responses[c]
        BY <2>1, <3>2 DEF RowsWhole
      <4> QED BY <2>3, <4>1 DEF RowsWhole
    <3> QED BY <3>1, <3>2
  <2>4. RowsWhole'
    <3>1. DOMAIN responses' = Code
      BY <2>1 DEF RowsWhole
    <3> QED BY <1>1, <2>2, <2>3, <3>1 DEF RowsWhole
  <2>5. BatchesWhole'
    BY <1>1, <1>7, <2>1, <2>2 DEF BatchesWhole
  <2> QED BY <1>2, <1>5, <1>8, <2>4, <2>5
<1>10. CASE kind = "archive"
  <2> DEFINE batch == [room_code |-> code, round |-> round, entries |-> players]
  <2>1. /\ responses' = [responses EXCEPT ![code] = {}]
        /\ archive' = Append(archive, batch)
    BY <1>4, <1>10 DEF EffectCommits, Archive
  <2>2. batch \in Batch /\ batch.round = round /\ batch.entries = players
    BY <1>6 DEF Batch, Entries
  <2> HIDE DEF batch
  <2>3. archive \in Seq(Batch)
    BY DEF BatchesWhole
  <2>4. /\ archive' \in Seq(Batch)
        /\ DOMAIN archive' = DOMAIN archive \cup {Len(archive) + 1}
        /\ archive'[Len(archive) + 1] = batch
        /\ \A k \in DOMAIN archive : archive'[k] = archive[k]
    BY <2>1, <2>2, <2>3
  <2>5. \A r : Archived(r)' <=> Archived(r) \/ r = round
    BY <2>2, <2>4 DEF Archived, Batches
  <2>6. RowsWhole'
    <3>1. /\ DOMAIN responses' = Code /\ responses'[code] = {}
          /\ \A c \in Code \ {code} : responses'[c] = responses[c]
      BY <1>6, <2>1 DEF RowsWhole
    <3>2. ASSUME NEW c \in Code, responses'[c] # {}
          PROVE  \E r \in Round :
                   /\ final[r] # <<>> /\ responses'[c] = Rows(r, final[r])
                   /\ ~ Archived(r)'
                   /\ r = round => c = code
      BY <2>5, <3>1, <3>2 DEF RowsWhole
    <3> QED BY <1>1, <3>1, <3>2 DEF RowsWhole
  <2>7. BatchesWhole'
    <3>1. \A k \in DOMAIN archive : archive[k].round # round
      BY <1>7 DEF Archived, Batches
    <3>2. \A k \in DOMAIN archive' : final[archive'[k].round] = archive'[k].entries
      BY <1>6, <2>2, <2>4 DEF BatchesWhole
    <3>3. \A k, l \in DOMAIN archive' : archive'[k].round = archive'[l].round => k = l
      BY <2>2, <2>4, <3>1 DEF BatchesWhole
    <3>4. ~ OnStage'
      BY <1>1, <1>3, <1>4, <1>10 DEF OnStage
    <3> QED BY <1>1, <2>4, <3>2, <3>3, <3>4 DEF BatchesWhole
  <2> QED BY <1>2, <1>5, <1>8, <2>6, <2>7
<1> QED BY <1>9, <1>10

\* A failed effect leaves the tables as they were.
LEMMA FailureKeepsInv ==
  ASSUME PersistenceInv, EffectFails
  PROVE  PersistenceInv'
<1> USE DEF PersistenceInv
<1>1. UNCHANGED <<phase, players, current_slide, code, responses, archive, round, final>>
  BY DEF EffectFails, dbVars
<1>2. GameInv'
  <2>1. UNCHANGED gameVars
    BY <1>1 DEF gameVars
  <2> QED BY <2>1, GameStep
<1>3. pending' = <<>>
  BY DEF EffectFails, PendingOfPhase
<1>4. OnStage' => OnStage
  BY <1>1, <1>3 DEF OnStage
<1>5. FinalUpToDate' /\ PendingOfPhase'
  BY <1>1, <1>3 DEF FinalUpToDate, PendingOfPhase
<1>6. RowsWhole' /\ BatchesWhole'
  BY <1>1, <1>4 DEF RowsWhole, BatchesWhole, Archived, Batches
<1> QED BY <1>2, <1>5, <1>6

\* A restart begins with a round nobody has played.
LEMMA RestartKeepsInv ==
  ASSUME PersistenceInv, NEW c \in Code, Restart(c)
  PROVE  PersistenceInv'
<1> USE DEF PersistenceInv
<1>1. /\ phase' = "lobby" /\ pending' = <<>> /\ round' = round + 1 /\ code' = c
      /\ round < MaxRounds
      /\ UNCHANGED <<responses, archive, final>>
  BY DEF Restart, dbVars
<1>2. GameInv'
  <2>1. GameInit'
    BY DEF Restart, GameInit
  <2>2. GameInit' => GameInv'
    BY InvInit, PTL
  <2> QED BY <2>1, <2>2
<1>3. round' \in Round /\ round \in Nat /\ final[round'] = <<>>
  BY <1>1, PersistenceAssumption DEF FinalUpToDate, Round
<1>4. FinalUpToDate'
  BY <1>1, <1>3 DEF FinalUpToDate, Round
<1>5. PendingOfPhase'
  BY <1>1 DEF PendingOfPhase
<1>6. RowsWhole'
  BY <1>1, <1>3 DEF RowsWhole, Archived, Batches
<1>7. BatchesWhole'
  BY <1>1 DEF BatchesWhole, Archived, Batches, OnStage
<1> QED BY <1>2, <1>4, <1>5, <1>6, <1>7

\* No step of the actor loop, no failure and no restart breaks it.
THEOREM PersistenceStep == PersistenceInv /\ [Next]_vars => PersistenceInv'
<1> SUFFICES ASSUME PersistenceInv, [Next]_vars PROVE PersistenceInv'
  OBVIOUS
<1>1. CASE Receive
  <2>1. Starts \/ Ends \/ Continues
    BY <1>1, ApplyEffects DEF Receive
  <2> QED BY <1>1, <2>1, StartKeepsInv, EndKeepsInv, ContinueKeepsInv
<1>2. CASE EffectCommits
  BY <1>2, CommitKeepsInv
<1>3. CASE EffectFails
  BY <1>3, FailureKeepsInv
<1>4. ASSUME NEW c \in Code, Restart(c) PROVE PersistenceInv'
  BY <1>4, RestartKeepsInv
<1>5. CASE UNCHANGED vars
  <2>1. GameInv'
    BY <1>5, GameStep DEF vars, gameVars, PersistenceInv
  <2>2. FinalUpToDate' /\ PendingOfPhase' /\ RowsWhole' /\ BatchesWhole'
    BY <1>5 DEF vars, dbVars, PersistenceInv, FinalUpToDate, PendingOfPhase,
                RowsWhole, BatchesWhole, Archived, Batches, OnStage
  <2> QED BY <2>1, <2>2 DEF PersistenceInv
<1> QED BY <1>1, <1>2, <1>3, <1>4, <1>5 DEF Next

\* The inductive invariant holds in every reachable state.
THEOREM PersistenceInvariant == Spec => []PersistenceInv
  BY PersistenceInit, PersistenceStep, PTL DEF Spec

-----------------------------------------------------------------------------
(* What follows from it *)

\* The archive is made of whole rounds, each in it once, for any number of
\* rounds, failures and restarts.
THEOREM ArchivedAlwaysWhole == Spec => []ArchivedWhole
<1>1. PersistenceInv => ArchivedWhole
  BY DEF PersistenceInv, BatchesWhole, ArchivedWhole, Batches
<1> QED BY <1>1, PersistenceInvariant, PTL

\* The live rows of every room code are those of one whole round.
THEOREM RowsAlwaysOneRound == Spec => []RowsAreOneRound
<1>1. PersistenceInv => RowsAreOneRound
  BY DEF PersistenceInv, RowsWhole, RowsAreOneRound
<1> QED BY <1>1, PersistenceInvariant, PTL

\* What was archived is nowhere live, under whichever code the room ran.
THEOREM ArchivedNeverReused == Spec => []RetainedNotReused
<1>1. PersistenceInv => RetainedNotReused
  <2> SUFFICES ASSUME PersistenceInv, NEW r \in Round, Archived(r), Live(r)
               PROVE  FALSE
    BY DEF RetainedNotReused
  <2>1. PICK c \in Code : \E row \in responses[c] : row.round = r
    BY DEF Live
  <2>2. PICK q \in Round : /\ final[q] # <<>> /\ responses[c] = Rows(q, final[q])
                           /\ ~ Archived(q)
    BY <2>1 DEF PersistenceInv, RowsWhole
  <2>3. q = r
    BY <2>1, <2>2 DEF Rows
  <2> QED BY <2>2, <2>3
<1> QED BY <1>1, PersistenceInvariant, PTL

-----------------------------------------------------------------------------
(* The tables do what RoundLife says *)

Stage == IF OnStage THEN round ELSE 0

Shelf == [c \in Code |-> RoundOf(responses[c], final)]

Filed == {b.round : b \in Batches}

Played == {r \in Round : final[r] # <<>>}

\* The archived rounds are those named by a batch.
LEMMA FiledIsArchived == \A r : r \in Filed <=> Archived(r)
  BY DEF Filed, Archived

\* No rows are no round.
LEMMA RoundOfNothing == \A finals : RoundOf({}, finals) = 0
  BY DEF RoundOf

\* What is under a code does not change while another round becomes final.
LEMMA ShelfKept ==
  ASSUME PersistenceInv, UNCHANGED responses,
         final' \in [Round -> Seq(Player)],
         \A r \in Round : final[r] # <<>> => final'[r] = final[r]
  PROVE  Shelf' = Shelf
<1>1. ASSUME NEW c \in Code
      PROVE  RoundOf(responses[c], final') = RoundOf(responses[c], final)
  <2>1. CASE responses[c] = {}
    BY <2>1, RoundOfNothing
  <2>2. CASE responses[c] # {}
    <3>1. PICK r \in Round : final[r] # <<>> /\ responses[c] = Rows(r, final[r])
      BY <2>2 DEF PersistenceInv, RowsWhole
    <3>2. final \in [Round -> Seq(Player)]
      BY DEF PersistenceInv, FinalUpToDate
    <3>3. RoundOf(responses[c], final) = r
      BY <3>1, <3>2, RoundOfRows
    <3>4. final'[r] = final[r]
      BY <3>1
    <3>5. RoundOf(responses[c], final') = r
      BY <3>1, <3>4, RoundOfRows
    <3> QED BY <3>3, <3>5
  <2> QED BY <2>1, <2>2
<1> QED BY <1>1 DEF Shelf

\* The show starts: a round never played is on stage, the tables are as before.
LEMMA StartIsPlay ==
  ASSUME PersistenceInv, Receive, Starts
  PROVE  /\ Stage = 0 /\ round \in Round \ {0} /\ round \notin Played
         /\ Stage' = round /\ Played' = Played \cup {round}
         /\ UNCHANGED <<code, Shelf, Filed, faults>>
<1>1. /\ phase = "collecting" /\ phase' = "performing" /\ players # <<>>
      /\ players \in Seq(Player)
  BY DEF Starts, StartGame, CanStartGame, all_submitted, PersistenceInv, GameInv,
         GameTypeOK
<1>2. /\ final' = [final EXCEPT ![round] = players] /\ round' = round
      /\ UNCHANGED <<code, responses, archive, faults>>
  BY <1>1 DEF Receive, dbVars
<1>3. /\ round \in Round \ {0} /\ final \in [Round -> Seq(Player)]
      /\ final[round] = <<>>
  BY <1>1 DEF PersistenceInv, FinalUpToDate, Round
<1>4. /\ final' \in [Round -> Seq(Player)] /\ final'[round] = players
      /\ \A r \in Round : r # round => final'[r] = final[r]
  BY <1>1, <1>2, <1>3
<1>5. Shelf' = Shelf
  BY <1>2, <1>3, <1>4, ShelfKept
<1>6. Filed' = Filed
  BY <1>2 DEF Filed, Batches
<1>7. Stage = 0 /\ Stage' = round
  BY <1>1, <1>2 DEF Stage, OnStage
<1>8. round \notin Played /\ Played' = Played \cup {round}
  BY <1>1, <1>3, <1>4 DEF Played
<1> QED BY <1>2, <1>3, <1>5, <1>6, <1>7, <1>8

\* Of any other command a reader of the tables sees nothing.
LEMMA OtherIsStutter ==
  ASSUME PersistenceInv, Receive, Ends \/ Continues
  PROVE  UNCHANGED <<code, Stage, Shelf, Filed, Played, faults>>
<1>1. pending = <<>> /\ UNCHANGED <<code, responses, archive, faults>>
  BY DEF Receive, Idle, dbVars
<1>2. /\ final' = final
      /\ Stage' = Stage
  <2>1. CASE Ends
    <3>1. phase = "performing" /\ phase' = "archived"
      BY <2>1 DEF Ends, ArchiveRound, CanArchiveRound
    <3>2. pending' = <<[kind |-> "archive", entries |-> players, round |-> round]>>
      BY <2>1, QueuedEffects DEF Ends, ArchiveRoundEffect
    <3>3. pending' # <<>>
      BY <3>2
    <3> QED BY <3>1, <3>3 DEF Receive, Stage, OnStage
  <2>2. CASE Continues
    <3>1. pending' = <<>>
      BY <2>2, QueuedEffects DEF Continues
    <3>2. final' = final /\ (OnStage => round' = round)
      BY <2>2, ContinuesPhase, <1>1 DEF Receive, OnStage
    <3>3. OnStage' <=> OnStage
      BY <2>2, ContinuesPhase, <1>1, <3>1 DEF OnStage
    <3> QED BY <3>2, <3>3 DEF Stage
  <2> QED BY <2>1, <2>2
<1>3. UNCHANGED <<Shelf, Filed, Played>>
  BY <1>1, <1>2 DEF Shelf, Filed, Played, Batches
<1> QED BY <1>1, <1>2, <1>3

\* A transaction keeps or files the round on stage.
LEMMA CommitIsKeepOrFile ==
  ASSUME PersistenceInv, EffectCommits
  PROVE  /\ Stage # 0
         /\ \/ Shelf' = [Shelf EXCEPT ![code] = Stage] /\ Filed' = Filed
               /\ Stage' = Stage
            \/ Shelf' = [Shelf EXCEPT ![code] = 0] /\ Filed' = Filed \cup {Stage}
               /\ Stage' = 0
         /\ UNCHANGED <<code, Played, faults>>
<1>1. UNCHANGED <<phase, players, code, round, final, faults>>
  BY DEF EffectCommits
<1>2. PICK kind \in {"save", "archive"} :
        /\ pending = <<[kind |-> kind, entries |-> players, round |-> round]>>
        /\ kind = "save" => phase = "performing"
        /\ kind = "archive" => phase = "archived"
  BY DEF EffectCommits, PersistenceInv, PendingOfPhase
<1>3. /\ Head(pending) = [kind |-> kind, entries |-> players, round |-> round]
      /\ pending' = <<>>
  BY <1>2 DEF EffectCommits
<1>4. /\ OnStage /\ phase \in {"performing", "archived"}
      /\ round \in Round /\ round # 0 /\ code \in Code
      /\ final \in [Round -> Seq(Player)]
      /\ final[round] = players /\ players # <<>>
  BY <1>2 DEF OnStage, PersistenceInv, FinalUpToDate, Round
<1>5. Stage = round
  BY <1>4 DEF Stage
<1>6. Played' = Played
  BY <1>1 DEF Played
<1>7. DOMAIN responses = Code
  BY DEF PersistenceInv, RowsWhole
<1>8. CASE kind = "save"
  <2>1. responses' = [responses EXCEPT ![code] = Rows(round, players)] /\ archive' = archive
    BY <1>3, <1>8 DEF EffectCommits, Save
  <2>2. RoundOf(Rows(round, players), final) = round
    BY <1>4, RoundOfRows
  <2>3. /\ responses'[code] = Rows(round, players)
        /\ \A c \in Code \ {code} : responses'[c] = responses[c]
    BY <1>4, <1>7, <2>1
  <2>4. Shelf' = [Shelf EXCEPT ![code] = round]
    BY <1>1, <1>4, <2>2, <2>3 DEF Shelf
  <2>5. Filed' = Filed /\ Stage' = Stage
    BY <1>1, <1>2, <1>8, <2>1 DEF Filed, Batches, Stage, OnStage
  <2> QED BY <1>1, <1>4, <1>5, <1>6, <2>4, <2>5
<1>9. CASE kind = "archive"
  <2> DEFINE batch == [room_code |-> code, round |-> round, entries |-> players]
  <2>1. responses' = [responses EXCEPT ![code] = {}] /\ archive' = Append(archive, batch)
    BY <1>3, <1>9 DEF EffectCommits, Archive
  <2>2. batch.round = round
    OBVIOUS
  <2> HIDE DEF batch
  <2>3. /\ responses'[code] = {}
        /\ \A c \in Code \ {code} : responses'[c] = responses[c]
    BY <1>4, <1>7, <2>1
  <2>4. Shelf' = [Shelf EXCEPT ![code] = 0]
    BY <1>1, <1>4, <2>3, RoundOfNothing DEF Shelf
  <2>5. Filed' = Filed \cup {round}
    <3>1. archive \in Seq(Batch)
      BY DEF PersistenceInv, BatchesWhole
    <3>2. /\ DOMAIN archive' = DOMAIN archive \cup {Len(archive) + 1}
          /\ archive'[Len(archive) + 1] = batch
          /\ \A k \in DOMAIN archive : archive'[k] = archive[k]
      BY <2>1, <3>1
    <3>3. \A k \in DOMAIN archive : k # Len(archive) + 1
      BY <3>1
    <3>4. Batches' = Batches \cup {batch}
      BY <3>2, <3>3 DEF Batches
    <3> QED BY <2>2, <3>4 DEF Filed
  <2>6. Stage' = 0
    BY <1>1, <1>2, <1>3, <1>9 DEF Stage, OnStage
  <2> QED BY <1>1, <1>4, <1>5, <1>6, <2>4, <2>5, <2>6
<1> QED BY <1>8, <1>9

\* A failure leaves the tables, and the round stays on stage or is gone.
LEMMA FailureIsMiss ==
  ASSUME PersistenceInv, EffectFails
  PROVE  /\ Stage # 0 /\ Stage' \in {Stage, 0} /\ faults' = faults + 1
         /\ UNCHANGED <<code, Shelf, Filed, Played>>
<1>1. UNCHANGED <<phase, code, responses, archive, round, final>> /\ faults' = faults + 1
  BY DEF EffectFails, dbVars
<1>2. OnStage /\ round # 0
  BY DEF EffectFails, PersistenceInv, PendingOfPhase, OnStage, FinalUpToDate, Round
<1>3. Stage # 0 /\ Stage' \in {Stage, 0}
  BY <1>1, <1>2 DEF Stage
<1> QED BY <1>1, <1>3 DEF Shelf, Filed, Played, Batches

\* A restart clears the stage, and only that.
LEMMA RestartIsStop ==
  ASSUME PersistenceInv, NEW c \in Code, Restart(c)
  PROVE  /\ Stage' = 0 /\ code' \in Code /\ faults' = faults + 1
         /\ UNCHANGED <<Shelf, Filed, Played>>
  BY DEF Restart, dbVars, Stage, OnStage, Shelf, Filed, Played, Batches

\* Persistence implements RoundLife: for any numbers of rounds, codes and
\* failures the tables change only by keeping, filing or missing the round on
\* stage, whose number was never played before.
THEOREM TablesImplementRoundLife == Spec => ImplementsRoundLife
<1>1. Init => Life!LifeInit
  <2> SUFFICES ASSUME Init PROVE Life!LifeInit
    OBVIOUS
  <2>1. /\ phase = "lobby" /\ pending = <<>> /\ code \in Code /\ faults = 0
        /\ responses = [c \in Code |-> {}] /\ archive = <<>>
        /\ final = [r \in Round |-> <<>>]
    BY DEF Init, RoomInit, GameInit
  <2>2. [c \in Code |-> RoundOf(responses[c], final)] = [c \in Code |-> 0]
    BY <2>1, RoundOfNothing
  <2> QED BY <2>1, <2>2 DEF Life!LifeInit, Batches
<1>2. PersistenceInv /\ [Next]_vars => [Life!LifeNext]_(Life!lifeVars)
  <2> SUFFICES ASSUME PersistenceInv, [Next]_vars
               PROVE  Life!LifeNext \/ UNCHANGED Life!lifeVars
    OBVIOUS
  <2> USE DEF Stage, OnStage, Shelf, Filed, Played
  <2>1. CASE Receive
    <3>1. Starts \/ Ends \/ Continues
      BY <2>1, ApplyEffects DEF Receive
    <3>2. CASE Starts
      BY <2>1, <3>2, StartIsPlay DEF Life!LifeNext, Life!Play
    <3>3. CASE Ends \/ Continues
      BY <2>1, <3>3, OtherIsStutter DEF Life!lifeVars
    <3> QED BY <3>1, <3>2, <3>3
  <2>2. CASE EffectCommits
    BY <2>2, CommitIsKeepOrFile DEF Life!LifeNext, Life!Keep, Life!File
  <2>3. CASE EffectFails
    BY <2>3, FailureIsMiss DEF Life!LifeNext, Life!Miss
  <2>4. ASSUME NEW c \in Code, Restart(c)
        PROVE  Life!LifeNext
    BY <2>4, RestartIsStop DEF Life!LifeNext, Life!Stop
  <2>5. CASE UNCHANGED vars
    BY <2>5 DEF vars, dbVars, Life!lifeVars, Batches
  <2> QED BY <2>1, <2>2, <2>3, <2>4, <2>5 DEF Next
<1> QED BY <1>1, <1>2, PersistenceInvariant, PTL
        DEF Spec, ImplementsRoundLife, Life!LifeSpec

-----------------------------------------------------------------------------
(* What failures cost *)

\* The rounds that have left the stage and are not in the archive.
Unfiled == Played \ (Filed \cup {Stage})

\* The save of the round on stage was tried, and is not there.
SaveMissed == phase = "performing" /\ pending = <<>> /\ ~ Live(round)

CostInv ==
  /\ faults \in Nat
  /\ Cardinality(Unfiled) + (IF SaveMissed THEN 1 ELSE 0) <= faults

\* One more element, or fewer, is one more at most.
LEMMA OneMoreAtMost ==
  ASSUME NEW S, IsFiniteSet(S), NEW T, NEW x, T \subseteq S \cup {x}
  PROVE  /\ Cardinality(S) \in Nat /\ Cardinality(T) \in Nat
         /\ Cardinality(T) <= Cardinality(S) + 1
<1>1. /\ IsFiniteSet(S \cup {x}) /\ Cardinality(S) \in Nat
      /\ \/ Cardinality(S \cup {x}) = Cardinality(S)
         \/ Cardinality(S \cup {x}) = Cardinality(S) + 1
  BY FS_AddElement, FS_CardinalityType
<1>2. /\ Cardinality(T) \in Nat /\ IsFiniteSet(T)
      /\ Cardinality(T) <= Cardinality(S \cup {x})
  BY <1>1, FS_Subset, FS_CardinalityType
<1> QED BY <1>1, <1>2

\* There are finitely many rounds, and 0 is none of them.
LEMMA PlayedFinite ==
  /\ 0 \notin Played
  /\ \A S \in SUBSET Played : IsFiniteSet(S) /\ Cardinality(S) \in Nat
<1>1. IsFiniteSet(Round)
  BY FS_Interval, PersistenceAssumption DEF Round
<1>2. \A S \in SUBSET Round : IsFiniteSet(S) /\ Cardinality(S) \in Nat
  BY <1>1, FS_Subset, FS_CardinalityType
<1> QED BY <1>2 DEF Played, Round

\* Each failure and each restart adds one round at most, nothing else adds any.
LEMMA CostStep == PersistenceInv /\ CostInv /\ [Next]_vars => CostInv'
<1> SUFFICES ASSUME PersistenceInv, CostInv, [Next]_vars PROVE CostInv'
  OBVIOUS
<1>0. /\ faults \in Nat /\ Cardinality(Unfiled) \in Nat /\ IsFiniteSet(Unfiled)
      /\ Cardinality(Unfiled) + (IF SaveMissed THEN 1 ELSE 0) <= faults
  BY PlayedFinite DEF CostInv, Unfiled
<1>1. ASSUME Unfiled' = Unfiled, SaveMissed' => SaveMissed, faults' = faults
      PROVE  CostInv'
  BY <1>0, <1>1 DEF CostInv
<1>2. CASE Receive
  <2>1. CASE Starts
    <3>1. Unfiled' = Unfiled /\ faults' = faults
      BY <1>2, <2>1, StartIsPlay, PlayedFinite DEF Unfiled
    <3>2. pending' = <<[kind |-> "save", entries |-> players, round |-> round]>>
      BY <1>2, <2>1, QueuedEffects DEF Starts, SaveFinalResponses
    <3>3. ~ SaveMissed'
      BY <3>2 DEF SaveMissed
    <3> QED BY <1>1, <3>1, <3>3
  <2>2. CASE Ends
    <3>1. Unfiled' = Unfiled /\ faults' = faults
      BY <1>2, <2>2, OtherIsStutter DEF Unfiled
    <3>2. ~ SaveMissed'
      BY <2>2 DEF SaveMissed, Ends, ArchiveRound
    <3> QED BY <1>1, <3>1, <3>2
  <2>3. CASE Continues
    <3>1. Unfiled' = Unfiled /\ faults' = faults
      BY <1>2, <2>3, OtherIsStutter DEF Unfiled
    <3>2. SaveMissed' => SaveMissed
      <4>1. phase' = "performing" => phase = "performing" /\ round' = round
        BY <1>2, <2>3, ContinuesPhase DEF Receive
      <4>2. pending = <<>> /\ responses' = responses
        BY <1>2 DEF Receive, Idle, dbVars
      <4> QED BY <4>1, <4>2 DEF SaveMissed, Live
    <3> QED BY <1>1, <3>1, <3>2
  <2> QED BY <1>2, <2>1, <2>2, <2>3, ApplyEffects DEF Receive
<1>3. CASE EffectCommits
  <2>1. Unfiled' = Unfiled /\ faults' = faults
    BY <1>3, CommitIsKeepOrFile, PlayedFinite DEF Unfiled
  <2>2. ~ SaveMissed'
    <3> SUFFICES ASSUME phase' = "performing" PROVE Live(round)'
      BY DEF SaveMissed
    <3>1. /\ UNCHANGED <<phase, players, code, round>> /\ phase = "performing"
      BY <1>3 DEF EffectCommits
    <3>2. pending = <<[kind |-> "save", entries |-> players, round |-> round]>>
      BY <1>3, <3>1 DEF EffectCommits, PersistenceInv, PendingOfPhase
    <3>3. responses' = [responses EXCEPT ![code] = Rows(round, players)]
      BY <1>3, <3>2 DEF EffectCommits, Save
    <3>4. code \in Code /\ DOMAIN responses = Code /\ players \in Entries
      BY <3>1 DEF PersistenceInv, FinalUpToDate, RowsWhole, GameInv, GameTypeOK,
                  Entries
    <3>5. responses'[code] = Rows(round, players)
      BY <3>3, <3>4
    <3>6. \E row \in Rows(round, players) : row.round = round
      BY <3>4, RowsOfRound
    <3> QED BY <3>1, <3>4, <3>5, <3>6 DEF Live
  <2> QED BY <1>1, <2>1, <2>2
<1>4. CASE EffectFails
  <2>1. /\ pending # <<>> /\ faults' = faults + 1 /\ ~ SaveMissed
        /\ UNCHANGED <<phase, round>>
    BY <1>4 DEF EffectFails, SaveMissed
  <2>2. CASE phase = "performing"
    <3>1. Stage' = Stage
      BY <2>1, <2>2 DEF Stage, OnStage
    <3>2. Unfiled' = Unfiled
      BY <1>4, <3>1, FailureIsMiss DEF Unfiled
    <3> QED BY <1>0, <2>1, <3>2 DEF CostInv
  <2>3. CASE phase # "performing"
    <3>1. ~ SaveMissed'
      BY <2>1, <2>3 DEF SaveMissed
    <3>2. Unfiled' \subseteq Unfiled \cup {Stage}
      BY <1>4, FailureIsMiss DEF Unfiled
    <3>3. /\ Cardinality(Unfiled') \in Nat
          /\ Cardinality(Unfiled') <= Cardinality(Unfiled) + 1
      BY <1>0, <3>2, OneMoreAtMost
    <3> QED BY <1>0, <2>1, <3>1, <3>3 DEF CostInv
  <2> QED BY <2>2, <2>3
<1>5. ASSUME NEW c \in Code, Restart(c) PROVE CostInv'
  <2>1. ~ SaveMissed' /\ faults' = faults + 1
    BY <1>5 DEF Restart, SaveMissed
  <2>2. Unfiled' \subseteq Unfiled \cup {Stage}
    BY <1>5, RestartIsStop DEF Unfiled
  <2>3. /\ Cardinality(Unfiled') \in Nat
        /\ Cardinality(Unfiled') <= Cardinality(Unfiled) + 1
    BY <1>0, <2>2, OneMoreAtMost
  <2> QED BY <1>0, <2>1, <2>3 DEF CostInv
<1>6. CASE UNCHANGED vars
  <2>1. Unfiled' = Unfiled /\ (SaveMissed' <=> SaveMissed) /\ faults' = faults
    BY <1>6 DEF vars, dbVars, Unfiled, Played, Filed, Batches, Stage, OnStage,
                SaveMissed, Live
  <2> QED BY <1>1, <2>1
<1> QED BY <1>2, <1>3, <1>4, <1>5, <1>6 DEF Next

\* With f failed effects and restarts, f rounds at most are in neither table.
THEOREM FaultsCostOneRoundEach == Spec => []EachFaultCostsOneRound
<1>1. Init => CostInv
  <2> SUFFICES ASSUME Init PROVE CostInv
    OBVIOUS
  <2>1. Unfiled = {} /\ ~ SaveMissed /\ faults = 0
    BY DEF Init, RoomInit, GameInit, Unfiled, Played, SaveMissed
  <2>2. Cardinality(Unfiled) = 0
    BY <2>1, FS_EmptySet
  <2> QED BY <2>1, <2>2 DEF CostInv
<1>2. PersistenceInv /\ CostInv => EachFaultCostsOneRound
  <2> SUFFICES ASSUME PersistenceInv, CostInv PROVE EachFaultCostsOneRound
    OBVIOUS
  <2> DEFINE lost == {r \in Round : /\ final[r] # <<>>
                                    /\ ~ Archived(r) /\ ~ Live(r)
                                    /\ \A k \in DOMAIN pending : pending[k].round # r}
  <2>1. /\ IsFiniteSet(Unfiled) /\ Cardinality(Unfiled) \in Nat
        /\ faults \in Nat
        /\ Cardinality(Unfiled) + (IF SaveMissed THEN 1 ELSE 0) <= faults
    BY PlayedFinite DEF CostInv, Unfiled
  <2>2. ASSUME NEW r \in lost, r \notin Unfiled
        PROVE  SaveMissed /\ r = round
    <3>1. r = round /\ OnStage
      BY <2>2, FiledIsArchived DEF Unfiled, Played, Stage, Round
    <3>2. pending = <<>>
      <4> SUFFICES ASSUME pending # <<>> PROVE FALSE
        OBVIOUS
      <4>1. PICK kind : pending = <<[kind |-> kind, entries |-> players, round |-> round]>>
        BY DEF PersistenceInv, PendingOfPhase
      <4>2. 1 \in DOMAIN pending /\ pending[1].round = round
        BY <4>1
      <4> QED BY <3>1, <4>2
    <3> QED BY <3>1, <3>2 DEF SaveMissed, OnStage
  <2>3. CASE SaveMissed
    <3>1. lost \subseteq Unfiled \cup {round}
      BY <2>2
    <3>2. Cardinality(lost) \in Nat /\ Cardinality(lost) <= Cardinality(Unfiled) + 1
      BY <2>1, <3>1, OneMoreAtMost
    <3> QED BY <2>1, <2>3, <3>2 DEF EachFaultCostsOneRound
  <2>4. CASE ~ SaveMissed
    <3>1. lost \subseteq Unfiled
      BY <2>2, <2>4
    <3>2. Cardinality(lost) \in Nat /\ Cardinality(lost) <= Cardinality(Unfiled)
      BY <2>1, <3>1, FS_Subset, FS_CardinalityType
    <3> QED BY <2>1, <2>4, <3>2 DEF EachFaultCostsOneRound
  <2> QED BY <2>3, <2>4
<1> QED BY <1>1, <1>2, CostStep, PersistenceInvariant, PTL DEF Spec

-----------------------------------------------------------------------------
(* While nothing fails *)

\* What the tables hold, effects under way included; and nothing is answered
\* by a command that leaves an effect.
UnfailedInv ==
  /\ faults \in Nat
  /\ faults = 0 =>
       /\ responses[code] =
            IF \/ phase = "performing" /\ pending = <<>>
               \/ phase = "archived" /\ pending # <<>>
            THEN Rows(round, players) ELSE {}
       /\ \A r \in 1 .. round :
            Archived(r) <=> r < round \/ (phase = "archived" /\ pending = <<>>)
  /\ pending # <<>> => reaction.direct = <<>>

\* A batch is that of a round that was played.
LEMMA ArchivedWasPlayed ==
  ASSUME PersistenceInv, NEW r, Archived(r)
  PROVE  r \in Round /\ final[r] # <<>>
<1>1. PICK k \in DOMAIN archive : archive[k].round = r
  BY DEF Archived, Batches
<1>2. archive[k] \in Batch /\ final[archive[k].round] = archive[k].entries
  BY DEF PersistenceInv, BatchesWhole
<1>3. \A b \in Batch : b.round \in Round /\ b.entries # <<>>
  BY DEF Batch, Entries
<1> QED BY <1>1, <1>2, <1>3

\* It is inductive beside PersistenceInv.
LEMMA UnfailedStep == PersistenceInv /\ UnfailedInv /\ [Next]_vars => UnfailedInv'
<1> SUFFICES ASSUME PersistenceInv, UnfailedInv, [Next]_vars PROVE UnfailedInv'
  OBVIOUS
<1>0. faults \in Nat /\ round \in Nat /\ code \in Code /\ DOMAIN responses = Code
  BY DEF UnfailedInv, PersistenceInv, FinalUpToDate, RowsWhole, Round
<1>1. CASE Receive
  <2>1. /\ pending = <<>>
        /\ UNCHANGED <<code, responses, archive, faults>>
    BY <1>1 DEF Receive, Idle, dbVars
  <2>2. \A r : Archived(r)' <=> Archived(r)
    BY <2>1 DEF Archived, Batches
  <2>3. CASE Starts
    <3>1. phase = "collecting" /\ phase' = "performing" /\ round' = round
      BY <1>1, <2>3 DEF Receive, Starts, StartGame, CanStartGame
    <3>2. pending' = <<[kind |-> "save", entries |-> players, round |-> round]>>
      BY <1>1, <2>3, QueuedEffects DEF Starts, SaveFinalResponses
    <3>3. pending' # <<>> /\ reaction'.direct = <<>>
      BY <2>3, <3>2 DEF Starts
    <3> QED BY <2>1, <2>2, <3>1, <3>3 DEF UnfailedInv
  <2>4. CASE Ends
    <3>1. /\ phase = "performing" /\ phase' = "archived" /\ round' = round
          /\ players' = players
      BY <1>1, <2>4 DEF Receive, Ends, ArchiveRound, CanArchiveRound
    <3>2. pending' = <<[kind |-> "archive", entries |-> players, round |-> round]>>
      BY <1>1, <2>4, QueuedEffects DEF Ends, ArchiveRoundEffect
    <3>3. pending' # <<>> /\ reaction'.direct = <<>>
      BY <2>4, <3>2 DEF Ends
    <3> QED BY <2>1, <2>2, <3>1, <3>3 DEF UnfailedInv
  <2>5. CASE Continues
    <3>1. pending' = <<>>
      BY <1>1, <2>5, QueuedEffects DEF Continues
    <3>2. CASE \/ /\ phase' = phase
                  /\ phase \in {"lobby", "collecting"} \/ players' = players
               \/ phase = "lobby" /\ phase' = "collecting"
      <4>1. round' = round
        BY <1>1, <3>2 DEF Receive
      <4> QED BY <2>1, <2>2, <3>1, <3>2, <4>1 DEF UnfailedInv
    <3>3. CASE phase = "archived" /\ phase' = "lobby"
      <4>1. round' = round + 1 /\ round' \in Round
        BY <1>1, <3>3 DEF Receive
      <4>2. final[round'] = <<>>
        BY <1>0, <4>1 DEF PersistenceInv, FinalUpToDate
      <4>3. ~ Archived(round')
        BY <4>2, ArchivedWasPlayed
      <4>4. ASSUME faults = 0
            PROVE  /\ responses[code] = {}
                   /\ \A r \in 1 .. round' : Archived(r) <=> r < round'
        BY <1>0, <2>1, <3>3, <4>1, <4>3, <4>4 DEF UnfailedInv
      <4> QED BY <2>1, <2>2, <3>1, <3>3, <4>4 DEF UnfailedInv
    <3> QED BY <2>5, <3>2, <3>3, ContinuesPhase
  <2> QED BY <1>1, <2>3, <2>4, <2>5, ApplyEffects DEF Receive
<1>2. CASE EffectCommits
  <2>1. UNCHANGED <<phase, players, code, round, faults>>
    BY <1>2 DEF EffectCommits
  <2>2. PICK kind \in {"save", "archive"} :
          /\ pending = <<[kind |-> kind, entries |-> players, round |-> round]>>
          /\ kind = "save" => phase = "performing"
          /\ kind = "archive" => phase = "archived"
    BY <1>2 DEF EffectCommits, PersistenceInv, PendingOfPhase
  <2>3. /\ Head(pending) = [kind |-> kind, entries |-> players, round |-> round]
        /\ pending # <<>> /\ pending' = <<>>
    BY <1>2, <2>2 DEF EffectCommits
  <2>4. CASE kind = "save"
    <3>1. responses' = [responses EXCEPT ![code] = Rows(round, players)] /\ archive' = archive
      BY <1>2, <2>3, <2>4 DEF EffectCommits, Save
    <3>2. responses'[code'] = Rows(round, players)
      BY <1>0, <2>1, <3>1
    <3>3. \A r : Archived(r)' <=> Archived(r)
      BY <3>1 DEF Archived, Batches
    <3> QED BY <2>1, <2>2, <2>3, <2>4, <3>2, <3>3 DEF UnfailedInv
  <2>5. CASE kind = "archive"
    <3>1. responses' = [responses EXCEPT ![code] = {}]
      BY <1>2, <2>3, <2>5 DEF EffectCommits, Archive
    <3>2. responses'[code'] = {}
      BY <1>0, <2>1, <3>1
    <3>3. phase = "archived" /\ Stage = round /\ Stage' = 0
      BY <2>1, <2>2, <2>3, <2>5 DEF Stage, OnStage
    <3>4. Filed' = Filed \cup {round}
      BY <1>0, <1>2, <3>3, CommitIsKeepOrFile DEF PersistenceInv, FinalUpToDate, Round
    <3>5. \A r : Archived(r)' <=> Archived(r) \/ r = round
      BY <3>4 DEF Filed, Archived
    <3> QED BY <1>0, <2>1, <2>3, <3>2, <3>3, <3>5 DEF UnfailedInv
  <2> QED BY <2>4, <2>5
<1>3. CASE EffectFails
  <2>1. faults' = faults + 1
    BY <1>3 DEF EffectFails
  <2>2. pending' = <<>>
    <3>1. PICK kind : pending = <<[kind |-> kind, entries |-> players, round |-> round]>>
      BY <1>3 DEF EffectFails, PersistenceInv, PendingOfPhase
    <3> QED BY <1>3, <3>1 DEF EffectFails
  <2> QED BY <1>0, <2>1, <2>2 DEF UnfailedInv
<1>4. ASSUME NEW c \in Code, Restart(c) PROVE UnfailedInv'
  BY <1>0, <1>4 DEF Restart, UnfailedInv
<1>5. CASE UNCHANGED vars
  BY <1>5 DEF vars, dbVars, UnfailedInv, Archived, Batches
<1> QED BY <1>1, <1>2, <1>3, <1>4, <1>5 DEF Next

\* It holds in every reachable state.
LEMMA UnfailedInvariant == Spec => []UnfailedInv
<1>1. Init => UnfailedInv
  BY DEF Init, RoomInit, GameInit, UnfailedInv, Archived, Batches
<1> QED BY <1>1, UnfailedStep, PersistenceInvariant, PTL DEF Spec

\* While nothing fails, an idle room's tables say what the room says.
THEOREM TablesFollowRoom == Spec => []DurableMatchesPhase
<1>1. UnfailedInv => DurableMatchesPhase
  BY DEF UnfailedInv, DurableMatchesPhase, TablesMatchRoom, Idle
<1> QED BY <1>1, UnfailedInvariant, PTL

\* A Pong is out only when no effect is under way: what was dispatched before
\* the ping is in the tables, unless something failed.
THEOREM PongAfterTables == Spec => []PongMeansDurable
<1>1. UnfailedInv => PongMeansDurable
  <2>1. <<pong>> # <<>>
    OBVIOUS
  <2> QED BY <2>1 DEF UnfailedInv, PongMeansDurable, TablesMatchRoom, Idle
<1> QED BY <1>1, UnfailedInvariant, PTL

-----------------------------------------------------------------------------
(* Types *)

PlayersAnswered == players \in Seq(Answer)

\* Whoever is on stage has a prompt set, a partner and answers.
LEMMA StageAnswered == GameInv /\ phase = "performing" => PlayersAnswered
<1> SUFFICES ASSUME GameInv, phase = "performing" PROVE PlayersAnswered
  OBVIOUS
<1>1. players \in Seq(Player) /\ Seat = 1 .. Len(players) /\ Len(players) \in Nat
  BY DEF GameInv, GameTypeOK, Seat
<1>2. ASSUME NEW i \in Seat PROVE players[i] \in Answer
  <2>1. players[i] \in Player
    BY <1>1
  <2>2. players # <<>> /\ PromptSets # <<>> /\ players[i].prompt_set_id = AssignedSet(i)
        /\ players[i].partner = players[NextSeat(i, Len(players))].name
    BY DEF GameInv, Assigned
  <2>3. players[i].responses # None
    BY DEF GameInv, AllIn
  <2>4. AssignedSet(i) \in PromptSetId
    BY <1>1, <2>2, AssignedSetType
  <2>5. NextSeat(i, Len(players)) \in Seat
    BY <1>1, NextSeatRing
  <2>6. players[NextSeat(i, Len(players))] \in Player
    BY <1>1, <2>5
  <2>7. players[i].partner \in Name
    BY <2>2, <2>6 DEF Player
  <2> QED BY <2>1, <2>2, <2>3, <2>4, <2>7 DEF Player, Answer
<1> QED BY <1>1, <1>2 DEF PlayersAnswered

\* What a round was started with is complete, the faults are counted, and the
\* table of rows is one.
FinalAnswered ==
  /\ responses = [c \in Code |-> responses[c]]
  /\ \A r \in Round : final[r] \in Seq(Answer)
  /\ faults \in 0 .. MaxFaults
  /\ ReactionTypeOK

\* Every step keeps the final answers, the count of faults and the table.
LEMMA FinalAnsweredStep ==
  PersistenceInv /\ FinalAnswered /\ [Next]_vars => FinalAnswered'
<1> SUFFICES ASSUME PersistenceInv, FinalAnswered, [Next]_vars PROVE FinalAnswered'
  OBVIOUS
<1>1. MaxFaults \in Nat /\ faults \in Nat /\ faults <= MaxFaults
  BY PersistenceAssumption DEF FinalAnswered
<1>2. faults' \in 0 .. MaxFaults
  BY <1>1 DEF Next, Receive, EffectCommits, EffectFails, Restart, vars
<1>3. ReactionTypeOK'
  <2>1. CASE Apply
    BY <2>1, ApplyTypes
  <2>2. CASE reaction' = NoReaction
    BY <2>2 DEF NoReaction, ReactionTypeOK
  <2>3. CASE reaction' = reaction
    BY <2>3 DEF ReactionTypeOK, FinalAnswered
  <2> QED BY <2>1, <2>2, <2>3 DEF Next, Receive, EffectCommits, EffectFails, Restart, vars
<1>4. \A r \in Round : final'[r] \in Seq(Answer)
  <2>1. CASE final' = final
    BY <2>1 DEF FinalAnswered
  <2>2. CASE /\ Receive /\ phase = "collecting" /\ phase' = "performing"
             /\ final' = [final EXCEPT ![round] = players]
    <3>1. PersistenceInv'
      BY PersistenceStep
    <3>2. PlayersAnswered'
      <4>1. (GameInv /\ phase = "performing" => PlayersAnswered)'
        BY StageAnswered, PTL
      <4> QED BY <2>2, <3>1, <4>1 DEF PersistenceInv
    <3>3. final'[round'] = players'
      BY <2>2, <3>1 DEF PersistenceInv, FinalUpToDate
    <3>4. round' = round
      BY <2>2 DEF Receive
    <3>5. final \in [Round -> Seq(Player)]
      BY DEF PersistenceInv, FinalUpToDate
    <3> QED BY <2>2, <3>2, <3>3, <3>4, <3>5 DEF FinalAnswered, PlayersAnswered
  <2> QED BY <2>1, <2>2 DEF Next, Receive, EffectCommits, EffectFails, Restart, vars
<1>5. responses' = [c \in Code |-> responses'[c]]
  <2>1. responses' = responses \/ \E rows : responses' = [responses EXCEPT ![code] = rows]
    BY DEF Next, Receive, EffectCommits, EffectFails, Restart, vars, dbVars, Save, Archive
  <2> QED BY <2>1 DEF FinalAnswered, PersistenceInv, RowsWhole
<1> QED BY <1>2, <1>3, <1>4, <1>5 DEF FinalAnswered

\* The tables hold whole answers only, no command leaves two effects behind,
\* and the bounds are kept.
THEOREM PersistenceTypes == Spec => []PersistenceTypeOK
<1>1. Init => FinalAnswered
  BY PersistenceAssumption DEF Init, RoomInit, NoReaction, ReactionTypeOK, FinalAnswered
<1>2. PersistenceInv /\ FinalAnswered => PersistenceTypeOK
  <2> SUFFICES ASSUME PersistenceInv, FinalAnswered PROVE PersistenceTypeOK
    OBVIOUS
  <2>1. RoomTypeOK
    BY RoomTypeParts DEF PersistenceInv, GameInv, FinalAnswered
  <2>2. code \in Code /\ round \in Round /\ faults \in 0 .. MaxFaults
    BY DEF PersistenceInv, FinalUpToDate, FinalAnswered
  <2>3. Len(pending) <= 1 /\ \A k \in DOMAIN pending : pending[k].kind \in {"save", "archive"}
    <3>1. CASE pending = <<>>
      BY <3>1
    <3>2. CASE pending # <<>>
      <4>1. PICK kind \in {"save", "archive"} :
              pending = <<[kind |-> kind, entries |-> players, round |-> round]>>
        BY <3>2 DEF PersistenceInv, PendingOfPhase
      <4> QED BY <4>1
    <3> QED BY <3>1, <3>2
  <2>4. responses \in [Code -> SUBSET [round : Round, entry : Answer]]
    <3>1. responses = [c \in Code |-> responses[c]]
      BY DEF FinalAnswered
    <3>2. ASSUME NEW c \in Code
          PROVE  responses[c] \in SUBSET [round : Round, entry : Answer]
      <4>1. CASE responses[c] = {}
        BY <4>1
      <4>2. CASE responses[c] # {}
        <5>1. PICK r \in Round : responses[c] = Rows(r, final[r])
          BY <4>2 DEF PersistenceInv, RowsWhole
        <5>2. final[r] \in Seq(Answer)
          BY DEF FinalAnswered
        <5>3. \A i \in DOMAIN final[r] : final[r][i] \in Answer
          BY <5>2
        <5> QED BY <5>1, <5>3 DEF Rows
      <4> QED BY <4>1, <4>2
    <3> QED BY <3>1, <3>2
  <2>5. \A b \in Batches : b.room_code \in Code /\ b.entries \in Seq(Answer)
    <3> SUFFICES ASSUME NEW k \in DOMAIN archive
                 PROVE  archive[k].room_code \in Code /\ archive[k].entries \in Seq(Answer)
      BY DEF Batches
    <3>1. archive[k] \in Batch /\ final[archive[k].round] = archive[k].entries
      BY DEF PersistenceInv, BatchesWhole
    <3> QED BY <3>1 DEF Batch, FinalAnswered
  <2> QED BY <2>1, <2>2, <2>3, <2>4, <2>5 DEF PersistenceTypeOK
<1> QED BY <1>1, <1>2, FinalAnsweredStep, PersistenceInvariant, PTL DEF Spec
=============================================================================
