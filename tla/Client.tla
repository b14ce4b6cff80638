-------------------------------- MODULE Client --------------------------------
(***************************************************************************)
(* The page of one player, src/static/index.html, against the server: the  *)
(* connections it opens one after another, the messages on the way in both *)
(* directions, and its own copy of the room.                               *)
(*                                                                         *)
(* The room is PlayerView; the hosts, displays and other players are its   *)
(* steps.  The page's commands reach the actor in order, among theirs.     *)
(* What the actor sends comes back in two streams, `events` (broadcast)    *)
(* and `direct`, which the pump of src/ws.rs merges in any order.          *)
(*                                                                         *)
(* A message carries the number of its round, as history.  An assignment   *)
(* is that number: what matters of the prompts is which round they belong  *)
(* to and how many they are.  The tab is used as a player throughout; who  *)
(* changes the role in the form has to connect again to act in it.         *)
(***************************************************************************)
EXTENDS PlayerView, Integers, SequencesExt

CONSTANTS
  MaxRounds,    \* bound on the rounds of the room
  MaxConnects,  \* bound on the connections of the page
  BufferCap,    \* BROADCAST_BUFFER
  PromptsIn     \* number of prompts this player is given in each round

Round == 1 .. MaxRounds

ASSUME ClientAssumption ==
  /\ MaxRounds \in Nat \ {0}
  /\ MaxConnects \in Nat
  /\ BufferCap \in Nat /\ BufferCap >= 3   \* one reaction fits
  /\ PromptsIn \in [Round -> Nat]

VARIABLES
  alive,      \* the process that made the room still runs
  round,      \* history: number of the current round
  link,       \* the page's socket and its handler
  outbox,     \* commands of the page on the way to the actor, in order
  orphans,    \* those of its closed connections
  events,     \* broadcasts the handler has not yet taken
  direct,     \* direct messages on the way to the page
  overtaken,  \* history: an older state may be behind a newer one on the way
  session,    \* saved in sessionStorage
  page,       \* the variables of the script
  connects    \* connections opened so far

wireVars   == <<link, outbox, orphans, events, direct, overtaken>>
clientVars == <<viewVars, alive, round, wireVars, session, page, connects>>

\* No socket; join sent, not read; subscribed, join queued; acknowledged.
Link == {"closed", "opening", "joining", "open"}

\* currentPhase, lastPrompts (the round they are of, 0 for none), the round
\* assignmentRequested was set in (0 for false), iSubmitted, promptsOpen,
\* amController, and what the form of the document shows.
Page == [phase : {"none", "lobby", "collecting", "performing", "archived"},
         prompts : 0 .. MaxRounds, asked : 0 .. MaxRounds,
         submitted : BOOLEAN, open : BOOLEAN, controller : BOOLEAN,
         form : 0 .. MaxRounds]

\* The variables as connect() sets them; the form is left as it is.
Fresh(form) ==
  [phase |-> "none", prompts |-> 0, asked |-> 0, submitted |-> FALSE,
   open |-> TRUE, controller |-> FALSE, form |-> form]

ClientInit ==
  /\ ViewInit
  /\ alive = TRUE /\ round = 1
  /\ link = "closed"
  /\ outbox = <<>> /\ orphans = <<>> /\ events = <<>> /\ direct = <<>>
  /\ overtaken = FALSE
  /\ session = FALSE
  /\ page = Fresh(0)
  /\ connects = 0

-----------------------------------------------------------------------------
(* Messages on the way *)

Tagged(msgs, number) == [k \in DOMAIN msgs |-> [body |-> msgs[k], round |-> number]]

Tells == {"room_state", "submission_progress", "slide_changed"}
Carries(msgs) == \E k \in DOMAIN msgs : msgs[k].body.type \in Tells

\* Variant with a fault: one message more than the channel holds.
RetainedAndOne(msgs) ==
  SubSeq(msgs, IF Len(msgs) > BufferCap THEN Len(msgs) - BufferCap ELSE 1, Len(msgs))

\* The receiver holds the last BufferCap broadcasts: one that lags skips.
Retained(msgs) ==
  SubSeq(msgs, IF Len(msgs) > BufferCap THEN Len(msgs) - BufferCap + 1 ELSE 1, Len(msgs))

Subscribed == link \in {"joining", "open"}

\* The actor sends the broadcasts of a reaction, then its direct replies.
\* After a change with nothing older on the direct channel, all that is still
\* to come ends with the present state.
Send(replies) ==
  /\ events' = IF Subscribed THEN Retained(events \o Tagged(heard', round')) ELSE events
  /\ direct' = IF Subscribed THEN direct \o Tagged(replies, round') ELSE direct
  /\ overtaken' = (overtaken /\ (heard' = <<>> \/ Carries(direct)))

joined     == [type |-> "joined"]
assignment == [type |-> "assignment"]
error      == [type |-> "error"]

\* What `join` of src/room.rs answers to a player.
JoinReplies ==
  <<joined, RoomState, Progress>>
    \o (IF phase = "collecting" /\ on THEN <<assignment>> ELSE <<>>)
    \o (IF phase = "performing" THEN <<SlideChanged>> ELSE <<>>)

-----------------------------------------------------------------------------
(* The actor *)

\* A command of somebody else, or of another socket that joined by this name.
Others ==
  /\ alive
  /\ \/ Enlist \/ Strike \/ OtherRoster \/ OpenSubmissions
     \/ Answer \/ OtherAnswer
     \/ Perform \/ Turn \/ Close
     \/ Reopen /\ round < MaxRounds
  /\ round' = IF phase = "archived" /\ phase' = "lobby" THEN round + 1 ELSE round
  /\ UNCHANGED <<alive, link, outbox, orphans, session, page, connects>>
  /\ Send(<<>>)

\* A command of this player: a join, a submission or a move.
Accepts(cmd) ==
  CASE cmd.type = "submit" ->
         phase = "collecting" /\ on /\ PromptsIn[cmd.form] = PromptsIn[round]
    [] cmd.type = "move" -> phase = "performing" /\ mine
    [] OTHER -> TRUE

Obey(cmd) ==
  CASE cmd.type = "submit" -> Answer
    [] cmd.type = "move"   -> Turn
    [] OTHER -> IF phase = "lobby" /\ ~on THEN Enlist ELSE Unheard

Act(cmd) ==
  \/ Accepts(cmd) /\ Obey(cmd)
  \/ ~Accepts(cmd) /\ Unheard

\* The reply, after the change.
Replies(cmd) ==
  IF ~Accepts(cmd) THEN <<error>> ELSE IF cmd.type = "join" THEN JoinReplies' ELSE <<>>

TakeCommand ==
  /\ outbox # <<>>
  /\ Subscribed
  /\ outbox' = Tail(outbox)
  /\ Act(Head(outbox))
  /\ UNCHANGED <<alive, round, link, orphans, session, page, connects>>
  /\ Send(Replies(Head(outbox)))

\* What a closed connection had queued is executed; the reply is lost.
TakeOrphan ==
  /\ orphans # <<>>
  /\ orphans' = Tail(orphans)
  /\ Act(Head(orphans))
  /\ UNCHANGED <<alive, round, link, outbox, session, page, connects>>
  /\ Send(<<>>)

-----------------------------------------------------------------------------
(* The handler *)

\* No command of the room is executed.
Quiet == Unheard /\ UNCHANGED <<alive, round>>

\* First frame: subscribe and queue the join, or, without a room, answer with
\* unknown_room, on which the page forgets its session.
Accept ==
  /\ link = "opening"
  /\ IF alive
     THEN link' = "joining" /\ UNCHANGED <<outbox, session>>
     ELSE link' = "closed" /\ outbox' = <<>> /\ session' = FALSE
  /\ UNCHANGED <<orphans, events, direct, overtaken, page, connects>>
  /\ Quiet

-----------------------------------------------------------------------------
(* The page's message handlers *)

\* renderPlayers
WithEntry(p, msg) ==
  LET sub == msg.on /\ msg.done
  IN  [p EXCEPT !.submitted = sub,
                !.open = IF ~sub THEN TRUE ELSE IF p.submitted THEN p.open ELSE FALSE]

\* Variant with a fault: the controls stay when the performance ends.
WithRoomControls(p, msg) == [WithEntry(p, msg) EXCEPT !.phase = msg.phase]

\* renderRoom
WithRoom(p, msg) ==
  [WithEntry(p, msg) EXCEPT !.phase = msg.phase,
                            !.controller = msg.phase = "performing" /\ @]

NoPrompts(p) == p.prompts = 0 \/ PromptsIn[p.prompts] = 0

\* Variant with a fault: asks whenever it has no prompts.
WantsAssignmentAgain(p, msg) == msg.phase = "collecting" /\ NoPrompts(p)

\* Variant with a fault: asks in the lobby, where there is none to have.
WantsAssignmentEarly(p, msg) ==
  msg.phase \in {"lobby", "collecting"} /\ NoPrompts(p) /\ p.asked = 0

\* maybeRequestAssignment
WantsAssignment(p, msg) ==
  msg.phase = "collecting" /\ NoPrompts(p) /\ p.asked = 0

\* renderAssignment
WithAssignment(p, number) ==
  [p EXCEPT !.prompts = number, !.form = number, !.open = ~p.submitted]

Handle(m) ==
  LET body == m.body
      asks == body.type = "room_state" /\ WantsAssignment(page, body)
  IN  /\ page' =
           CASE body.type = "room_state" ->
                  [WithRoom(page, body) EXCEPT !.asked = IF asks THEN m.round ELSE @]
             [] body.type = "submission_progress" -> WithEntry(page, body)
             [] body.type = "slide_changed" -> [page EXCEPT !.controller = body.mine]
             [] body.type = "assignment" -> WithAssignment(page, m.round)
             [] OTHER -> page
      /\ outbox' = IF asks THEN Append(outbox, [type |-> "join"]) ELSE outbox
      /\ session' = (session \/ body.type = "joined")
      /\ link' = IF body.type = "joined" THEN "open" ELSE link

\* The handshake delivers the acknowledgement first, the pump the rest.
TakeDirect ==
  /\ Subscribed
  /\ direct # <<>>
  /\ direct' = Tail(direct)
  /\ Handle(Head(direct))
  /\ UNCHANGED <<orphans, events, overtaken, connects>>
  /\ Quiet

TakeEvent ==
  /\ link = "open"
  /\ events # <<>>
  /\ events' = Tail(events)
  /\ Handle(Head(events))
  /\ overtaken' = (overtaken \/ Carries(direct))
  /\ UNCHANGED <<orphans, direct, connects>>
  /\ Quiet

-----------------------------------------------------------------------------
(* The player, and failures *)

\* Ending a connection: the handler may still read some of the frames.
Drop ==
  /\ events' = <<>> /\ direct' = <<>> /\ overtaken' = FALSE
  /\ IF alive
     THEN \E k \in 0 .. Len(outbox) : orphans' = orphans \o SubSeq(outbox, 1, k)
     ELSE UNCHANGED orphans

\* Another WebSocket; its onopen sends the join.
Opens ==
  /\ connects < MaxConnects /\ connects' = connects + 1
  /\ link' = "opening" /\ outbox' = <<[type |-> "join"]>>

Shuts == link' = "closed" /\ outbox' = <<>>

\* The Connect button; without a code or a name it only closes and resets.
Connect ==
  /\ Opens \/ (Shuts /\ UNCHANGED connects)
  /\ Drop
  /\ page' = Fresh(page.form)
  /\ UNCHANGED <<session>>
  /\ Quiet

\* The page is loaded again; restoreSession connects if there is a session.
Refresh ==
  /\ IF session THEN Opens ELSE Shuts /\ UNCHANGED connects
  /\ Drop
  /\ page' = Fresh(0)
  /\ UNCHANGED <<session>>
  /\ Quiet

\* The network goes; the page does not connect by itself.
Disconnect ==
  /\ link # "closed"
  /\ Shuts
  /\ Drop
  /\ UNCHANGED <<session, page, connects>>
  /\ Quiet

\* The process stops, and with it the room.
Stop ==
  /\ alive
  /\ alive' = FALSE
  /\ Shuts
  /\ events' = <<>> /\ direct' = <<>> /\ orphans' = <<>>
  /\ overtaken' = FALSE
  /\ UNCHANGED <<round, session, page, connects>>
  /\ Unheard

\* A button is pressed when the last command is answered: a bound, not the code.
Sends(cmd) ==
  /\ link = "open"
  /\ outbox = <<>> /\ direct = <<>>
  /\ outbox' = <<cmd>>
  /\ UNCHANGED <<link, orphans, events, direct, overtaken, session, connects>>
  /\ Quiet

\* The button shows once there is a form, inside the box.
PressSubmit ==
  page.form # 0 /\ page.open /\ Sends([type |-> "submit", form |-> page.form])
                /\ UNCHANGED page

\* Prev, Next and the arrow keys.
PressMove == page.controller /\ Sends([type |-> "move"]) /\ UNCHANGED page

\* The corner toggle, shown once submitted.
PressToggle ==
  /\ page.submitted
  /\ page' = [page EXCEPT !.open = ~@]
  /\ UNCHANGED <<wireVars, session, connects>>
  /\ Quiet

ClientNext ==
  \/ Others
  \/ TakeCommand
  \/ TakeOrphan
  \/ Accept
  \/ TakeDirect
  \/ TakeEvent
  \/ Connect
  \/ Refresh
  \/ Disconnect
  \/ Stop
  \/ PressSubmit
  \/ PressMove
  \/ PressToggle

ClientSpec == ClientInit /\ [][ClientNext]_clientVars

\* The handler, its pump and the page keep taking what is there, and so does
\* the actor: select! and the event loop of a browser pass over no one.  What
\* people do, a connection's end and the process's are under no fairness.
ClientFairness ==
  WF_clientVars(TakeCommand) /\ WF_clientVars(Accept)
    /\ WF_clientVars(TakeDirect) /\ WF_clientVars(TakeEvent)

ClientFairSpec == ClientSpec /\ ClientFairness

-----------------------------------------------------------------------------
(* Properties *)

Command == [type : {"join", "move"}] \cup [type : {"submit"}, form : Round]

\* The variables have their types, no connection's streams outlive it, and
\* events wait only behind the acknowledgement of a subscribed connection.
ClientTypeOK ==
  /\ alive \in BOOLEAN /\ round \in Round
  /\ link \in Link /\ session \in BOOLEAN /\ overtaken \in BOOLEAN
  /\ page \in Page /\ connects \in 0 .. MaxConnects
  /\ \A cmds \in {outbox, orphans} : \A k \in DOMAIN cmds : cmds[k] \in Command
  /\ Len(events) <= BufferCap
  /\ ~Subscribed => events = <<>> /\ direct = <<>>
  /\ link = "closed" => outbox = <<>>

\* Nothing is on the way in either direction, and nothing old came last.
Settled ==
  link = "open" /\ events = <<>> /\ direct = <<>> /\ outbox = <<>> /\ ~overtaken

\* Whatever the page lagged behind and skipped, and over reconnections and
\* refreshes, a page that has read all there is, the two streams merged in any
\* way but one (no broadcast went ahead of an older state on the direct
\* channel), shows the room's phase, the player's own tick, and the Prev and
\* Next buttons exactly when the slide is the player's to turn (renderRoom,
\* renderPlayers and renderSlide of src/static/index.html).
PageMatchesRoom ==
  Settled =>
    /\ page.phase = phase
    /\ page.submitted = (on /\ done)
    /\ page.controller = mine

\* The page has no prompts of an earlier round, and has not asked in one.
NewToRound == page.prompts \in {0, round} /\ page.asked \in {0, round}

\* maybeRequestAssignment reaches its aim in the first round of a connection:
\* whenever the submissions open, and wherever the connection's join fell, a
\* player who is expected to write has the form of this round before them,
\* in an open box.
CanAnswer ==
  Settled /\ phase = "collecting" /\ on /\ ~done /\ NewToRound =>
    page.form = round /\ page.open

\* The request for an assignment is the page's answer to an event, and the
\* reply holds another such event: `One-shot per connection so it can't loop`.
\* Whatever people do, again and again there is nothing on the way to the
\* actor and nothing of it to read.
RequestsEnd == []<>(outbox = <<>> /\ direct = <<>>)

\* Less is to be done than before: a request of this connection that might have
\* been made has been made, or else fewer commands are on the way to the actor,
\* or as many commands and fewer replies on the way back.
Shrinks ==
  \/ page.asked = 0 /\ page'.asked # 0
  \/ /\ page'.asked = page.asked
     /\ \/ Len(outbox') < Len(outbox)
        \/ outbox' = outbox /\ Len(direct') < Len(direct)

\* Why requests end: each command executed and each reply read leaves less to be
\* done, though either may cause new ones of the other, and nothing but a button
\* pressed, a connection opened or a page loaded adds to it.  A broadcast never
\* makes a page ask that has asked, whatever the room does.
RequestsShrink ==
  [][/\ TakeCommand \/ TakeDirect => Shrinks
     /\ \/ Shrinks
        \/ UNCHANGED <<page.asked, outbox, direct>>
        \/ Connect \/ Refresh \/ PressSubmit \/ PressMove]_clientVars

\* What the comment at maybeRequestAssignment says: `Once the host opens
\* submissions, fetch it by re-joining`.  A player who has not answered has the
\* form of this round before them, on whatever page they followed the room.
FetchesTheAssignment ==
  Settled /\ phase = "collecting" /\ on /\ ~done => page.form = round
=============================================================================
