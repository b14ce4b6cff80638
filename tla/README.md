# Channel Zero News: TLA+ models and proofs

Channel Zero News is a party game: players in a room write the lines of a news
show for each other, and then perform the show slide by slide. One Rust process
(axum, tokio) keeps every live room in memory, one actor per room; browsers
talk to it over WebSockets; Postgres holds the prompt catalog, the answers of
the round on stage and the archive of past rounds. This directory models the
server and the page of a player, checks the models with TLC and proves their
safety and action properties with TLAPS.

    tlc -workers 2 -config MCRoom.cfg MCRoom      # any run below
    tlapm Room_proofs.tla                         # any proof module

Paths in this file start at the root of the repository (`src/room.rs` is the
Rust file).

## 1. The system

| Component | State | Operations | Talks to |
|---|---|---|---|
| Game state machine, `src/state.rs` | phase, roster (assignment, partner, answers of each player), current slide, prompt sets (constant) | add/remove player, start_collecting, submit_responses, start_game, advance/prev/goto slide, archive_round, new_round; derived: deck, controller of a slide, entries of the round | called by the reducer only |
| Room reducer, `apply` in `src/room.rs` | none of its own | one case per `ClientMsg`; yields broadcasts, direct replies, effects | state machine; its reaction goes to the actor loop |
| Actor loop, `run`/`run_effect` in `src/room.rs` | the command being handled | receive, reduce, broadcast, reply, await the effects, one command at a time | command queue (64), broadcast channel (256), a direct channel per connection, database |
| Durable tables, `src/db.rs`, `migrations/` | `responses`, `response_archive`, `prompt_sets` | save_final_responses, archive_round (one transaction each), load_prompt_sets | called by the actor loop; the rows outlive the process |
| Connection handler, `src/ws.rs` | per socket: the identity adopted at join, broadcast receiver, direct receiver; two tasks | first frame, subscribe, join, handshake, pump (broadcast and direct to socket), inbound loop | registry for the handle, then the queue and the channels |
| Registry, `src/registry.rs` | map from code to room handle, under an RwLock | create_room, get, remove | routes, connection handler; spawns actors |
| Routes, app, main, errors | catalog seed, database pool | create a room, ask whether one exists, list the catalog | registry, database |
| Page of a player, `static/index.html` | its copy of the room, its prompts, whether it asked for them; a session in the browser's storage | connect, restore a session, render messages, send intents, join again to fetch an assignment | WebSocket |

What is hard here: commands of many connections meet in one queue; each client
sees the room through two channels that are merged in no fixed order, one of
which may drop messages and the other of which outlives the handler; a full
queue makes handlers wait; the database may fail, or the process stop, after
the change was announced; rooms are lost with the process while their rows
stay, and a code may be given out again. Within the state machine the delicate
parts are a ring built by index arithmetic over a roster that changes until it
is locked, an index into a deck that is computed afresh on every use, and an
authority to turn pages that moves from player to player with that index. Rooms
are created and found under one lock, by requests that may be dropped while they
wait for it, and a socket may join more than once. The page keeps variables of
its own that are reset when it connects, while rounds come and go on one socket.

What makes each part correct:

* state machine: everybody presents once, in one ring; the deck is complete when
  shown; the index stays in it; what is locked or final does not change;
* reducer: it changes the game only through the state machine, for those who
  may, and announces everything that changed, as it is after the change;
* actor and tables: a batch of the archive is a whole round, live rows are one
  round, a failure costs one round at most, a Pong is a barrier;
* connections: nobody misses the newest state, every frame gets one answer, and
  a client that stops reading stops nobody else;
* registry: a code leads to the room it was given for, only that room's token
  makes a host of it, and a slow database keeps nobody from finding a room;
* page: once it has read everything it shows the room as it is, a player who is
  expected to write has the form to do so, and its own requests come to an end.

The complete list of hazards, with lines and the properties that cover them, is
in `PROJECT.json`.

## 2. The modules

    GameState --- Room --+-- Persistence ...implements... RoundLife
                         |
                         +-- RoomView ......implements... PlayerView --- Client

    Connections          Registry

A line reads "is extended by". Each of `GameState`, `Persistence`,
`Connections`, `Registry`, `Client` and (through `RoomView`) `Room` has a module
`MC...` with its instances, and each of them, `Room` and `RoomView` has a module
`..._proofs`. The proofs stand on each other as the modules do:

    GameState_proofs --- Deck_proofs --- Room_proofs --+-- RoomView_proofs
                                                       +-- Persistence_proofs

    Connections_proofs       Registry_proofs       Client_proofs

`Deck_proofs` is about the deck of `GameState`: which slide stands where, and who
may turn it.

Three abstract specifications tie the parts together. `Room` implements
`GameState`, so that what holds of the state machine holds of every room.
`Room` also implements `PlayerView`, the same room with one player's eyes, and
`Client` is built on `PlayerView`. `Persistence` implements `RoundLife`, which is
what a reader of the database is promised. `Connections` takes from `Room`
only that every change is broadcast once with the state after it
(`EveryChangeAnnounced`, `BroadcastsAreCurrent`) and that a join, a ping and a
refused command get one direct answer and any other command none
(`AnsweredOrAnnounced`), and abstracts the game to the number of
changes so far. `Registry` is about rooms as wholes and needs nothing of the
inside but how a join treats a role and a token.

**GameState** (`src/state.rs`). Variables and actions carry the names of the
fields and methods. `CanX` is what method `X` checks before it changes anything,
so that a caller can refuse exactly when the method returns an error; which
`TransitionError` it is does not matter to any property and is left out. The
answers of a player are their number and one value that tells one submission
from another; a prompt set is its id and its number of prompts. The deck is the
list that `build_slides` pushes, a slide being its segment and its line in it;
`total_slides` and `slide_at` are its length and its elements, as in the code.
`reset` has one caller, `new_round`, and is part of it.

**Room** (`apply` in `src/room.rs`). One action per `ClientMsg` variant, each with
its refusals: first the authority (`HostRefused`, `may_submit`, `may_control`),
then the error of the operation. `reaction` is what the command produced. The
identity of a command ranges over everything a connection may have adopted,
independently for each command; this covers any number of connections in any
order. Before a join the handler stamps a placeholder identity (`Placeholder`).

**Persistence** (`run`, `run_effect`, `src/db.rs`). `Receive` is one turn of the
loop up to the effects; `EffectCommits` and `EffectFails` are the awaited
transaction (a transaction that commits and is reported as failed is the former:
the loop does nothing with the result but log it). `Restart` stops the process
at any point, in the middle of an effect too, and opens a new room under any
code, as `Registry::create_room` does in a new process. `round` and `final` are
history variables that say which round a row belongs to.

**Connections** (`src/ws.rs`, `RoomHandle`, the receiving side of `run`). `stage`
is where `handle_socket` is; `dispatch` waits for room in the queue; a broadcast
receiver is a cursor into the stream of changes; `PumpLag` is
`RecvError::Lagged`, which moves the receiver to the oldest message retained.
A connection has two tasks, which end separately: after `InboundEnds` the handler
only awaits its pump ("closing"), which delivers on until every sender of its
direct channel is gone, those in queued commands included (`PumpEnds`); after
`PumpFails`, a frame that could not be written, the inbound loop reads on, and its
replies are lost ("deaf"). A socket that ends while the handshake waits for the
acknowledgement is noticed after it, as in the code. `view` is the last state put
on the wire, `seen` the newest one ever.
The tokio channels and the socket are external and modelled from their use.

**RoundLife**. A round is played, kept under the code of its room, filed in the
archive, or lost to a fault. `Persistence` maps its rows to the rounds they are
of: `Life` in that module is the refinement mapping. A round counts as on stage
until its archive transaction is over.

**PlayerView, RoomView**. `PlayerView` is the phase, whether the player is on the
roster, has answered and may turn the slide, and the messages that tell so.
`RoomView` reads these off the state of `Room` for any `Viewer`, and the
broadcasts off its `reaction`, message by message (`AsSeen`).

**Client** (`static/index.html`, with the path through `src/ws.rs`). One player's
page, and the room as `PlayerView`; everybody else is its steps, also another
socket under this player's name, whose answers the room accepts. The actor's
messages arrive in two streams, merged in any order, and the broadcast one drops
the oldest when full. `Handle` is `onMessage` with the functions it calls. A
connection may end at any time (`Connect`, `Refresh`, `Disconnect`): the commands
its handler had read are executed all the same (`orphans`), also after the page
has connected again. `connect()` with no code or no name closes the socket, resets
the page and returns. `Stop` ends the process and with it the room; the page then
hears `unknown_room` and forgets its session. `overtaken` is history: it says
that an older state is still behind a newer one on the way, which is the
divergence `connections_stale` of section 5 and is excluded from what the page
is held to.

**Registry** (`src/registry.rs`, `src/routes.rs`, the first frame and the role in
`src/ws.rs`). A room is the number of its host token. The lock is tokio's RwLock,
which is fair: requests wait in `line`. Two readers at once do what two readers in
turn do, so a reader is one step; a creation is `Enter`, `Draw`, which ends the
loop with a code that leads nowhere, and `Insert`, which does not look again.
`Cancel` is axum dropping the handler of a client that went away while it waits.
The catalog that is read before a creation arrives, fails, is empty or never
comes. `JoinAgain` is a second `join_room` on a socket: it is answered with the
new role (`told`), while the handler keeps sending the first one (`held`).
`remove` is called by nothing in `src/` yet; it is modelled since the registry
offers it.

The operators marked "Variant with a fault" are plausible mistakes in the
definition that follows them. Nothing uses them; put in the place of the
original, each makes TLC report the property it is paired with in
`PROJECT.json`, which shows that the property can fail.

## 3. What TLC checks

| Run | Instance | Distinct states | What it shows |
|---|---|---|---|
| `game` | 3 names, 2 prompt sets (2 prompts, none), 2 texts, indices 0..16 | 2 401 | ring, round robin, deck, controllers, index, what is fixed when |
| `room` | 2 names, 1 set of 1 prompt, 1 text, 5 identities, bad and good tokens, one viewer | 2 096 | refinement of `GameSpec` and of `PlayerView`; announcements, one answer or announcement per command, authority |
| `persistence` | 2 players, 2 codes, 2 rounds, 2 faults | 23 056 | the tables at every moment, with failures and restarts; refinement of `RoundLife` |
| `connections` | 2 connections, queue 2, buffer 1, 2 changes, 3 frames each | 4.5 million | races of joins, lag, full queue, either task of a connection ending first |
| `connections_live` | the same with queue 1 and 2 frames each; one client may stop reading | 210 284 | liveness under `NetFairness`, with handlers waiting for the queue |
| `client` | 2 rounds, the first without prompts, 2 connections, buffer 3 | 1.7 million | the page against the room; by which steps its requests end |
| `client_live` | the same, 1 connection | 307 981 | that its requests end, under `ClientFairness` |
| `registry` | 2 clients, 2 codes, 3 rooms | 461 224 | whose room a code is, who is host, who waits |
| `room_moves`, `room_wipe`, `connections_stale`, `client_second_round` | as `room`, `connections`; `client` with 1 connection and prompts in both rounds | until violated | the divergences of section 5 |

Why these bounds are enough. Three players are the first roster with a ring in
which next and previous differ, and with two prompt sets the first where the round
robin wraps unevenly; a set without prompts and one of two give segments of three
and five slides; the indices reach one past the longest deck (16 slides). Two
names suffice for the reducer, which never compares more than a sender with one
player; the list of identities has every role, both names and a player without
one. Two rounds with two faults contain each pair of fault (save lost, archive
lost, restart at any point) and later save or archive under the same or the other
code; that a fault costs no more in any number of later rounds is
`FaultsCostOneRoundEach` of section 4. Three frames fill a queue of two and leave
a handler waiting; two changes overrun a buffer of one, so that a receiver lags.
In the live run the queue holds one command, so that whoever dispatches has to
wait while the other's is in it. A buffer of three is the smallest that holds all
the broadcasts of one command, so a page lags as soon as two commands come while
it does not read (that a command broadcasts no more is `RoomTypes` of section 4);
two connections let commands of the first reach the room while the second joins;
the first round without prompts lets a page carry what it has learnt of one round
into a round in which it has to write. The player's buttons are pressed only when
the last command is answered (`Sends`): that bounds the queue of a person's
clicks, not of the page's own requests. Two codes are all taken by two rooms, so
that the third creation draws under the lock without end; three rooms also let a
code be given out again after a removal or a restart. In the persistence run the
set has no prompts, since the number of answers does not reach the tables; slide 5
is the last one of a deck of one player, slide 8 of a deck of two.

`VIEW WithoutReaction` identifies states that differ in the last reaction only:
`Apply` sets it without reading it and `Receive` copies its effects in the same
step; the view keeps whether it is a Pong, which is all a property reads.
`SYMMETRY` is used in the safety runs of `Connections` only, where no definition
tells connections apart (`Slow` occurs in the fairness alone).

Deadlock is checked in the runs of `GameState`, `Room` and `Persistence` (a room
always takes a command). It is not checked for `Connections`, `Client` and
`Registry`: there every connection may close, the server may stop for good, and
the counters are bounded.

Fairness (`NetFairness`): the runtime polls the actor and every handler, so
`ActorStep` and `DispatchJoin` are weakly fair; so are the handshake and the
pump of a client that reads, since `select!` chooses among the ready branches at
random and a branch stays ready until taken. Nothing is assumed of clients that
stop reading (`Slow`), of sending or of disconnecting. Weak fairness of
`DispatchJoin` suffices: a tokio sender that waits has a place in line, and in
the model the bounded number of frames makes room stay. With the counters
bounded, `ReaderServed` says that a client catches up once changes pause; in a
room that changes faster than a client reads, no more can be said of the code.

`HandlerEnds` is about a handler that awaits its pump while the pump awaits the
senders in the queued commands: the actor empties the queue whoever waits, so the
channel ends.

`ClientFairness` makes the actor, the first frame, and the reading of both streams
weakly fair, for the same reason and because the event loop of a browser delivers
what has arrived. What people do, and the ends of connections and of the process,
are not: `RequestsEnd` holds because a page asks once, not because somebody stops.
It is run with one connection; the commands a former connection left behind are
not the page's any more, and `RequestsShrink`, proved for any number of
connections, says that each of those opened starts the count anew. `RegFairness`
is one weak fairness per client for what is done at and under the lock (`Locked`):
a fair lock is granted, its holder runs, and random draws among codes with a free
one find it. The database is under no fairness, and `LookupAnswered` therefore
also says that nobody holds the lock while the catalog is read. Its exception is
real: when every code is taken, `create_room` draws on under the write lock, and
every lookup waits.

## 4. What is proved

The proofs hold for any names, catalogs (also an empty one, and sets
without prompts), texts, requests, codes, connections, clients, sizes of queue
and buffer, and bounds, under the named assumptions next to the constants:
`NoneAssumption`, `PromptSetsAssumption`, `PromptIdsAssumption`,
`PromptsAssumption` and `RequestAssumption` of `GameState`, `IdentityAssumption`
of `Room`, `ViewerAssumption`, `PersistenceAssumption`, `ConnectionsAssumption`,
`ClientAssumption` and `RegistryAssumption`. TLC evaluates each of them in the
runs. `PromptIdsAssumption`, that no id occurs twice in the catalog, is the
primary key of `prompt_sets` (migrations/0001_init.sql:10); only the fairness of
the round robin needs it.

`GameState_proofs` proves the invariant `GameInv`, the conjunction of the type
invariant with named parts: names are unique; outside the lobby the roster is not
empty, each player holds the prompt set of the room and the partner of the next
seat; answers have the number of prompts of the set; on stage everybody has
answered; the index is inside the deck. None of the checked properties is
inductive alone. `EveryonePresentsOnce`, for example, needs to know that partners
were handed out along the seats of unique names: its proof takes the seat before
the player's own in the ring (`NextSeatRing`, `PreviousSeat`) and uses uniqueness
twice. `SlideInRange` needs that `build_slides` makes a list, and one that is not
empty, for `total_slides - 1` to be a number (`DeckList`, `DeckSize`), and that
submissions do not change its length. One lemma per action (`InvAddPlayer` ...
`InvNewRound`) shows that `GameInv` is preserved; `GameStep` collects them. From
it follow, as theorems of `GameSpec`:

* `TypeCorrect`, `SlideAlwaysInRange`, `AlwaysPerformedComplete`,
  `AlwaysPresentsOnce`: the invariants;
* `RosterStaysLocked`, `FinalAnswersStay`: the action properties;
* `AlwaysOneRing`: from its last seat a group that writes only for itself leads
  to the first, and from the first to every other (`RingClosed`);
* `AlwaysBalanced`: two seats with the same set are a whole catalog apart
  (`TurnsApart`), so that moving every seat of one set but the last to the next
  seat of another is an injection (`TurnsFair`).

The last two speak of a first or a last number with some property, and so does
what `FlattenSeq` of the community modules makes of the segments: a recursive
function is the only one that appends the next segment at each step (`Appends`,
`AppendsExists`, `AppendsUnique`, `FlattenAppends`), since two that differ would
differ at a first place. `Least` proves that there is one, from the library's
theorem that a well-founded relation has minimal elements (`WFMin`) on the finite
sets (`FS_StrictSubsetOrderingWellFounded`); it takes the place of induction,
whose theorems take an operator as a parameter and are out of the provers' reach.

`Deck_proofs` says where in the deck each segment stands. The segments are pushed
one after the other (`SegmentsInPlace`), so they are adjacent and do not overlap
(`Adjacent`, `StartsOrder`), with the rules before them and the closing slides
after them (`LaidOut`, `DeckLaidOut`). From this follows `AlwaysHandedOver`
(`ReaderHandover`): the run of a reader is the segment they present, with the
rules for the first of them (`RunOf`, `Places`, `Readers`), and nobody has the
closing slides. It needs of `GameInv` that the partners are a permutation: a
partner named twice would hold two runs, one named never would hold none.

`Room_proofs` proves `ApplyIsGameStep` (each command is one operation of the
state machine, or leaves it alone) and hence `RoomImplementsGame`
(`RoomSpec => GameSpec`); `RoomKeepsTheGame` carries the theorems above over to
the room. `ChangesAreAnnounced` proves `EveryChangeAnnounced`, which
`Connections` builds on: one case per command, each either leaves the game alone
or broadcasts `room_state`, `progress` and `slide_changed` as far as they
changed; it needs no invariant.

`NothingAnnouncedIsOld` proves the other half, `BroadcastsAreCurrent`: no message
of a reaction is older than the step that sent it.

`EveryCommandMet` proves `AnsweredOrAnnounced`. A reaction is a concatenation of
a few messages, some of them conditional; `AnswersMet` and `AnnouncementsMet`
say where the answers and the `room_state` are in it, `FirstIsAnswer` that an
answer comes before everything else the sender is told, and `ApplyMet` goes
through the commands. `Connections` builds on this: its account of commands
and replies is right only if the room gives each command its one answer.

`AuthorityIsKept` proves `WhoMayChangeWhat`, with one lemma for each thing that
may change. Whoever turns the slide is the reader of the segment on stage, which
the code knows by an index into a deck it builds anew, and the property by the
block of the slide: `ControllerIs` of `Deck_proofs` joins the two. That a lobby
holds no answers (`LobbyBlank`) keeps new assignments from counting as changed
answers. `RoomTypes` bounds a reaction: at most three broadcasts, four direct
replies and one effect, each of its kinds. The buffer of `Client`, which must hold
the broadcasts of one command, and the single effect under way of `Persistence`
rest on these numbers.

`RoomView_proofs` proves `RoomIsAsSeen`: `Room` implements `PlayerView`, for
every viewer. The mapping is read off the state, so the work is in the messages:
what a broadcast says to the viewer is what the variables of `PlayerView` are
after the step. The one fact about the game that this needs beyond `GameInv` is
that nobody has answered in the lobby (`LobbyBlank` again).

`Persistence_proofs` proves `PersistenceInv`: `GameInv`; `final` remembers every
round shown and no other (`FinalUpToDate`); at most one effect is under way, the
one of the phase just entered (`PendingOfPhase`); the rows under each code are
one whole round that is not archived, and the round on stage lies under the
room's own code or nowhere (`RowsWhole`); the batches are whole rounds, each
once, and the round on stage is not among them (`BatchesWhole`). The last two
need each other: an archive writes no round twice because the round on stage is
not in the archive until its own effect is over, and a save overwrites, under a
code that a restart may have handed out again, only rows of rounds that left the
stage for good. From it:

* `ArchivedAlwaysWhole`, `RowsAlwaysOneRound`, `ArchivedNeverReused`;
* `TablesImplementRoundLife`: start_game is `Play`, a commit `Keep` or `File`, a
  failure `Miss`, a restart `Stop`, anything else a stutter;
* `FaultsCostOneRoundEach`, with a second invariant, `CostInv`: the rounds that
  left the stage unfiled, and one more if the save on stage was missed, are no
  more than the faults. The summand is needed: the missed save was paid for
  already, when the round it belongs to is lost;
* `TablesFollowRoom` and `PongAfterTables`, with `UnfailedInv`: as long as
  nothing has failed, the tables are where the phase says;
* `PersistenceTypes`, with `FinalAnswered`: the rows are made of the answers of
  a round that was shown.

`Connections_proofs` proves `NetInv` and from it `AlwaysSeenLatest`
(`SeenLatest`). Per connection: before its join nothing of it is under way
(`BeforeJoin`); until the handshake its one join is queued or answered, and the
answer is no older than the subscription (`JoinUnderWay`); afterwards, whoever
has no broadcast to come has seen the newest state or has it on the direct
channel (`NewestOnItsWay`). The middle one is what subscribing before joining is
for.

`AlwaysAnswered` (`EveryCommandAnswered`) is an account: what a connection has
sent is what it has in the queue, in its direct channel, on the wire and in the
room. `HowMany` counts the positions of a sequence that hold a message of some
kind; `CountAppend` and `CountTail` say what an arrival and a departure do to it,
and each action moves one command from one place to another. Once a connection
has gone the equation is an upper bound (`Accounted`), since its replies are lost
while its commands go on. `NetTypes` adds the bounds of the queue and of the
counters, and that no screen is ahead of the room.

`Client_proofs` proves `ClientInv` for the page, the two streams and the room,
over any number of rounds, reconnections and refreshes:

* `MatchInv`, for each of the three things the page shows: the broadcasts on the
  way end in the truth; and unless an older state is behind a newer one, either a
  broadcast is still to come that tells of it, or what the page shows once it has
  read the direct messages is true. A buffer that drops its oldest broadcasts
  keeps this: the reaction that pushes them out fits in the buffer and tells of
  all three things again;
* `Handshake`: before the acknowledgement the join is on the way or answered, and
  the answer is the first thing the page reads;
* `PastInv`, `FormInv`: nothing on the way is of a round to come, and assignments
  come in the order of their rounds, so a form is never replaced by an older one;
* `AskInv`: a page that saw submissions open has prompts or has asked for them,
  and a request of this round is on its way there or back, or answered.

From it `PageFollowsRoom` (`PageMatchesRoom`), by the first two, `PlayersCanAnswer`
(`CanAnswer`), by all, and `ClientTypes`.

`RequestsComeToAnEnd` proves `RequestsShrink`, which is what `RequestsEnd` rests on
apart from fairness. Three numbers are compared in order: whether the page may
still ask, how many commands are on the way, how many replies. A command executed
takes one of the second, a reply read one of the third, or the page asks, which it
does once (`AsksOnce`). Nothing but a button, a connection or a reload makes them
grow, so only finitely many commands and replies come between two of these;
that those steps are taken is the fairness TLC assumes.

`Registry_proofs` proves `RegInv` and from it `AlwaysLeadsHome` (`CodesLeadHome`)
and `HostsShowTokens` (`HostHoldsToken`). A code that has been drawn stays free
until its room is inserted (`DrawnFree`), which holds because whoever draws or
inserts has the lock to themselves (`OneInside`). A response under way leads home
as a delivered one does (`AnswersLeadHome`), and a socket with a role has a room
(`SocketHasRoom`): without it, a join with no token would match the room of a
socket that has none. `RegistryTypes`, with a second invariant `RegTypes`, shows
that the line before the lock is exactly the requests that wait, each once:
joining it at the end (`JoinLine`), taking the lock from its head (`FirstLeaves`)
and being dropped from the middle of it (`LeaveLine`) keep that.

Model-checked only: liveness (`JoinSettles`, `ReaderServed`, `HandlerEnds`,
`RequestsEnd`, `LookupAnswered`). It needs fairness, hence ENABLED, which the
provers do not handle. `RequestsShrink` is the part of `RequestsEnd` that needs
none.

## 5. Where code and documents disagree

* `room_moves`: two texts say who moves the carousel, and the code does neither.
  README.md:64 and src/protocol.rs:63 call advancing slides host-only.
  src/state.rs:91 says that the teleprompter advances the slides, and README.md:21
  that the player whose script is read drives it; the teleprompter of a segment is
  its author (src/state.rs:336). In the code the partner who reads the segment
  moves the carousel, to any slide, and its author does not (`current_controller`,
  src/state.rs:377; `may_control`, src/room.rs:344). `HostOrAuthorMoves` follows
  from either text: a move on a segment is made by a host or by its author.
  `WhoMayChangeWhat` is what does hold, and what the comments of
  `current_controller` and `may_control` say.
* `room_wipe`: src/state.rs:434 describes `reset` as the host's control to empty
  the room from any phase. It is only reached through `new_round`, from
  `archived`. A player who never submits keeps the room in `collecting`.
* `connections_stale`: the snapshot that answers a join travels on the direct
  channel, later changes on the broadcast channel, and the pump (src/ws.rs:117)
  takes from either. A newer broadcast may be delivered before the snapshot, and
  the client then shows the older state until the next change. `SeenLatest` is
  what does hold: the newest state was delivered, though not always last.
* `client_second_round`: static/index.html:301 says that the page fetches the
  assignment once the host opens submissions. `maybeRequestAssignment` (line 305)
  asks only while it holds no prompts and has not asked, and both are reset by
  `connect()` alone, while the room starts its next round under the same sockets.
  A player of the second round then has no form, or the form of the first one,
  whose answers the room accepts if the numbers of prompts agree. A reload helps.
  `CanAnswer` is what does hold: a page new to a round gets its form.

## 6. Not modelled, and what comes next

Not modelled, and why:

* JSON, wording and layout of messages, and which `TransitionError` lies behind a
  refusal (`Room` keeps the code that is sent): no property is about them.
* `/health`, `/api/prompt-sets`, the static files and the layers of `src/app.rs`:
  they keep no state.
* Start-up, migrations, errors and deployment files: they run once, before there
  is a room. That the process ends and starts again is an action of
  `Persistence`, `Registry` and `Client`.
* The host's and the display's pages, full screen, the service worker,
  rendering, and the connection label (which a late `onclose` of an old socket
  may get wrong, static/index.html:263): presentation that no decision reads.
* Two equal draws of 24 random bytes: tokens are distinct numbers.
* Two people pressing next at once skip a slide (src/state.rs:303). The move is
  relative by design, so there is nothing to hold it to.

Postgres is assumed to run a transaction atomically, tokio's channels to be
FIFO, its RwLock to be fair.

Plan, in order; all rows are modelled, checked and proved as far as they say.

| | Module | Abstract specification and properties | Proofs |
|---|---|---|---|
| 1 | GameState | ring, round robin, deck, index, locks | all |
| 2 | Room | implements GameState; announcements, authority | all |
| 3 | Persistence | tables against rounds, faults, restarts | all |
| 4 | Connections | delivery and liveness over the channels | the safety properties |
| 5 | Registry | codes, hosts, the lock, a full code space, a second join on a socket | the safety properties |
| 6 | PlayerView, RoomView, Client | the page over two rounds and reconnections; how its requests end | the implementation, the safety properties and the measure of `RequestsEnd` |
| 7 | RoundLife | the life of a round, implemented by Persistence | all |
| 8 | next | | for a join and for a lookup in line, what `RequestsShrink` is for the page: the steps that bring them nearer to their end |
