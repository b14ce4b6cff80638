----------------------------- MODULE Connections -----------------------------
(***************************************************************************)
(* How connections and the room actor talk: the socket handler of          *)
(* src/ws.rs, the queue and the broadcast channel of RoomHandle and the    *)
(* receiving side of the actor loop in src/room.rs.                        *)
(*                                                                         *)
(* The game is abstracted to `version`, the number of changes so far.      *)
(* Every change is broadcast once, carrying the state after it (property   *)
(* EveryChangeAnnounced of Room), so the v-th broadcast is version v and   *)
(* the broadcast stream needs no variable: a receiver is its `cursor`, the *)
(* last broadcast it took or skipped, and the channel retains the last     *)
(* BufferCap ones.  A join is answered by an acknowledgement and a         *)
(* snapshot; a ping and a refused command by one reply.                    *)
(*                                                                         *)
(* A client that comes back is another connection.                         *)
(***************************************************************************)
EXTENDS Integers, Sequences, FiniteSets, SequencesExt

CONSTANTS
  Conn,        \* connections
  Slow,        \* those whose socket may stop taking frames
  QueueCap,    \* COMMAND_QUEUE
  BufferCap,   \* BROADCAST_BUFFER
  MaxVersion,  \* bound on the changes of the room
  MaxSent      \* bound on the frames of one connection

ASSUME ConnectionsAssumption ==
  /\ Slow \subseteq Conn
  /\ QueueCap \in Nat \ {0}
  /\ BufferCap \in Nat \ {0}
  /\ MaxVersion \in Nat
  /\ MaxSent \in Nat \ {0}

VARIABLES
  version,   \* changes the actor has made and broadcast
  queue,     \* cmd_rx: commands not yet received by the actor
  stage,     \* where each handle_socket is
  cursor,    \* each broadcast receiver's position
  direct,    \* direct_rx of each connection
  view,      \* the version on each client's screen: the last state delivered
  seen,      \* history: the newest version delivered to each client
  sent,      \* history: frames each connection has had taken
  answered,  \* history: acknowledgements and replies handed to each socket
  applied    \* history: changes made for each connection

netVars == <<version, queue, stage, cursor, direct, view, seen, sent, answered,
             applied>>

\* Of an open connection the inbound loop may end first, and then the pump goes
\* on ("closing"), or the pump, and then the loop does ("deaf").
Stage == {"new", "subscribed", "joining", "open", "closing", "deaf", "closed"}

Pumping(c) == stage[c] \in {"open", "closing"}
Reading(c) == stage[c] \in {"open", "deaf"}

\* direct_rx is dropped.
Gone(c) == stage[c] \in {"deaf", "closed"}

Kind == {"join", "edit", "ping"}

Command == [conn : Conn, kind : Kind]

\* Acknowledgements, replies and errors; snapshots carry a version.
ack == [type |-> "ack"]
refusal == [type |-> "error"]
snapshot_of(v) == [type |-> "state", version |-> v]

Message == {ack, refusal} \cup [type : {"state"}, version : 0 .. MaxVersion]

NetTypeOK ==
  /\ version \in 0 .. MaxVersion
  /\ queue \in Seq(Command) /\ Len(queue) <= QueueCap
  /\ stage \in [Conn -> Stage]
  /\ cursor \in [Conn -> 0 .. version]
  /\ direct \in [Conn -> Seq(Message)]
  /\ view \in [Conn -> 0 .. version]
  /\ seen \in [Conn -> 0 .. version]
  /\ sent \in [Conn -> 0 .. MaxSent]
  /\ answered \in [Conn -> 0 .. MaxSent]
  /\ applied \in [Conn -> 0 .. MaxSent]

NetInit ==
  /\ version = 0
  /\ queue = <<>>
  /\ stage = [c \in Conn |-> "new"]
  /\ cursor = [c \in Conn |-> 0]
  /\ direct = [c \in Conn |-> <<>>]
  /\ view = [c \in Conn |-> 0]
  /\ seen = [c \in Conn |-> 0]
  /\ sent = [c \in Conn |-> 0]
  /\ answered = [c \in Conn |-> 0]
  /\ applied = [c \in Conn |-> 0]

-----------------------------------------------------------------------------
(* The direct channel *)

\* Variants with a fault: a direct channel of one reaction, on which the actor
\* waits for room or gives up.
DirectWaiting(c, msgs) ==
  /\ Gone(c) \/ direct[c] = <<>>
  /\ direct' = IF Gone(c) THEN direct ELSE [direct EXCEPT ![c] = msgs]

DirectDropping(c, msgs) ==
  direct' = IF Gone(c) \/ direct[c] # <<>> THEN direct
            ELSE [direct EXCEPT ![c] = msgs]

\* direct.send: unbounded, and lost once the receiver has gone.
Direct(c, msgs) ==
  direct' = IF Gone(c) THEN direct ELSE [direct EXCEPT ![c] = @ \o msgs]

-----------------------------------------------------------------------------
(* The handler of one connection: first frame, join, handshake *)

\* No frame, not a join, or no such room: the handler returns.
FirstFrameBad(c) ==
  /\ stage[c] = "new"
  /\ stage' = [stage EXCEPT ![c] = "closed"]
  /\ UNCHANGED <<version, queue, cursor, direct, view, seen, sent, answered,
                 applied>>

\* A receiver sees the broadcasts sent after it subscribed.
Subscribe(c) ==
  /\ stage[c] = "new"
  /\ stage' = [stage EXCEPT ![c] = "subscribed"]
  /\ cursor' = [cursor EXCEPT ![c] = version]
  /\ UNCHANGED <<version, queue, direct, view, seen, sent, answered, applied>>

\* Variant with a fault: the queue has no bound.
dispatch_unbounded(c, kind) ==
  /\ queue' = Append(queue, [conn |-> c, kind |-> kind])
  /\ sent' = [sent EXCEPT ![c] = @ + 1]

\* RoomHandle::dispatch: waits while the queue is full.
dispatch(c, kind) ==
  /\ Len(queue) < QueueCap
  /\ queue' = Append(queue, [conn |-> c, kind |-> kind])
  /\ sent' = [sent EXCEPT ![c] = @ + 1]

DispatchJoin(c) ==
  /\ stage[c] = "subscribed"
  /\ dispatch(c, "join")
  /\ stage' = [stage EXCEPT ![c] = "joining"]
  /\ UNCHANGED <<version, cursor, direct, view, seen, answered, applied>>

\* The first reply of the actor decides: adopted, or rejected and closed.
Handshake(c) ==
  /\ stage[c] = "joining"
  /\ direct[c] # <<>>
  /\ answered' = [answered EXCEPT ![c] = @ + 1]
  /\ \/ /\ Head(direct[c]) = ack
        /\ stage' = [stage EXCEPT ![c] = "open"]
        /\ direct' = [direct EXCEPT ![c] = Tail(@)]
     \/ /\ Head(direct[c]) = refusal
        /\ stage' = [stage EXCEPT ![c] = "closed"]
        /\ direct' = [direct EXCEPT ![c] = <<>>]
  /\ UNCHANGED <<version, queue, cursor, view, seen, sent, applied>>

-----------------------------------------------------------------------------
(* The outbound pump: select! takes whichever branch it likes *)

Show(c, v) ==
  /\ view' = [view EXCEPT ![c] = v]
  /\ seen' = [seen EXCEPT ![c] = IF v > @ THEN v ELSE @]

Lagging(c) == cursor[c] < version - BufferCap

PumpBroadcast(c) ==
  /\ Pumping(c)
  /\ cursor[c] < version
  /\ ~Lagging(c)
  /\ cursor' = [cursor EXCEPT ![c] = @ + 1]
  /\ Show(c, cursor[c] + 1)
  /\ UNCHANGED <<version, queue, stage, direct, sent, answered, applied>>

\* Variant with a fault: a receiver that lags starts afresh, after the last one.
PumpResubscribe(c) ==
  /\ Pumping(c)
  /\ Lagging(c)
  /\ cursor' = [cursor EXCEPT ![c] = version]
  /\ UNCHANGED <<version, queue, stage, direct, view, seen, sent, answered,
                 applied>>

\* Lagged: the receiver is moved to the oldest broadcast retained.
PumpLag(c) ==
  /\ Pumping(c)
  /\ Lagging(c)
  /\ cursor' = [cursor EXCEPT ![c] = version - BufferCap]
  /\ UNCHANGED <<version, queue, stage, direct, view, seen, sent, answered,
                 applied>>

PumpDirect(c) ==
  /\ Pumping(c)
  /\ direct[c] # <<>>
  /\ direct' = [direct EXCEPT ![c] = Tail(@)]
  /\ LET msg == Head(direct[c])
     IN  \/ /\ msg.type = "state"
            /\ Show(c, msg.version)
            /\ UNCHANGED answered
         \/ /\ msg.type # "state"
            /\ answered' = [answered EXCEPT ![c] = @ + 1]
            /\ UNCHANGED <<view, seen>>
  /\ UNCHANGED <<version, queue, stage, cursor, sent, applied>>

-----------------------------------------------------------------------------
(* The inbound loop, and the end of a connection *)

Send(c, kind) ==
  /\ Reading(c)
  /\ sent[c] < MaxSent
  /\ dispatch(c, kind)
  /\ UNCHANGED <<version, stage, cursor, direct, view, seen, answered, applied>>

\* A frame that does not parse is answered by the handler itself, ahead of the
\* replies to the commands still in the queue.
BadFrame(c) ==
  /\ Reading(c)
  /\ sent[c] < MaxSent
  /\ sent' = [sent EXCEPT ![c] = @ + 1]
  /\ Direct(c, <<refusal>>)
  /\ UNCHANGED <<version, queue, stage, cursor, view, seen, answered, applied>>

\* A close frame, or the end of the stream: the handler drops its sender and
\* awaits the pump.
InboundEnds(c) ==
  /\ Reading(c)
  /\ stage' = [stage EXCEPT ![c] = IF @ = "open" THEN "closing" ELSE "closed"]
  /\ UNCHANGED <<version, queue, cursor, direct, view, seen, sent, answered,
                 applied>>

\* A frame cannot be written: the pump ends, and its receivers with it.
PumpFails(c) ==
  /\ Pumping(c)
  /\ stage' = [stage EXCEPT ![c] = IF @ = "open" THEN "deaf" ELSE "closed"]
  /\ direct' = [direct EXCEPT ![c] = <<>>]
  /\ UNCHANGED <<version, queue, cursor, view, seen, sent, answered, applied>>

\* A connection's frames that are queued, each with a sender of its channel.
Frames(c) == {k \in DOMAIN queue : queue[k].conn = c}

\* Variant with a fault: the handler keeps its sender while it awaits the pump.
PumpEndsNever(c) == FALSE

\* With every sender dropped the drained direct channel ends, and so the pump.
PumpEnds(c) ==
  /\ stage[c] = "closing"
  /\ direct[c] = <<>>
  /\ Frames(c) = {}
  /\ stage' = [stage EXCEPT ![c] = "closed"]
  /\ UNCHANGED <<version, queue, cursor, direct, view, seen, sent, answered,
                 applied>>

-----------------------------------------------------------------------------
(* The actor *)

\* A change and its broadcast.
Change == version < MaxVersion /\ version' = version + 1

\* A join is refused (host token), or answered with the state after a possible
\* self-registration.
ActOnJoin(c) ==
  \/ Direct(c, <<refusal>>) /\ UNCHANGED version
  \/ /\ Change \/ UNCHANGED version
     /\ Direct(c, <<ack, snapshot_of(version')>>)

ActOnEdit(c) ==
  \/ /\ Change
     /\ applied' = [applied EXCEPT ![c] = @ + 1]
     /\ UNCHANGED direct
  \/ Direct(c, <<refusal>>) /\ UNCHANGED <<version, applied>>

ActorStep ==
  /\ queue # <<>>
  /\ queue' = Tail(queue)
  /\ LET cmd == Head(queue)
     IN  \/ cmd.kind = "join" /\ ActOnJoin(cmd.conn) /\ UNCHANGED applied
         \/ cmd.kind = "edit" /\ ActOnEdit(cmd.conn)
         \/ /\ cmd.kind = "ping"
            /\ Direct(cmd.conn, <<ack>>)
            /\ UNCHANGED <<version, applied>>
  /\ UNCHANGED <<stage, cursor, view, seen, sent, answered>>

NetNext ==
  \/ ActorStep
  \/ \E c \in Conn :
       \/ FirstFrameBad(c)
       \/ Subscribe(c)
       \/ DispatchJoin(c)
       \/ Handshake(c)
       \/ PumpBroadcast(c)
       \/ PumpLag(c)
       \/ PumpDirect(c)
       \/ \E kind \in Kind : Send(c, kind)
       \/ BadFrame(c)
       \/ InboundEnds(c)
       \/ PumpFails(c)
       \/ PumpEnds(c)

NetSpec == NetInit /\ [][NetNext]_netVars

\* The runtime keeps polling the actor and every handler, and, unless the client
\* stops reading, its frames are written: the handshake and both branches of
\* the pump go on, and the pump ends when its channel does.  A branch that is
\* ready stays ready until it is taken, and select! picks among the ready ones
\* at random.
\* Clients owe nothing: no fairness on sending, leaving or slow pumps.
NetFairness ==
  /\ WF_netVars(ActorStep)
  /\ \A c \in Conn : WF_netVars(DispatchJoin(c))
  /\ \A c \in Conn \ Slow :
       /\ WF_netVars(Handshake(c))
       /\ WF_netVars(PumpBroadcast(c))
       /\ WF_netVars(PumpLag(c))
       /\ WF_netVars(PumpDirect(c))
       /\ WF_netVars(PumpEnds(c))

FairNetSpec == NetSpec /\ NetFairness

-----------------------------------------------------------------------------
(* Properties *)

\* Nothing is left for the pump to deliver.
Drained(c) ==
  Pumping(c) /\ direct[c] = <<>> /\ cursor[c] = version

\* "Subscribe before joining so no broadcast between join and loop is missed"
\* and "a slow client missed messages: keep going with the latest": once
\* everything is delivered, the client has been sent the newest state at some
\* point, however the join raced with changes and however far it lagged.
SeenLatest == \A c \in Conn : Drained(c) => seen[c] = version

\* A connection's answers on their way.
Answers(c) == {k \in DOMAIN direct[c] : direct[c][k].type # "state"}

\* Every frame of a connection whose pump runs, or will, is in the queue, has
\* changed the room, or is answered exactly once, though nothing in a reply says
\* which frame it is for, two tasks write to the direct channel, and the inbound
\* loop may be over.
EveryCommandAnswered ==
  \A c \in Conn :
    stage[c] \in {"joining", "open", "closing"} =>
      sent[c] = Cardinality(Frames(c)) + Cardinality(Answers(c))
                + answered[c] + applied[c]

\* A join under way is settled, whoever else has stopped reading: "slow
\* subscribers lag, never block".
JoinSettles ==
  \A c \in Conn \ Slow : stage[c] = "subscribed" ~> stage[c] \in {"open", "closed"}

\* A client that reads gets all its answers and catches up with the room, even
\* if every other client has stopped reading.
ReaderServed ==
  \A c \in Conn \ Slow :
    stage[c] = "open" ~>
      \/ Gone(c)
      \/ Drained(c) /\ answered[c] + applied[c] = sent[c]

\* "Dropping direct_tx closes the outbound pump": a handler that awaits its pump
\* does not wait for ever, though commands in the queue hold senders of the
\* channel whose end the pump awaits.
HandlerEnds ==
  \A c \in Conn \ Slow : stage[c] = "closing" ~> stage[c] = "closed"

\* "Send the current slide so the client can render the stage immediately": with
\* nothing left to deliver, the screen shows the room as it is.  The snapshot
\* of a join travels on the direct channel, the changes after it on the
\* broadcast channel, and the pump may deliver the older one last.
CaughtUp == \A c \in Conn : Drained(c) => view[c] = version
=============================================================================
