-------------------------- MODULE Connections_proofs --------------------------
(***************************************************************************)
(* Nobody is left behind: for any number of connections, any queue, any    *)
(* broadcast buffer and any interleaving of handlers and actor, a client   *)
(* to whom everything has been delivered was sent the newest state.        *)
(***************************************************************************)
EXTENDS Connections, FunctionTheorems, FiniteSetTheorems, TLAPS

\* Which of a connection's two tasks run is read off its stage.
USE DEF Pumping, Reading, Gone

-----------------------------------------------------------------------------
(* The inductive invariant *)

Msg == {ack, refusal} \cup [type : {"state"}, version : Nat]

\* The shapes, and no state from the future: not on a cursor, not on its way,
\* not on a screen.
NetShape ==
  /\ version \in Nat
  /\ queue \in Seq(Command)
  /\ stage \in [Conn -> Stage]
  /\ cursor \in [Conn -> Nat] /\ \A c \in Conn : cursor[c] <= version
  /\ seen \in [Conn -> Nat] /\ \A c \in Conn : seen[c] <= version
  /\ direct \in [Conn -> Seq(Msg)]
  /\ \A c \in Conn : \A k \in DOMAIN direct[c] :
       direct[c][k].type = "state" => direct[c][k].version <= version

NoneQueued(c) == \A k \in DOMAIN queue : queue[k].conn # c

OneJoinQueued(c) ==
  /\ \A k \in DOMAIN queue : queue[k].conn = c => queue[k].kind = "join"
  /\ \A k, l \in DOMAIN queue : queue[k].conn = c /\ queue[l].conn = c => k = l

\* Before its join a connection has nothing under way.
BeforeJoin(c) ==
  stage[c] \in {"new", "subscribed"} => NoneQueued(c) /\ direct[c] = <<>>

\* Until the handshake its join is queued or answered, and the answer is no
\* older than the subscription.
JoinUnderWay(c) ==
  stage[c] = "joining" =>
    /\ OneJoinQueued(c)
    /\ direct[c] # <<>> =>
         /\ NoneQueued(c)
         /\ \/ direct[c] = <<refusal>>
            \/ \E v \in cursor[c] .. version : direct[c] = <<ack, snapshot_of(v)>>

\* After it, who has no broadcast to come has the newest state or is about to.
NewestOnItsWay(c) ==
  Pumping(c) /\ cursor[c] = version =>
    \/ seen[c] = version
    \/ \E k \in DOMAIN direct[c] : direct[c][k] = snapshot_of(version)

ConnInv(c) == BeforeJoin(c) /\ JoinUnderWay(c) /\ NewestOnItsWay(c)

NetInv == NetShape /\ \A c \in Conn : ConnInv(c)

-----------------------------------------------------------------------------
(* Lemmas *)

\* The rest of a sequence.
LEMMA TailFacts ==
  ASSUME NEW S, NEW s \in Seq(S), s # <<>>
  PROVE  /\ Tail(s) \in Seq(S) /\ 1 \in DOMAIN s /\ Head(s) = s[1] /\ Head(s) \in S
         /\ \A k \in DOMAIN Tail(s) : k + 1 \in DOMAIN s /\ Tail(s)[k] = s[k + 1]
         /\ \A k \in DOMAIN s : k # 1 => k - 1 \in DOMAIN Tail(s) /\ Tail(s)[k - 1] = s[k]
  OBVIOUS

\* A sequence with one more element.
LEMMA AppendFacts ==
  ASSUME NEW S, NEW s \in Seq(S), NEW e \in S
  PROVE  /\ Append(s, e) \in Seq(S)
         /\ \A k \in DOMAIN Append(s, e) :
              \/ k \in DOMAIN s /\ Append(s, e)[k] = s[k]
              \/ k \notin DOMAIN s /\ k = Len(s) + 1 /\ Append(s, e)[k] = e
         /\ \A k \in DOMAIN s : k \in DOMAIN Append(s, e) /\ Append(s, e)[k] = s[k]
  OBVIOUS

\* Two sequences, one after the other.
LEMMA ConcatFacts ==
  ASSUME NEW S, NEW s \in Seq(S), NEW t \in Seq(S)
  PROVE  /\ s \o t \in Seq(S)
         /\ \A k \in DOMAIN s : k \in DOMAIN (s \o t) /\ (s \o t)[k] = s[k]
         /\ \A k \in DOMAIN (s \o t) :
              \/ k \in DOMAIN s /\ (s \o t)[k] = s[k]
              \/ \E l \in DOMAIN t : (s \o t)[k] = t[l]
         /\ s = <<>> => s \o t = t
  OBVIOUS

\* A step keeps the invariant of a connection it does not touch.
LEMMA Untouched ==
  ASSUME NetInv, NEW d \in Conn, version' = version,
         NoneQueued(d) => NoneQueued(d)', OneJoinQueued(d) => OneJoinQueued(d)',
         stage'[d] = stage[d], cursor'[d] = cursor[d],
         seen'[d] = seen[d], direct'[d] = direct[d]
  PROVE  ConnInv(d)'
  BY DEF NetInv, ConnInv, BeforeJoin, JoinUnderWay, NewestOnItsWay

\* A command of one connection is none of another.
LEMMA DispatchOthers ==
  ASSUME NetShape, NEW c \in Conn, NEW kind \in Kind, dispatch(c, kind),
         NEW d \in Conn, d # c
  PROVE  /\ NoneQueued(d) => NoneQueued(d)'
         /\ OneJoinQueued(d) => OneJoinQueued(d)'
<1> DEFINE cmd == [conn |-> c, kind |-> kind]
<1>1. cmd \in Command /\ cmd.conn # d
  BY DEF Command
<1>2. queue' = Append(queue, cmd) /\ queue \in Seq(Command)
  BY DEF dispatch, NetShape
<1> HIDE DEF cmd
<1>3. \A k \in DOMAIN queue' :
        queue'[k].conn = d => k \in DOMAIN queue /\ queue'[k] = queue[k]
  BY <1>1, <1>2, AppendFacts
<1> QED BY <1>3 DEF NoneQueued, OneJoinQueued

-----------------------------------------------------------------------------
(* Every step keeps it *)

\* At the start nobody has joined.
LEMMA NetInvInit == NetInit => NetInv
  BY DEF NetInit, NetInv, NetShape, ConnInv, BeforeJoin, JoinUnderWay,
         NewestOnItsWay, NoneQueued, Stage

\* A first frame that is no join.
LEMMA FirstFrameBadInv ==
  ASSUME NetInv, NEW c \in Conn, FirstFrameBad(c) PROVE NetInv'
<1>1. NetShape'
  BY DEF FirstFrameBad, NetInv, NetShape, Stage
<1>2. ConnInv(c)'
  BY DEF FirstFrameBad, NetInv, NetShape, ConnInv, BeforeJoin, JoinUnderWay,
         NewestOnItsWay
<1>3. ASSUME NEW d \in Conn, d # c PROVE ConnInv(d)'
  BY <1>3, Untouched DEF FirstFrameBad, NetInv, NetShape, NoneQueued, OneJoinQueued
<1> QED BY <1>1, <1>2, <1>3 DEF NetInv

\* The receiver begins at the present.
LEMMA SubscribeInv ==
  ASSUME NetInv, NEW c \in Conn, Subscribe(c) PROVE NetInv'
<1>1. NetShape'
  BY DEF Subscribe, NetInv, NetShape, Stage
<1>2. ConnInv(c)'
  BY DEF Subscribe, NetInv, NetShape, ConnInv, BeforeJoin, JoinUnderWay,
         NewestOnItsWay, NoneQueued
<1>3. ASSUME NEW d \in Conn, d # c PROVE ConnInv(d)'
  BY <1>3, Untouched DEF Subscribe, NetInv, NetShape, NoneQueued, OneJoinQueued
<1> QED BY <1>1, <1>2, <1>3 DEF NetInv

\* The join is the connection's only command.
LEMMA DispatchJoinInv ==
  ASSUME NetInv, NEW c \in Conn, DispatchJoin(c) PROVE NetInv'
<1> DEFINE cmd == [conn |-> c, kind |-> "join"]
<1>1. cmd \in Command /\ cmd.conn = c /\ cmd.kind = "join"
  BY DEF Command, Kind
<1>2. queue' = Append(queue, cmd) /\ queue \in Seq(Command)
  BY DEF DispatchJoin, dispatch, NetInv, NetShape
<1> HIDE DEF cmd
<1>3. NetShape'
  BY <1>1, <1>2, AppendFacts DEF DispatchJoin, NetInv, NetShape, Stage
<1>4. ConnInv(c)'
  <2>1. stage[c] = "subscribed" /\ stage'[c] = "joining" /\ direct' = direct
    BY DEF DispatchJoin, NetInv, NetShape
  <2>2. NoneQueued(c) /\ direct[c] = <<>>
    BY <2>1 DEF NetInv, ConnInv, BeforeJoin
  <2>3. \A k \in DOMAIN queue' :
          queue'[k].conn = c => k = Len(queue) + 1 /\ queue'[k] = cmd
    BY <1>1, <1>2, <2>2, AppendFacts DEF NoneQueued
  <2>4. OneJoinQueued(c)'
    BY <1>1, <2>3 DEF OneJoinQueued
  <2> QED BY <2>1, <2>2, <2>4 DEF ConnInv, BeforeJoin, JoinUnderWay, NewestOnItsWay
<1>5. ASSUME NEW d \in Conn, d # c PROVE ConnInv(d)'
  <2>1. /\ NoneQueued(d) => NoneQueued(d)'
        /\ OneJoinQueued(d) => OneJoinQueued(d)'
    BY <1>5, DispatchOthers DEF DispatchJoin, NetInv, Kind
  <2> QED BY <1>5, <2>1, Untouched DEF DispatchJoin, NetInv, NetShape
<1> QED BY <1>3, <1>4, <1>5 DEF NetInv

\* The snapshot behind the acknowledgement is as new as the subscription.
LEMMA HandshakeInv ==
  ASSUME NetInv, NEW c \in Conn, Handshake(c) PROVE NetInv'
<1>1. direct[c] \in Seq(Msg) /\ direct[c] # <<>> /\ stage[c] = "joining"
  BY DEF Handshake, NetInv, NetShape
<1>2. /\ UNCHANGED <<version, queue, cursor, seen>>
      /\ \/ /\ Head(direct[c]) = ack
            /\ stage' = [stage EXCEPT ![c] = "open"]
            /\ direct' = [direct EXCEPT ![c] = Tail(direct[c])]
         \/ /\ stage' = [stage EXCEPT ![c] = "closed"]
            /\ direct' = [direct EXCEPT ![c] = <<>>]
  BY DEF Handshake
<1>3. NetShape'
  <2>1. /\ Tail(direct[c]) \in Seq(Msg)
        /\ \A k \in DOMAIN Tail(direct[c]) :
             k + 1 \in DOMAIN direct[c] /\ Tail(direct[c])[k] = direct[c][k + 1]
    BY <1>1, TailFacts
  <2>2. PICK m \in {Tail(direct[c]), <<>>} : direct' = [direct EXCEPT ![c] = m]
    BY <1>2
  <2>3. m \in Seq(Msg)
    <3>1. <<>> \in Seq(Msg)
      OBVIOUS
    <3> QED BY <2>1, <2>2, <3>1
  <2>4. /\ direct' \in [Conn -> Seq(Msg)] /\ direct'[c] = m
        /\ \A d \in Conn : d # c => direct'[d] = direct[d]
    BY <2>2, <2>3 DEF NetInv, NetShape
  <2>5. ASSUME NEW k \in DOMAIN m, m[k].type = "state"
        PROVE  m[k].version <= version
    <3>1. m = Tail(direct[c])
      BY <2>2, <2>5
    <3>2. k + 1 \in DOMAIN direct[c] /\ m[k] = direct[c][k + 1]
      BY <2>1, <2>5, <3>1
    <3> QED BY <2>5, <3>2 DEF NetInv, NetShape
  <2> QED BY <1>2, <2>4, <2>5 DEF NetInv, NetShape, Stage
<1>4. ConnInv(c)'
  <2>1. CASE stage'[c] = "closed"
    BY <2>1 DEF ConnInv, BeforeJoin, JoinUnderWay, NewestOnItsWay
  <2>2. CASE stage'[c] # "closed"
    <3>1. /\ Head(direct[c]) = ack /\ stage'[c] = "open"
          /\ direct'[c] = Tail(direct[c])
      BY <1>2, <2>2 DEF NetInv, NetShape
    <3>2. ack # refusal
      BY DEF ack, refusal
    <3>3. PICK v \in cursor[c] .. version : direct[c] = <<ack, snapshot_of(v)>>
      BY <1>1, <3>1, <3>2 DEF NetInv, ConnInv, JoinUnderWay
    <3>4. direct'[c] = <<snapshot_of(v)>>
      BY <3>1, <3>3
    <3>5. 1 \in DOMAIN direct'[c] /\ direct'[c][1] = snapshot_of(v)
      BY <3>4
    <3>6. cursor[c] = version => v = version
      BY <3>3 DEF NetInv, NetShape
    <3> QED BY <1>2, <3>1, <3>5, <3>6
            DEF ConnInv, BeforeJoin, JoinUnderWay, NewestOnItsWay
  <2> QED BY <2>1, <2>2
<1>5. ASSUME NEW d \in Conn, d # c PROVE ConnInv(d)'
  BY <1>2, <1>5, Untouched DEF NetInv, NetShape, NoneQueued, OneJoinQueued
<1> QED BY <1>3, <1>4, <1>5 DEF NetInv

\* The screen shows the broadcast the cursor is moved to.
LEMMA PumpBroadcastInv ==
  ASSUME NetInv, NEW c \in Conn, PumpBroadcast(c) PROVE NetInv'
<1>1. /\ Pumping(c) /\ cursor[c] < version
      /\ cursor' = [cursor EXCEPT ![c] = cursor[c] + 1]
      /\ seen' = [seen EXCEPT ![c] = IF cursor[c] + 1 > seen[c]
                                     THEN cursor[c] + 1 ELSE seen[c]]
      /\ UNCHANGED <<version, queue, stage, direct>>
  BY DEF PumpBroadcast, Show
<1>2. NetShape'
  BY <1>1 DEF NetInv, NetShape
<1>3. ConnInv(c)'
  <2>1. cursor'[c] = version => seen'[c] = version
    BY <1>1 DEF NetInv, NetShape
  <2> QED BY <1>1, <2>1 DEF ConnInv, BeforeJoin, JoinUnderWay, NewestOnItsWay
<1>4. ASSUME NEW d \in Conn, d # c PROVE ConnInv(d)'
  BY <1>1, <1>4, Untouched DEF NetInv, NetShape, NoneQueued, OneJoinQueued
<1> QED BY <1>2, <1>3, <1>4 DEF NetInv

\* A receiver that lags is moved to a broadcast that has a successor.
LEMMA PumpLagInv ==
  ASSUME NetInv, NEW c \in Conn, PumpLag(c) PROVE NetInv'
<1>1. /\ Pumping(c) /\ cursor[c] < version - BufferCap
      /\ cursor' = [cursor EXCEPT ![c] = version - BufferCap]
      /\ UNCHANGED <<version, queue, stage, direct, seen>>
  BY DEF PumpLag, Lagging
<1>2. BufferCap \in Nat \ {0}
  BY ConnectionsAssumption
<1>3. /\ cursor'[c] = version - BufferCap /\ cursor'[c] \in Nat
      /\ cursor'[c] < version
  BY <1>1, <1>2 DEF NetInv, NetShape
<1>4. NetShape'
  BY <1>1, <1>3 DEF NetInv, NetShape
<1>5. ConnInv(c)'
  BY <1>1, <1>3 DEF NetInv, NetShape, ConnInv, BeforeJoin, JoinUnderWay,
                    NewestOnItsWay
<1>6. ASSUME NEW d \in Conn, d # c PROVE ConnInv(d)'
  BY <1>1, <1>6, Untouched DEF NetInv, NetShape, NoneQueued, OneJoinQueued
<1> QED BY <1>4, <1>5, <1>6 DEF NetInv

\* What is taken from the direct channel is shown, or was no state.
LEMMA PumpDirectInv ==
  ASSUME NetInv, NEW c \in Conn, PumpDirect(c) PROVE NetInv'
<1> DEFINE msg == Head(direct[c])
<1>1. /\ Pumping(c) /\ direct[c] # <<>> /\ direct[c] \in Seq(Msg)
      /\ direct' = [direct EXCEPT ![c] = Tail(direct[c])]
      /\ UNCHANGED <<version, queue, stage, cursor>>
      /\ \/ /\ msg.type = "state"
            /\ seen' = [seen EXCEPT ![c] = IF msg.version > seen[c]
                                           THEN msg.version ELSE seen[c]]
         \/ msg.type # "state" /\ seen' = seen
  BY DEF PumpDirect, Show, NetInv, NetShape
<1>2. /\ msg = direct[c][1] /\ msg \in Msg /\ 1 \in DOMAIN direct[c]
      /\ direct'[c] = Tail(direct[c]) /\ Tail(direct[c]) \in Seq(Msg)
      /\ \A k \in DOMAIN direct'[c] :
           k + 1 \in DOMAIN direct[c] /\ direct'[c][k] = direct[c][k + 1]
      /\ \A k \in DOMAIN direct[c] :
           k # 1 => k - 1 \in DOMAIN direct'[c] /\ direct'[c][k - 1] = direct[c][k]
  BY <1>1, TailFacts DEF NetInv, NetShape
<1>3. msg.type = "state" => msg.version \in Nat /\ msg.version <= version
  <2>1. ack.type # "state" /\ refusal.type # "state"
    BY DEF ack, refusal
  <2>2. msg.type = "state" => msg \in [type : {"state"}, version : Nat]
    BY <1>2, <2>1 DEF Msg
  <2> QED BY <1>2, <2>2 DEF NetInv, NetShape
<1> HIDE DEF msg
<1>4. NetShape'
  <2>1. direct' \in [Conn -> Seq(Msg)]
    BY <1>1, <1>2 DEF NetInv, NetShape
  <2>2. seen' \in [Conn -> Nat] /\ \A d \in Conn : seen'[d] <= version
    BY <1>1, <1>3 DEF NetInv, NetShape
  <2>3. ASSUME NEW d \in Conn, NEW k \in DOMAIN direct'[d],
               direct'[d][k].type = "state"
        PROVE  direct'[d][k].version <= version
    <3>1. CASE d = c
      <4>1. k + 1 \in DOMAIN direct[c] /\ direct'[d][k] = direct[c][k + 1]
        BY <1>2, <2>3, <3>1
      <4> QED BY <2>3, <4>1 DEF NetInv, NetShape
    <3>2. CASE d # c
      BY <1>1, <2>3, <3>2 DEF NetInv, NetShape
    <3> QED BY <3>1, <3>2
  <2> QED BY <1>1, <2>1, <2>2, <2>3 DEF NetInv, NetShape
<1>5. ConnInv(c)'
  <2> SUFFICES ASSUME cursor[c] = version
               PROVE  \/ seen'[c] = version
                      \/ \E k \in DOMAIN direct'[c] : direct'[c][k] = snapshot_of(version)
    BY <1>1 DEF ConnInv, BeforeJoin, JoinUnderWay, NewestOnItsWay
  <2>1. seen[c] \in Nat /\ seen[c] <= version /\ version \in Nat
    BY DEF NetInv, NetShape
  <2>2. CASE seen[c] = version
    BY <1>1, <1>3, <2>1, <2>2 DEF NetInv, NetShape
  <2>3. CASE seen[c] # version
    <3>1. PICK k \in DOMAIN direct[c] : direct[c][k] = snapshot_of(version)
      BY <1>1, <2>3 DEF NetInv, ConnInv, NewestOnItsWay
    <3>2. CASE k = 1
      <4>1. msg.type = "state" /\ msg.version = version
        BY <1>2, <3>1, <3>2 DEF snapshot_of
      <4> QED BY <1>1, <2>1, <2>3, <4>1 DEF NetInv, NetShape
    <3>3. CASE k # 1
      BY <1>2, <3>1, <3>3
    <3> QED BY <3>2, <3>3
  <2> QED BY <2>2, <2>3
<1>6. ASSUME NEW d \in Conn, d # c PROVE ConnInv(d)'
  BY <1>1, <1>6, Untouched DEF NetInv, NetShape, NoneQueued, OneJoinQueued
<1> QED BY <1>4, <1>5, <1>6 DEF NetInv

\* A frame that is read is queued.
LEMMA SendInv ==
  ASSUME NetInv, NEW c \in Conn, NEW kind \in Kind, Send(c, kind) PROVE NetInv'
<1> DEFINE cmd == [conn |-> c, kind |-> kind]
<1>1. cmd \in Command
  BY DEF Command
<1>2. /\ queue' = Append(queue, cmd) /\ queue \in Seq(Command)
      /\ Reading(c)
      /\ UNCHANGED <<version, stage, cursor, direct, seen>>
  BY DEF Send, dispatch, NetInv, NetShape
<1> HIDE DEF cmd
<1>3. NetShape'
  BY <1>1, <1>2, AppendFacts DEF NetInv, NetShape
<1>4. ConnInv(c)'
  BY <1>2 DEF NetInv, ConnInv, BeforeJoin, JoinUnderWay, NewestOnItsWay
<1>5. ASSUME NEW d \in Conn, d # c PROVE ConnInv(d)'
  <2>1. /\ NoneQueued(d) => NoneQueued(d)'
        /\ OneJoinQueued(d) => OneJoinQueued(d)'
    BY <1>5, DispatchOthers DEF Send, NetInv
  <2> QED BY <1>2, <2>1, Untouched
<1> QED BY <1>3, <1>4, <1>5 DEF NetInv

\* A frame that does not parse is answered behind what is on its way, or not at
\* all if nothing is pumped any more.
LEMMA BadFrameInv ==
  ASSUME NetInv, NEW c \in Conn, BadFrame(c) PROVE NetInv'
<1>1. /\ Reading(c) /\ direct[c] \in Seq(Msg) /\ refusal \in Msg
      /\ \/ Gone(c) /\ direct' = direct
         \/ direct' = [direct EXCEPT ![c] = direct[c] \o <<refusal>>]
      /\ UNCHANGED <<version, queue, stage, cursor, seen>>
  BY DEF BadFrame, Direct, NetInv, NetShape, Msg
<1>2. CASE Gone(c) /\ direct' = direct
  <2>1. NetShape'
    BY <1>1, <1>2 DEF NetInv, NetShape
  <2>2. ASSUME NEW d \in Conn PROVE ConnInv(d)'
    BY <1>1, <1>2, Untouched DEF NoneQueued, OneJoinQueued
  <2> QED BY <2>1, <2>2 DEF NetInv
<1>3. CASE direct' = [direct EXCEPT ![c] = direct[c] \o <<refusal>>]
  <2>1. direct[c] \o <<refusal>> = Append(direct[c], refusal)
    BY <1>1
  <2>2. /\ direct'[c] = Append(direct[c], refusal) /\ direct' \in [Conn -> Seq(Msg)]
        /\ \A d \in Conn : d # c => direct'[d] = direct[d]
    BY <1>1, <1>3, <2>1, AppendFacts DEF NetInv, NetShape
  <2>3. /\ \A k \in DOMAIN direct'[c] :
             \/ k \in DOMAIN direct[c] /\ direct'[c][k] = direct[c][k]
             \/ direct'[c][k] = refusal
        /\ \A k \in DOMAIN direct[c] :
             k \in DOMAIN direct'[c] /\ direct'[c][k] = direct[c][k]
    BY <1>1, <2>2, AppendFacts
  <2>4. NetShape'
    <3>1. refusal.type # "state"
      BY DEF refusal
    <3>2. \A k \in DOMAIN direct'[c] :
            direct'[c][k].type = "state" => direct'[c][k].version <= version
      BY <2>3, <3>1 DEF NetInv, NetShape
    <3> QED BY <1>1, <2>2, <3>2 DEF NetInv, NetShape
  <2>5. ConnInv(c)'
    BY <1>1, <2>3 DEF NetInv, ConnInv, BeforeJoin, JoinUnderWay, NewestOnItsWay
  <2>6. ASSUME NEW d \in Conn, d # c PROVE ConnInv(d)'
    BY <1>1, <2>2, <2>6, Untouched DEF NetInv, NoneQueued, OneJoinQueued
  <2> QED BY <2>4, <2>5, <2>6 DEF NetInv
<1> QED BY <1>1, <1>2, <1>3

\* When the inbound loop ends the pump still owes what it owed; a connection
\* without a pump is owed nothing.
LEMMA EndInv ==
  ASSUME NetInv, NEW c \in Conn, InboundEnds(c) \/ PumpFails(c) \/ PumpEnds(c)
  PROVE  NetInv'
<1>1. PICK s \in {"closing", "deaf", "closed"} :
        /\ stage' = [stage EXCEPT ![c] = s]
        /\ s = "closing" => stage[c] = "open" /\ direct' = direct
  BY DEF InboundEnds, PumpFails, PumpEnds
<1>2. PICK m \in {direct[c], <<>>} : direct' = [direct EXCEPT ![c] = m]
  <2>1. direct' = direct \/ direct' = [direct EXCEPT ![c] = <<>>]
    BY DEF InboundEnds, PumpFails, PumpEnds
  <2> QED BY <2>1 DEF NetInv, NetShape
<1>3. UNCHANGED <<version, queue, cursor, seen>>
  BY DEF InboundEnds, PumpFails, PumpEnds
<1>4. NetShape'
  <2>1. /\ stage' \in [Conn -> Stage] /\ direct' \in [Conn -> Seq(Msg)]
        /\ direct'[c] = m /\ \A d \in Conn : d # c => direct'[d] = direct[d]
    <3>1. m \in Seq(Msg) /\ direct \in [Conn -> Seq(Msg)] /\ stage \in [Conn -> Stage]
      <4>1. <<>> \in Seq(Msg)
        OBVIOUS
      <4> QED BY <4>1 DEF NetInv, NetShape
    <3>2. s \in Stage
      BY DEF Stage
    <3> QED BY <1>1, <1>2, <3>1, <3>2
  <2>2. ASSUME NEW d \in Conn, NEW k \in DOMAIN direct'[d],
               direct'[d][k].type = "state"
        PROVE  direct'[d][k].version <= version
    <3>1. direct'[d] # <<>>
      BY <2>2
    <3>2. direct'[d] = direct[d]
      BY <2>1, <3>1
    <3> QED BY <2>2, <3>2 DEF NetInv, NetShape
  <2> QED BY <1>3, <2>1, <2>2 DEF NetInv, NetShape
<1>5. ConnInv(c)'
  BY <1>1, <1>3 DEF NetInv, NetShape, ConnInv, BeforeJoin, JoinUnderWay, NewestOnItsWay
<1>6. ASSUME NEW d \in Conn, d # c PROVE ConnInv(d)'
  BY <1>1, <1>2, <1>3, <1>6, Untouched DEF NetInv, NetShape, NoneQueued, OneJoinQueued
<1> QED BY <1>4, <1>5, <1>6 DEF NetInv

\* What the actor does with a command: it answers the sender, changes the room,
\* or both, and only an answered join comes with a state, that of this moment.
LEMMA ActorEffect ==
  ASSUME NetInv, ActorStep
  PROVE  /\ queue # <<>> /\ queue' = Tail(queue)
         /\ UNCHANGED <<stage, cursor, seen>>
         /\ version' \in {version, version + 1}
         /\ LET c == Head(queue).conn
            IN  \/ direct' = direct /\ Head(queue).kind # "join"
                \/ Gone(c) /\ direct' = direct
                \/ \E msgs \in {<<refusal>>, <<ack>>, <<ack, snapshot_of(version')>>} :
                     /\ direct' = [direct EXCEPT ![c] = direct[c] \o msgs]
                     /\ Head(queue).kind = "join" => msgs # <<ack>>
<1>1. /\ queue # <<>> /\ queue' = Tail(queue) /\ UNCHANGED <<stage, cursor, seen>>
  BY DEF ActorStep
<1>2. CASE Head(queue).kind = "join" /\ ActOnJoin(Head(queue).conn)
  <2>1. <<refusal>> # <<ack>> /\ <<ack, snapshot_of(version')>> # <<ack>>
    BY DEF ack, refusal
  <2> QED BY <1>1, <1>2, <2>1 DEF ActOnJoin, Direct, Change
<1>3. CASE Head(queue).kind = "edit" /\ ActOnEdit(Head(queue).conn)
  BY <1>1, <1>3 DEF ActOnEdit, Direct, Change
<1>4. CASE /\ Head(queue).kind = "ping" /\ Direct(Head(queue).conn, <<ack>>)
           /\ version' = version
  BY <1>1, <1>4 DEF Direct
<1> QED BY <1>2, <1>3, <1>4 DEF ActorStep

\* A command, acted on.
LEMMA ActorInv == ASSUME NetInv, ActorStep PROVE NetInv'
<1> DEFINE c == Head(queue).conn
<1>1. /\ queue # <<>> /\ queue' = Tail(queue) /\ queue \in Seq(Command)
      /\ UNCHANGED <<stage, cursor, seen>>
      /\ version' \in {version, version + 1}
      /\ version \in Nat /\ version' \in Nat /\ version <= version'
  BY ActorEffect DEF NetInv, NetShape
<1>2. /\ queue' \in Seq(Command) /\ 1 \in DOMAIN queue /\ Head(queue) = queue[1]
      /\ c \in Conn
      /\ \A k \in DOMAIN queue' : k + 1 \in DOMAIN queue /\ queue'[k] = queue[k + 1]
  <2>1. Head(queue) \in Command
    BY <1>1, TailFacts
  <2> QED BY <1>1, <2>1, TailFacts DEF Command
<1>3. PICK msgs : /\ direct' = [direct EXCEPT ![c] = direct[c] \o msgs]
                  /\ msgs \in {<<>>, <<refusal>>, <<ack>>, <<ack, snapshot_of(version')>>}
                  /\ Head(queue).kind = "join" /\ ~Gone(c) =>
                       msgs \in {<<refusal>>, <<ack, snapshot_of(version')>>}
  <2>1. CASE direct' = direct /\ (Head(queue).kind # "join" \/ Gone(c))
    <3>1. direct[c] \o <<>> = direct[c] /\ direct' = [direct EXCEPT ![c] = direct[c]]
      BY <1>2, <2>1 DEF NetInv, NetShape
    <3> QED BY <2>1, <3>1
  <2>2. CASE \E msgs \in {<<refusal>>, <<ack>>, <<ack, snapshot_of(version')>>} :
               /\ direct' = [direct EXCEPT ![c] = direct[c] \o msgs]
               /\ Head(queue).kind = "join" => msgs # <<ack>>
    BY <2>2
  <2> QED BY <2>1, <2>2, ActorEffect
<1> HIDE DEF c
<1>4. /\ msgs \in Seq(Msg)
      /\ \A l \in DOMAIN msgs :
           msgs[l].type = "state" => msgs[l].version <= version'
  <2>1. /\ ack \in Msg /\ refusal \in Msg /\ snapshot_of(version') \in Msg
        /\ ack.type # "state" /\ refusal.type # "state"
        /\ snapshot_of(version').version = version'
    BY <1>1 DEF Msg, ack, refusal, snapshot_of
  <2>2. CASE msgs = <<>>
    BY <2>2
  <2>3. CASE msgs = <<refusal>>
    BY <2>1, <2>3
  <2>4. CASE msgs = <<ack>>
    BY <2>1, <2>4
  <2>5. CASE msgs = <<ack, snapshot_of(version')>>
    <3>1. /\ msgs \in Seq(Msg) /\ DOMAIN msgs = {1, 2}
          /\ msgs[1] = ack /\ msgs[2] = snapshot_of(version')
      BY <2>1, <2>5
    <3> QED BY <1>1, <2>1, <3>1
  <2> QED BY <1>3, <2>2, <2>3, <2>4, <2>5
<1>5. /\ direct'[c] = direct[c] \o msgs /\ direct[c] \in Seq(Msg)
      /\ direct' \in [Conn -> Seq(Msg)]
      /\ \A d \in Conn : d # c => direct'[d] = direct[d]
      /\ \A k \in DOMAIN direct[c] :
           k \in DOMAIN direct'[c] /\ direct'[c][k] = direct[c][k]
      /\ \A k \in DOMAIN direct'[c] :
           \/ k \in DOMAIN direct[c] /\ direct'[c][k] = direct[c][k]
           \/ \E l \in DOMAIN msgs : direct'[c][k] = msgs[l]
      /\ direct[c] = <<>> => direct'[c] = msgs
  <2>1. direct[c] \in Seq(Msg) /\ direct \in [Conn -> Seq(Msg)]
    BY <1>2 DEF NetInv, NetShape
  <2>2. direct[c] \o msgs \in Seq(Msg)
    BY <1>4, <2>1, ConcatFacts
  <2>3. /\ direct'[c] = direct[c] \o msgs /\ direct' \in [Conn -> Seq(Msg)]
        /\ \A d \in Conn : d # c => direct'[d] = direct[d]
    BY <1>2, <1>3, <2>1, <2>2
  <2>4. /\ \A k \in DOMAIN direct[c] :
             /\ k \in DOMAIN (direct[c] \o msgs)
             /\ (direct[c] \o msgs)[k] = direct[c][k]
        /\ \A k \in DOMAIN (direct[c] \o msgs) :
             \/ k \in DOMAIN direct[c] /\ (direct[c] \o msgs)[k] = direct[c][k]
             \/ \E l \in DOMAIN msgs : (direct[c] \o msgs)[k] = msgs[l]
        /\ direct[c] = <<>> => direct[c] \o msgs = msgs
    <3> DEFINE s == direct[c]
    <3>1. s \in Seq(Msg) /\ msgs \in Seq(Msg)
      BY <1>4, <2>1
    <3> HIDE DEF s
    <3>2. /\ \A k \in DOMAIN s : k \in DOMAIN (s \o msgs) /\ (s \o msgs)[k] = s[k]
          /\ \A k \in DOMAIN (s \o msgs) :
               \/ k \in DOMAIN s /\ (s \o msgs)[k] = s[k]
               \/ \E l \in DOMAIN msgs : (s \o msgs)[k] = msgs[l]
          /\ s = <<>> => s \o msgs = msgs
      BY ONLY <3>1, ConcatFacts
    <3> QED BY <3>2 DEF s
  <2> QED BY <2>1, <2>3, <2>4
<1>6. NetShape'
  <2>1. ASSUME NEW d \in Conn, NEW k \in DOMAIN direct'[d],
               direct'[d][k].type = "state"
        PROVE  direct'[d][k].version <= version'
    <3>1. ASSUME NEW l \in DOMAIN direct[d], direct'[d][k] = direct[d][l]
          PROVE  direct'[d][k].version <= version'
      <4>1. direct[d][l] \in Msg /\ direct[d][l].type = "state"
        BY <2>1, <3>1 DEF NetInv, NetShape
      <4>2. direct[d][l] \in [type : {"state"}, version : Nat]
        BY <4>1 DEF Msg, ack, refusal
      <4>3. direct[d][l].version \in Nat /\ direct[d][l].version <= version
        BY <4>1, <4>2 DEF NetInv, NetShape
      <4> QED BY <1>1, <3>1, <4>3
    <3>2. CASE d # c
      BY <1>5, <3>1, <3>2
    <3>3. CASE d = c
      BY <1>4, <1>5, <2>1, <3>1, <3>3
    <3> QED BY <3>2, <3>3
  <2>2. \A d \in Conn : cursor[d] \in Nat /\ cursor[d] <= version'
    BY <1>1 DEF NetInv, NetShape
  <2>3. \A d \in Conn : seen[d] \in Nat /\ seen[d] <= version'
    BY <1>1 DEF NetInv, NetShape
  <2> QED BY <1>1, <1>2, <1>5, <2>1, <2>2, <2>3 DEF NetInv, NetShape
<1>7. ASSUME NEW d \in Conn
      PROVE  /\ NoneQueued(d) => NoneQueued(d)'
             /\ OneJoinQueued(d) => OneJoinQueued(d)'
             /\ OneJoinQueued(d) /\ d = c => NoneQueued(d)' /\ queue[1].kind = "join"
  <2>1. DOMAIN queue' \subseteq Nat /\ 0 \notin DOMAIN queue' /\ queue[1].conn = c
    BY <1>2 DEF c
  <2>2. NoneQueued(d) => NoneQueued(d)'
    BY <1>2 DEF NoneQueued
  <2>3. OneJoinQueued(d) => OneJoinQueued(d)'
    <3> SUFFICES ASSUME OneJoinQueued(d) PROVE OneJoinQueued(d)'
      OBVIOUS
    <3>1. \A k \in DOMAIN queue' : queue'[k].conn = d => queue'[k].kind = "join"
      BY <1>2 DEF OneJoinQueued
    <3>2. ASSUME NEW k \in DOMAIN queue', NEW l \in DOMAIN queue',
                 queue'[k].conn = d, queue'[l].conn = d
          PROVE  k = l
      <4>1. k + 1 = l + 1
        BY <1>2, <3>2 DEF OneJoinQueued
      <4> QED BY <2>1, <4>1
    <3> QED BY <3>1, <3>2 DEF OneJoinQueued
  <2>4. OneJoinQueued(d) /\ d = c => NoneQueued(d)' /\ queue[1].kind = "join"
    <3> SUFFICES ASSUME OneJoinQueued(d), d = c
                 PROVE  NoneQueued(d)' /\ queue[1].kind = "join"
      OBVIOUS
    <3>1. ASSUME NEW k \in DOMAIN queue', queue'[k].conn = d PROVE FALSE
      <4>1. k + 1 = 1
        BY <1>2, <2>1, <3>1 DEF OneJoinQueued
      <4> QED BY <2>1, <4>1
    <3>2. queue[1].kind = "join"
      BY <1>2, <2>1 DEF OneJoinQueued
    <3> QED BY <3>1, <3>2 DEF NoneQueued
  <2> QED BY <2>2, <2>3, <2>4
<1>8. ASSUME NEW d \in Conn PROVE ConnInv(d)'
  <2>1. BeforeJoin(d)'
    <3> SUFFICES ASSUME stage[d] \in {"new", "subscribed"}
                 PROVE  NoneQueued(d)' /\ direct'[d] = <<>>
      BY <1>1 DEF BeforeJoin
    <3>1. NoneQueued(d) /\ direct[d] = <<>>
      BY DEF NetInv, ConnInv, BeforeJoin
    <3>2. d # c
      BY <1>2, <3>1 DEF NoneQueued, c
    <3> QED BY <1>5, <1>7, <3>1, <3>2
  <2>2. JoinUnderWay(d)'
    <3> SUFFICES ASSUME stage[d] = "joining"
                 PROVE  /\ OneJoinQueued(d)'
                        /\ direct'[d] # <<>> =>
                             /\ NoneQueued(d)'
                             /\ \/ direct'[d] = <<refusal>>
                                \/ \E v \in cursor[d] .. version' :
                                     direct'[d] = <<ack, snapshot_of(v)>>
      BY <1>1 DEF JoinUnderWay
    <3>1. /\ OneJoinQueued(d)
          /\ direct[d] # <<>> =>
               /\ NoneQueued(d)
               /\ \/ direct[d] = <<refusal>>
                  \/ \E v \in cursor[d] .. version : direct[d] = <<ack, snapshot_of(v)>>
      BY DEF NetInv, ConnInv, JoinUnderWay
    <3>2. cursor[d] \in Nat /\ cursor[d] <= version
      BY DEF NetInv, NetShape
    <3>3. CASE d # c
      <4>1. direct'[d] = direct[d] /\ cursor[d] .. version \subseteq cursor[d] .. version'
        BY <1>1, <1>5, <3>2, <3>3
      <4> QED BY <1>7, <3>1, <4>1
    <3>4. CASE d = c
      <4>1. direct[d] = <<>>
        BY <1>2, <3>1, <3>4 DEF NoneQueued, c
      <4>2. direct'[d] \in {<<refusal>>, <<ack, snapshot_of(version')>>}
        BY <1>2, <1>3, <1>5, <1>7, <3>1, <3>4, <4>1
      <4>3. version' \in cursor[d] .. version'
        BY <1>1, <3>2
      <4> QED BY <1>7, <3>1, <3>4, <4>2, <4>3
    <3> QED BY <3>3, <3>4
  <2>3. NewestOnItsWay(d)'
    <3> SUFFICES ASSUME Pumping(d), cursor[d] = version'
                 PROVE  \/ seen[d] = version'
                        \/ \E k \in DOMAIN direct'[d] : direct'[d][k] = snapshot_of(version')
      BY <1>1 DEF NewestOnItsWay
    <3>1. version' = version
      BY <1>1 DEF NetInv, NetShape
    <3>2. \/ seen[d] = version
          \/ \E k \in DOMAIN direct[d] : direct[d][k] = snapshot_of(version)
      BY <3>1 DEF NetInv, ConnInv, NewestOnItsWay
    <3> QED BY <1>5, <3>1, <3>2
  <2> QED BY <2>1, <2>2, <2>3 DEF ConnInv
<1> QED BY <1>6, <1>8 DEF NetInv

\* Every step of every handler, the pump and the actor keeps the invariant.
THEOREM NetStep == NetInv /\ [NetNext]_netVars => NetInv'
<1> SUFFICES ASSUME NetInv, [NetNext]_netVars PROVE NetInv'
  OBVIOUS
<1>1. CASE ActorStep
  BY <1>1, ActorInv
<1>2. ASSUME NEW c \in Conn,
             \/ FirstFrameBad(c) \/ Subscribe(c) \/ DispatchJoin(c) \/ Handshake(c)
             \/ PumpBroadcast(c) \/ PumpLag(c) \/ PumpDirect(c)
             \/ \E kind \in Kind : Send(c, kind)
             \/ BadFrame(c) \/ InboundEnds(c) \/ PumpFails(c) \/ PumpEnds(c)
      PROVE  NetInv'
  BY <1>2, FirstFrameBadInv, SubscribeInv, DispatchJoinInv, HandshakeInv,
     PumpBroadcastInv, PumpLagInv, PumpDirectInv, SendInv, BadFrameInv,
     EndInv
<1>3. CASE UNCHANGED netVars
  BY <1>3 DEF netVars, NetInv, NetShape, ConnInv, BeforeJoin, JoinUnderWay,
              NewestOnItsWay, NoneQueued, OneJoinQueued
<1> QED BY <1>1, <1>2, <1>3 DEF NetNext

\* The inductive invariant holds in every reachable state.
THEOREM NetInvariant == NetSpec => []NetInv
  BY NetInvInit, NetStep, PTL DEF NetSpec

\* "Subscribe before joining so no broadcast between join and loop is missed":
\* with everything delivered, a connection whose pump runs has been sent the
\* newest state.
THEOREM AlwaysSeenLatest == NetSpec => []SeenLatest
<1>1. NetInv => SeenLatest
  BY DEF NetInv, ConnInv, NewestOnItsWay, SeenLatest, Drained
<1> QED BY <1>1, NetInvariant, PTL

-----------------------------------------------------------------------------
(* Counting in sequences *)

Where(s, T)   == {k \in DOMAIN s : s[k] \in T}
HowMany(s, T) == Cardinality(Where(s, T))

\* There are finitely many places, and none in the empty sequence.
LEMMA CountType ==
  ASSUME NEW S, NEW s \in Seq(S), NEW T
  PROVE  IsFiniteSet(Where(s, T)) /\ HowMany(s, T) \in Nat
<1>1. IsFiniteSet(1 .. Len(s))
  <2>1. Len(s) \in Nat
    OBVIOUS
  <2> QED BY <2>1, FS_Interval
<1>2. Where(s, T) \in SUBSET (1 .. Len(s))
  BY DEF Where
<1>3. IsFiniteSet(Where(s, T))
  BY <1>1, <1>2, FS_Subset
<1> QED BY <1>3, FS_CardinalityType DEF HowMany

\* In an empty queue there is nothing to count.
LEMMA CountNothing == \A T : HowMany(<<>>, T) = 0
<1>1. \A T : Where(<<>>, T) = {}
  BY DEF Where
<1> QED BY <1>1, FS_EmptySet DEF HowMany

\* One more element at the end.
LEMMA CountAppend ==
  ASSUME NEW S, NEW s \in Seq(S), NEW e, NEW T
  PROVE  HowMany(Append(s, e), T) = HowMany(s, T) + (IF e \in T THEN 1 ELSE 0)
<1> DEFINE n == Len(s) + 1
<1>1. n \notin Where(s, T) /\ IsFiniteSet(Where(s, T)) /\ HowMany(s, T) \in Nat
  BY CountType DEF Where
<1>2. Where(Append(s, e), T) = IF e \in T THEN Where(s, T) \cup {n} ELSE Where(s, T)
  BY DEF Where
<1> HIDE DEF n
<1>3. CASE e \in T
  <2>1. Cardinality(Where(s, T) \cup {n}) = Cardinality(Where(s, T)) + 1
    BY <1>1, FS_AddElement
  <2> QED BY <1>2, <1>3, <2>1 DEF HowMany
<1>4. CASE e \notin T
  BY <1>1, <1>2, <1>4 DEF HowMany
<1> QED BY <1>3, <1>4

\* One element less at the front.
LEMMA CountTail ==
  ASSUME NEW S, NEW s \in Seq(S), s # <<>>, NEW T
  PROVE  HowMany(s, T) = HowMany(Tail(s), T) + (IF Head(s) \in T THEN 1 ELSE 0)
<1> DEFINE A == Where(s, T) \ {1}
           B == Where(Tail(s), T)
           f == [k \in A |-> k - 1]
<1>1. /\ Tail(s) \in Seq(S) /\ 1 \in DOMAIN s /\ Head(s) = s[1] /\ DOMAIN s \subseteq Nat
      /\ DOMAIN Tail(s) \subseteq Nat /\ 0 \notin DOMAIN Tail(s)
      /\ \A k \in DOMAIN Tail(s) : k + 1 \in DOMAIN s /\ Tail(s)[k] = s[k + 1]
      /\ \A k \in DOMAIN s : k # 1 => k - 1 \in DOMAIN Tail(s) /\ Tail(s)[k - 1] = s[k]
  OBVIOUS
<1>2. IsFiniteSet(Where(s, T)) /\ IsFiniteSet(A) /\ IsFiniteSet(B)
      /\ HowMany(s, T) \in Nat /\ HowMany(Tail(s), T) \in Nat
  <2>1. IsFiniteSet(Where(s, T)) /\ IsFiniteSet(B)
        /\ HowMany(s, T) \in Nat /\ HowMany(Tail(s), T) \in Nat
    BY <1>1, CountType
  <2> QED BY <2>1, FS_RemoveElement
<1>3. /\ \A k \in A : k \in Nat /\ k - 1 \in B
      /\ \A l \in B : l \in Nat /\ l + 1 \in A
  BY <1>1 DEF Where
<1>4. f \in [A -> B] /\ \A k, l \in A : f[k] = f[l] => k = l
  <2> HIDE DEF A, B
  <2>1. f \in [A -> B]
    BY <1>3
  <2>2. ASSUME NEW k \in A, NEW l \in A, f[k] = f[l] PROVE k = l
    <3>1. k \in Nat /\ l \in Nat /\ k - 1 = l - 1
      BY <1>3, <2>2
    <3> QED BY <3>1
  <2> QED BY <2>1, <2>2
<1>5. \A l \in B : \E k \in A : f[k] = l
  <2> HIDE DEF A, B
  <2> SUFFICES ASSUME NEW l \in B PROVE \E k \in A : f[k] = l
    OBVIOUS
  <2>1. l + 1 \in A /\ l \in Nat
    BY <1>3
  <2>2. f[l + 1] = (l + 1) - 1
    BY <2>1
  <2> QED BY <2>1, <2>2
<1>6. Cardinality(A) = Cardinality(B)
  <2> HIDE DEF A, B, f
  <2>1. f \in Injection(A, B)
    BY <1>4, Fun_IsInj
  <2>2. f \in Surjection(A, B)
    BY <1>4, <1>5 DEF Surjection
  <2> QED BY <1>2, <2>1, <2>2, FS_Injection
<1>7. Cardinality(A) = IF 1 \in Where(s, T) THEN HowMany(s, T) - 1 ELSE HowMany(s, T)
  BY <1>2, FS_RemoveElement DEF HowMany
<1>8. 1 \in Where(s, T) <=> Head(s) \in T
  BY <1>1 DEF Where
<1> HIDE DEF A, B
<1> QED BY <1>2, <1>6, <1>7, <1>8 DEF HowMany, B

-----------------------------------------------------------------------------
(* Every frame is accounted for *)

Of(c)       == {cmd \in Command : cmd.conn = c}
Replies     == {m \in Msg : m.type # "state"}
InQueue(c)  == HowMany(queue, Of(c))
InDirect(c) == HowMany(direct[c], Replies)

\* What is queued, under way, answered and applied never exceeds what was sent,
\* and is all of it as long as there is, or will be, a pump.
Accounted(c) ==
  /\ InQueue(c) + InDirect(c) + answered[c] + applied[c] <= sent[c]
  /\ stage[c] \in {"joining", "open", "closing"} =>
       sent[c] = InQueue(c) + InDirect(c) + answered[c] + applied[c]
  /\ stage[c] \in {"new", "subscribed"} => sent[c] = 0
  /\ sent[c] <= MaxSent

Ledgers ==
  /\ sent \in [Conn -> Nat]
  /\ answered \in [Conn -> Nat]
  /\ applied \in [Conn -> Nat]

AccountInv == Ledgers /\ \A c \in Conn : Accounted(c)

CountsTyped == \A c \in Conn : InQueue(c) \in Nat /\ InDirect(c) \in Nat

\* The counts of a connection are numbers.
LEMMA CountsAreTyped == NetShape => CountsTyped
  BY CountType DEF NetShape, CountsTyped, InQueue, InDirect

\* A step that does not touch a connection leaves its account alone.
LEMMA SameAccount ==
  ASSUME NEW d \in Conn, Accounted(d), InQueue(d)' = InQueue(d),
         direct'[d] = direct[d], stage'[d] = stage[d], sent'[d] = sent[d],
         answered'[d] = answered[d], applied'[d] = applied[d]
  PROVE  Accounted(d)'
  BY DEF Accounted, InDirect

\* A frame taken is a frame queued.
LEMMA DispatchCounts ==
  ASSUME NetShape, NEW c \in Conn, NEW kind \in Kind, dispatch(c, kind)
  PROVE  \A d \in Conn : InQueue(d)' = InQueue(d) + (IF d = c THEN 1 ELSE 0)
<1> DEFINE cmd == [conn |-> c, kind |-> kind]
<1>1. queue' = Append(queue, cmd) /\ queue \in Seq(Command)
  BY DEF dispatch, NetShape
<1>2. \A d \in Conn : cmd \in Of(d) <=> d = c
  BY DEF Of, Command
<1> HIDE DEF cmd
<1>3. \A d \in Conn : HowMany(Append(queue, cmd), Of(d))
                       = HowMany(queue, Of(d)) + (IF cmd \in Of(d) THEN 1 ELSE 0)
  BY <1>1, CountAppend
<1> QED BY <1>1, <1>2, <1>3 DEF InQueue

\* Whoever sends has the frame queued, and nothing else of theirs is touched.
LEMMA DispatchAccount ==
  ASSUME NetInv, AccountInv, NEW c \in Conn, NEW kind \in Kind, dispatch(c, kind),
         sent[c] < MaxSent, stage'[c] \in {"joining", "open", "deaf"},
         \A d \in Conn : d # c => stage'[d] = stage[d],
         stage'[c] # "deaf" =>
           sent[c] = InQueue(c) + InDirect(c) + answered[c] + applied[c],
         UNCHANGED <<direct, answered, applied>>
  PROVE  AccountInv'
<1>1. CountsTyped
  BY CountsAreTyped DEF NetInv
<1>2. /\ sent' \in [Conn -> Nat] /\ sent'[c] = sent[c] + 1
      /\ \A d \in Conn : d # c => sent'[d] = sent[d]
      /\ sent[c] \in Nat /\ answered[c] \in Nat /\ applied[c] \in Nat /\ MaxSent \in Nat
  BY ConnectionsAssumption DEF AccountInv, Ledgers, dispatch
<1>3. \A d \in Conn : InQueue(d)' = InQueue(d) + (IF d = c THEN 1 ELSE 0)
  BY DispatchCounts DEF NetInv
<1>4. Accounted(c)'
  <2>1. InQueue(c) \in Nat /\ InDirect(c) \in Nat
    BY <1>1 DEF CountsTyped
  <2>2. InQueue(c)' = InQueue(c) + 1 /\ InDirect(c)' = InDirect(c)
    BY <1>3 DEF InDirect
  <2>3. InQueue(c) + InDirect(c) + answered[c] + applied[c] <= sent[c]
    BY DEF AccountInv, Accounted
  <2> QED BY <1>2, <2>1, <2>2, <2>3 DEF Accounted
<1>5. ASSUME NEW d \in Conn, d # c PROVE Accounted(d)'
  <2>1. InQueue(d)' = InQueue(d)
    <3>1. InQueue(d) \in Nat
      BY <1>1 DEF CountsTyped
    <3> QED BY <1>3, <1>5, <3>1
  <2> QED BY <1>2, <1>5, <2>1, SameAccount DEF AccountInv
<1> QED BY <1>2, <1>4, <1>5 DEF AccountInv, Ledgers

\* The handshake and the pump take one message, an answer or a state.
LEMMA TakenAccount ==
  ASSUME NetInv, AccountInv, NEW c \in Conn, direct[c] # <<>>,
         direct' = [direct EXCEPT ![c] = Tail(direct[c])],
         \/ /\ Head(direct[c]) \in Replies
            /\ answered' = [answered EXCEPT ![c] = @ + 1]
         \/ Head(direct[c]) \notin Replies /\ answered' = answered,
         stage[c] \in {"joining", "open", "closing"},
         stage'[c] \in {"joining", "open", "closing"},
         \A d \in Conn : d # c => stage'[d] = stage[d],
         UNCHANGED <<queue, sent, applied>>
  PROVE  AccountInv'
<1>1. CountsTyped
  BY CountsAreTyped DEF NetInv
<1>2. /\ direct[c] \in Seq(Msg) /\ direct'[c] = Tail(direct[c]) /\ Tail(direct[c]) \in Seq(Msg)
      /\ \A d \in Conn : d # c => direct'[d] = direct[d]
  BY TailFacts DEF NetInv, NetShape
<1>3. /\ answered' \in [Conn -> Nat]
      /\ \A d \in Conn : d # c => answered'[d] = answered[d]
      /\ sent[c] \in Nat /\ answered[c] \in Nat /\ applied[c] \in Nat /\ MaxSent \in Nat
      /\ answered'[c] = answered[c] + (IF Head(direct[c]) \in Replies THEN 1 ELSE 0)
  BY ConnectionsAssumption DEF AccountInv, Ledgers
<1>4. \A d \in Conn : InQueue(d)' = InQueue(d)
  BY DEF InQueue
<1>5. Accounted(c)'
  <2>1. InQueue(c) \in Nat /\ InDirect(c) \in Nat
    BY <1>1 DEF CountsTyped
  <2>2. HowMany(Tail(direct[c]), Replies) \in Nat
    BY <1>2, CountType
  <2>3. InDirect(c) = InDirect(c)' + (IF Head(direct[c]) \in Replies THEN 1 ELSE 0)
    BY <1>2, CountTail DEF InDirect
  <2>4. InDirect(c)' \in Nat
    BY <1>2, <2>2 DEF InDirect
  <2>5. sent[c] = InQueue(c) + InDirect(c) + answered[c] + applied[c] /\ sent[c] <= MaxSent
    BY DEF AccountInv, Accounted
  <2>6. sent[c] = InQueue(c) + InDirect(c)' + answered'[c] + applied[c]
    BY <1>3, <2>1, <2>3, <2>4, <2>5
  <2>7. /\ sent'[c] = InQueue(c)' + InDirect(c)' + answered'[c] + applied'[c]
        /\ sent'[c] \in Nat /\ sent'[c] <= MaxSent
        /\ stage'[c] \notin {"new", "subscribed"}
    BY <1>3, <1>4, <2>5, <2>6
  <2> QED BY <1>3, <2>7 DEF Accounted
<1>6. ASSUME NEW d \in Conn, d # c PROVE Accounted(d)'
  BY <1>2, <1>3, <1>4, <1>6, SameAccount DEF AccountInv
<1> QED BY <1>3, <1>5, <1>6 DEF AccountInv, Ledgers

\* A connection that goes takes what was under way with it.
LEMMA ClosedAccount ==
  ASSUME NetInv, AccountInv, NEW c \in Conn, direct'[c] = <<>>, Gone(c)',
         \A d \in Conn : d # c => direct'[d] = direct[d] /\ stage'[d] = stage[d],
         \/ answered' = answered
         \/ InDirect(c) >= 1 /\ answered' = [answered EXCEPT ![c] = @ + 1],
         UNCHANGED <<queue, sent, applied>>
  PROVE  AccountInv'
<1>1. CountsTyped
  BY CountsAreTyped DEF NetInv
<1>2. /\ answered' \in [Conn -> Nat]
      /\ \A d \in Conn : d # c => answered'[d] = answered[d]
      /\ sent[c] \in Nat /\ answered[c] \in Nat /\ applied[c] \in Nat /\ MaxSent \in Nat
      /\ \/ answered'[c] = answered[c]
         \/ InDirect(c) >= 1 /\ answered'[c] = answered[c] + 1
  <2>1. answered \in [Conn -> Nat] /\ sent \in [Conn -> Nat] /\ applied \in [Conn -> Nat]
    BY DEF AccountInv, Ledgers
  <2>2. MaxSent \in Nat
    BY ConnectionsAssumption
  <2>3. CASE answered' = answered
    BY <2>1, <2>2, <2>3
  <2>4. CASE InDirect(c) >= 1 /\ answered' = [answered EXCEPT ![c] = @ + 1]
    BY <2>1, <2>2, <2>4
  <2> QED BY <2>3, <2>4
<1>3. \A d \in Conn : InQueue(d)' = InQueue(d)
  BY DEF InQueue
<1>4. Accounted(c)'
  <2>1. InQueue(c) \in Nat /\ InDirect(c) \in Nat
    BY <1>1 DEF CountsTyped
  <2>2. InDirect(c)' = 0
    BY CountNothing DEF InDirect
  <2>3. InQueue(c) + InDirect(c) + answered[c] + applied[c] <= sent[c] /\ sent[c] <= MaxSent
    BY DEF AccountInv, Accounted
  <2>4. InQueue(c) + 0 + answered'[c] + applied[c] <= sent[c]
    <3>1. CASE answered'[c] = answered[c]
      BY <1>2, <2>1, <2>3, <3>1
    <3>2. CASE InDirect(c) >= 1 /\ answered'[c] = answered[c] + 1
      BY <1>2, <2>1, <2>3, <3>2
    <3> QED BY <1>2, <3>1, <3>2
  <2> QED BY <1>3, <2>2, <2>3, <2>4 DEF Accounted
<1>5. ASSUME NEW d \in Conn, d # c PROVE Accounted(d)'
  BY <1>2, <1>3, <1>5, SameAccount DEF AccountInv
<1> QED BY <1>2, <1>4, <1>5 DEF AccountInv, Ledgers

\* What the actor does with a command: the change is made, or an answer is put
\* on its way, unless the sender has gone.
LEMMA ActorCounts ==
  ASSUME NetInv, ActorStep
  PROVE  LET c == Head(queue).conn
         IN  \/ direct' = direct /\ applied' = [applied EXCEPT ![c] = @ + 1]
             \/ Gone(c) /\ UNCHANGED <<direct, applied>>
             \/ /\ applied' = applied
                /\ \/ direct' = [direct EXCEPT ![c] = direct[c] \o <<refusal>>]
                   \/ direct' = [direct EXCEPT ![c] = direct[c] \o <<ack>>]
                   \/ direct' = [direct EXCEPT ![c] = direct[c] \o <<ack, snapshot_of(version')>>]
<1>1. CASE Head(queue).kind = "join" /\ ActOnJoin(Head(queue).conn) /\ applied' = applied
  BY <1>1 DEF ActOnJoin, Direct
<1>2. CASE Head(queue).kind = "edit" /\ ActOnEdit(Head(queue).conn)
  BY <1>2 DEF ActOnEdit, Direct
<1>3. CASE /\ Head(queue).kind = "ping" /\ Direct(Head(queue).conn, <<ack>>)
           /\ applied' = applied
  BY <1>3 DEF Direct
<1> QED BY <1>1, <1>2, <1>3 DEF ActorStep

\* Each of the actor's replies holds one answer.
LEMMA OneAnswer ==
  ASSUME NEW s \in Seq(Msg), NEW v \in Nat
  PROVE  /\ HowMany(s \o <<refusal>>, Replies) = HowMany(s, Replies) + 1
         /\ HowMany(s \o <<ack>>, Replies) = HowMany(s, Replies) + 1
         /\ HowMany(s \o <<ack, snapshot_of(v)>>, Replies) = HowMany(s, Replies) + 1
<1>1. /\ ack \in Msg /\ refusal \in Msg /\ snapshot_of(v) \in Msg
      /\ ack \in Replies /\ refusal \in Replies /\ snapshot_of(v) \notin Replies
  BY DEF Msg, Replies, ack, refusal, snapshot_of
<1>2. Append(s, ack) \in Seq(Msg) /\ Append(s, refusal) \in Seq(Msg)
  BY <1>1
<1>3. /\ s \o <<refusal>> = Append(s, refusal) /\ s \o <<ack>> = Append(s, ack)
      /\ s \o <<ack, snapshot_of(v)>> = Append(Append(s, ack), snapshot_of(v))
  BY <1>1
<1>4. HowMany(Append(s, refusal), Replies) = HowMany(s, Replies) + 1
      /\ HowMany(Append(s, ack), Replies) = HowMany(s, Replies) + 1
  BY <1>1, CountAppend
<1>5. HowMany(Append(Append(s, ack), snapshot_of(v)), Replies) = HowMany(Append(s, ack), Replies)
  <2>1. HowMany(Append(Append(s, ack), snapshot_of(v)), Replies)
          = HowMany(Append(s, ack), Replies) + (IF snapshot_of(v) \in Replies THEN 1 ELSE 0)
    <3> DEFINE s1 == Append(s, ack)
               m  == snapshot_of(v)
    <3>1. s1 \in Seq(Msg)
      BY <1>2
    <3> HIDE DEF s1, m
    <3>2. HowMany(Append(s1, m), Replies) = HowMany(s1, Replies) + (IF m \in Replies THEN 1 ELSE 0)
      BY <3>1, CountAppend
    <3> QED BY <3>2 DEF s1, m
  <2>2. HowMany(Append(s, ack), Replies) \in Nat
    BY <1>2, CountType
  <2> QED BY <1>1, <2>1, <2>2
<1> QED BY <1>3, <1>4, <1>5

\* A command acted on leaves the queue, and is applied or answered.
LEMMA ActorAccount ==
  ASSUME NetInv, AccountInv, ActorStep PROVE AccountInv'
<1>0. Head(queue).conn \in Conn
  <2>1. queue \in Seq(Command) /\ queue # <<>>
    BY DEF ActorStep, NetInv, NetShape
  <2>2. Head(queue) \in Command
    BY <2>1, TailFacts
  <2> QED BY <2>2 DEF Command
<1> PICK c \in Conn : c = Head(queue).conn
  BY <1>0
<1>1. CountsTyped
  BY CountsAreTyped DEF NetInv
<1>2. /\ queue # <<>> /\ queue' = Tail(queue) /\ queue \in Seq(Command)
      /\ Head(queue) \in Command /\ c = Head(queue).conn
      /\ UNCHANGED <<stage, sent, answered>>
  <2>1. queue # <<>> /\ queue' = Tail(queue) /\ UNCHANGED <<stage, sent, answered>>
    BY DEF ActorStep
  <2>2. queue \in Seq(Command)
    BY DEF NetInv, NetShape
  <2>3. Head(queue) \in Command
    BY <2>1, <2>2, TailFacts
  <2> QED BY <2>1, <2>2, <2>3 DEF Command
<1>3. version' \in Nat
  BY ActorEffect DEF NetInv, NetShape
<1>4. \/ direct' = direct /\ applied' = [applied EXCEPT ![c] = @ + 1]
      \/ Gone(c) /\ UNCHANGED <<direct, applied>>
      \/ /\ applied' = applied
         /\ \/ direct' = [direct EXCEPT ![c] = direct[c] \o <<refusal>>]
            \/ direct' = [direct EXCEPT ![c] = direct[c] \o <<ack>>]
            \/ direct' = [direct EXCEPT ![c] = direct[c] \o <<ack, snapshot_of(version')>>]
  BY <1>2, ActorCounts
<1>5. \A d \in Conn : /\ InQueue(d)' \in Nat
                      /\ InQueue(d) = InQueue(d)' + (IF d = c THEN 1 ELSE 0)
  <2>1. \A d \in Conn : Head(queue) \in Of(d) <=> d = c
    BY <1>2 DEF Of
  <2>2. \A d \in Conn : HowMany(queue, Of(d))
                         = HowMany(Tail(queue), Of(d)) + (IF Head(queue) \in Of(d) THEN 1 ELSE 0)
    BY <1>2, CountTail
  <2>3. \A d \in Conn : HowMany(Tail(queue), Of(d)) \in Nat
    BY <1>2, TailFacts, CountType
  <2> QED BY <1>2, <2>1, <2>2, <2>3 DEF InQueue
<1>6. /\ sent[c] \in Nat /\ answered[c] \in Nat /\ applied[c] \in Nat /\ MaxSent \in Nat
      /\ InDirect(c) \in Nat /\ direct \in [Conn -> Seq(Msg)] /\ direct[c] \in Seq(Msg)
      /\ applied \in [Conn -> Nat]
  BY <1>1, <1>2, ConnectionsAssumption DEF AccountInv, Ledgers, CountsTyped, NetInv, NetShape
<1>7. /\ applied' \in [Conn -> Nat]
      /\ \A d \in Conn : d # c => applied'[d] = applied[d] /\ direct'[d] = direct[d]
  <2>1. applied' = applied \/ applied' = [applied EXCEPT ![c] = @ + 1]
    BY <1>4
  <2>2. direct' = direct \/ \E m : direct' = [direct EXCEPT ![c] = m]
    BY <1>4
  <2> QED BY <1>2, <1>6, <2>1, <2>2
<1>8. \/ InDirect(c)' + applied'[c] = InDirect(c) + applied[c] + 1
      \/ Gone(c) /\ InDirect(c)' = InDirect(c) /\ applied'[c] = applied[c]
  <2>1. CASE direct' = direct /\ applied' = [applied EXCEPT ![c] = @ + 1]
    <3>1. InDirect(c)' = InDirect(c) /\ applied'[c] = applied[c] + 1
      BY <1>2, <1>6, <2>1 DEF InDirect
    <3> QED BY <1>6, <3>1
  <2>2. CASE Gone(c) /\ UNCHANGED <<direct, applied>>
    BY <2>2 DEF InDirect
  <2>3. CASE /\ applied' = applied
             /\ \/ direct' = [direct EXCEPT ![c] = direct[c] \o <<refusal>>]
                \/ direct' = [direct EXCEPT ![c] = direct[c] \o <<ack>>]
                \/ direct' = [direct EXCEPT ![c] = direct[c] \o <<ack, snapshot_of(version')>>]
    <3>1. PICK m \in {direct[c] \o <<refusal>>, direct[c] \o <<ack>>,
                      direct[c] \o <<ack, snapshot_of(version')>>} :
                 direct' = [direct EXCEPT ![c] = m]
      BY <2>3
    <3>2. direct'[c] = m
      BY <1>2, <1>6, <3>1
    <3>3. HowMany(m, Replies) = HowMany(direct[c], Replies) + 1
      BY <1>3, <1>6, <3>1, OneAnswer
    <3>4. InDirect(c)' = InDirect(c) + 1
      BY <3>2, <3>3 DEF InDirect
    <3>5. applied'[c] = applied[c] /\ applied[c] \in Nat /\ InDirect(c) \in Nat
      BY <1>6, <2>3
    <3> DEFINE d == InDirect(c)
               p == applied[c]
    <3>6. (d + 1) + p = d + p + 1
      <4>1. d \in Nat /\ p \in Nat
        BY <3>5
      <4> HIDE DEF d, p
      <4> QED BY ONLY <4>1
    <3> QED BY <3>4, <3>5, <3>6, Zenon
  <2> QED BY <1>4, <2>1, <2>2, <2>3
<1>9. InDirect(c)' \in Nat /\ applied'[c] \in Nat
  <2>1. NetInv'
    BY ActorInv
  <2>2. direct'[c] \in Seq(Msg)
    BY <1>2, <2>1 DEF NetInv, NetShape
  <2> QED BY <1>2, <1>7, <2>2, CountType DEF InDirect
<1>10. Accounted(c)'
  <2>1. /\ InQueue(c)' \in Nat /\ InQueue(c) = InQueue(c)' + 1
        /\ sent'[c] = sent[c] /\ answered'[c] = answered[c] /\ stage'[c] = stage[c]
    BY <1>2, <1>5
  <2>2. Accounted(c)
    BY <1>2 DEF AccountInv
  <2>3. sent[c] # 0
    BY <1>6, <2>1, <2>2 DEF Accounted
  <2>4. CASE InDirect(c)' + applied'[c] = InDirect(c) + applied[c] + 1
    <3>1. InQueue(c)' + InDirect(c)' + answered[c] + applied'[c]
            = InQueue(c) + InDirect(c) + answered[c] + applied[c]
      <4> DEFINE q  == InQueue(c)
                 q2 == InQueue(c)'
                 d  == InDirect(c)
                 d2 == InDirect(c)'
                 a  == answered[c]
                 p  == applied[c]
                 p2 == applied'[c]
      <4>1. q2 \in Nat /\ q = q2 + 1 /\ d \in Nat /\ d2 \in Nat /\ a \in Nat
            /\ p \in Nat /\ p2 \in Nat /\ d2 + p2 = d + p + 1
        BY <1>6, <1>9, <2>1, <2>4
      <4> HIDE DEF q, q2, d, d2, a, p, p2
      <4>2. q2 + d2 + a + p2 = q + d + a + p
        BY ONLY <4>1
      <4> QED BY <4>2 DEF q, q2, d, d2, a, p, p2
    <3> QED BY <1>6, <1>9, <2>1, <2>2, <2>3, <3>1 DEF Accounted
  <2>5. CASE Gone(c) /\ InDirect(c)' = InDirect(c) /\ applied'[c] = applied[c]
    <3>1. InQueue(c) + InDirect(c) + answered[c] + applied[c] <= sent[c] /\ sent[c] <= MaxSent
      BY <2>2 DEF Accounted
    <3>2. InQueue(c)' + InDirect(c)' + answered'[c] + applied'[c] <= sent'[c]
      BY <1>6, <2>1, <2>5, <3>1
    <3> QED BY <1>6, <2>1, <2>5, <3>1, <3>2 DEF Accounted
  <2> QED BY <1>8, <2>4, <2>5
<1>11. ASSUME NEW d \in Conn, d # c PROVE Accounted(d)'
  <2>1. InQueue(d)' = InQueue(d)
    BY <1>5, <1>11
  <2> QED BY <1>2, <1>7, <1>11, <2>1, SameAccount DEF AccountInv
<1> QED BY <1>2, <1>7, <1>10, <1>11 DEF AccountInv, Ledgers

\* A frame that does not parse is answered at once, while there is a pump.
LEMMA BadFrameAccount ==
  ASSUME NetInv, AccountInv, NEW c \in Conn, BadFrame(c) PROVE AccountInv'
<1>1. /\ Reading(c) /\ sent[c] < MaxSent /\ sent' = [sent EXCEPT ![c] = @ + 1]
      /\ IF Gone(c) THEN direct' = direct
         ELSE direct' = [direct EXCEPT ![c] = direct[c] \o <<refusal>>]
      /\ UNCHANGED <<queue, stage, answered, applied>>
  BY DEF BadFrame, Direct
<1>2. /\ sent' \in [Conn -> Nat] /\ sent'[c] = sent[c] + 1
      /\ \A d \in Conn : d # c => sent'[d] = sent[d] /\ direct'[d] = direct[d]
      /\ sent[c] \in Nat /\ answered[c] \in Nat /\ applied[c] \in Nat /\ MaxSent \in Nat
      /\ direct[c] \in Seq(Msg)
      /\ direct'[c] = IF Gone(c) THEN direct[c] ELSE direct[c] \o <<refusal>>
  <2>1. /\ sent \in [Conn -> Nat] /\ answered \in [Conn -> Nat] /\ applied \in [Conn -> Nat]
        /\ direct \in [Conn -> Seq(Msg)] /\ MaxSent \in Nat
    BY ConnectionsAssumption DEF AccountInv, Ledgers, NetInv, NetShape
  <2>2. \/ Gone(c) /\ direct' = direct
        \/ ~Gone(c) /\ direct' = [direct EXCEPT ![c] = direct[c] \o <<refusal>>]
    BY <1>1
  <2>3. /\ \A d \in Conn : d # c => direct'[d] = direct[d]
        /\ direct'[c] = IF Gone(c) THEN direct[c] ELSE direct[c] \o <<refusal>>
    BY <2>1, <2>2
  <2> QED BY <1>1, <2>1, <2>3
<1>3. InQueue(c) \in Nat /\ InDirect(c) \in Nat
  BY CountsAreTyped DEF NetInv, CountsTyped
<1>4. \A d \in Conn : InQueue(d)' = InQueue(d)
  BY <1>1 DEF InQueue
<1>5. InDirect(c)' = IF Gone(c) THEN InDirect(c) ELSE InDirect(c) + 1
  <2>1. HowMany(direct[c] \o <<refusal>>, Replies) = HowMany(direct[c], Replies) + 1
    BY <1>2, OneAnswer
  <2> QED BY <1>2, <2>1 DEF InDirect
<1>6. Accounted(c)'
  <2>1. CASE Gone(c)
    <3>1. InQueue(c) + InDirect(c) + answered[c] + applied[c] <= sent[c]
      BY DEF AccountInv, Accounted
    <3> QED BY <1>1, <1>2, <1>3, <1>4, <1>5, <2>1, <3>1 DEF Accounted
  <2>2. CASE stage[c] = "open"
    <3>1. sent[c] = InQueue(c) + InDirect(c) + answered[c] + applied[c]
      BY <2>2 DEF AccountInv, Accounted
    <3>2. /\ sent'[c] = InQueue(c)' + InDirect(c)' + answered'[c] + applied'[c]
          /\ sent'[c] \in Nat /\ sent'[c] <= MaxSent
          /\ stage'[c] \notin {"new", "subscribed"}
      <4> DEFINE q == InQueue(c)
                 d == InDirect(c)
                 a == answered[c]
                 p == applied[c]
                 s == sent[c]
      <4>1. q \in Nat /\ d \in Nat /\ a \in Nat /\ p \in Nat /\ s \in Nat /\ s = q + d + a + p
        BY <1>2, <1>3, <3>1
      <4>2. s + 1 = q + (d + 1) + a + p
        <5> HIDE DEF q, d, a, p, s
        <5> QED BY ONLY <4>1
      <4> QED BY <1>1, <1>2, <1>4, <1>5, <2>2, <4>2
    <3> QED BY <3>2 DEF Accounted
  <2> QED BY <1>1, <2>1, <2>2
<1>7. ASSUME NEW d \in Conn, d # c PROVE Accounted(d)'
  BY <1>1, <1>2, <1>4, <1>7, SameAccount DEF AccountInv
<1> QED BY <1>1, <1>2, <1>6, <1>7 DEF AccountInv, Ledgers

\* The first frame of a connection is its join.
LEMMA JoinAccount ==
  ASSUME NetInv, AccountInv, NEW c \in Conn, DispatchJoin(c) PROVE AccountInv'
<1>1. /\ stage[c] = "subscribed" /\ dispatch(c, "join")
      /\ stage' = [stage EXCEPT ![c] = "joining"]
      /\ UNCHANGED <<direct, answered, applied>>
  BY DEF DispatchJoin
<1>2. /\ InQueue(c) \in Nat /\ InDirect(c) \in Nat
      /\ answered[c] \in Nat /\ applied[c] \in Nat /\ MaxSent \in Nat \ {0}
  BY CountsAreTyped, ConnectionsAssumption DEF NetInv, CountsTyped, AccountInv, Ledgers
<1>3. /\ sent[c] = 0
      /\ InQueue(c) + InDirect(c) + answered[c] + applied[c] <= sent[c]
  BY <1>1 DEF AccountInv, Accounted
<1>4. sent[c] = InQueue(c) + InDirect(c) + answered[c] + applied[c] /\ sent[c] < MaxSent
  BY <1>2, <1>3
<1>5. stage'[c] = "joining" /\ \A d \in Conn : d # c => stage'[d] = stage[d]
  BY <1>1 DEF NetInv, NetShape
<1>6. "join" \in Kind
  BY DEF Kind
<1> QED BY <1>1, <1>4, <1>5, <1>6, DispatchAccount

\* Every step keeps the account.
LEMMA AccountStep == NetInv /\ AccountInv /\ [NetNext]_netVars => AccountInv'
<1> SUFFICES ASSUME NetInv, AccountInv, [NetNext]_netVars PROVE AccountInv'
  OBVIOUS
<1>0. stage \in [Conn -> Stage] /\ direct \in [Conn -> Seq(Msg)]
  BY DEF NetInv, NetShape
<1>1. CASE ActorStep
  BY <1>1, ActorAccount
<1>2. ASSUME NEW c \in Conn, FirstFrameBad(c) PROVE AccountInv'
  <2>1. direct[c] = <<>>
    BY <1>2 DEF FirstFrameBad, NetInv, ConnInv, BeforeJoin
  <2> QED BY <1>0, <1>2, <2>1, ClosedAccount DEF FirstFrameBad
<1>3. ASSUME NEW c \in Conn,
             \/ Subscribe(c) \/ PumpBroadcast(c) \/ PumpLag(c)
             \/ InboundEnds(c) \/ PumpEnds(c)
      PROVE  AccountInv'
  <2>1. /\ UNCHANGED <<queue, direct, sent, answered, applied>>
        /\ \A d \in Conn : \/ stage'[d] = stage[d]
                           \/ stage[d] = "new" /\ stage'[d] = "subscribed"
                           \/ stage[d] = "open" /\ stage'[d] = "closing"
                           \/ stage'[d] = "closed"
    BY <1>0, <1>3 DEF Subscribe, PumpBroadcast, PumpLag, InboundEnds, PumpEnds
  <2> QED BY <2>1 DEF AccountInv, Ledgers, Accounted, InQueue, InDirect
<1>4. ASSUME NEW c \in Conn, DispatchJoin(c) PROVE AccountInv'
  BY <1>4, JoinAccount
<1>5. ASSUME NEW c \in Conn, Handshake(c) PROVE AccountInv'
  <2>1. /\ stage[c] = "joining" /\ direct[c] # <<>>
        /\ answered' = [answered EXCEPT ![c] = @ + 1] /\ UNCHANGED <<queue, sent, applied>>
    BY <1>5 DEF Handshake
  <2>2. ack \in Replies /\ refusal \in Replies
    BY DEF Replies, Msg, ack, refusal
  <2>3. CASE /\ Head(direct[c]) = ack /\ stage' = [stage EXCEPT ![c] = "open"]
             /\ direct' = [direct EXCEPT ![c] = Tail(@)]
    <3>1. stage'[c] = "open" /\ \A d \in Conn : d # c => stage'[d] = stage[d]
      BY <1>0, <2>3
    <3> QED BY <2>1, <2>2, <2>3, <3>1, TakenAccount
  <2>4. CASE /\ Head(direct[c]) = refusal /\ stage' = [stage EXCEPT ![c] = "closed"]
             /\ direct' = [direct EXCEPT ![c] = <<>>]
    <3>1. InDirect(c) >= 1
      <4>1. HowMany(direct[c], Replies) = HowMany(Tail(direct[c]), Replies) + 1
        BY <1>0, <2>1, <2>2, <2>4, CountTail
      <4>2. HowMany(Tail(direct[c]), Replies) \in Nat
        BY <1>0, <2>1, TailFacts, CountType
      <4> QED BY <4>1, <4>2 DEF InDirect
    <3>2. /\ direct'[c] = <<>> /\ stage'[c] = "closed"
          /\ \A d \in Conn : d # c => direct'[d] = direct[d] /\ stage'[d] = stage[d]
      BY <1>0, <2>4
    <3> QED BY <2>1, <3>1, <3>2, ClosedAccount
  <2> QED BY <1>5, <2>3, <2>4 DEF Handshake
<1>6. ASSUME NEW c \in Conn, PumpDirect(c) PROVE AccountInv'
  <2>1. /\ Pumping(c) /\ direct[c] # <<>> /\ stage' = stage
        /\ direct' = [direct EXCEPT ![c] = Tail(@)] /\ UNCHANGED <<queue, sent, applied>>
        /\ \/ Head(direct[c]).type = "state" /\ answered' = answered
           \/ /\ Head(direct[c]).type # "state"
              /\ answered' = [answered EXCEPT ![c] = @ + 1]
    BY <1>6 DEF PumpDirect
  <2>2. Head(direct[c]) \in Msg
    BY <1>0, <2>1, TailFacts
  <2>3. Head(direct[c]) \in Replies <=> Head(direct[c]).type # "state"
    BY <2>2 DEF Replies
  <2> QED BY <2>1, <2>3, TakenAccount
<1>7. ASSUME NEW c \in Conn, NEW kind \in Kind, Send(c, kind) PROVE AccountInv'
  <2>1. /\ Reading(c) /\ sent[c] < MaxSent /\ dispatch(c, kind) /\ stage' = stage
        /\ UNCHANGED <<direct, answered, applied>>
    BY <1>7 DEF Send
  <2>2. stage[c] # "deaf" => sent[c] = InQueue(c) + InDirect(c) + answered[c] + applied[c]
    BY <2>1 DEF AccountInv, Accounted
  <2> QED BY <2>1, <2>2, DispatchAccount
<1>8. ASSUME NEW c \in Conn, BadFrame(c) PROVE AccountInv'
  BY <1>8, BadFrameAccount
<1>9. ASSUME NEW c \in Conn, PumpFails(c) PROVE AccountInv'
  BY <1>0, <1>9, ClosedAccount DEF PumpFails
<1>10. CASE UNCHANGED netVars
  BY <1>10 DEF netVars, AccountInv, Ledgers, Accounted, InQueue, InDirect
<1> QED BY <1>1, <1>2, <1>3, <1>4, <1>5, <1>6, <1>7, <1>8, <1>9, <1>10 DEF NetNext

\* No frame is lost or answered twice, for any number of connections and frames,
\* though two tasks write to the direct channel.
THEOREM AlwaysAnswered == NetSpec => []EveryCommandAnswered
<1>1. NetInit => AccountInv
  BY CountNothing, ConnectionsAssumption
     DEF NetInit, AccountInv, Ledgers, Accounted, InQueue, InDirect
<1>2. NetInv /\ AccountInv => EveryCommandAnswered
  <2> SUFFICES ASSUME NetInv, AccountInv, NEW c \in Conn,
                      stage[c] \in {"joining", "open", "closing"}
               PROVE  sent[c] = Cardinality(Frames(c)) + Cardinality(Answers(c))
                                + answered[c] + applied[c]
    BY DEF EveryCommandAnswered
  <2>1. queue \in Seq(Command) /\ direct[c] \in Seq(Msg)
    BY DEF NetInv, NetShape
  <2>2. Frames(c) = Where(queue, Of(c))
    BY <2>1 DEF Frames, Where, Of
  <2>3. Answers(c) = Where(direct[c], Replies)
    BY <2>1 DEF Answers, Where, Replies
  <2>4. sent[c] = InQueue(c) + InDirect(c) + answered[c] + applied[c]
    BY DEF AccountInv, Accounted
  <2> QED BY <2>2, <2>3, <2>4 DEF InQueue, InDirect, HowMany
<1> QED BY <1>1, <1>2, AccountStep, NetInvariant, PTL DEF NetSpec

-----------------------------------------------------------------------------
(* Types *)

\* The bounds, and a screen that shows no state from the future.
Bounds ==
  /\ version <= MaxVersion
  /\ Len(queue) <= QueueCap
  /\ view \in [Conn -> Nat] /\ \A c \in Conn : view[c] <= version

\* Every step keeps the bounds, and no screen gets ahead of the room.
LEMMA BoundsStep == NetInv /\ Bounds /\ [NetNext]_netVars => Bounds'
<1> SUFFICES ASSUME NetInv, Bounds, [NetNext]_netVars PROVE Bounds'
  OBVIOUS
<1>0. /\ version \in Nat /\ queue \in Seq(Command) /\ view \in [Conn -> Nat]
      /\ MaxVersion \in Nat /\ QueueCap \in Nat
  BY ConnectionsAssumption DEF Bounds, NetInv, NetShape
<1>1. CASE ActorStep
  <2>1. queue # <<>> /\ queue' = Tail(queue) /\ view' = view
    BY <1>1 DEF ActorStep
  <2>2. version' = version \/ (version < MaxVersion /\ version' = version + 1)
    BY <1>1 DEF ActorStep, ActOnJoin, ActOnEdit, Change
  <2>3. Len(queue') <= QueueCap
    BY <1>0, <2>1 DEF Bounds
  <2>4. \A c \in Conn : view[c] \in Nat /\ view[c] <= version
    BY <1>0 DEF Bounds
  <2> QED BY <1>0, <2>1, <2>2, <2>3, <2>4 DEF Bounds
<1>2. ASSUME NEW c \in Conn, NEW kind \in Kind,
             dispatch(c, kind), UNCHANGED <<version, view>>
      PROVE  Bounds'
  <2>1. Len(queue) < QueueCap /\ queue' = Append(queue, [conn |-> c, kind |-> kind])
    BY <1>2 DEF dispatch
  <2>2. Len(queue') <= QueueCap
    BY <1>0, <2>1
  <2> QED BY <1>2, <2>2 DEF Bounds
<1>3. ASSUME NEW c \in Conn, NEW v \in 0 .. version, Show(c, v), UNCHANGED <<version, queue>>
      PROVE  Bounds'
  <2>1. view' = [view EXCEPT ![c] = v]
    BY <1>3 DEF Show
  <2> QED BY <1>0, <1>3, <2>1 DEF Bounds
<1>4. CASE UNCHANGED <<version, queue, view>>
  BY <1>4 DEF Bounds
<1>5. ASSUME NEW c \in Conn, PumpBroadcast(c) PROVE Bounds'
  <2>1. cursor[c] + 1 \in 0 .. version
    BY <1>0, <1>5 DEF PumpBroadcast, NetInv, NetShape
  <2> QED BY <1>3, <1>5, <2>1 DEF PumpBroadcast
<1>6. ASSUME NEW c \in Conn, PumpDirect(c) PROVE Bounds'
  <2>1. direct[c] # <<>> /\ direct[c] \in Seq(Msg)
    BY <1>6 DEF PumpDirect, NetInv, NetShape
  <2>2. Head(direct[c]) \in Msg /\ Head(direct[c]) = direct[c][1] /\ 1 \in DOMAIN direct[c]
    BY <2>1, TailFacts
  <2>3. ASSUME Head(direct[c]).type = "state" PROVE Head(direct[c]).version \in 0 .. version
    <3>1. Head(direct[c]).version <= version
      BY <2>2, <2>3 DEF NetInv, NetShape
    <3>2. Head(direct[c]).version \in Nat
      BY <2>2, <2>3 DEF Msg, ack, refusal
    <3> QED BY <1>0, <3>1, <3>2
  <2> QED BY <1>3, <1>4, <1>6, <2>3 DEF PumpDirect
<1> QED BY <1>1, <1>2, <1>4, <1>5, <1>6
        DEF NetNext, netVars, FirstFrameBad, Subscribe, DispatchJoin, Handshake, PumpLag,
            Send, BadFrame, InboundEnds, PumpFails, PumpEnds, Kind

\* Every variable has its type, within the bounds of the code and of the model.
THEOREM NetTypes == NetSpec => []NetTypeOK
<1>1. NetInit => AccountInv
  BY CountNothing, ConnectionsAssumption
     DEF NetInit, AccountInv, Ledgers, Accounted, InQueue, InDirect
<1>2. NetInit => Bounds
  BY ConnectionsAssumption DEF NetInit, Bounds
<1>3. NetInv /\ AccountInv /\ Bounds => NetTypeOK
  <2> SUFFICES ASSUME NetInv, AccountInv, Bounds PROVE NetTypeOK
    OBVIOUS
  <2>1. /\ version \in 0 .. MaxVersion /\ queue \in Seq(Command) /\ Len(queue) <= QueueCap
        /\ stage \in [Conn -> Stage] /\ cursor \in [Conn -> 0 .. version]
        /\ seen \in [Conn -> 0 .. version] /\ view \in [Conn -> 0 .. version]
    BY ConnectionsAssumption DEF NetInv, NetShape, Bounds
  <2>2. /\ sent \in [Conn -> 0 .. MaxSent] /\ answered \in [Conn -> 0 .. MaxSent]
        /\ applied \in [Conn -> 0 .. MaxSent]
    <3>1. ASSUME NEW c \in Conn
          PROVE  /\ sent[c] \in 0 .. MaxSent /\ answered[c] \in 0 .. MaxSent
                 /\ applied[c] \in 0 .. MaxSent
      <4>1. /\ InQueue(c) \in Nat /\ InDirect(c) \in Nat /\ MaxSent \in Nat
            /\ sent[c] \in Nat /\ answered[c] \in Nat /\ applied[c] \in Nat
        BY CountsAreTyped, ConnectionsAssumption
           DEF NetInv, CountsTyped, AccountInv, Ledgers
      <4>2. /\ InQueue(c) + InDirect(c) + answered[c] + applied[c] <= sent[c]
            /\ sent[c] <= MaxSent
        BY DEF AccountInv, Accounted
      <4> QED BY <4>1, <4>2
    <3> QED BY <3>1 DEF AccountInv, Ledgers
  <2>3. direct \in [Conn -> Seq(Message)]
    <3>1. ASSUME NEW c \in Conn, NEW k \in DOMAIN direct[c] PROVE direct[c][k] \in Message
      <4>1. direct[c] \in Seq(Msg) /\ direct[c][k] \in Msg
        BY DEF NetInv, NetShape
      <4>2. direct[c][k].type = "state" => direct[c][k].version <= version
        BY DEF NetInv, NetShape
      <4>3. version \in Nat /\ version <= MaxVersion /\ MaxVersion \in Nat
        BY <2>1, ConnectionsAssumption
      <4> QED BY <4>1, <4>2, <4>3 DEF Msg, Message, ack, refusal
    <3>2. direct \in [Conn -> Seq(Msg)]
      BY DEF NetInv, NetShape
    <3>3. ASSUME NEW c \in Conn PROVE direct[c] \in Seq(Message)
      BY <3>1, <3>2
    <3> QED BY <3>2, <3>3
  <2> QED BY <2>1, <2>2, <2>3 DEF NetTypeOK
<1> QED BY <1>1, <1>2, <1>3, AccountStep, BoundsStep, NetInvariant, PTL DEF NetSpec
=============================================================================
