----------------------------- MODULE Client_proofs -----------------------------
(***************************************************************************)
(* What the page of a player shows, and that a player who has to write can *)
(* do so: for any number of rounds and connections, any buffer that holds  *)
(* one reaction, and any number of prompts.                                *)
(***************************************************************************)
EXTENDS Client, SequenceTheorems, TLAPS

-----------------------------------------------------------------------------
(* Types *)

Phase == {"lobby", "collecting", "performing", "archived"}

Body ==
  [type : {"room_state"}, phase : Phase, on : BOOLEAN, done : BOOLEAN]
    \cup [type : {"submission_progress"}, on : BOOLEAN, done : BOOLEAN]
    \cup [type : {"slide_changed"}, mine : BOOLEAN]
    \cup [type : {"game_started", "joined", "assignment", "error"}]

Msg == [body : Body, round : Round]

ViewTypeOK ==
  /\ phase \in Phase
  /\ on \in BOOLEAN /\ done \in BOOLEAN /\ mine \in BOOLEAN
  /\ mine => phase = "performing"

WireTypeOK ==
  /\ outbox \in Seq(Command) /\ orphans \in Seq(Command)
  /\ events \in Seq(Msg) /\ direct \in Seq(Msg)

-----------------------------------------------------------------------------
(* What the messages say *)

\* The three things of the page that PageMatchesRoom compares with the room.
Shown == {"phase", "submitted", "controller"}

Truth(a) ==
  CASE a = "phase" -> phase [] a = "submitted" -> (on /\ done) [] OTHER -> mine

\* A message sets some of them, and leaves the others as they are.
Speaks(a, body) ==
  CASE a = "phase"     -> body.type = "room_state"
    [] a = "submitted" -> body.type \in {"room_state", "submission_progress"}
    [] OTHER           -> \/ body.type = "slide_changed"
                          \/ body.type = "room_state" /\ body.phase # "performing"

Says(a, body) ==
  CASE a = "phase"     -> body.phase
    [] a = "submitted" -> (body.on /\ body.done)
    [] OTHER           -> body.type = "slide_changed" /\ body.mine

Spoken(a, msgs) == \E k \in DOMAIN msgs : Speaks(a, msgs[k].body)

\* The last word of the messages is true.
TrueInTheEnd(a, msgs) ==
  \A k \in DOMAIN msgs :
    Speaks(a, msgs[k].body) =>
      \/ Says(a, msgs[k].body) = Truth(a)
      \/ \E l \in DOMAIN msgs : l > k /\ Speaks(a, msgs[l].body)

-----------------------------------------------------------------------------
(* The inductive invariant *)

\* The connection before its acknowledgement: the join is on the way or answered.
Handshake ==
  /\ link # "open" => ~ overtaken
  /\ link = "opening" => outbox = <<[type |-> "join"]>>
  /\ link = "joining" =>
       \/ outbox = <<[type |-> "join"]>> /\ direct = <<>>
       \/ outbox = <<>> /\ direct # <<>> /\ direct[1].body = joined
  /\ link \in {"opening", "joining"} => page.asked = 0

\* A page that follows the room: what it shows, or will show when it has read
\* what is still to come, is true.
Follows(a) ==
  \/ Spoken(a, events)
  \/ TrueInTheEnd(a, direct) /\ (Spoken(a, direct) \/ page[a] = Truth(a))

MatchInv ==
  \A a \in Shown :
    /\ TrueInTheEnd(a, events)
    /\ (link = "open" \/ direct # <<>>) /\ ~ overtaken => Follows(a)

\* Nothing is of a later round than the room, and nothing tells of submissions
\* that have not been opened.
PastOf(m, r, p) ==
  /\ m.round <= r
  /\ m.body.type = "room_state" /\ m.body.phase = "collecting" /\ m.round = r
       => p # "lobby"

Past(m) == PastOf(m, round, phase)

PastInv ==
  /\ \A k \in DOMAIN events : Past(events[k])
  /\ \A k \in DOMAIN direct : Past(direct[k])
  /\ page.asked <= round /\ page.form <= round
  /\ page.asked = round => phase # "lobby"

\* Assignments come in the order of their rounds.
FormInv ==
  /\ \A k \in DOMAIN events : events[k].body # assignment
  /\ \A k \in DOMAIN direct : page.form <= direct[k].round
  /\ \A k, l \in DOMAIN direct : k < l => direct[k].round <= direct[l].round
  /\ page.prompts # 0 => page.form = page.prompts

\* A page that saw submissions open has prompts or has asked for them; and the
\* answer to a request of this round is there, or on its way.
AskInv ==
  /\ page.phase = "collecting" => page.asked # 0 \/ page.prompts # 0
  /\ link = "open" /\ page.asked = round /\ phase = "collecting" /\ on =>
       \/ page.form = round
       \/ \E k \in DOMAIN outbox : outbox[k].type = "join"
       \/ \E k \in DOMAIN direct : direct[k].body = assignment /\ direct[k].round = round

BoxInv == page.open \/ page.submitted

ClientInv ==
  /\ ViewTypeOK /\ WireTypeOK /\ ClientTypeOK
  /\ Handshake
  /\ MatchInv
  /\ PastInv
  /\ FormInv
  /\ AskInv
  /\ BoxInv

-----------------------------------------------------------------------------
(* The room *)

\* What the room says of itself.
Words == {RoomState, Progress, SlideChanged, GameStarted}

WordsTrue ==
  \A m \in Words :
    /\ m \in Body
    /\ \A a \in Shown : Speaks(a, m) => Says(a, m) = Truth(a)

\* What the room says of itself is well formed, and true.
LEMMA WordsAreTrue == ViewTypeOK => WordsTrue
<1> SUFFICES ASSUME ViewTypeOK PROVE WordsTrue
  OBVIOUS
<1>1. RoomState \in Body /\ Progress \in Body /\ SlideChanged \in Body /\ GameStarted \in Body
  BY DEF ViewTypeOK, RoomState, Progress, SlideChanged, GameStarted, Body
<1>2. ASSUME NEW m \in Words
      PROVE  Speaks("phase", m) => Says("phase", m) = Truth("phase")
  BY DEF Words, Speaks, Says, Truth, RoomState, Progress, SlideChanged, GameStarted
<1>3. ASSUME NEW m \in Words
      PROVE  Speaks("submitted", m) => Says("submitted", m) = Truth("submitted")
  BY DEF Words, Speaks, Says, Truth, RoomState, Progress, SlideChanged, GameStarted
<1>4. ASSUME NEW m \in Words
      PROVE  Speaks("controller", m) => Says("controller", m) = Truth("controller")
  BY DEF ViewTypeOK, Words, Speaks, Says, Truth, RoomState, Progress, SlideChanged, GameStarted
<1> QED BY <1>1, <1>2, <1>3, <1>4 DEF Words, WordsTrue, Shown

\* What a command tells everybody: a room_state at least, and the slide while
\* there is one.
LEMMA HeardWords ==
  ASSUME ViewTypeOK, ViewNext, heard' # <<>>
  PROVE  /\ heard' \in Seq(Words') /\ Len(heard') <= 3
         /\ \E k \in DOMAIN heard' : heard'[k] = RoomState'
         /\ phase' = "performing" => \E k \in DOMAIN heard' : heard'[k] = SlideChanged'
<1>1. \/ heard' = <<RoomState', Progress'>> /\ phase' # "performing"
      \/ heard' = <<Progress', RoomState'>> /\ phase' # "performing"
      \/ heard' = <<GameStarted', SlideChanged', RoomState'>>
      \/ heard' = <<SlideChanged', RoomState'>>
      \/ heard' = <<RoomState'>> /\ phase' # "performing"
  BY DEF ViewNext, Unheard, Enlist, Strike, OtherRoster, OpenSubmissions, Answer,
         OtherAnswer, Perform, Turn, Close, Reopen, GameStarted
<1> DEFINE W == Words'
<1>2. RoomState' \in W /\ Progress' \in W /\ SlideChanged' \in W /\ GameStarted' \in W
  BY DEF Words
<1> HIDE DEF W
<1>3. \A x, y, z \in W : <<x>> \in Seq(W) /\ <<x, y>> \in Seq(W) /\ <<x, y, z>> \in Seq(W)
  OBVIOUS
<1>4. heard' \in Seq(W) /\ Len(heard') <= 3
  BY <1>1, <1>2, <1>3
<1> QED BY <1>1, <1>4 DEF W

\* The types of the view are kept.
LEMMA ViewTyped == ViewTypeOK /\ (ViewNext \/ UNCHANGED viewVars) => ViewTypeOK'
<1> SUFFICES ASSUME ViewTypeOK, ViewNext \/ UNCHANGED viewVars PROVE ViewTypeOK'
  OBVIOUS
<1>1. CASE UNCHANGED viewVars
  BY <1>1 DEF ViewTypeOK, viewVars
<1>2. CASE Unheard
  BY <1>2 DEF ViewTypeOK, Unheard
<1>3. CASE Enlist \/ Strike \/ OtherRoster \/ OpenSubmissions \/ Answer \/ OtherAnswer
  <2>1. /\ phase \in {"lobby", "collecting"} /\ phase' \in {"lobby", "collecting"}
        /\ UNCHANGED mine
    BY <1>3 DEF Enlist, Strike, OtherRoster, OpenSubmissions, Answer, OtherAnswer
  <2>2. on' \in {on, TRUE, FALSE} /\ done' \in {done, TRUE}
    BY <1>3 DEF Enlist, Strike, OtherRoster, OpenSubmissions, Answer, OtherAnswer
  <2>3. on' \in BOOLEAN /\ done' \in BOOLEAN
    BY <2>2 DEF ViewTypeOK
  <2>4. ~ mine
    BY <2>1 DEF ViewTypeOK
  <2> QED BY <2>1, <2>3, <2>4 DEF ViewTypeOK, Phase
<1>4. CASE Perform \/ Turn
  <2>1. mine' \in {FALSE, on} /\ phase' = "performing" /\ UNCHANGED <<on, done>>
    BY <1>4 DEF Perform, Turn
  <2>2. mine' \in BOOLEAN
    BY <2>1 DEF ViewTypeOK
  <2> QED BY <2>1, <2>2 DEF ViewTypeOK, Phase
<1>5. CASE Close
  BY <1>5 DEF ViewTypeOK, Phase, Close
<1>6. CASE Reopen
  BY <1>6 DEF ViewTypeOK, Phase, Reopen
<1> QED BY <1>1, <1>2, <1>3, <1>4, <1>5, <1>6 DEF ViewNext

-----------------------------------------------------------------------------
(* Sequences *)

\* The rest of a sequence.
LEMMA TailFacts ==
  ASSUME NEW S, NEW s \in Seq(S), s # <<>>
  PROVE  /\ Tail(s) \in Seq(S) /\ 1 \in DOMAIN s /\ Head(s) = s[1] /\ Head(s) \in S
         /\ \A k \in DOMAIN Tail(s) : k + 1 \in DOMAIN s /\ Tail(s)[k] = s[k + 1]
         /\ \A k \in DOMAIN s : k # 1 => k - 1 \in DOMAIN Tail(s) /\ Tail(s)[k - 1] = s[k]
         /\ DOMAIN s \subseteq Nat /\ DOMAIN Tail(s) \subseteq Nat
         /\ Len(Tail(s)) = Len(s) - 1
  OBVIOUS

\* A sequence with one more element.
LEMMA AppendFacts ==
  ASSUME NEW S, NEW s \in Seq(S), NEW e \in S
  PROVE  /\ Append(s, e) \in Seq(S)
         /\ \A k \in DOMAIN Append(s, e) :
              (k \in DOMAIN s /\ Append(s, e)[k] = s[k]) \/ Append(s, e)[k] = e
         /\ \A k \in DOMAIN s : k \in DOMAIN Append(s, e) /\ Append(s, e)[k] = s[k]
         /\ \E k \in DOMAIN Append(s, e) : Append(s, e)[k] = e
<1>1. Len(s) + 1 \in DOMAIN Append(s, e) /\ Append(s, e)[Len(s) + 1] = e
  OBVIOUS
<1> QED BY <1>1

\* Two sequences, one after the other.
LEMMA ConcatFacts ==
  ASSUME NEW S, NEW s \in Seq(S), NEW t \in Seq(S)
  PROVE  /\ s \o t \in Seq(S) /\ Len(s \o t) = Len(s) + Len(t)
         /\ \A k \in DOMAIN (s \o t) :
              \/ k \in DOMAIN s /\ (s \o t)[k] = s[k]
              \/ k - Len(s) \in DOMAIN t /\ (s \o t)[k] = t[k - Len(s)]
         /\ \A k \in DOMAIN s : k \in DOMAIN (s \o t) /\ (s \o t)[k] = s[k]
         /\ \A k \in DOMAIN t : k + Len(s) \in DOMAIN (s \o t) /\ (s \o t)[k + Len(s)] = t[k]
         /\ DOMAIN s = 1 .. Len(s) /\ DOMAIN t = 1 .. Len(t)
         /\ DOMAIN (s \o t) = 1 .. Len(s) + Len(t)
         /\ Len(s) \in Nat /\ Len(t) \in Nat
  OBVIOUS

\* q holds some of the last elements of s, and then all of t.
EndsWith(q, s, t) ==
  \E n \in Nat :
    /\ \A k \in DOMAIN q :
         \/ k <= n /\ \E j \in DOMAIN s : q[k] = s[j]
         \/ k > n /\ k - n \in DOMAIN t /\ q[k] = t[k - n]
    /\ \A j \in DOMAIN t : n + j \in DOMAIN q /\ q[n + j] = t[j]

\* A buffer keeps all of what has come last, if that fits.
LEMMA RetainedFacts ==
  ASSUME NEW S, NEW s \in Seq(S), NEW t \in Seq(S), Len(t) <= BufferCap
  PROVE  /\ Retained(s \o t) \in Seq(S) /\ Len(Retained(s \o t)) <= BufferCap
         /\ EndsWith(Retained(s \o t), s, t)
<1> DEFINE u == s \o t
           c == IF Len(u) > BufferCap THEN Len(u) - BufferCap ELSE 0
           r == SubSeq(u, c + 1, Len(u))
<1>0. BufferCap \in Nat
  BY ClientAssumption
<1>1. /\ u \in Seq(S) /\ Len(u) = Len(s) + Len(t) /\ Len(s) \in Nat /\ Len(t) \in Nat
      /\ \A k \in 1 .. Len(s) : u[k] = s[k]
      /\ \A k \in 1 .. Len(t) : u[k + Len(s)] = t[k]
      /\ DOMAIN s = 1 .. Len(s) /\ DOMAIN t = 1 .. Len(t)
  BY ConcatFacts
<1>2. c \in Nat /\ c <= Len(s) /\ Len(u) - c <= BufferCap
  BY <1>0, <1>1
<1>3. /\ r \in Seq(S) /\ Len(r) = Len(u) - c
      /\ \A i \in 1 .. Len(u) - c : r[i] = u[c + i]
  <2>1. \A i \in c + 1 .. Len(u) : u[i] \in S
    BY <1>1, <1>2
  <2>2. /\ SubSeq(u, c + 1, Len(u)) \in Seq(S)
        /\ Len(SubSeq(u, c + 1, Len(u)))
             = IF c + 1 <= Len(u) THEN Len(u) - (c + 1) + 1 ELSE 0
        /\ \A i \in 1 .. Len(u) - (c + 1) + 1 :
             SubSeq(u, c + 1, Len(u))[i] = u[(c + 1) + i - 1]
    <3> HIDE DEF u, c
    <3> QED BY <1>1, <1>2, <2>1, SubSeqProperties
  <2> HIDE DEF u, c
  <2> QED BY <1>1, <1>2, <2>2
<1>4. Retained(s \o t) = r
  BY <1>0, <1>1 DEF Retained
<1> DEFINE n == Len(s) - c
<1>5. n \in Nat /\ DOMAIN r = 1 .. n + Len(t)
  BY <1>1, <1>2, <1>3
<1>6. \A k \in DOMAIN r : \/ k <= n /\ \E j \in DOMAIN s : r[k] = s[j]
                          \/ k > n /\ k - n \in DOMAIN t /\ r[k] = t[k - n]
  <2> HIDE DEF r, u, c
  <2> TAKE k \in DOMAIN r
  <2>1. CASE k <= n
    <3>1. c + k \in 1 .. Len(s) /\ r[k] = u[c + k]
      BY <1>1, <1>2, <1>3, <1>5, <2>1
    <3> QED BY <1>1, <2>1, <3>1
  <2>2. CASE k > n
    <3>1. k - n \in 1 .. Len(t) /\ r[k] = u[(k - n) + Len(s)]
      BY <1>1, <1>2, <1>3, <1>5, <2>2
    <3> QED BY <1>1, <2>2, <3>1
  <2> QED BY <1>5, <2>1, <2>2
<1>7. \A j \in DOMAIN t : n + j \in DOMAIN r /\ r[n + j] = t[j]
  <2> HIDE DEF r, u, c
  <2> TAKE j \in DOMAIN t
  <2>1. n + j \in DOMAIN r /\ r[n + j] = u[j + Len(s)]
    BY <1>1, <1>2, <1>3, <1>5
  <2> QED BY <1>1, <2>1
<1>8. Len(r) <= BufferCap
  BY <1>2, <1>3
<1> HIDE DEF r, n
<1>9. EndsWith(r, s, t)
  BY <1>5, <1>6, <1>7 DEF EndsWith
<1> QED BY <1>3, <1>4, <1>8, <1>9

\* Messages keep their order and what they say when they are sent.
LEMMA TaggedFacts ==
  ASSUME NEW msgs \in Seq(Body), NEW r \in Round
  PROVE  /\ Tagged(msgs, r) \in Seq(Msg) /\ Len(Tagged(msgs, r)) = Len(msgs)
         /\ DOMAIN Tagged(msgs, r) = DOMAIN msgs
         /\ \A k \in DOMAIN msgs :
              Tagged(msgs, r)[k].body = msgs[k] /\ Tagged(msgs, r)[k].round = r
<1> DEFINE t == Tagged(msgs, r)
<1>1. t = [k \in 1 .. Len(msgs) |-> [body |-> msgs[k], round |-> r]] /\ Len(msgs) \in Nat
  BY DEF Tagged
<1>2. \A k \in 1 .. Len(msgs) : [body |-> msgs[k], round |-> r] \in Msg
  BY DEF Msg
<1>3. t \in Seq(Msg) /\ Len(t) = Len(msgs)
  BY <1>1, <1>2
<1> QED BY <1>1, <1>3

-----------------------------------------------------------------------------
(* What the actor sends *)

USE DEF clientVars, wireVars

\* What the replies to a join tell.
JoinTold ==
  /\ JoinReplies \in Seq(Body) /\ JoinReplies # <<>> /\ JoinReplies[1] = joined
  /\ \A k \in DOMAIN JoinReplies : JoinReplies[k] \in Words \cup {joined, assignment}
  /\ \E k \in DOMAIN JoinReplies : JoinReplies[k] = RoomState
  /\ phase = "performing" => \E k \in DOMAIN JoinReplies : JoinReplies[k] = SlideChanged
  /\ phase = "collecting" /\ on => \E k \in DOMAIN JoinReplies : JoinReplies[k] = assignment

\* The join is acknowledged first; then comes the present state.
LEMMA JoinRepliesTold == ViewTypeOK => JoinTold
<1> SUFFICES ASSUME ViewTypeOK PROVE JoinTold
  OBVIOUS
<1>1. /\ joined \in Body /\ assignment \in Body
      /\ RoomState \in Body /\ Progress \in Body /\ SlideChanged \in Body
  BY WordsAreTrue DEF WordsTrue, Words, Body, joined, assignment
<1>2. RoomState \in Words /\ Progress \in Words /\ SlideChanged \in Words
  BY DEF Words
<1> DEFINE s == <<joined, RoomState, Progress>>
           asg == IF phase = "collecting" /\ on THEN <<assignment>> ELSE <<>>
           sld == IF phase = "performing" THEN <<SlideChanged>> ELSE <<>>
<1> HIDE DEF joined, assignment, RoomState, Progress, SlideChanged, Words, Body
<1>3. /\ s \in Seq(Body) /\ Len(s) = 3 /\ s[1] = joined /\ s[2] = RoomState /\ s[3] = Progress
      /\ \A k \in DOMAIN s : k \in {1, 2, 3}
      /\ 1 \in DOMAIN s /\ 2 \in DOMAIN s
  BY <1>1
<1>4. /\ asg \in Seq(Body) /\ \A k \in DOMAIN asg : asg[k] = assignment
      /\ phase = "collecting" /\ on => 1 \in DOMAIN asg
  BY <1>1
<1>5. /\ sld \in Seq(Body) /\ \A k \in DOMAIN sld : sld[k] = SlideChanged
      /\ phase = "performing" => 1 \in DOMAIN sld
  BY <1>1
<1>6. JoinReplies = (s \o asg) \o sld
  BY DEF JoinReplies
<1> HIDE DEF s, asg, sld
<1> DEFINE r == s \o asg
<1>7. /\ r \in Seq(Body)
      /\ \A k \in DOMAIN r : r[k] \in Words \cup {joined, assignment}
      /\ 1 \in DOMAIN r /\ r[1] = joined /\ 2 \in DOMAIN r /\ r[2] = RoomState
      /\ phase = "collecting" /\ on => \E k \in DOMAIN r : r[k] = assignment
  BY <1>2, <1>3, <1>4, ConcatFacts
<1> HIDE DEF r
<1>8. JoinReplies = r \o sld
  BY <1>6 DEF r
<1>9. /\ JoinReplies \in Seq(Body)
      /\ \A k \in DOMAIN JoinReplies : JoinReplies[k] \in Words \cup {joined, assignment}
      /\ \A k \in DOMAIN r : k \in DOMAIN JoinReplies /\ JoinReplies[k] = r[k]
      /\ \A k \in DOMAIN sld : \E l \in DOMAIN JoinReplies : JoinReplies[l] = sld[k]
  <2>1. /\ r \o sld \in Seq(Body)
        /\ \A k \in DOMAIN (r \o sld) :
              \/ k \in DOMAIN r /\ (r \o sld)[k] = r[k]
              \/ k - Len(r) \in DOMAIN sld /\ (r \o sld)[k] = sld[k - Len(r)]
        /\ \A k \in DOMAIN r : k \in DOMAIN (r \o sld) /\ (r \o sld)[k] = r[k]
        /\ \A k \in DOMAIN sld :
              k + Len(r) \in DOMAIN (r \o sld) /\ (r \o sld)[k + Len(r)] = sld[k]
    BY <1>5, <1>7, ConcatFacts
  <2> HIDE DEF JoinReplies
  <2>2. \A k \in DOMAIN (r \o sld) : (r \o sld)[k] \in Words \cup {joined, assignment}
    BY <1>2, <1>5, <1>7, <2>1
  <2> QED BY <1>8, <2>1, <2>2
<1> HIDE DEF JoinReplies
<1>10. JoinReplies # <<>>
  BY <1>7, <1>9
<1> QED BY <1>5, <1>7, <1>9, <1>10 DEF JoinTold

\* A stream with the state of a room, and with its slide if it performs, speaks
\* of everything.
LEMMA StateSpeaks ==
  ASSUME NEW a \in Shown, NEW msgs, NEW p,
         \E k \in DOMAIN msgs : msgs[k].body.type = "room_state" /\ msgs[k].body.phase = p,
         p = "performing" => \E k \in DOMAIN msgs : msgs[k].body.type = "slide_changed"
  PROVE  Spoken(a, msgs)
<1>1. CASE a \in {"phase", "submitted"}
  BY <1>1 DEF Spoken, Speaks
<1>2. CASE a = "controller" /\ p # "performing"
  BY <1>2 DEF Spoken, Speaks
<1>3. CASE a = "controller" /\ p = "performing"
  BY <1>3 DEF Spoken, Speaks
<1> QED BY <1>1, <1>2, <1>3 DEF Shown

\* An empty reaction leaves the buffer as it is.
LEMMA NothingSent ==
  ASSUME NEW S, NEW s \in Seq(S), Len(s) <= BufferCap, NEW r
  PROVE  Retained(s \o Tagged(<<>>, r)) = s
<1>1. Tagged(<<>>, r) = <<>>
  BY DEF Tagged
<1>2. s \o <<>> = s
  BY ConcatEmptySeq
<1>3. Retained(s) = SubSeq(s, 1, Len(s))
  <2>1. ~ (Len(s) > BufferCap)
    BY ClientAssumption
  <2> QED BY <2>1 DEF Retained
<1>4. SubSeq(s, 1, Len(s)) = s
  BY SubSeqFull
<1> QED BY <1>1, <1>2, <1>3, <1>4

\* What a command sends to all: nothing when nothing has changed, and else
\* messages that say the new state, whatever was left behind in the buffer.
LEMMA SentEvents ==
  ASSUME ViewTypeOK, ViewTypeOK', WireTypeOK, Len(events) <= BufferCap, Subscribed,
         ViewNext, round' \in Round, NEW replies, Send(replies)
  PROVE  /\ events' \in Seq(Msg) /\ Len(events') <= BufferCap
         /\ heard' = <<>> => events' = events
         /\ heard' # <<>> =>
              \A a \in Shown : Spoken(a, events') /\ TrueInTheEnd(a, events)'
         /\ \A k \in DOMAIN events' :
              \/ \E j \in DOMAIN events : events'[k] = events[j]
              \/ events'[k].round = round' /\ events'[k].body \in Words'
<1>1. events' = Retained(events \o Tagged(heard', round'))
  BY DEF Send
<1>2. events \in Seq(Msg)
  BY DEF WireTypeOK
<1>3. CASE heard' = <<>>
  <2>1. events' = events
    BY <1>1, <1>2, <1>3, NothingSent
  <2> QED BY <1>2, <1>3, <2>1
<1>4. CASE heard' # <<>>
  <2>1. /\ heard' \in Seq(Words') /\ Len(heard') <= 3
        /\ \E k \in DOMAIN heard' : heard'[k] = RoomState'
        /\ phase' = "performing" => \E k \in DOMAIN heard' : heard'[k] = SlideChanged'
    BY <1>4, HeardWords
  <2>2. \A m \in Words' :
          /\ m \in Body
          /\ \A a \in Shown : Speaks(a, m) => Says(a, m) = Truth(a)'
    <3>1. WordsTrue'
      BY WordsAreTrue, PTL
    <3> QED BY <3>1 DEF WordsTrue
  <2> DEFINE t == Tagged(heard', round')
  <2>3. heard' \in Seq(Body) /\ \A k \in DOMAIN heard' : heard'[k] \in Words'
    BY <2>1, <2>2
  <2>4. /\ t \in Seq(Msg) /\ Len(t) <= 3 /\ DOMAIN t = DOMAIN heard'
        /\ \A k \in DOMAIN t : t[k].body = heard'[k] /\ t[k].round = round'
    BY <2>1, <2>3, TaggedFacts
  <2>5. Len(t) <= BufferCap
    BY <2>4, ClientAssumption
  <2> HIDE DEF t
  <2>6. /\ events' \in Seq(Msg) /\ Len(events') <= BufferCap
        /\ EndsWith(events', events, t)
    <3>1. events' = Retained(events \o t)
      BY <1>1 DEF t
    <3>2. t \in Seq(Msg)
      BY <2>4
    <3> QED BY <1>2, <2>5, <3>1, <3>2, RetainedFacts
  <2>7. PICK n \in Nat :
             /\ \A k \in DOMAIN events' :
                  \/ k <= n /\ \E j \in DOMAIN events : events'[k] = events[j]
                  \/ k > n /\ k - n \in DOMAIN t /\ events'[k] = t[k - n]
             /\ \A j \in DOMAIN t : n + j \in DOMAIN events' /\ events'[n + j] = t[j]
    BY <2>6 DEF EndsWith
  <2>8. \A k \in DOMAIN events' :
              \/ \E j \in DOMAIN events : events'[k] = events[j]
              \/ events'[k].round = round' /\ events'[k].body \in Words'
    BY <2>3, <2>4, <2>7
  <2>9. ASSUME NEW a \in Shown
        PROVE  Spoken(a, events') /\ TrueInTheEnd(a, events)'
    <3>1. \E k \in DOMAIN t : t[k].body.type = "room_state" /\ t[k].body.phase = phase'
      BY <2>1, <2>4 DEF RoomState
    <3>2. phase' = "performing" => \E k \in DOMAIN t : t[k].body.type = "slide_changed"
      BY <2>1, <2>4 DEF SlideChanged
    <3>3. PICK j \in DOMAIN t : Speaks(a, t[j].body)
      BY <3>1, <3>2, StateSpeaks DEF Spoken
    <3>4. n + j \in DOMAIN events' /\ events'[n + j] = t[j]
      BY <2>7
    <3>5. Spoken(a, events')
      BY <3>3, <3>4 DEF Spoken
    <3>6. ASSUME NEW k \in DOMAIN events', Speaks(a, events'[k].body)
          PROVE  \/ Says(a, events'[k].body) = Truth(a)'
                 \/ \E l \in DOMAIN events' : l > k /\ Speaks(a, events'[l].body)
      <4>1. CASE k <= n
        <5>1. n + j > k
          <6>1. j \in Nat /\ j > 0 /\ k \in Nat
            BY <2>4, <2>6, <3>3
          <6> QED BY <4>1, <6>1
        <5> QED BY <3>3, <3>4, <5>1
      <4>2. CASE k > n /\ k - n \in DOMAIN t /\ events'[k] = t[k - n]
        <5>1. events'[k].body \in Words'
          BY <2>3, <2>4, <4>2
        <5> QED BY <2>2, <3>6, <5>1
      <4> QED BY <2>7, <4>1, <4>2
    <3> QED BY <3>5, <3>6 DEF TrueInTheEnd
  <2> QED BY <1>4, <2>6, <2>8, <2>9
<1> QED BY <1>3, <1>4
-----------------------------------------------------------------------------
(* The actor's steps *)

\* What a step of the actor does: it changes the room, or a room it does not
\* change, and tells it; and it leaves the page alone.  A join it takes is
\* answered in full; before the acknowledgement only the join is answered.
Reacts(replies) ==
  /\ ViewNext /\ Send(replies)
  /\ round' \in Round /\ round <= round'
  /\ round' = round /\ phase # "lobby" => phase' # "lobby"
  /\ UNCHANGED <<alive, link, session, page, connects>>
  /\ replies \in Seq(Body)
  /\ \A k \in DOMAIN replies : replies[k] \in Words' \cup {joined, assignment, error}
  /\ outbox' \in Seq(Command) /\ orphans' \in Seq(Command)
  /\ \/ UNCHANGED outbox /\ replies = <<>>
     \/ /\ Subscribed /\ outbox # <<>> /\ outbox' = Tail(outbox)
        /\ outbox[1].type = "join" => replies = JoinReplies'

\* The direct channel after a step of the actor.
LEMMA SentDirect ==
  ASSUME ClientInv, NEW replies, Reacts(replies), Subscribed
  PROVE  /\ direct' \in Seq(Msg)
         /\ \A k \in DOMAIN direct : k \in DOMAIN direct' /\ direct'[k] = direct[k]
         /\ \A k \in DOMAIN direct' :
              \/ k \in DOMAIN direct
              \/ /\ direct'[k].round = round'
                 /\ \E j \in DOMAIN replies : direct'[k].body = replies[j]
                 /\ k \notin DOMAIN direct /\ \A j \in DOMAIN direct : j < k
         /\ \A j \in DOMAIN replies :
              \E k \in DOMAIN direct' : direct'[k].body = replies[j] /\ direct'[k].round = round'
         /\ replies = <<>> => direct' = direct
         /\ direct = <<>> /\ replies # <<>> => direct' # <<>> /\ direct'[1].body = replies[1]
<1> DEFINE t == Tagged(replies, round')
<1>1. direct' = direct \o t
  BY DEF Reacts, Send
<1>2. direct \in Seq(Msg) /\ replies \in Seq(Body) /\ round' \in Round
  BY DEF ClientInv, WireTypeOK, Reacts
<1>3. /\ t \in Seq(Msg) /\ Len(t) = Len(replies) /\ DOMAIN t = DOMAIN replies
      /\ \A k \in DOMAIN replies : t[k].body = replies[k] /\ t[k].round = round'
  BY <1>2, TaggedFacts
<1> HIDE DEF t, Msg, Body
<1> DEFINE u == direct \o t
<1>4. /\ u \in Seq(Msg) /\ Len(u) = Len(direct) + Len(t)
      /\ \A k \in DOMAIN u :
           \/ k \in DOMAIN direct /\ u[k] = direct[k]
           \/ k - Len(direct) \in DOMAIN t /\ u[k] = t[k - Len(direct)]
      /\ \A k \in DOMAIN direct : k \in DOMAIN u /\ u[k] = direct[k]
      /\ \A k \in DOMAIN t : k + Len(direct) \in DOMAIN u /\ u[k + Len(direct)] = t[k]
      /\ DOMAIN direct = 1 .. Len(direct) /\ DOMAIN t = 1 .. Len(t)
      /\ DOMAIN u = 1 .. Len(direct) + Len(t)
      /\ Len(direct) \in Nat /\ Len(t) \in Nat
  <2>1. direct \in Seq(Msg) /\ t \in Seq(Msg)
    BY <1>2, <1>3
  <2> QED BY ONLY <2>1, ConcatFacts
<1>5. direct' = u
  BY <1>1
<1> HIDE DEF u
<1>6. ASSUME NEW k \in DOMAIN u
      PROVE  \/ k \in DOMAIN direct
             \/ /\ u[k].round = round'
                /\ \E j \in DOMAIN replies : u[k].body = replies[j]
                /\ k \notin DOMAIN direct /\ \A j \in DOMAIN direct : j < k
  <2>1. CASE k \in DOMAIN direct
    BY <2>1
  <2>2. CASE k \notin DOMAIN direct
    <3>1. k - Len(direct) \in DOMAIN replies /\ u[k] = t[k - Len(direct)]
      BY <1>3, <1>4, <2>2
    <3>2. \A j \in DOMAIN direct : j < k
      BY <1>4, <2>2
    <3> QED BY <1>3, <2>2, <3>1, <3>2
  <2> QED BY <2>1, <2>2
<1>7. ASSUME NEW j \in DOMAIN replies
      PROVE  \E k \in DOMAIN u : u[k].body = replies[j] /\ u[k].round = round'
  BY <1>3, <1>4
<1>8. replies = <<>> => u = direct
  <2>1. replies = <<>> => t = <<>>
    BY <1>2 DEF t, Tagged
  <2> QED BY <1>2, <2>1, ConcatEmptySeq DEF u
<1>9. ASSUME direct = <<>>, replies # <<>> PROVE u # <<>> /\ u[1].body = replies[1]
  <2>1. 1 \in DOMAIN replies /\ Len(direct) = 0
    BY <1>2, <1>9
  <2>2. 1 \in DOMAIN u /\ u[1] = t[1]
    BY <1>3, <1>4, <2>1
  <2> QED BY <1>3, <2>1, <2>2
<1> QED BY <1>4, <1>5, <1>6, <1>7, <1>8, <1>9

\* Nothing is sent to a connection that is not there yet, or no longer.
LEMMA SentNowhere ==
  ASSUME ClientInv, NEW replies, Reacts(replies), ~ Subscribed
  PROVE  events = <<>> /\ direct = <<>> /\ UNCHANGED <<events, direct>>
BY DEF ClientInv, ClientTypeOK, Reacts, Send

\* More messages leave the last word true when what they say is.
LEMMA StillTrue ==
  ASSUME NEW a, NEW s, NEW t,
         TrueInTheEnd(a, s),
         \A k \in DOMAIN s : k \in DOMAIN t /\ t[k] = s[k],
         \A k \in DOMAIN t :
           k \in DOMAIN s \/ (Speaks(a, t[k].body) => Says(a, t[k].body) = Truth(a))
  PROVE  TrueInTheEnd(a, t)
<1> SUFFICES ASSUME NEW k \in DOMAIN t, Speaks(a, t[k].body)
             PROVE  \/ Says(a, t[k].body) = Truth(a)
                    \/ \E l \in DOMAIN t : l > k /\ Speaks(a, t[l].body)
  BY DEF TrueInTheEnd
<1> QED BY DEF TrueInTheEnd

\* The types after a step of the actor.
LEMMA ReactsTypes ==
  ASSUME ClientInv, NEW replies, Reacts(replies)
  PROVE  ViewTypeOK' /\ WireTypeOK' /\ ClientTypeOK'
<1>1. ViewTypeOK'
  BY ViewTyped DEF ClientInv, Reacts
<1>2. WireTypeOK' /\ Len(events') <= BufferCap
  <2>1. CASE Subscribed
    <3>1. events' \in Seq(Msg) /\ Len(events') <= BufferCap
      BY <1>1, <2>1, SentEvents DEF ClientInv, ClientTypeOK, Reacts
    <3>2. direct' \in Seq(Msg)
      BY <2>1, SentDirect
    <3> QED BY <3>1, <3>2 DEF WireTypeOK, Reacts
  <2>2. CASE ~ Subscribed
    BY <2>2, SentNowhere DEF ClientInv, ClientTypeOK, WireTypeOK, Reacts
  <2> QED BY <2>1, <2>2
<1>3. (~ Subscribed => events = <<>> /\ direct = <<>>)'
  BY SentNowhere DEF Reacts, Subscribed
<1>4. (link = "closed" => outbox = <<>>)'
  BY DEF ClientInv, ClientTypeOK, Reacts, Subscribed
<1>5. (\A cmds \in {outbox, orphans} : \A k \in DOMAIN cmds : cmds[k] \in Command)'
  BY DEF Reacts
<1>6. overtaken' \in BOOLEAN
  BY DEF ClientInv, ClientTypeOK, Reacts, Send
<1>7. /\ alive' \in BOOLEAN /\ round' \in Round
      /\ link' \in Link /\ session' \in BOOLEAN
      /\ page' \in Page /\ connects' \in 0 .. MaxConnects
  BY DEF ClientInv, ClientTypeOK, Reacts
<1> QED BY <1>1, <1>2, <1>3, <1>4, <1>5, <1>6, <1>7 DEF ClientTypeOK

\* The handshake after a step of the actor.
LEMMA ReactsHandshake ==
  ASSUME ClientInv, NEW replies, Reacts(replies)
  PROVE  Handshake'
<1>1. (link # "open" => ~ overtaken)'
  BY DEF ClientInv, Handshake, Reacts, Send
<1>2. (link = "opening" => outbox = <<[type |-> "join"]>>)'
  BY DEF ClientInv, Handshake, Reacts, Subscribed
<1>3. ASSUME link = "joining"
      PROVE  \/ outbox' = <<[type |-> "join"]>> /\ direct' = <<>>
             \/ outbox' = <<>> /\ direct' # <<>> /\ direct'[1].body = joined
  <2>1. Subscribed
    BY <1>3 DEF Subscribed
  <2>2. CASE UNCHANGED outbox /\ replies = <<>>
    <3>1. direct' = direct
      BY <2>1, <2>2, SentDirect
    <3> QED BY <1>3, <2>2, <3>1 DEF ClientInv, Handshake
  <2>3. CASE outbox # <<>> /\ outbox' = Tail(outbox)
               /\ (outbox[1].type = "join" => replies = JoinReplies')
    <3>1. outbox = <<[type |-> "join"]>> /\ direct = <<>>
      BY <1>3, <2>3 DEF ClientInv, Handshake
    <3>2. outbox' = <<>> /\ outbox[1].type = "join"
      BY <2>3, <3>1
    <3>3. replies # <<>> /\ replies[1] = joined
      <4>1. replies = JoinReplies' /\ ViewTypeOK'
        BY <2>3, <3>2, ReactsTypes
      <4>2. JoinTold'
        BY <4>1, JoinRepliesTold, PTL
      <4> QED BY <4>1, <4>2 DEF JoinTold
    <3>4. direct' # <<>> /\ direct'[1].body = joined
      BY <2>1, <3>1, <3>3, SentDirect
    <3> QED BY <3>2, <3>4
  <2> QED BY <2>2, <2>3 DEF Reacts
<1>4. (link \in {"opening", "joining"} => page.asked = 0)'
  BY DEF ClientInv, Handshake, Reacts
<1>5. link' = link
  BY DEF Reacts
<1> QED BY <1>1, <1>2, <1>3, <1>4, <1>5 DEF Handshake

\* What the page shows still follows the room after a step of the actor.
LEMMA ReactsMatch ==
  ASSUME ClientInv, NEW replies, Reacts(replies)
  PROVE  MatchInv'
<1> SUFFICES ASSUME NEW a \in Shown
             PROVE  /\ TrueInTheEnd(a, events)'
                    /\ ((link = "open" \/ direct # <<>>) /\ ~ overtaken => Follows(a))'
  BY DEF MatchInv
<1>1. CASE ~ Subscribed
  <2>1. events' = <<>> /\ direct' = <<>> /\ link' # "open"
    BY <1>1, SentNowhere DEF Reacts, Subscribed
  <2> QED BY <2>1 DEF TrueInTheEnd
<1>2. CASE Subscribed /\ heard' # <<>>
  <2>1. Spoken(a, events') /\ TrueInTheEnd(a, events)'
    BY <1>2, ReactsTypes, SentEvents DEF ClientInv, ClientTypeOK, Reacts
  <2>2. Spoken(a, events)'
    BY <2>1 DEF Spoken
  <2> QED BY <2>1, <2>2 DEF Follows
<1>3. CASE Subscribed /\ heard' = <<>>
  <2>1. events' = events
    BY <1>3, ReactsTypes, SentEvents DEF ClientInv, ClientTypeOK, Reacts
  <2>2. UNCHANGED <<phase, on, done, mine>>
    BY <1>3 DEF Reacts, ViewNext, Unheard, Enlist, Strike, OtherRoster, OpenSubmissions,
                Answer, OtherAnswer, Perform, Turn, Close, Reopen
  <2>3. Truth(a)' = Truth(a)
    BY <2>2 DEF Truth
  <2>4. TrueInTheEnd(a, events)'
    BY <2>1, <2>3 DEF ClientInv, MatchInv, TrueInTheEnd
  <2>5. ASSUME link' = "open" \/ direct' # <<>>, ~ overtaken', ~ Spoken(a, events)
        PROVE  TrueInTheEnd(a, direct)' /\ (Spoken(a, direct)' \/ page'[a] = Truth(a)')
    <3>1. ~ overtaken /\ page' = page /\ link' = link
      BY <1>3, <2>5 DEF Reacts, Send
    <3>2. ViewTypeOK'
      BY ReactsTypes
    <3>3. WordsTrue' /\ JoinTold'
      BY <3>2, WordsAreTrue, JoinRepliesTold, PTL
    <3>4. \A k \in DOMAIN replies :
            Speaks(a, replies[k]) => Says(a, replies[k]) = Truth(a)
      <4>1. \A b \in {joined, assignment, error} : ~ Speaks(a, b)
        BY DEF joined, assignment, error, Speaks
      <4>2. \A b \in Words' : Speaks(a, b) => Says(a, b) = Truth(a)
        BY <2>3, <3>3 DEF WordsTrue
      <4> QED BY <4>1, <4>2 DEF Reacts
    <3>5. /\ \A k \in DOMAIN direct : k \in DOMAIN direct' /\ direct'[k] = direct[k]
          /\ \A k \in DOMAIN direct' :
               k \in DOMAIN direct
                 \/ (Speaks(a, direct'[k].body) => Says(a, direct'[k].body) = Truth(a))
      BY <1>3, <3>4, SentDirect
    <3>6. CASE link = "open" \/ direct # <<>>
      <4>1. TrueInTheEnd(a, direct) /\ (Spoken(a, direct) \/ page[a] = Truth(a))
        BY <2>5, <3>1, <3>6 DEF ClientInv, MatchInv, Follows
      <4>2. TrueInTheEnd(a, direct')
        BY <3>5, <4>1, StillTrue
      <4>3. TrueInTheEnd(a, direct)'
        BY <2>3, <4>2 DEF TrueInTheEnd
      <4>4. Spoken(a, direct) => Spoken(a, direct)'
        BY <3>5 DEF Spoken
      <4> QED BY <2>3, <3>1, <4>1, <4>3, <4>4
    <3>7. CASE link # "open" /\ direct = <<>>
      <4>1. TrueInTheEnd(a, direct)'
        <5>1. TrueInTheEnd(a, <<>>)
          BY DEF TrueInTheEnd
        <5>2. TrueInTheEnd(a, direct')
          BY <3>5, <3>7, <5>1, StillTrue
        <5> QED BY <2>3, <5>2 DEF TrueInTheEnd
      <4>2. link = "joining" /\ outbox = <<[type |-> "join"]>>
        BY <1>3, <3>7 DEF ClientInv, Handshake, Subscribed
      <4>3. replies # <<>>
        BY <1>3, <2>5, <3>1, <3>7, SentDirect
      <4>4. replies = JoinReplies'
        BY <4>2, <4>3 DEF Reacts
      <4>5. \E k \in DOMAIN direct' :
              direct'[k].body.type = "room_state" /\ direct'[k].body.phase = phase'
        <5>1. \E j \in DOMAIN replies :
                replies[j].type = "room_state" /\ replies[j].phase = phase'
          BY <3>3, <4>4 DEF JoinTold, RoomState
        <5> QED BY <1>3, <5>1, SentDirect
      <4>6. ASSUME phase' = "performing"
            PROVE  \E k \in DOMAIN direct' : direct'[k].body.type = "slide_changed"
        <5>1. \E j \in DOMAIN replies : replies[j].type = "slide_changed"
          BY <3>3, <4>4, <4>6 DEF JoinTold, SlideChanged
        <5> QED BY <1>3, <5>1, SentDirect
      <4>7. Spoken(a, direct')
        BY <4>5, <4>6, StateSpeaks
      <4> QED BY <4>1, <4>7 DEF Spoken
    <3> QED BY <3>6, <3>7
  <2>6. Spoken(a, events)' = Spoken(a, events)
    BY <2>1 DEF Spoken
  <2> QED BY <2>4, <2>5, <2>6 DEF Follows
<1> QED BY <1>1, <1>2, <1>3

\* Nothing comes from the future after a step of the actor.
LEMMA ReactsPast ==
  ASSUME ClientInv, NEW replies, Reacts(replies)
  PROVE  PastInv'
<1>1. round' \in Nat /\ round \in Nat /\ round <= round'
  BY DEF ClientInv, ClientTypeOK, Round, Reacts
<1>2. ASSUME NEW m \in Msg, Past(m) PROVE PastOf(m, round', phase')
  <2>1. m.round \in Nat
    BY DEF Msg, Round
  <2> QED BY <1>1, <1>2, <2>1 DEF Past, PastOf, Reacts
<1>3. ASSUME NEW m, m.round = round', m.body \in Words' \cup {joined, assignment, error}
      PROVE  PastOf(m, round', phase')
  <2>1. m.body.type = "room_state" => m.body.phase = phase'
    BY <1>3 DEF Words, RoomState, Progress, SlideChanged, GameStarted, joined, assignment, error
  <2> QED BY <1>1, <1>3, <2>1 DEF PastOf
<1>4. CASE Subscribed
  <2>1. events \in Seq(Msg) /\ direct \in Seq(Msg)
    BY DEF ClientInv, WireTypeOK
  <2>2. \A k \in DOMAIN events : events[k] \in Msg /\ Past(events[k])
    BY <2>1 DEF ClientInv, PastInv
  <2>3. \A k \in DOMAIN direct : direct[k] \in Msg /\ Past(direct[k])
    BY <2>1 DEF ClientInv, PastInv
  <2>4. ASSUME NEW k \in DOMAIN events' PROVE PastOf(events'[k], round', phase')
    <3>1. \/ \E j \in DOMAIN events : events'[k] = events[j]
          \/ events'[k].round = round' /\ events'[k].body \in Words'
      BY <1>4, ReactsTypes, SentEvents DEF ClientInv, ClientTypeOK, Reacts
    <3> QED BY <1>2, <1>3, <2>2, <3>1
  <2>5. ASSUME NEW k \in DOMAIN direct' PROVE PastOf(direct'[k], round', phase')
    <3>1. CASE k \in DOMAIN direct
      BY <1>2, <1>4, <2>3, <3>1, SentDirect
    <3>2. CASE k \notin DOMAIN direct
      <4>1. /\ direct'[k].round = round'
            /\ \E j \in DOMAIN replies : direct'[k].body = replies[j]
        BY <1>4, <3>2, SentDirect
      <4> QED BY <1>3, <4>1 DEF Reacts
    <3> QED BY <3>1, <3>2
  <2>6. /\ page' = page /\ page.asked \in Nat /\ page.form \in Nat
    BY DEF Reacts, ClientInv, ClientTypeOK, Page
  <2> QED BY <1>1, <2>4, <2>5, <2>6 DEF ClientInv, PastInv, Past, PastOf, Reacts
<1>5. CASE ~ Subscribed
  <2>1. events' = <<>> /\ direct' = <<>>
    BY <1>5, SentNowhere
  <2>2. /\ page' = page /\ page.asked \in Nat /\ page.form \in Nat
    BY DEF Reacts, ClientInv, ClientTypeOK, Page
  <2> QED BY <1>1, <2>1, <2>2 DEF ClientInv, PastInv, Past, PastOf, Reacts
<1> QED BY <1>4, <1>5

\* The assignments keep the order of their rounds after a step of the actor.
LEMMA ReactsForm ==
  ASSUME ClientInv, NEW replies, Reacts(replies)
  PROVE  FormInv'
<1>1. /\ round' \in Nat /\ round \in Nat /\ round <= round'
      /\ page.form \in Nat /\ page.form <= round
  BY DEF ClientInv, ClientTypeOK, Page, PastInv, Round, Reacts
<1>2. page' = page
  BY DEF Reacts
<1>3. CASE ~ Subscribed
  BY <1>2, <1>3, SentNowhere DEF ClientInv, FormInv
<1>4. CASE Subscribed
  <2>0. ASSUME NEW k \in DOMAIN events' PROVE events'[k].body # assignment
    <3>1. assignment \notin Words'
      BY DEF assignment, Words, RoomState, Progress, SlideChanged, GameStarted
    <3>2. \/ \E j \in DOMAIN events : events'[k] = events[j]
          \/ events'[k].body \in Words'
      BY <1>4, ReactsTypes, SentEvents DEF ClientInv, ClientTypeOK, Reacts
    <3> QED BY <3>1, <3>2 DEF ClientInv, FormInv
  <2>1. \A k \in DOMAIN direct : direct[k].round \in Nat /\ direct[k].round <= round
    <3>1. direct \in Seq(Msg)
      BY DEF ClientInv, WireTypeOK
    <3>2. \A k \in DOMAIN direct : direct[k] \in Msg
      BY <3>1
    <3>3. \A m \in Msg : m.round \in Nat
      BY DEF Msg, Round
    <3> QED BY <3>2, <3>3 DEF ClientInv, PastInv, Past, PastOf
  <2>2. /\ \A k \in DOMAIN direct : k \in DOMAIN direct' /\ direct'[k] = direct[k]
        /\ \A k \in DOMAIN direct' :
             \/ k \in DOMAIN direct
             \/ /\ direct'[k].round = round'
                /\ k \notin DOMAIN direct /\ \A j \in DOMAIN direct : j < k
        /\ direct \in Seq(Msg) /\ direct' \in Seq(Msg)
    BY <1>4, SentDirect DEF ClientInv, WireTypeOK
  <2>3. \A k \in DOMAIN direct' : page.form <= direct'[k].round
    BY <1>1, <2>2 DEF ClientInv, FormInv
  <2>4. ASSUME NEW k \in DOMAIN direct', NEW l \in DOMAIN direct', k < l
        PROVE  direct'[k].round <= direct'[l].round
    <3>0. k \in Int /\ l \in Int
      BY <2>2
    <3>1. CASE l \in DOMAIN direct
      <4>1. k \in DOMAIN direct
        BY <2>2, <2>4, <3>0, <3>1
      <4> QED BY <2>2, <2>4, <3>1, <4>1 DEF ClientInv, FormInv
    <3>2. CASE l \notin DOMAIN direct
      <4>1. direct'[l].round = round'
        BY <2>2, <3>2
      <4>2. CASE k \in DOMAIN direct
        BY <1>1, <2>1, <2>2, <4>1, <4>2
      <4>3. CASE k \notin DOMAIN direct
        BY <1>1, <2>2, <4>1, <4>3
      <4> QED BY <4>2, <4>3
    <3> QED BY <3>1, <3>2
  <2>5. page.prompts # 0 => page.form = page.prompts
    BY DEF ClientInv, FormInv
  <2> QED BY <1>2, <2>0, <2>3, <2>4, <2>5 DEF FormInv
<1> QED BY <1>3, <1>4

\* The request for an assignment is on its way, or answered, after a step of
\* the actor: the roster is not changed while submissions are open.
LEMMA ReactsAsk ==
  ASSUME ClientInv, NEW replies, Reacts(replies)
  PROVE  AskInv'
<1>1. (page.phase = "collecting" => page.asked # 0 \/ page.prompts # 0)'
  BY DEF ClientInv, AskInv, Reacts
<1>2. ASSUME link' = "open", page'.asked = round', phase' = "collecting", on'
      PROVE  \/ page'.form = round'
             \/ \E k \in DOMAIN outbox' : outbox'[k].type = "join"
             \/ \E k \in DOMAIN direct' :
                  direct'[k].body = assignment /\ direct'[k].round = round'
  <2>1. page' = page /\ link = "open" /\ Subscribed
    BY <1>2 DEF Reacts, Subscribed
  <2>2. /\ round' \in Nat /\ round \in Nat /\ round <= round'
        /\ page.asked \in Nat /\ page.asked <= round
    BY DEF ClientInv, ClientTypeOK, Page, PastInv, Round, Reacts
  <2>3. round' = round /\ page.asked = round
    BY <1>2, <2>1, <2>2
  <2>4. phase # "lobby"
    BY <2>3 DEF ClientInv, PastInv
  <2>5. phase = "collecting" /\ on
    BY <1>2, <2>4 DEF Reacts, ViewNext, Unheard, Enlist, Strike, OtherRoster,
          OpenSubmissions, Answer, OtherAnswer, Perform, Turn, Close, Reopen
  <2>6. \/ page.form = round
        \/ \E k \in DOMAIN outbox : outbox[k].type = "join"
        \/ \E k \in DOMAIN direct : direct[k].body = assignment /\ direct[k].round = round
    BY <2>1, <2>3, <2>5 DEF ClientInv, AskInv
  <2>7. CASE page.form = round
    BY <2>1, <2>3, <2>7
  <2>8. CASE \E k \in DOMAIN direct : direct[k].body = assignment /\ direct[k].round = round
    BY <2>1, <2>3, <2>8, SentDirect
  <2>9. ASSUME NEW k \in DOMAIN outbox, outbox[k].type = "join",
               outbox # <<>>, outbox' = Tail(outbox),
               outbox[1].type = "join" => replies = JoinReplies'
        PROVE  \/ \E j \in DOMAIN outbox' : outbox'[j].type = "join"
               \/ \E j \in DOMAIN direct' :
                    direct'[j].body = assignment /\ direct'[j].round = round'
    <3>1. CASE k = 1
      <4>1. ViewTypeOK'
        BY ReactsTypes
      <4>2. JoinTold'
        BY <4>1, JoinRepliesTold, PTL
      <4>3. \E j \in DOMAIN replies : replies[j] = assignment
        BY <1>2, <2>9, <3>1, <4>2 DEF JoinTold, assignment
      <4> QED BY <2>1, <4>3, SentDirect
    <3>2. CASE k # 1
      <4>1. outbox \in Seq(Command)
        BY DEF ClientInv, WireTypeOK
      <4>2. k - 1 \in DOMAIN Tail(outbox) /\ Tail(outbox)[k - 1] = outbox[k]
        BY <2>9, <3>2, <4>1, TailFacts
      <4> QED BY <2>9, <4>2
    <3> QED BY <3>1, <3>2
  <2>10. CASE \E k \in DOMAIN outbox : outbox[k].type = "join"
    BY <2>9, <2>10 DEF Reacts
  <2> QED BY <2>6, <2>7, <2>8, <2>10
<1> QED BY <1>1, <1>2 DEF AskInv

\* A step of the actor keeps the invariant.
LEMMA ReactsInv ==
  ASSUME ClientInv, NEW replies, Reacts(replies)
  PROVE  ClientInv'
<1>1. BoxInv'
  BY DEF ClientInv, BoxInv, Reacts
<1> QED BY <1>1, ReactsTypes, ReactsHandshake, ReactsMatch, ReactsPast, ReactsForm, ReactsAsk
        DEF ClientInv

\* The commands of others are steps of the actor.
LEMMA OthersReact == ClientInv /\ Others => Reacts(<<>>)
<1> SUFFICES ASSUME ClientInv, Others PROVE Reacts(<<>>)
  OBVIOUS
<1>1. ViewNext
  BY DEF Others, ViewNext
<1>2. MaxRounds \in Nat /\ round \in Nat /\ 1 <= round /\ round <= MaxRounds
  BY ClientAssumption DEF ClientInv, ClientTypeOK, Round
<1>3. CASE Reopen /\ round < MaxRounds
  <2>1. round' = round + 1
    BY <1>3 DEF Others, Reopen
  <2>2. round' \in Round /\ round <= round' /\ round' # round
    BY <1>2, <1>3, <2>1 DEF Round
  <2> QED BY <1>1, <2>2 DEF Others, Reacts, ClientInv, WireTypeOK
<1>4. CASE Enlist \/ Strike \/ OtherRoster \/ OpenSubmissions \/ Answer \/ OtherAnswer
             \/ Perform \/ Turn \/ Close
  <2>1. /\ ~ (phase = "archived" /\ phase' = "lobby")
        /\ phase # "lobby" => phase' # "lobby"
    BY <1>4 DEF Enlist, Strike, OtherRoster, OpenSubmissions, Answer, OtherAnswer,
                Perform, Turn, Close
  <2>2. round' = round
    BY <2>1 DEF Others
  <2>3. round' \in Round /\ round <= round'
    BY <1>2, <2>2 DEF Round
  <2> QED BY <1>1, <2>1, <2>3 DEF Others, Reacts, ClientInv, WireTypeOK
<1> QED BY <1>3, <1>4 DEF Others

\* A command of this player is a step of the view that opens no new round.
LEMMA ActView ==
  ASSUME NEW cmd, Act(cmd)
  PROVE  ViewNext /\ (phase # "lobby" => phase' # "lobby")
<1>1. Answer \/ Turn \/ Enlist \/ Unheard
  BY DEF Act, Obey
<1> QED BY <1>1 DEF ViewNext, Answer, Turn, Enlist, Unheard

\* A command of this player, and the replies to it.
LEMMA TakeCommandReacts ==
  ClientInv /\ TakeCommand => Reacts(Replies(Head(outbox)))
<1> SUFFICES ASSUME ClientInv, TakeCommand PROVE Reacts(Replies(Head(outbox)))
  OBVIOUS
<1> DEFINE cmd == Head(outbox)
<1>1. /\ outbox \in Seq(Command) /\ orphans \in Seq(Command) /\ outbox # <<>>
      /\ Tail(outbox) \in Seq(Command) /\ cmd = outbox[1]
  BY TailFacts DEF ClientInv, WireTypeOK, TakeCommand
<1>2. ViewNext /\ (phase # "lobby" => phase' # "lobby")
  BY ActView DEF TakeCommand
<1>3. round' = round /\ round \in Round
  BY DEF TakeCommand, ClientInv, ClientTypeOK
<1>4. round' \in Round /\ round <= round'
  BY <1>3 DEF Round
<1>5. ViewTypeOK'
  BY <1>2, ViewTyped DEF ClientInv
<1>6. JoinTold'
  BY <1>5, JoinRepliesTold, PTL
<1> DEFINE r == Replies(cmd)
<1>7. /\ r \in Seq(Body)
      /\ \A k \in DOMAIN r : r[k] \in Words' \cup {joined, assignment, error}
  <2>1. error \in Body
    BY DEF error, Body
  <2>2. r = <<error>> \/ r = <<>> \/ r = JoinReplies'
    BY DEF Replies
  <2> HIDE DEF r
  <2>3. CASE r = <<error>>
    BY <2>1, <2>3
  <2>4. CASE r = <<>>
    BY <2>4
  <2>5. CASE r = JoinReplies'
    BY <1>6, <2>5 DEF JoinTold
  <2> QED BY <2>2, <2>3, <2>4, <2>5
<1>8. cmd.type = "join" => Replies(cmd) = JoinReplies'
  BY DEF Replies, Accepts
<1>9. Subscribed /\ outbox' = Tail(outbox) /\ Send(Replies(cmd))
        /\ UNCHANGED <<alive, link, orphans, session, page, connects>>
  BY DEF TakeCommand
<1> HIDE DEF cmd
<1> QED BY <1>1, <1>2, <1>3, <1>4, <1>7, <1>8, <1>9 DEF Reacts, cmd

\* What a closed connection had queued.
LEMMA TakeOrphanReacts == ClientInv /\ TakeOrphan => Reacts(<<>>)
<1> SUFFICES ASSUME ClientInv, TakeOrphan PROVE Reacts(<<>>)
  OBVIOUS
<1>1. orphans' \in Seq(Command) /\ outbox \in Seq(Command)
  BY TailFacts DEF ClientInv, WireTypeOK, TakeOrphan
<1>2. ViewNext /\ (phase # "lobby" => phase' # "lobby")
  BY ActView DEF TakeOrphan
<1>3. round' = round /\ round \in Round
  BY DEF TakeOrphan, ClientInv, ClientTypeOK
<1>4. round' \in Round /\ round <= round'
  BY <1>3 DEF Round
<1> QED BY <1>1, <1>2, <1>3, <1>4 DEF TakeOrphan, Reacts
-----------------------------------------------------------------------------
(* The steps of the page and its handler *)

\* What a handler does to the page is what the message says, and nothing else.
PageAfter(m) ==
  /\ page' \in Page
  /\ \A a \in Shown : page'[a] = IF Speaks(a, m.body) THEN Says(a, m.body) ELSE page[a]
  /\ IF m.body = assignment
     THEN page'.form = m.round /\ page'.prompts = m.round
     ELSE page'.form = page.form /\ page'.prompts = page.prompts
  /\ page'.open \/ page'.submitted

\* A page asks for an assignment once, on hearing that submissions are open.
AskAfter(m) ==
  \/ /\ outbox' = Append(outbox, [type |-> "join"])
     /\ page'.asked = m.round
     /\ m.body.type = "room_state" /\ m.body.phase = "collecting"
  \/ /\ outbox' = outbox
     /\ page'.asked = page.asked
     /\ m.body.type = "room_state" /\ m.body.phase = "collecting"
          => page.asked # 0 \/ page.prompts # 0

\* The handlers, one message type after the other.
LEMMA HandleFacts ==
  ASSUME ClientInv, NEW m \in Msg, Handle(m)
  PROVE  PageAfter(m) /\ AskAfter(m)
<1>1. /\ page \in Page /\ (page.open \/ page.submitted)
      /\ m.body \in Body /\ m.round \in Round /\ m.round \in 0 .. MaxRounds
  BY ClientAssumption DEF ClientInv, ClientTypeOK, BoxInv, Msg, Round
<1>2. CASE m.body \in [type : {"room_state"}, phase : Phase, on : BOOLEAN, done : BOOLEAN]
  <2> DEFINE sub == m.body.on /\ m.body.done
             asks == WantsAssignment(page, m.body)
  <2>1. /\ m.body.type = "room_state" /\ m.body.phase \in Phase
        /\ m.body.on \in BOOLEAN /\ m.body.done \in BOOLEAN
    BY <1>2
  <2>2. m.body # assignment
    BY <2>1 DEF assignment
  <2> DEFINE opened == IF ~ sub THEN TRUE ELSE IF page.submitted THEN page.open ELSE FALSE
             entry == [page EXCEPT !.submitted = sub, !.open = opened]
             shown == [entry EXCEPT !.phase = m.body.phase,
                                    !.controller = m.body.phase = "performing" /\ @]
  <2>3. /\ page' = [shown EXCEPT !.asked = IF asks THEN m.round ELSE @]
        /\ outbox' = IF asks THEN Append(outbox, [type |-> "join"]) ELSE outbox
    BY <2>1 DEF Handle, WithRoom, WithEntry
  <2> HIDE DEF asks
  <2>4. /\ page'.phase = m.body.phase /\ page'.submitted = sub
        /\ page'.controller = (m.body.phase = "performing" /\ page.controller)
        /\ page'.open = opened
        /\ page'.form = page.form /\ page'.prompts = page.prompts
        /\ page'.asked = IF asks THEN m.round ELSE page.asked
        /\ page' \in Page
    <3>1. opened \in BOOLEAN /\ sub \in BOOLEAN
      BY <1>1, <2>1 DEF Page
    <3>2. /\ entry \in Page /\ entry.submitted = sub /\ entry.open = opened
          /\ \A x \in {"phase", "prompts", "asked", "controller", "form"} : entry[x] = page[x]
      <4> HIDE DEF opened, sub
      <4> QED BY <1>1, <3>1 DEF Page
    <3>3. (m.body.phase = "performing" /\ entry.controller) \in BOOLEAN
      OBVIOUS
    <3> HIDE DEF entry
    <3>4. /\ shown \in Page /\ shown.phase = m.body.phase
          /\ shown.controller = (m.body.phase = "performing" /\ entry.controller)
          /\ \A x \in {"submitted", "open", "prompts", "asked", "form"} : shown[x] = entry[x]
      BY <2>1, <3>2, <3>3 DEF Page, Phase
    <3> HIDE DEF shown
    <3>5. /\ page' \in Page /\ page'.asked = IF asks THEN m.round ELSE shown.asked
          /\ \A x \in {"phase", "submitted", "open", "controller", "prompts", "form"} :
               page'[x] = shown[x]
      BY <1>1, <2>3, <3>4 DEF Page
    <3> QED BY <3>2, <3>4, <3>5
  <2> HIDE DEF entry, shown
  <2>5. PageAfter(m)
    BY <1>1, <2>1, <2>2, <2>4 DEF PageAfter, Shown, Speaks, Says, Page
  <2>6. AskAfter(m)
    BY <1>1, <2>1, <2>3, <2>4 DEF AskAfter, asks, WantsAssignment, NoPrompts
  <2> QED BY <2>5, <2>6
<1>3. CASE m.body \in [type : {"submission_progress"}, on : BOOLEAN, done : BOOLEAN]
  <2> DEFINE sub == m.body.on /\ m.body.done
  <2>1. /\ m.body.type = "submission_progress"
        /\ m.body.on \in BOOLEAN /\ m.body.done \in BOOLEAN
    BY <1>3
  <2>2. m.body # assignment
    BY <2>1 DEF assignment
  <2>3. /\ page' = [page EXCEPT !.submitted = sub,
                                !.open = IF ~ sub THEN TRUE
                                         ELSE IF page.submitted THEN page.open ELSE FALSE]
        /\ outbox' = outbox
    BY <2>1 DEF Handle, WithEntry
  <2>4. /\ page'.phase = page.phase /\ page'.submitted = sub
        /\ page'.controller = page.controller
        /\ page'.open = IF ~ sub THEN TRUE ELSE IF page.submitted THEN page.open ELSE FALSE
        /\ page'.form = page.form /\ page'.prompts = page.prompts
        /\ page'.asked = page.asked
        /\ page' \in Page
    BY <1>1, <2>1, <2>3 DEF Page
  <2>5. PageAfter(m)
    BY <1>1, <2>1, <2>2, <2>4 DEF PageAfter, Shown, Speaks, Says, Page
  <2>6. AskAfter(m)
    BY <2>1, <2>3, <2>4 DEF AskAfter
  <2> QED BY <2>5, <2>6
<1>4. CASE m.body \in [type : {"slide_changed"}, mine : BOOLEAN]
  <2>1. m.body.type = "slide_changed" /\ m.body.mine \in BOOLEAN
    BY <1>4
  <2>2. m.body # assignment
    BY <2>1 DEF assignment
  <2>3. page' = [page EXCEPT !.controller = m.body.mine] /\ outbox' = outbox
    BY <2>1 DEF Handle
  <2>4. /\ page'.phase = page.phase /\ page'.submitted = page.submitted
        /\ page'.controller = m.body.mine /\ page'.open = page.open
        /\ page'.form = page.form /\ page'.prompts = page.prompts
        /\ page'.asked = page.asked
        /\ page' \in Page
    BY <1>1, <2>1, <2>3 DEF Page
  <2>5. PageAfter(m)
    BY <1>1, <2>1, <2>2, <2>4 DEF PageAfter, Shown, Speaks, Says, Page
  <2>6. AskAfter(m)
    BY <2>1, <2>3, <2>4 DEF AskAfter
  <2> QED BY <2>5, <2>6
<1>5. CASE m.body = assignment
  <2>1. m.body.type = "assignment"
    BY <1>5 DEF assignment
  <2>2. /\ page' = [page EXCEPT !.prompts = m.round, !.form = m.round, !.open = ~ page.submitted]
        /\ outbox' = outbox
    BY <2>1 DEF Handle, WithAssignment
  <2>3. /\ page'.phase = page.phase /\ page'.submitted = page.submitted
        /\ page'.controller = page.controller /\ page'.open = ~ page.submitted
        /\ page'.form = m.round /\ page'.prompts = m.round
        /\ page'.asked = page.asked
        /\ page' \in Page
    BY <1>1, <2>2 DEF Page
  <2>4. PageAfter(m)
    BY <1>1, <1>5, <2>1, <2>3 DEF PageAfter, Shown, Speaks, Says, Page
  <2>5. AskAfter(m)
    BY <2>1, <2>2, <2>3 DEF AskAfter
  <2> QED BY <2>4, <2>5
<1>6. CASE m.body \in [type : {"game_started", "joined", "error"}]
  <2>1. m.body.type \in {"game_started", "joined", "error"}
    BY <1>6
  <2>2. m.body # assignment
    BY <2>1 DEF assignment
  <2>3. page' = page /\ outbox' = outbox
    BY <2>1 DEF Handle
  <2>4. PageAfter(m)
    BY <1>1, <2>1, <2>2, <2>3 DEF PageAfter, Shown, Speaks, Says, Page
  <2>5. AskAfter(m)
    BY <2>1, <2>3 DEF AskAfter
  <2> QED BY <2>4, <2>5
<1>7. m.body \in [type : {"assignment"}] => m.body = assignment
  BY DEF assignment
<1> QED BY <1>1, <1>2, <1>3, <1>4, <1>5, <1>6, <1>7 DEF Body

\* What both streams have in common when the page takes the next message of one.
Reads(m) ==
  /\ Handle(m) /\ Quiet
  /\ m \in Msg /\ Past(m) /\ link' = "open"
  /\ UNCHANGED <<orphans, connects>>
  /\ Subscribed

\* Reading the direct channel: the message is its first, and the rest stays.
ReadsDirect(m) ==
  /\ Reads(m) /\ direct \in Seq(Msg) /\ direct # <<>> /\ m = direct[1]
  /\ direct' = Tail(direct) /\ UNCHANGED <<events, overtaken>>

\* Reading a broadcast: with news on the direct channel it overtakes them.
ReadsEvent(m) ==
  /\ Reads(m) /\ events \in Seq(Msg) /\ events # <<>> /\ m = events[1]
  /\ events' = Tail(events) /\ UNCHANGED direct
  /\ link = "open" /\ m.body # assignment
  /\ overtaken' = (overtaken \/ Carries(direct))

\* The two actions are these steps.
LEMMA TakeDirectReads == ClientInv /\ TakeDirect => ReadsDirect(Head(direct))
<1> SUFFICES ASSUME ClientInv, TakeDirect PROVE ReadsDirect(Head(direct))
  OBVIOUS
<1> DEFINE m == Head(direct)
<1>1. /\ direct \in Seq(Msg) /\ direct # <<>> /\ m = direct[1] /\ m \in Msg /\ 1 \in DOMAIN direct
  BY TailFacts DEF ClientInv, WireTypeOK, TakeDirect
<1>2. Past(m)
  BY <1>1 DEF ClientInv, PastInv
<1>3. Handle(m) /\ Quiet /\ Subscribed /\ direct' = Tail(direct)
        /\ UNCHANGED <<orphans, events, overtaken, connects>>
  BY DEF TakeDirect
<1>4. link' = "open"
  <2>1. CASE link = "open"
    BY <1>3, <2>1 DEF Handle
  <2>2. CASE link # "open"
    <3>1. m.body = joined
      BY <1>1, <1>3, <2>2 DEF ClientInv, Handshake, Subscribed
    <3> QED BY <1>3, <3>1 DEF Handle, joined
  <2> QED BY <2>1, <2>2
<1> HIDE DEF m
<1> QED BY <1>1, <1>2, <1>3, <1>4 DEF ReadsDirect, Reads, m

\* Reading the next broadcast is one of the ways to read a message.
LEMMA TakeEventReads == ClientInv /\ TakeEvent => ReadsEvent(Head(events))
<1> SUFFICES ASSUME ClientInv, TakeEvent PROVE ReadsEvent(Head(events))
  OBVIOUS
<1> DEFINE m == Head(events)
<1>1. /\ events \in Seq(Msg) /\ events # <<>> /\ m = events[1] /\ m \in Msg /\ 1 \in DOMAIN events
  BY TailFacts DEF ClientInv, WireTypeOK, TakeEvent
<1>2. Past(m) /\ m.body # assignment
  BY <1>1 DEF ClientInv, PastInv, FormInv
<1>3. /\ Handle(m) /\ Quiet /\ events' = Tail(events)
      /\ overtaken' = (overtaken \/ Carries(direct))
      /\ UNCHANGED <<orphans, direct, connects>>
  BY DEF TakeEvent
<1>4. link' = "open" /\ link = "open" /\ Subscribed
  BY <1>3 DEF TakeEvent, Handle, Subscribed
<1> HIDE DEF m
<1> QED BY <1>1, <1>2, <1>3, <1>4 DEF ReadsEvent, Reads, m

\* A stream without its first message.
LEMMA RestTrue ==
  ASSUME NEW a, NEW S, NEW s \in Seq(S), s # <<>>
  PROVE  /\ TrueInTheEnd(a, s) => TrueInTheEnd(a, Tail(s))
         /\ TrueInTheEnd(a, s) /\ Speaks(a, s[1].body) /\ ~ Spoken(a, Tail(s))
              => Says(a, s[1].body) = Truth(a)
         /\ Spoken(a, s) /\ ~ Spoken(a, Tail(s)) => Speaks(a, s[1].body)
         /\ Spoken(a, Tail(s)) => Spoken(a, s)
<1> DEFINE t == Tail(s)
<1>1. /\ 1 \in DOMAIN s
      /\ \A k \in DOMAIN t : k + 1 \in DOMAIN s /\ t[k] = s[k + 1]
      /\ \A k \in DOMAIN s : k # 1 => k - 1 \in DOMAIN t /\ t[k - 1] = s[k]
      /\ DOMAIN s \subseteq Nat /\ DOMAIN t \subseteq Nat
  BY TailFacts
<1> HIDE DEF t
<1>2. ASSUME TrueInTheEnd(a, s) PROVE TrueInTheEnd(a, t)
  <2> SUFFICES ASSUME NEW k \in DOMAIN t, Speaks(a, t[k].body)
               PROVE  \/ Says(a, t[k].body) = Truth(a)
                      \/ \E l \in DOMAIN t : l > k /\ Speaks(a, t[l].body)
    BY DEF TrueInTheEnd
  <2>1. CASE Says(a, s[k + 1].body) = Truth(a)
    BY <1>1, <2>1
  <2>2. ASSUME NEW l \in DOMAIN s, l > k + 1, Speaks(a, s[l].body)
        PROVE  \E j \in DOMAIN t : j > k /\ Speaks(a, t[j].body)
    <3>1. l # 1 /\ l - 1 > k /\ k \in Nat /\ l \in Nat
      BY <1>1, <2>2
    <3> QED BY <1>1, <2>2, <3>1
  <2> QED BY <1>1, <1>2, <2>1, <2>2 DEF TrueInTheEnd
<1>3. ASSUME TrueInTheEnd(a, s), Speaks(a, s[1].body), ~ Spoken(a, t)
      PROVE  Says(a, s[1].body) = Truth(a)
  <2>1. ASSUME NEW l \in DOMAIN s, l > 1, Speaks(a, s[l].body) PROVE FALSE
    <3>1. l # 1
      BY <2>1
    <3>2. l - 1 \in DOMAIN t /\ Speaks(a, t[l - 1].body)
      BY <1>1, <2>1, <3>1
    <3> QED BY <1>3, <3>2 DEF Spoken
  <2> QED BY <1>1, <1>3, <2>1 DEF TrueInTheEnd
<1>4. Spoken(a, s) /\ ~ Spoken(a, t) => Speaks(a, s[1].body)
  BY <1>1 DEF Spoken
<1>5. Spoken(a, t) => Spoken(a, s)
  BY <1>1 DEF Spoken
<1> QED BY <1>2, <1>3, <1>4, <1>5 DEF t

\* The room when a message is read.
LEMMA ReadsQuiet ==
  ASSUME NEW m, Reads(m)
  PROVE  /\ UNCHANGED <<phase, on, done, mine, alive, round>>
         /\ \A a \in Shown : Truth(a)' = Truth(a)
BY DEF Reads, Quiet, Unheard, Truth

\* The types after a message is read.
LEMMA ReadsTypes ==
  ASSUME ClientInv, NEW m, Reads(m),
         events' \in Seq(Msg), direct' \in Seq(Msg), Len(events') <= Len(events),
         overtaken' \in BOOLEAN
  PROVE  ViewTypeOK' /\ WireTypeOK' /\ ClientTypeOK'
<1>1. ViewTypeOK'
  BY ReadsQuiet DEF ClientInv, ViewTypeOK
<1>2. outbox' \in Seq(Command)
  <2>1. [type |-> "join"] \in Command
    BY DEF Command
  <2>2. AskAfter(m)
    BY HandleFacts DEF Reads
  <2>3. outbox \in Seq(Command)
    BY DEF ClientInv, WireTypeOK
  <2>4. Append(outbox, [type |-> "join"]) \in Seq(Command)
    BY <2>1, <2>3, AppendFacts
  <2> QED BY <2>2, <2>3, <2>4 DEF AskAfter
<1>3. WireTypeOK'
  BY <1>2 DEF ClientInv, WireTypeOK, Reads
<1>4. Len(events') <= BufferCap
  <2>1. Len(events) <= BufferCap /\ Len(events) \in Nat /\ Len(events') \in Nat /\ BufferCap \in Nat
    BY ClientAssumption DEF ClientInv, ClientTypeOK, WireTypeOK
  <2> QED BY <2>1
<1>5. (\A cmds \in {outbox, orphans} : \A k \in DOMAIN cmds : cmds[k] \in Command)'
  BY <1>3 DEF WireTypeOK
<1>6. (link = "closed" => outbox = <<>>)' /\ (~ Subscribed => events = <<>> /\ direct = <<>>)'
  BY DEF Reads, Subscribed
<1>7. /\ alive' \in BOOLEAN /\ round' \in Round /\ link' \in Link
      /\ session' \in BOOLEAN /\ connects' \in 0 .. MaxConnects
  BY ReadsQuiet DEF ClientInv, ClientTypeOK, Reads, Link, Handle
<1>8. page' \in Page
  BY HandleFacts DEF Reads, PageAfter
<1> QED BY <1>1, <1>3, <1>4, <1>5, <1>6, <1>7, <1>8 DEF ClientTypeOK

\* What the page has just read it shows: it follows the room as before.
LEMMA ReadsMatch ==
  ASSUME ClientInv, NEW m, ReadsDirect(m) \/ ReadsEvent(m)
  PROVE  MatchInv'
<1>1. Reads(m)
  BY DEF ReadsDirect, ReadsEvent
<1> SUFFICES ASSUME NEW a \in Shown
             PROVE  /\ TrueInTheEnd(a, events)'
                    /\ ((link = "open" \/ direct # <<>>) /\ ~ overtaken => Follows(a))'
  BY DEF MatchInv
<1>2. Truth(a)' = Truth(a)
  BY <1>1, ReadsQuiet
<1>3. page'[a] = IF Speaks(a, m.body) THEN Says(a, m.body) ELSE page[a]
  BY <1>1, HandleFacts DEF PageAfter, Reads
<1>4. /\ TrueInTheEnd(a, events)
      /\ (link = "open" \/ direct # <<>>) /\ ~ overtaken => Follows(a)
  BY DEF ClientInv, MatchInv
<1>5. CASE ReadsDirect(m)
  <2>1. events' = events /\ overtaken' = overtaken /\ direct' = Tail(direct)
          /\ direct \in Seq(Msg) /\ direct # <<>> /\ m = direct[1]
    BY <1>5 DEF ReadsDirect
  <2>2. TrueInTheEnd(a, events)'
    BY <1>2, <1>4, <2>1 DEF TrueInTheEnd
  <2>3. ASSUME ~ overtaken, ~ Spoken(a, events)
        PROVE  TrueInTheEnd(a, Tail(direct))
                 /\ (Spoken(a, Tail(direct)) \/ page'[a] = Truth(a))
    <3>1. TrueInTheEnd(a, direct) /\ (Spoken(a, direct) \/ page[a] = Truth(a))
      BY <1>4, <2>1, <2>3 DEF Follows
    <3>2. TrueInTheEnd(a, Tail(direct))
      BY <2>1, <3>1, RestTrue
    <3>3. CASE Speaks(a, m.body) /\ ~ Spoken(a, Tail(direct))
      BY <1>3, <2>1, <3>1, <3>3, RestTrue
    <3>4. CASE ~ Speaks(a, m.body) /\ ~ Spoken(a, Tail(direct))
      <4>1. ~ Spoken(a, direct)
        BY <2>1, <3>4, RestTrue
      <4>2. page[a] = Truth(a)
        BY <3>1, <4>1
      <4>3. page'[a] = page[a]
        BY <1>3, <3>4
      <4> QED BY <3>2, <4>2, <4>3
    <3> QED BY <3>2, <3>3, <3>4
  <2>4. (~ overtaken => Follows(a))'
    <3>1. Spoken(a, events)' = Spoken(a, events) /\ Spoken(a, direct)' = Spoken(a, Tail(direct))
      BY <2>1 DEF Spoken
    <3>2. TrueInTheEnd(a, direct)' = TrueInTheEnd(a, Tail(direct))
      BY <1>2, <2>1 DEF TrueInTheEnd
    <3> QED BY <1>2, <2>1, <2>3, <3>1, <3>2 DEF Follows
  <2> QED BY <2>2, <2>4
<1>6. CASE ReadsEvent(m)
  <2>1. events' = Tail(events) /\ overtaken' = (overtaken \/ Carries(direct))
          /\ direct' = direct /\ link = "open"
          /\ events \in Seq(Msg) /\ events # <<>> /\ m = events[1]
    BY <1>6 DEF ReadsEvent
  <2>2. TrueInTheEnd(a, events)'
    <3>1. TrueInTheEnd(a, Tail(events))
      BY <1>4, <2>1, RestTrue
    <3> QED BY <1>2, <2>1, <3>1 DEF TrueInTheEnd
  <2>3. ASSUME ~ overtaken, ~ Carries(direct), ~ Spoken(a, Tail(events))
        PROVE  page'[a] = Truth(a) /\ TrueInTheEnd(a, direct)
    <3>1. ~ Spoken(a, direct)
      BY <2>3 DEF Carries, Tells, Spoken, Speaks
    <3>2. TrueInTheEnd(a, direct)
      BY <3>1 DEF TrueInTheEnd, Spoken
    <3>3. CASE Speaks(a, m.body)
      BY <1>3, <1>4, <2>1, <2>3, <3>2, <3>3, RestTrue
    <3>4. CASE ~ Speaks(a, m.body)
      <4>1. ~ Spoken(a, events)
        BY <2>1, <2>3, <3>4, RestTrue
      <4>2. page[a] = Truth(a)
        BY <1>4, <2>1, <2>3, <3>1, <4>1 DEF Follows
      <4> QED BY <1>3, <3>2, <3>4, <4>2
    <3> QED BY <3>3, <3>4
  <2>4. (~ overtaken => Follows(a))'
    <3>1. Spoken(a, events)' = Spoken(a, Tail(events)) /\ Spoken(a, direct)' = Spoken(a, direct)
      BY <2>1 DEF Spoken
    <3>2. TrueInTheEnd(a, direct)' = TrueInTheEnd(a, direct)
      BY <1>2, <2>1 DEF TrueInTheEnd
    <3> QED BY <1>2, <2>1, <2>3, <3>1, <3>2 DEF Follows
  <2> QED BY <2>2, <2>4
<1> QED BY <1>5, <1>6

\* Nothing comes from the future, the assignments keep their order, and the
\* answer to a request is there or on its way, after a message is read.
LEMMA ReadsRest ==
  ASSUME ClientInv, NEW m, ReadsDirect(m) \/ ReadsEvent(m)
  PROVE  PastInv' /\ FormInv' /\ AskInv' /\ BoxInv' /\ Handshake'
<1>1. Reads(m)
  BY DEF ReadsDirect, ReadsEvent
<1>2. PageAfter(m) /\ AskAfter(m)
  BY <1>1, HandleFacts DEF Reads
<1>3. /\ phase' = phase /\ on' = on /\ round' = round /\ link' = "open"
      /\ round \in Nat /\ round >= 1
      /\ m.round \in Nat /\ m.round >= 1 /\ m.round <= round
      /\ page.asked \in Nat /\ page.form \in Nat /\ page.prompts \in Nat
  <2>1. page \in Page
    BY DEF ClientInv, ClientTypeOK
  <2> QED BY <1>1, <2>1, ReadsQuiet
          DEF ClientInv, ClientTypeOK, Reads, Page, Msg, Round, Past, PastOf
<1>4. \/ events' = events
      \/ ReadsEvent(m) /\ events' = Tail(events) /\ events \in Seq(Msg) /\ events # <<>>
  BY DEF ReadsDirect, ReadsEvent
<1>5. \/ direct' = direct /\ m.body # assignment
      \/ ReadsDirect(m) /\ direct' = Tail(direct) /\ direct \in Seq(Msg) /\ direct # <<>>
           /\ m = direct[1]
  BY DEF ReadsDirect, ReadsEvent
<1>6. /\ \A k \in DOMAIN events' : \E j \in DOMAIN events : events'[k] = events[j]
      /\ \A k \in DOMAIN direct' : \E j \in DOMAIN direct : direct'[k] = direct[j]
  <2>1. ASSUME NEW s \in Seq(Msg), s # <<>>
        PROVE  \A k \in DOMAIN Tail(s) : \E j \in DOMAIN s : Tail(s)[k] = s[j]
    BY <2>1, TailFacts
  <2>2. \A k \in DOMAIN events' : \E j \in DOMAIN events : events'[k] = events[j]
    BY <1>4, <2>1
  <2>3. \A k \in DOMAIN direct' : \E j \in DOMAIN direct : direct'[k] = direct[j]
    BY <1>5, <2>1
  <2> QED BY <2>2, <2>3
<1>7. /\ page.form <= round /\ page.asked <= round
      /\ page.asked = round => phase # "lobby"
      /\ \A k \in DOMAIN events : PastOf(events[k], round, phase)
      /\ \A k \in DOMAIN direct : PastOf(direct[k], round, phase)
  BY DEF ClientInv, PastInv, Past
<1>8. PastInv'
  <2>1. page'.form <= round
    BY <1>2, <1>3, <1>7 DEF PageAfter
  <2>2. page'.asked <= round /\ (page'.asked = round => phase # "lobby")
    BY <1>1, <1>2, <1>3, <1>7 DEF AskAfter, Reads, Past, PastOf
  <2>3. /\ \A k \in DOMAIN events' : PastOf(events'[k], round', phase')
        /\ \A k \in DOMAIN direct' : PastOf(direct'[k], round', phase')
    BY <1>3, <1>6, <1>7
  <2> QED BY <1>3, <2>1, <2>2, <2>3 DEF PastInv, Past
<1>9. /\ \A k \in DOMAIN events : events[k].body # assignment
      /\ \A k \in DOMAIN direct : page.form <= direct[k].round
      /\ \A k, l \in DOMAIN direct : k < l => direct[k].round <= direct[l].round
      /\ page.prompts # 0 => page.form = page.prompts
  BY DEF ClientInv, FormInv
<1>10. page.form <= m.round \/ m.body # assignment
  BY <1>5, <1>9, TailFacts
<1>11. FormInv'
  <2>1. \A k \in DOMAIN events' : events'[k].body # assignment
    BY <1>6, <1>9
  <2>2. page'.prompts # 0 => page'.form = page'.prompts
    BY <1>2, <1>9 DEF PageAfter
  <2>3. CASE direct' = direct /\ m.body # assignment
    BY <1>2, <1>9, <2>1, <2>2, <2>3 DEF FormInv, PageAfter
  <2>4. CASE /\ direct' = Tail(direct) /\ direct \in Seq(Msg) /\ direct # <<>>
             /\ m = direct[1]
    <3>1. /\ 1 \in DOMAIN direct /\ DOMAIN direct' \subseteq Nat /\ DOMAIN direct \subseteq Nat
          /\ \A k \in DOMAIN direct' : k + 1 \in DOMAIN direct /\ direct'[k] = direct[k + 1]
          /\ \A k \in DOMAIN direct' : 1 < k + 1
      BY <2>4, TailFacts
    <3>2. \A k \in DOMAIN direct' : page'.form <= direct'[k].round
      BY <1>2, <1>9, <2>4, <3>1 DEF PageAfter
    <3>3. \A k, l \in DOMAIN direct' : k < l => direct'[k].round <= direct'[l].round
      <4> SUFFICES ASSUME NEW k \in DOMAIN direct', NEW l \in DOMAIN direct', k < l
                   PROVE  direct'[k].round <= direct'[l].round
        OBVIOUS
      <4>1. k + 1 < l + 1
        BY <3>1
      <4> QED BY <1>9, <3>1, <4>1
    <3> QED BY <2>1, <2>2, <3>2, <3>3 DEF FormInv
  <2> QED BY <1>5, <2>3, <2>4
<1>12. (page.phase = "collecting" => page.asked # 0 \/ page.prompts # 0)'
  <2>1. page.phase = "collecting" => page.asked # 0 \/ page.prompts # 0
    BY DEF ClientInv, AskInv
  <2>2. page'.phase = IF m.body.type = "room_state" THEN m.body.phase ELSE page.phase
    BY <1>2 DEF PageAfter, Shown, Speaks, Says
  <2>3. page.prompts # 0 => page'.prompts # 0
    BY <1>2, <1>3 DEF PageAfter
  <2>4. page.asked # 0 => page'.asked # 0
    BY <1>2, <1>3 DEF AskAfter
  <2> QED BY <1>2, <1>3, <2>1, <2>2, <2>3, <2>4 DEF AskAfter
<1>13. ASSUME page'.asked = round', phase' = "collecting", on'
       PROVE  \/ page'.form = round'
              \/ \E k \in DOMAIN outbox' : outbox'[k].type = "join"
              \/ \E k \in DOMAIN direct' :
                   direct'[k].body = assignment /\ direct'[k].round = round'
  <2>1. outbox \in Seq(Command) /\ [type |-> "join"] \in Command
    BY DEF ClientInv, WireTypeOK, Command
  <2>2. CASE outbox' = Append(outbox, [type |-> "join"])
    <3>1. \E k \in DOMAIN outbox' : outbox'[k] = [type |-> "join"]
      BY <2>1, <2>2, AppendFacts
    <3> QED BY <3>1
  <2>3. CASE outbox' = outbox /\ page'.asked = page.asked
    <3>1. page.asked = round /\ page.asked # 0
      BY <1>3, <1>13, <2>3
    <3>2. link = "open"
      BY <1>1, <3>1 DEF ClientInv, Handshake, Reads, Subscribed
    <3>3. \/ page.form = round
          \/ \E k \in DOMAIN outbox : outbox[k].type = "join"
          \/ \E k \in DOMAIN direct : direct[k].body = assignment /\ direct[k].round = round
      BY <1>3, <1>13, <3>1, <3>2 DEF ClientInv, AskInv
    <3>4. CASE page.form = round
      BY <1>2, <1>3, <1>10, <3>4 DEF PageAfter
    <3>5. CASE \E k \in DOMAIN outbox : outbox[k].type = "join"
      BY <2>3, <3>5
    <3>6. ASSUME NEW k \in DOMAIN direct, direct[k].body = assignment, direct[k].round = round
          PROVE  \/ page'.form = round'
                 \/ \E j \in DOMAIN direct' :
                      direct'[j].body = assignment /\ direct'[j].round = round'
      <4>1. CASE direct' = direct
        BY <1>3, <3>6, <4>1
      <4>2. CASE direct' # direct /\ k = 1
        BY <1>2, <1>3, <1>5, <3>6, <4>2 DEF PageAfter
      <4>3. CASE direct' # direct /\ k # 1
        <5>1. direct' = Tail(direct) /\ direct \in Seq(Msg) /\ direct # <<>>
          BY <1>5, <4>3
        <5>2. k - 1 \in DOMAIN direct' /\ direct'[k - 1] = direct[k]
          BY <4>3, <5>1, TailFacts
        <5> QED BY <1>3, <3>6, <5>2
      <4> QED BY <4>1, <4>2, <4>3
    <3> QED BY <3>3, <3>4, <3>5, <3>6
  <2> QED BY <1>2, <2>2, <2>3 DEF AskAfter
<1>14. AskInv'
  BY <1>12, <1>13 DEF AskInv
<1>15. BoxInv'
  BY <1>2 DEF PageAfter, BoxInv
<1>16. Handshake'
  BY <1>3 DEF Handshake
<1> QED BY <1>8, <1>11, <1>14, <1>15, <1>16

\* Reading a message keeps the invariant.
LEMMA ReadsInv ==
  ASSUME ClientInv, TakeDirect \/ TakeEvent
  PROVE  ClientInv'
<1>1. PICK m : ReadsDirect(m) \/ ReadsEvent(m)
  BY TakeDirectReads, TakeEventReads
<1>2. /\ Reads(m)
      /\ events' \in Seq(Msg) /\ direct' \in Seq(Msg) /\ Len(events') <= Len(events)
      /\ overtaken' \in BOOLEAN
  <2>1. events \in Seq(Msg) /\ direct \in Seq(Msg) /\ overtaken \in BOOLEAN /\ Len(events) \in Nat
    BY DEF ClientInv, WireTypeOK, ClientTypeOK
  <2>2. CASE ReadsDirect(m)
    <3>1. Tail(direct) \in Seq(Msg)
      BY <2>1, <2>2, TailFacts DEF ReadsDirect
    <3> QED BY <2>1, <2>2, <3>1 DEF ReadsDirect
  <2>3. CASE ReadsEvent(m)
    <3>1. Tail(events) \in Seq(Msg) /\ Len(Tail(events)) = Len(events) - 1
      BY <2>1, <2>3, TailFacts DEF ReadsEvent
    <3>2. (overtaken \/ Carries(direct)) \in BOOLEAN
      BY <2>1 DEF Carries
    <3> QED BY <2>1, <2>3, <3>1, <3>2 DEF ReadsEvent
  <2> QED BY <1>1, <2>2, <2>3
<1> QED BY <1>1, <1>2, ReadsTypes, ReadsMatch, ReadsRest DEF ClientInv

\* What opens, shuts or replaces a connection leaves nothing on the way from
\* the actor.
Restarts ==
  /\ events' = <<>> /\ direct' = <<>> /\ overtaken' = FALSE
  /\ \/ link' = "opening" /\ outbox' = <<[type |-> "join"]>> /\ page'.asked = 0
     \/ link' = "closed" /\ outbox' = <<>>
  /\ \/ page' = page
     \/ page' \in {Fresh(page.form), Fresh(0)}
  /\ orphans' \in Seq(Command) /\ connects' \in 0 .. MaxConnects
  /\ alive' \in BOOLEAN /\ session' \in BOOLEAN
  /\ Unheard /\ UNCHANGED round

\* A new beginning, with a form of an earlier round at most.
LEMMA RestartsInv ==
  ASSUME ClientInv, Restarts
  PROVE  ClientInv'
<1>1. UNCHANGED <<phase, on, done, mine>> /\ round' = round /\ round \in Round
        /\ round \in Nat /\ round >= 1
  BY DEF Restarts, Unheard, ClientInv, ClientTypeOK, Round
<1>2. /\ page \in Page /\ page.form \in 0 .. MaxRounds /\ page.form \in Nat /\ page.form <= round
      /\ page.asked \in Nat
  BY DEF ClientInv, ClientTypeOK, Page, PastInv
<1>3. Fresh(page.form) \in Page /\ Fresh(0) \in Page
  BY <1>2, ClientAssumption DEF Fresh, Page
<1>4. page' \in Page
  BY <1>2, <1>3 DEF Restarts
<1>5. [type |-> "join"] \in Command
  BY DEF Command
<1>6. ViewTypeOK'
  BY <1>1 DEF ClientInv, ViewTypeOK
<1>7. WireTypeOK'
  <2>1. <<[type |-> "join"]>> \in Seq(Command) /\ <<>> \in Seq(Command) /\ <<>> \in Seq(Msg)
    BY <1>5
  <2> QED BY <2>1 DEF Restarts, WireTypeOK
<1>8. ClientTypeOK'
  <2>1. (\A cmds \in {outbox, orphans} : \A k \in DOMAIN cmds : cmds[k] \in Command)'
    BY <1>7 DEF WireTypeOK
  <2>2. Len(events') <= BufferCap
    BY ClientAssumption DEF Restarts
  <2> QED BY <1>1, <1>4, <2>1, <2>2 DEF Restarts, ClientTypeOK, Link
<1>9. Handshake'
  BY DEF Restarts, Handshake
<1>10. MatchInv'
  BY DEF Restarts, MatchInv, TrueInTheEnd
<1>11. page'.asked <= round /\ page'.form <= round /\ (page'.asked = round => phase # "lobby")
  BY <1>1, <1>2 DEF Restarts, ClientInv, PastInv, Fresh
<1>12. PastInv'
  BY <1>1, <1>11 DEF Restarts, PastInv
<1>13. FormInv'
  BY DEF Restarts, ClientInv, FormInv, Fresh
<1>14. AskInv'
  BY DEF Restarts, ClientInv, AskInv, Fresh
<1>15. BoxInv'
  BY DEF Restarts, ClientInv, BoxInv, Fresh
<1> QED BY <1>6, <1>7, <1>8, <1>9, <1>10, <1>12, <1>13, <1>14, <1>15 DEF ClientInv

\* What a handler had still to read of a connection that ends.
LEMMA DropOrphans == ClientInv /\ Drop => orphans' \in Seq(Command)
<1> SUFFICES ASSUME ClientInv, Drop PROVE orphans' \in Seq(Command)
  OBVIOUS
<1>1. orphans \in Seq(Command) /\ outbox \in Seq(Command)
  BY DEF ClientInv, WireTypeOK
<1>2. ASSUME NEW k \in 0 .. Len(outbox) PROVE orphans \o SubSeq(outbox, 1, k) \in Seq(Command)
  <2>1. SubSeq(outbox, 1, k) \in Seq(Command)
    BY <1>1
  <2> QED BY <1>1, <2>1
<1> QED BY <1>1, <1>2 DEF Drop

\* The four ways a connection ends, and the room that is gone.
LEMMA EndsRestart ==
  ASSUME ClientInv,
         \/ Connect \/ Refresh \/ Disconnect \/ Stop
         \/ Accept /\ ~ alive
  PROVE  Restarts
<1>1. /\ connects \in 0 .. MaxConnects /\ MaxConnects \in Nat
      /\ alive \in BOOLEAN /\ session \in BOOLEAN /\ <<>> \in Seq(Command)
      /\ orphans \in Seq(Command)
  BY ClientAssumption DEF ClientInv, ClientTypeOK, WireTypeOK
<1>2. /\ Fresh(page.form).asked = 0 /\ Fresh(0).asked = 0
  BY DEF Fresh
<1>3. Opens => connects' \in 0 .. MaxConnects
  BY <1>1 DEF Opens
<1>4. CASE Connect
  BY <1>1, <1>2, <1>3, <1>4, DropOrphans DEF Connect, Restarts, Opens, Shuts, Drop, Quiet
<1>5. CASE Refresh
  BY <1>1, <1>2, <1>3, <1>5, DropOrphans DEF Refresh, Restarts, Opens, Shuts, Drop, Quiet
<1>6. CASE Disconnect
  BY <1>1, <1>6, DropOrphans DEF Disconnect, Restarts, Shuts, Drop, Quiet
<1>7. CASE Stop
  BY <1>1, <1>7 DEF Stop, Restarts, Shuts
<1>8. CASE Accept /\ ~ alive
  <2>1. /\ link' = "closed" /\ outbox' = <<>> /\ session' = FALSE
        /\ UNCHANGED <<orphans, events, direct, overtaken, page, connects>> /\ Quiet
        /\ link = "opening"
    BY <1>8 DEF Accept
  <2>2. events = <<>> /\ direct = <<>> /\ overtaken = FALSE
    BY <2>1 DEF ClientInv, ClientTypeOK, Handshake, Subscribed
  <2> QED BY <1>1, <2>1, <2>2 DEF Restarts, Quiet
<1> QED BY <1>4, <1>5, <1>6, <1>7, <1>8

\* What the room and the streams are to the page stays, when neither changes.
LEMMA SameStreams ==
  ASSUME ClientInv, UNCHANGED <<events, direct, overtaken, round, connects, alive>>, Unheard,
         page' \in Page, \A x \in DOMAIN page : x # "open" => page'[x] = page[x]
  PROVE  /\ ViewTypeOK' /\ PastInv' /\ FormInv'
         /\ link' = link => MatchInv'
         /\ (page.phase = "collecting" => page.asked # 0 \/ page.prompts # 0)'
<1>1. /\ DOMAIN page = {"phase", "prompts", "asked", "submitted", "open", "controller", "form"}
  BY DEF ClientInv, ClientTypeOK, Page
<1>2. /\ page'.phase = page.phase /\ page'.prompts = page.prompts /\ page'.asked = page.asked
      /\ page'.submitted = page.submitted /\ page'.controller = page.controller
      /\ page'.form = page.form
  BY <1>1
<1>3. UNCHANGED <<phase, on, done, mine>>
  BY DEF Unheard
<1>4. ViewTypeOK'
  BY <1>3 DEF ClientInv, ViewTypeOK
<1>5. PastInv'
  BY <1>2, <1>3 DEF ClientInv, PastInv, Past, PastOf
<1>6. FormInv'
  BY <1>2 DEF ClientInv, FormInv
<1>7. ASSUME link' = link PROVE MatchInv'
  <2> SUFFICES ASSUME NEW a \in Shown
               PROVE  /\ TrueInTheEnd(a, events)'
                      /\ ((link = "open" \/ direct # <<>>) /\ ~ overtaken => Follows(a))'
    BY DEF MatchInv
  <2>1. Truth(a)' = Truth(a) /\ page'[a] = page[a]
    BY <1>2, <1>3 DEF Truth, Shown
  <2>2. /\ TrueInTheEnd(a, events)' = TrueInTheEnd(a, events)
        /\ TrueInTheEnd(a, direct)' = TrueInTheEnd(a, direct)
        /\ Spoken(a, events)' = Spoken(a, events)
        /\ Spoken(a, direct)' = Spoken(a, direct)
    BY <2>1 DEF TrueInTheEnd, Spoken
  <2>3. /\ TrueInTheEnd(a, events)
        /\ (link = "open" \/ direct # <<>>) /\ ~ overtaken => Follows(a)
    BY DEF ClientInv, MatchInv
  <2> QED BY <1>7, <2>1, <2>2, <2>3 DEF Follows
<1>8. (page.phase = "collecting" => page.asked # 0 \/ page.prompts # 0)'
  BY <1>2 DEF ClientInv, AskInv
<1> QED BY <1>4, <1>5, <1>6, <1>7, <1>8

\* The first frame of a connection: its handler subscribes and queues the join.
LEMMA AcceptInv ==
  ASSUME ClientInv, Accept, alive
  PROVE  ClientInv'
<1>1. /\ link = "opening" /\ link' = "joining" /\ Unheard
      /\ UNCHANGED <<outbox, session, orphans, events, direct, overtaken, page, connects,
                     alive, round>>
  BY DEF Accept, Quiet
<1>2. outbox = <<[type |-> "join"]>> /\ direct = <<>> /\ events = <<>> /\ ~ overtaken
        /\ page.asked = 0
  BY <1>1 DEF ClientInv, ClientTypeOK, Handshake, Subscribed
<1>3. ViewTypeOK' /\ PastInv' /\ FormInv'
        /\ (page.phase = "collecting" => page.asked # 0 \/ page.prompts # 0)'
  BY <1>1, SameStreams DEF ClientInv, ClientTypeOK
<1>4. WireTypeOK' /\ ClientTypeOK'
  BY <1>1, <1>2 DEF ClientInv, ClientTypeOK, WireTypeOK, Link, Subscribed
<1>5. Handshake'
  BY <1>1, <1>2 DEF Handshake
<1>6. MatchInv'
  BY <1>1, <1>2 DEF MatchInv, TrueInTheEnd
<1>7. AskInv' /\ BoxInv'
  BY <1>1, <1>3 DEF ClientInv, AskInv, BoxInv
<1> QED BY <1>3, <1>4, <1>5, <1>6, <1>7 DEF ClientInv

\* A button of the form or of the controls.
LEMMA PressInv ==
  ASSUME ClientInv, PressSubmit \/ PressMove
  PROVE  ClientInv'
<1>1. PICK cmd \in Command : Sends(cmd)
  <2>1. CASE PressSubmit
    <3>1. page.form \in Round
      BY <2>1, ClientAssumption DEF PressSubmit, ClientInv, ClientTypeOK, Page, Round
    <3>2. [type |-> "submit", form |-> page.form] \in Command
      BY <3>1 DEF Command
    <3> QED BY <2>1, <3>2 DEF PressSubmit
  <2>2. CASE PressMove
    <3>1. [type |-> "move"] \in Command
      BY DEF Command
    <3> QED BY <2>2, <3>1 DEF PressMove
  <2> QED BY <2>1, <2>2
<1>2. /\ link = "open" /\ outbox = <<>> /\ direct = <<>> /\ outbox' = <<cmd>> /\ Unheard
      /\ UNCHANGED <<link, orphans, events, direct, overtaken, session, connects, alive,
                     round, page>>
  BY <1>1 DEF Sends, Quiet, PressSubmit, PressMove
<1>3. ViewTypeOK' /\ PastInv' /\ FormInv' /\ MatchInv'
        /\ (page.phase = "collecting" => page.asked # 0 \/ page.prompts # 0)'
  BY <1>2, SameStreams DEF ClientInv, ClientTypeOK
<1>4. WireTypeOK'
  BY <1>2 DEF ClientInv, WireTypeOK
<1>5. ClientTypeOK'
  <2>1. (\A cmds \in {outbox, orphans} : \A k \in DOMAIN cmds : cmds[k] \in Command)'
    BY <1>4 DEF WireTypeOK
  <2> QED BY <1>2, <2>1 DEF ClientInv, ClientTypeOK, Subscribed
<1>6. Handshake'
  BY <1>2 DEF ClientInv, Handshake
<1>7. AskInv'
  <2>1. UNCHANGED <<phase, on>>
    BY <1>2 DEF Unheard
  <2> QED BY <1>2, <1>3, <2>1 DEF ClientInv, AskInv
<1>8. BoxInv'
  BY <1>2 DEF ClientInv, BoxInv
<1> QED BY <1>3, <1>4, <1>5, <1>6, <1>7, <1>8 DEF ClientInv

\* The corner toggle.
LEMMA ToggleInv ==
  ASSUME ClientInv, PressToggle
  PROVE  ClientInv'
<1>1. /\ page.submitted /\ page' = [page EXCEPT !.open = ~ @] /\ Unheard
      /\ UNCHANGED <<link, outbox, orphans, events, direct, overtaken, session, connects,
                     alive, round>>
  BY DEF PressToggle, Quiet
<1>2. page \in Page
  BY DEF ClientInv, ClientTypeOK
<1>3. page' \in Page
  <2>1. (~ page.open) \in BOOLEAN
    OBVIOUS
  <2> QED BY <1>1, <1>2, <2>1 DEF Page
<1>4. \A x \in DOMAIN page : x # "open" => page'[x] = page[x]
  BY <1>1, <1>2 DEF Page
<1>5. /\ page'.submitted = page.submitted /\ page'.asked = page.asked /\ page'.form = page.form
  BY <1>1, <1>2 DEF Page
<1>6. ViewTypeOK' /\ PastInv' /\ FormInv' /\ MatchInv'
        /\ (page.phase = "collecting" => page.asked # 0 \/ page.prompts # 0)'
  BY <1>1, <1>3, <1>4, SameStreams
<1>7. WireTypeOK' /\ ClientTypeOK'
  BY <1>1, <1>3 DEF ClientInv, WireTypeOK, ClientTypeOK, Subscribed
<1>8. Handshake'
  BY <1>1, <1>5 DEF ClientInv, Handshake
<1>9. AskInv'
  <2>1. UNCHANGED <<phase, on>>
    BY <1>1 DEF Unheard
  <2> QED BY <1>1, <1>5, <1>6, <2>1 DEF ClientInv, AskInv
<1>10. BoxInv'
  BY <1>1, <1>5 DEF BoxInv
<1> QED BY <1>6, <1>7, <1>8, <1>9, <1>10 DEF ClientInv

-----------------------------------------------------------------------------
(* The theorems *)

\* Every step of the page, its connections and the room keeps the invariant.
LEMMA ClientStep == ClientInv /\ [ClientNext]_clientVars => ClientInv'
<1> SUFFICES ASSUME ClientInv, [ClientNext]_clientVars PROVE ClientInv'
  OBVIOUS
<1>1. CASE Others \/ TakeCommand \/ TakeOrphan
  BY <1>1, OthersReact, TakeCommandReacts, TakeOrphanReacts, ReactsInv
<1>2. CASE TakeDirect \/ TakeEvent
  BY <1>2, ReadsInv
<1>3. CASE Accept
  BY <1>3, AcceptInv, EndsRestart, RestartsInv
<1>4. CASE Connect \/ Refresh \/ Disconnect \/ Stop
  BY <1>4, EndsRestart, RestartsInv
<1>5. CASE PressSubmit \/ PressMove \/ PressToggle
  BY <1>5, PressInv, ToggleInv
<1>6. CASE UNCHANGED clientVars
  BY <1>6 DEF viewVars, ClientInv, ViewTypeOK, WireTypeOK, ClientTypeOK, Subscribed, Handshake,
              MatchInv, TrueInTheEnd, Follows, Spoken, Truth, PastInv, Past, PastOf, FormInv,
              AskInv, BoxInv
<1> QED BY <1>1, <1>2, <1>3, <1>4, <1>5, <1>6 DEF ClientNext

\* A tab that has just been opened.
LEMMA ClientStart == ClientInit => ClientInv
<1> SUFFICES ASSUME ClientInit PROVE ClientInv
  OBVIOUS
<1>1. /\ phase = "lobby" /\ on = FALSE /\ done = FALSE /\ mine = FALSE
      /\ alive = TRUE /\ round = 1 /\ link = "closed"
      /\ outbox = <<>> /\ orphans = <<>> /\ events = <<>> /\ direct = <<>>
      /\ overtaken = FALSE /\ session = FALSE /\ page = Fresh(0) /\ connects = 0
  BY DEF ClientInit, ViewInit
<1>2. 1 \in Round /\ 0 \in 0 .. MaxRounds /\ 0 \in 0 .. MaxConnects /\ 0 <= BufferCap
  BY ClientAssumption DEF Round
<1>3. Fresh(0) \in Page
  BY <1>2 DEF Fresh, Page
<1>4. ViewTypeOK
  BY <1>1 DEF ViewTypeOK, Phase
<1>5. WireTypeOK
  BY <1>1 DEF WireTypeOK
<1>6. ClientTypeOK
  <2>1. \A cmds \in {outbox, orphans} : \A k \in DOMAIN cmds : cmds[k] \in Command
    BY <1>1
  <2>2. Len(events) <= BufferCap
    BY <1>1, <1>2
  <2> QED BY <1>1, <1>2, <1>3, <2>1, <2>2 DEF ClientTypeOK, Link
<1>7. Handshake /\ MatchInv
  BY <1>1 DEF Handshake, MatchInv, TrueInTheEnd
<1>8. PastInv /\ FormInv /\ AskInv /\ BoxInv
  BY <1>1 DEF PastInv, FormInv, AskInv, BoxInv, Fresh
<1> QED BY <1>4, <1>5, <1>6, <1>7, <1>8 DEF ClientInv

\* The invariant, over every run of the room and the page.
THEOREM ClientInvariant == ClientSpec => []ClientInv
<1> QED BY ClientStart, ClientStep, PTL DEF ClientSpec

\* The variables have their types, and no stream outlives its connection.
THEOREM ClientTypes == ClientSpec => []ClientTypeOK
<1>1. ClientInv => ClientTypeOK
  BY DEF ClientInv
<1> QED BY <1>1, ClientInvariant, PTL

\* The page shows the room when it has read all there is: each of the three
\* things it shows was told last by a message that says the present state.
THEOREM PageFollowsRoom == ClientSpec => []PageMatchesRoom
<1>1. ClientInv => PageMatchesRoom
  <2> SUFFICES ASSUME ClientInv, Settled
               PROVE  /\ page.phase = phase
                      /\ page.submitted = (on /\ done)
                      /\ page.controller = mine
    BY DEF PageMatchesRoom
  <2>1. \A a \in Shown : Follows(a) /\ ~ Spoken(a, events) /\ ~ Spoken(a, direct)
    BY DEF ClientInv, MatchInv, Settled, Spoken
  <2>2. \A a \in Shown : page[a] = Truth(a)
    BY <2>1 DEF Follows
  <2> QED BY <2>2 DEF Shown, Truth
<1> QED BY <1>1, ClientInvariant, PTL

\* A player who is expected to write has the form of the round, in an open box:
\* the page saw submissions open, so it has prompts or has asked for them, and
\* in the first round of its connection the answer can only be this round's.
THEOREM PlayersCanAnswer == ClientSpec => []CanAnswer
<1>1. ClientInv => CanAnswer
  <2> SUFFICES ASSUME ClientInv, Settled, phase = "collecting", on, ~ done, NewToRound
               PROVE  page.form = round /\ page.open
    BY DEF CanAnswer
  <2>1. page.phase = "collecting" /\ page.submitted = FALSE
    <3>1. \A a \in Shown : Follows(a) /\ ~ Spoken(a, events) /\ ~ Spoken(a, direct)
      BY DEF ClientInv, MatchInv, Settled, Spoken
    <3>2. \A a \in Shown : page[a] = Truth(a)
      BY <3>1 DEF Follows
    <3> QED BY <3>2 DEF Shown, Truth
  <2>2. page.open
    BY <2>1 DEF ClientInv, BoxInv
  <2>3. page.asked # 0 \/ page.prompts # 0
    BY <2>1 DEF ClientInv, AskInv
  <2>4. CASE page.prompts # 0
    <3>1. page.prompts = round
      BY <2>4 DEF NewToRound
    <3> QED BY <2>2, <2>4, <3>1 DEF ClientInv, FormInv
  <2>5. CASE page.asked # 0
    <3>1. page.asked = round
      BY <2>5 DEF NewToRound
    <3> QED BY <2>2, <3>1 DEF ClientInv, AskInv, Settled
  <2> QED BY <2>3, <2>4, <2>5
<1> QED BY <1>1, ClientInvariant, PTL
-----------------------------------------------------------------------------
(* Requests come to an end *)

\* A step that leaves as much to be done as there was.
Idle == page'.asked = page.asked /\ UNCHANGED <<outbox, direct>>

\* The commands of others, and those of closed connections, send the page
\* nothing of its own.
LEMMA IdleReaction ==
  ASSUME ClientInv, Send(<<>>), UNCHANGED <<page, outbox>>
  PROVE  Idle
<1>1. Tagged(<<>>, round') = <<>>
  BY DEF Tagged
<1>2. direct \in Seq(Msg)
  BY DEF ClientInv, WireTypeOK
<1>3. direct \o <<>> = direct
  BY <1>2, ConcatEmptySeq
<1> QED BY <1>1, <1>3 DEF Send, Idle

\* A command executed is one less, however long the answer.
LEMMA CommandShrinks == ClientInv /\ TakeCommand => Shrinks
<1> SUFFICES ASSUME ClientInv, TakeCommand PROVE Shrinks
  OBVIOUS
<1>1. outbox \in Seq(Command) /\ outbox # <<>> /\ outbox' = Tail(outbox) /\ page' = page
  BY DEF ClientInv, WireTypeOK, TakeCommand
<1>2. Len(outbox) \in Nat /\ Len(Tail(outbox)) = Len(outbox) - 1
  BY <1>1, TailFacts
<1>3. Len(outbox') < Len(outbox) /\ page'.asked = page.asked
  BY <1>1, <1>2
<1> QED BY <1>3 DEF Shrinks

\* A page asks when it has not asked, and has asked from then on: a handler
\* makes one request, or none and leaves the mark as it is.
LEMMA AsksOnce ==
  ASSUME ClientInv, NEW m \in Msg, Handle(m)
  PROVE  \/ page.asked = 0 /\ page'.asked # 0
         \/ page'.asked = page.asked /\ outbox' = outbox
<1>1. AskAfter(m)
  BY HandleFacts
<1>2. m.round # 0
  BY ClientAssumption DEF Msg, Round
<1>3. CASE outbox' = outbox
  <2>1. Append(outbox, [type |-> "join"]) # outbox
    <3>1. outbox \in Seq(Command)
      BY DEF ClientInv, WireTypeOK
    <3> QED BY <3>1
  <2> QED BY <1>1, <1>3, <2>1 DEF AskAfter
<1>4. CASE outbox' # outbox
  <2>1. m.body.type = "room_state" /\ WantsAssignment(page, m.body)
    BY <1>4 DEF Handle
  <2>2. page.asked = 0
    BY <2>1 DEF WantsAssignment
  <2> QED BY <1>1, <1>2, <1>4, <2>2 DEF AskAfter
<1> QED BY <1>3, <1>4

\* A reply read is one less, or the page asks for the only time.
LEMMA ReplyShrinks == ClientInv /\ TakeDirect => Shrinks
<1> SUFFICES ASSUME ClientInv, TakeDirect PROVE Shrinks
  OBVIOUS
<1>1. PICK m : ReadsDirect(m)
  BY TakeDirectReads
<1>2. \/ page.asked = 0 /\ page'.asked # 0
      \/ page'.asked = page.asked /\ outbox' = outbox
  BY <1>1, AsksOnce DEF ReadsDirect, Reads
<1>3. Len(direct) \in Nat /\ Len(direct') = Len(direct) - 1
  BY <1>1, TailFacts DEF ReadsDirect
<1> QED BY <1>2, <1>3 DEF Shrinks

\* A broadcast read makes the page ask for the only time, or nothing.
LEMMA EventShrinks == ClientInv /\ TakeEvent => Shrinks \/ Idle
<1> SUFFICES ASSUME ClientInv, TakeEvent PROVE Shrinks \/ Idle
  OBVIOUS
<1>1. PICK m : ReadsEvent(m)
  BY TakeEventReads
<1>2. \/ page.asked = 0 /\ page'.asked # 0
      \/ page'.asked = page.asked /\ outbox' = outbox
  BY <1>1, AsksOnce DEF ReadsEvent, Reads
<1> QED BY <1>1, <1>2 DEF ReadsEvent, Shrinks, Idle

\* A connection that ends takes with it what was on its way.
LEMMA EndShrinks ==
  ASSUME ClientInv, page' = page, outbox' = <<>>, direct' = <<>>
  PROVE  Shrinks \/ Idle
<1>1. outbox \in Seq(Command) /\ direct \in Seq(Msg)
  BY DEF ClientInv, WireTypeOK
<1>2. CASE outbox # <<>>
  <2>1. Len(outbox) \in Nat /\ Len(outbox) # 0
    BY <1>1, <1>2
  <2>2. Len(outbox') < Len(outbox)
    BY <2>1
  <2> QED BY <2>2 DEF Shrinks
<1>3. CASE outbox = <<>> /\ direct # <<>>
  <2>1. Len(direct) \in Nat /\ Len(direct) # 0
    BY <1>1, <1>3
  <2>2. Len(direct') < Len(direct)
    BY <2>1
  <2> QED BY <1>3, <2>2 DEF Shrinks
<1>4. CASE outbox = <<>> /\ direct = <<>>
  BY <1>4 DEF Idle
<1> QED BY <1>2, <1>3, <1>4

\* The first frame of a connection, and the room that is not there.
LEMMA AcceptShrinks == ClientInv /\ Accept => Shrinks \/ Idle
<1> SUFFICES ASSUME ClientInv, Accept PROVE Shrinks \/ Idle
  OBVIOUS
<1>1. link = "opening" /\ UNCHANGED <<direct, page>>
  BY DEF Accept
<1>2. CASE alive
  BY <1>1, <1>2 DEF Accept, Idle
<1>3. CASE ~ alive
  <2>1. direct = <<>> /\ outbox' = <<>>
    BY <1>1, <1>3 DEF Accept, ClientInv, ClientTypeOK, Subscribed
  <2> QED BY <1>1, <2>1, EndShrinks
<1> QED BY <1>2, <1>3

\* Each command executed and each reply read brings the end of the page's
\* requests nearer, and only a button, a new connection or a new page puts it
\* off: the request a page makes by itself is made once, and the mark of it is
\* kept for as long as the connection lasts.
THEOREM RequestsComeToAnEnd == ClientSpec => RequestsShrink
<1>1. ClientInv /\ [ClientNext]_clientVars =>
        [/\ TakeCommand \/ TakeDirect => Shrinks
         /\ \/ Shrinks
            \/ UNCHANGED <<page.asked, outbox, direct>>
            \/ Connect \/ Refresh \/ PressSubmit \/ PressMove]_clientVars
  <2> SUFFICES ASSUME ClientInv, ClientNext
               PROVE  /\ TakeCommand \/ TakeDirect => Shrinks
                      /\ \/ Shrinks \/ Idle
                         \/ Connect \/ Refresh \/ PressSubmit \/ PressMove
    BY DEF Idle
  <2>1. TakeCommand \/ TakeDirect => Shrinks
    BY CommandShrinks, ReplyShrinks
  <2>2. CASE Others
    BY <2>2, IdleReaction, <2>1 DEF Others
  <2>3. CASE TakeOrphan
    BY <2>3, IdleReaction, <2>1 DEF TakeOrphan
  <2>4. CASE TakeCommand \/ TakeDirect
    BY <2>1, <2>4
  <2>5. CASE TakeEvent
    BY <2>1, <2>5, EventShrinks
  <2>6. CASE Accept
    BY <2>1, <2>6, AcceptShrinks
  <2>7. CASE Disconnect \/ Stop
    BY <2>1, <2>7, EndShrinks DEF Disconnect, Stop, Shuts, Drop
  <2>8. CASE PressToggle
    <3>1. page \in Page
      BY DEF ClientInv, ClientTypeOK
    <3>2. page' = [page EXCEPT !.open = ~ @] /\ UNCHANGED <<outbox, direct>>
      BY <2>8 DEF PressToggle
    <3>3. page'.asked = page.asked
      BY <3>1, <3>2 DEF Page
    <3> QED BY <2>1, <3>2, <3>3 DEF Idle
  <2> QED BY <2>1, <2>2, <2>3, <2>4, <2>5, <2>6, <2>7, <2>8 DEF ClientNext
<1> QED BY <1>1, ClientInvariant, PTL DEF ClientSpec, RequestsShrink
=============================================================================
