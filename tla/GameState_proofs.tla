--------------------------- MODULE GameState_proofs ---------------------------
(***************************************************************************)
(* Theorems about GameState, for every set of names, every catalogue of    *)
(* prompt sets and every request a client may send.                        *)
(***************************************************************************)
EXTENDS GameState, WellFoundedInduction, FunctionTheorems, FiniteSetTheorems, SequenceTheorems, TLAPS

-----------------------------------------------------------------------------
(* The inductive invariant *)

UniqueNames ==
  \A i, j \in Seat : players[i].name = players[j].name => i = j

\* Outside the lobby the assignment is still the one start_collecting made.
Assigned ==
  phase # "lobby" =>
    /\ players # <<>>
    /\ PromptSets # <<>>
    /\ \A i \in Seat :
         /\ players[i].partner = players[NextSeat(i, Len(players))].name
         /\ players[i].prompt_set_id = AssignedSet(i)

\* Whoever has answered has answered every prompt of the set they hold.
Answered ==
  \A i \in Seat :
    players[i].responses # None =>
      players[i].responses.items = PromptCount(players[i].prompt_set_id)

AllIn ==
  phase \in {"performing", "archived"} =>
    \A i \in Seat : players[i].responses # None

CurtainDown == phase \in {"lobby", "collecting"} => current_slide = 0

GameInv ==
  /\ GameTypeOK
  /\ UniqueNames
  /\ Assigned
  /\ Answered
  /\ AllIn
  /\ CurtainDown
  /\ SlideInRange

-----------------------------------------------------------------------------
(* Lemmas about the operators *)

\* The next seat of the ring, without the modulus.
LEMMA NextSeatRing ==
  ASSUME NEW n \in Nat \ {0}, NEW i \in 1 .. n
  PROVE  /\ NextSeat(i, n) \in 1 .. n
         /\ NextSeat(i, n) = IF i = n THEN 1 ELSE i + 1
  BY DEF NextSeat

\* Each seat of the ring has one seat before it.
LEMMA PreviousSeat ==
  ASSUME NEW n \in Nat \ {0}, NEW m \in 1 .. n, NEW j \in 1 .. n
  PROVE  NextSeat(j, n) = m <=> j = IF m = 1 THEN n ELSE m - 1
<1>1. NextSeat(j, n) = IF j = n THEN 1 ELSE j + 1
  BY NextSeatRing
<1> QED BY <1>1

\* The round robin stays inside the catalogue.
LEMMA AssignedSetType ==
  ASSUME PromptSets # <<>>, NEW i \in Nat \ {0}
  PROVE  AssignedSet(i) \in PromptSetId
<1>1. Len(PromptSets) \in Nat /\ Len(PromptSets) > 0
  BY PromptSetsAssumption
<1>2. ((i - 1) % Len(PromptSets)) + 1 \in 1 .. Len(PromptSets)
  BY <1>1
<1> QED BY <1>1, <1>2, PromptSetsAssumption DEF AssignedSet

\* Every id has a number of prompts, an unknown one too.
LEMMA PromptCountType ==
  ASSUME NEW id PROVE PromptCount(id) \in Nat
<1>1. CASE \E k \in DOMAIN PromptSets : PromptSets[k] = id
  <2>1. id \in PromptSetId
    BY <1>1, PromptSetsAssumption
  <2> QED BY <1>1, <2>1, PromptsAssumption DEF PromptCount
<1>2. CASE ~ \E k \in DOMAIN PromptSets : PromptSets[k] = id
  BY <1>2 DEF PromptCount
<1> QED BY <1>1, <1>2

\* Taking one entry out of a sequence keeps the others, in order.
LEMMA RemoveAtElements ==
  ASSUME NEW S, NEW s \in Seq(S), NEW i \in DOMAIN s
  PROVE  /\ RemoveAt(s, i) \in Seq(S)
         /\ Len(RemoveAt(s, i)) = Len(s) - 1
         /\ \A j \in 1 .. Len(s) - 1 :
              RemoveAt(s, i)[j] = s[IF j < i THEN j ELSE j + 1]
<1> DEFINE front == SubSeq(s, 1, i - 1)
           back  == SubSeq(s, i + 1, Len(s))
<1>1. /\ front \in Seq(S) /\ Len(front) = i - 1
      /\ \A j \in 1 .. i - 1 : front[j] = s[j]
  OBVIOUS
<1>2. /\ back \in Seq(S) /\ Len(back) = Len(s) - i
      /\ \A j \in 1 .. Len(s) - i : back[j] = s[j + i]
  OBVIOUS
<1>3. RemoveAt(s, i) = front \o back
  BY DEF RemoveAt
<1> HIDE DEF front, back
<1>4. RemoveAt(s, i) \in Seq(S) /\ Len(RemoveAt(s, i)) = Len(s) - 1
  BY <1>1, <1>2, <1>3
<1>5. ASSUME NEW j \in 1 .. Len(s) - 1
      PROVE  RemoveAt(s, i)[j] = s[IF j < i THEN j ELSE j + 1]
  <2>1. CASE j < i
    BY <1>1, <1>2, <1>3, <2>1
  <2>2. CASE ~ (j < i)
    <3>1. j - (i - 1) \in 1 .. Len(s) - i
      BY <2>2
    <3>2. (front \o back)[j] = back[j - (i - 1)]
      BY <1>1, <1>2, <2>2
    <3> QED BY <1>2, <1>3, <2>2, <3>1, <3>2
  <2> QED BY <2>1, <2>2
<1> QED BY <1>4, <1>5

-----------------------------------------------------------------------------
(* Flattening *)

\* A set of numbers has a least one: the initial segments of its members are
\* finite sets, of which one is inside no other.
LEMMA Least ==
  ASSUME NEW T, T \subseteq Nat, T # {}
  PROVE  \E x \in T : \A y \in T : x <= y
<1> DEFINE U == {0 .. n : n \in T}
<1>1. U \subseteq FiniteSubsetsOf(Nat) /\ U # {}
  <2>1. \A n \in T : 0 .. n \subseteq Nat /\ IsFiniteSet(0 .. n)
    BY FS_Interval
  <2> QED BY <2>1 DEF FiniteSubsetsOf
<1>2. PICK m \in U : \A u \in U : <<u, m>> \notin StrictSubsetOrdering(Nat)
  BY <1>1, FS_StrictSubsetOrderingWellFounded, WFMin
<1>3. PICK x \in T : m = 0 .. x
  OBVIOUS
<1>4. ASSUME NEW y \in T, y < x PROVE FALSE
  <2>1. 0 .. y \subseteq 0 .. x /\ 0 .. y # 0 .. x
    BY <1>4
  <2>2. 0 .. y \in U
    OBVIOUS
  <2>3. <<0 .. y, m>> \in StrictSubsetOrdering(Nat)
    BY <1>1, <1>3, <2>1, <2>2 DEF StrictSubsetOrdering, FiniteSubsetsOf
  <2> QED BY <1>2, <2>2, <2>3
<1> QED BY <1>4

\* Appending sequences one after the other, from the first on.
Appends(f, s) ==
  /\ f[1] = s[1]
  /\ \A i \in 2 .. Len(s) : f[i] = f[i - 1] \o s[i]

\* Sequences can be appended as far as one likes: were there a first length at
\* which they could not, they could up to it, and then by one more.
LEMMA AppendsExists ==
  ASSUME NEW S, NEW s \in Seq(Seq(S)), s # <<>>
  PROVE  \E f \in [1 .. Len(s) -> Seq(S)] : Appends(f, s)
<1> DEFINE N == Len(s)
           upTo(f, k) == f[1] = s[1] /\ \A i \in 2 .. k : f[i] = f[i - 1] \o s[i]
           Q(k) == \E f \in [1 .. k -> Seq(S)] : upTo(f, k)
           bad == {k \in 1 .. N : ~ Q(k)}
<1>1. N \in Nat \ {0} /\ \A i \in 1 .. N : s[i] \in Seq(S)
  OBVIOUS
<1>2. SUFFICES Q(N)
  BY DEF Appends
<1>3. Q(1)
  <2> DEFINE f == [i \in 1 .. 1 |-> s[1]]
  <2>1. f \in [1 .. 1 -> Seq(S)] /\ upTo(f, 1)
    BY <1>1
  <2> QED BY <2>1
<1>4. ASSUME NEW k \in 1 .. N, k # 1, Q(k - 1) PROVE Q(k)
  <2>1. PICK g \in [1 .. k - 1 -> Seq(S)] : upTo(g, k - 1)
    BY <1>4
  <2> DEFINE f == [i \in 1 .. k |-> IF i = k THEN g[k - 1] \o s[k] ELSE g[i]]
  <2>2. g[k - 1] \o s[k] \in Seq(S)
    BY <1>1, <1>4
  <2>3. f \in [1 .. k -> Seq(S)]
    BY <1>1, <1>4, <2>2
  <2>4. f[1] = s[1]
    BY <1>1, <1>4, <2>1
  <2>5. ASSUME NEW i \in 2 .. k PROVE f[i] = f[i - 1] \o s[i]
    <3>1. k \in Nat /\ i \in 1 .. k /\ i - 1 \in 1 .. k /\ i - 1 # k
      BY <1>1, <1>4
    <3>2. f[i - 1] = g[i - 1]
      BY ONLY <3>1
    <3>3. CASE i = k
      BY <3>1, <3>2, <3>3
    <3>4. CASE i # k
      <4>1. i \in 2 .. k - 1
        BY <3>1, <3>4
      <4>2. g[i] = g[i - 1] \o s[i]
        BY <2>1, <4>1
      <4>3. f[i] = g[i]
        BY <3>1, <3>4
      <4> HIDE DEF f
      <4> QED BY <3>2, <4>2, <4>3
    <3> QED BY <3>3, <3>4
  <2>6. upTo(f, k)
    BY <2>4, <2>5
  <2> HIDE DEF f, upTo
  <2> QED BY <2>3, <2>6
<1>5. bad = {}
  <2> SUFFICES ASSUME bad # {} PROVE FALSE
    OBVIOUS
  <2> HIDE DEF Q
  <2>1. bad \subseteq Nat
    BY <1>1
  <2>2. PICK k \in bad : \A j \in bad : k <= j
    BY <2>1, Least
  <2>3. k \in 1 .. N /\ ~ Q(k) /\ k # 1
    BY <1>3
  <2>4. k - 1 \in 1 .. N /\ k - 1 \notin bad
    BY <1>1, <2>2, <2>3
  <2> QED BY <1>4, <2>3, <2>4
<1>6. N \notin bad
  BY <1>5
<1>7. N \in 1 .. N
  BY <1>1
<1> HIDE DEF Q, N
<1> QED BY <1>6, <1>7

\* There is one way to append them.
LEMMA AppendsUnique ==
  ASSUME NEW s, Len(s) \in Nat \ {0}, NEW f, NEW g, Appends(f, s), Appends(g, s)
  PROVE  \A i \in 1 .. Len(s) : f[i] = g[i]
<1> DEFINE N == Len(s)
           bad == {i \in 1 .. N : f[i] # g[i]}
<1> SUFFICES ASSUME bad # {} PROVE FALSE
  OBVIOUS
<1>1. bad \subseteq Nat
  OBVIOUS
<1>2. PICK k \in bad : \A j \in bad : k <= j
  BY <1>1, Least
<1>3. k \in 1 .. N /\ f[k] # g[k]
  OBVIOUS
<1>4. k # 1
  BY <1>3 DEF Appends
<1>5. k \in 2 .. N /\ k - 1 \in 1 .. N
  BY <1>3, <1>4
<1>6. k - 1 \notin bad
  BY <1>2, <1>5
<1>7. f[k] = f[k - 1] \o s[k] /\ g[k] = g[k - 1] \o s[k]
  BY <1>5 DEF Appends
<1> QED BY <1>3, <1>5, <1>6, <1>7

\* FlattenSeq is the last of them.
LEMMA FlattenAppends ==
  ASSUME NEW S, NEW s \in Seq(Seq(S)), s # <<>>
  PROVE  \E f \in [1 .. Len(s) -> Seq(S)] : Appends(f, s) /\ FlattenSeq(s) = f[Len(s)]
<1> DEFINE step(f) == [i \in 1 .. Len(s) |-> IF i = 1 THEN s[i] ELSE f[i - 1] \o s[i]]
           h == CHOOSE f : f = step(f)
<1>1. Len(s) \in Nat \ {0}
  OBVIOUS
<1>2. FlattenSeq(s) = h[Len(s)]
  BY <1>1 DEF FlattenSeq
<1>3. PICK f \in [1 .. Len(s) -> Seq(S)] : Appends(f, s)
  BY AppendsExists
<1>4. f = step(f)
  <2>1. ASSUME NEW i \in 1 .. Len(s) PROVE f[i] = step(f)[i]
    <3>1. CASE i = 1
      BY <1>3, <3>1 DEF Appends
    <3>2. CASE i # 1
      <4>1. i \in 2 .. Len(s)
        BY <1>1, <3>2
      <4>2. f[i] = f[i - 1] \o s[i]
        BY <1>3, <4>1 DEF Appends
      <4> QED BY <3>2, <4>2
    <3> QED BY <3>1, <3>2
  <2>2. DOMAIN f = DOMAIN step(f)
    OBVIOUS
  <2> QED BY <2>1, <2>2
<1>5. h = step(h)
  <2> HIDE DEF step
  <2> QED BY <1>4
<1> HIDE DEF h
<1>6. Appends(h, s)
  <2>1. \A i \in 1 .. Len(s) : h[i] = step(h)[i]
    <3> HIDE DEF step
    <3> QED BY <1>5
  <2>2. h[1] = s[1]
    <3>1. 1 \in 1 .. Len(s)
      BY <1>1
    <3> QED BY <2>1, <3>1
  <2>3. ASSUME NEW i \in 2 .. Len(s) PROVE h[i] = h[i - 1] \o s[i]
    <3>1. i \in 1 .. Len(s) /\ i # 1
      BY <1>1
    <3> QED BY <2>1, <3>1
  <2> QED BY <2>2, <2>3 DEF Appends
<1>7. h[Len(s)] = f[Len(s)]
  BY <1>1, <1>3, <1>6, AppendsUnique
<1> QED BY <1>2, <1>3, <1>7

-----------------------------------------------------------------------------
(* The deck *)

\* The number of slides of a player's segment.
Size(i) == 3 + PromptCount(players[i].prompt_set_id)

Slides == Nat \X Nat

\* A segment is as long as its prompts make it.
LEMMA SegmentSlides ==
  ASSUME GameTypeOK, NEW i \in Seat
  PROVE  /\ Size(i) \in Nat /\ Size(i) >= 3
         /\ Segment(i) \in Seq(Slides) /\ Len(Segment(i)) = Size(i)
         /\ \A line \in 1 .. Size(i) : Segment(i)[line] = <<i, line>>
<1> DEFINE p == PromptCount(players[i].prompt_set_id)
<1>1. p \in Nat /\ i \in Nat
  BY PromptCountType DEF GameTypeOK, Seat
<1>2. Segment(i) = [line \in 1 .. 3 + p |-> <<i, line>>] /\ Size(i) = 3 + p
  BY DEF Segment, Size
<1> HIDE DEF p
<1>3. Size(i) \in Nat /\ Size(i) >= 3
  BY <1>1, <1>2
<1>4. Segment(i) \in Seq(Slides) /\ Len(Segment(i)) = Size(i)
  BY <1>1, <1>2, <1>3 DEF Slides
<1>5. \A line \in 1 .. Size(i) : Segment(i)[line] = <<i, line>>
  BY <1>2
<1> QED BY <1>3, <1>4, <1>5

\* The segments of a roster make one list of slides.
LEMMA SegmentsFlat ==
  ASSUME GameTypeOK
  PROVE  /\ [i \in Seat |-> Segment(i)] \in Seq(Seq(Slides))
         /\ Len([i \in Seat |-> Segment(i)]) = Len(players)
         /\ FlattenSeq([i \in Seat |-> Segment(i)]) \in Seq(Slides)
<1> DEFINE segments == [i \in Seat |-> Segment(i)]
           n == Len(players)
<1>1. n \in Nat /\ Seat = 1 .. n
  BY DEF GameTypeOK, Seat
<1>2. segments \in Seq(Seq(Slides)) /\ Len(segments) = n
  <2>1. \A i \in 1 .. n : Segment(i) \in Seq(Slides)
    BY <1>1, SegmentSlides
  <2>2. segments = [i \in 1 .. n |-> Segment(i)]
    BY <1>1
  <2> HIDE DEF n
  <2> QED BY <1>1, <2>1, <2>2
<1> HIDE DEF segments
<1>3. CASE segments = << >>
  <2>1. FlattenSeq(segments) = segments
    BY <1>3 DEF FlattenSeq
  <2> QED BY <1>2, <1>3, <2>1 DEF segments
<1>4. CASE segments # << >>
  <2>1. PICK f \in [1 .. Len(segments) -> Seq(Slides)] : FlattenSeq(segments) = f[Len(segments)]
    BY <1>2, <1>4, FlattenAppends
  <2>2. Len(segments) \in 1 .. Len(segments)
    BY <1>2, <1>4
  <2> QED BY <1>2, <2>1, <2>2 DEF segments
<1> QED BY <1>3, <1>4

\* The deck is the rules, the segments and the two closing slides.
LEMMA DeckList ==
  ASSUME GameTypeOK, NEW run, run = FlattenSeq([i \in Seat |-> Segment(i)])
  PROVE  /\ run \in Seq(Slides) /\ Len(run) \in Nat
         /\ build_slides \in Seq(Slides) /\ Len(build_slides) = Len(run) + 3
         /\ build_slides[1] = <<0, 1>>
         /\ \A k \in 1 .. Len(run) : build_slides[k + 1] = run[k]
         /\ build_slides[Len(run) + 2] = <<Closing, 1>>
         /\ build_slides[Len(run) + 3] = <<Closing, 2>>
<1> DEFINE rules == << <<0, 1>> >>
           close == << <<Closing, 1>>, <<Closing, 2>> >>
           head  == rules \o run
<1>1. run \in Seq(Slides) /\ Len(run) \in Nat
  BY SegmentsFlat
<1>2. rules \in Seq(Slides) /\ Len(rules) = 1 /\ rules[1] = <<0, 1>>
  BY DEF Slides
<1>3. /\ close \in Seq(Slides) /\ Len(close) = 2
      /\ close[1] = <<Closing, 1>> /\ close[2] = <<Closing, 2>>
  <2>1. Closing \in Nat
    BY DEF Closing, GameTypeOK
  <2> QED BY <2>1 DEF Slides
<1>4. build_slides = head \o close
  BY DEF build_slides
<1> HIDE DEF rules, close
<1>5. /\ head \in Seq(Slides) /\ Len(head) = 1 + Len(run)
      /\ \A k \in 1 .. 1 + Len(run) : head[k] = IF k <= 1 THEN rules[k] ELSE run[k - 1]
  <2>1. /\ head \in Seq(Slides) /\ Len(head) = Len(rules) + Len(run)
        /\ \A k \in 1 .. Len(rules) + Len(run) :
             head[k] = IF k <= Len(rules) THEN rules[k] ELSE run[k - Len(rules)]
    BY <1>1, <1>2, ConcatProperties
  <2> HIDE DEF head
  <2> QED BY <1>1, <1>2, <2>1
<1> HIDE DEF head
<1>6. /\ build_slides \in Seq(Slides) /\ Len(build_slides) = Len(head) + Len(close)
      /\ \A k \in 1 .. Len(head) + Len(close) :
           build_slides[k] = IF k <= Len(head) THEN head[k] ELSE close[k - Len(head)]
  BY <1>3, <1>4, <1>5, ConcatProperties
<1> DEFINE m == Len(run)
<1>7. m \in Nat /\ Len(head) = 1 + m /\ Len(close) = 2
  BY <1>1, <1>3, <1>5
<1>8. Len(build_slides) = m + 3
  BY <1>6, <1>7
<1>9. build_slides[1] = <<0, 1>>
  BY <1>2, <1>5, <1>6, <1>7
<1>10. \A k \in 1 .. m : build_slides[k + 1] = run[k]
  <2> SUFFICES ASSUME NEW k \in 1 .. m PROVE build_slides[k + 1] = run[k]
    OBVIOUS
  <2>1. k + 1 \in 1 .. (1 + m) + 2 /\ k + 1 <= 1 + m /\ ~ (k + 1 <= 1) /\ (k + 1) - 1 = k
    BY <1>7
  <2>2. build_slides[k + 1] = head[k + 1]
    BY <1>6, <1>7, <2>1
  <2> QED BY <1>5, <1>7, <2>1, <2>2
<1>11. build_slides[m + 2] = <<Closing, 1>> /\ build_slides[m + 3] = <<Closing, 2>>
  <2>1. /\ m + 2 \in 1 .. (1 + m) + 2 /\ ~ (m + 2 <= 1 + m) /\ (m + 2) - (1 + m) = 1
        /\ m + 3 \in 1 .. (1 + m) + 2 /\ ~ (m + 3 <= 1 + m) /\ (m + 3) - (1 + m) = 2
    BY <1>7
  <2> QED BY <1>3, <1>6, <1>7, <2>1
<1> QED BY <1>1, <1>6, <1>8, <1>9, <1>10, <1>11

\* The deck has the rules and the closing slides, at least.
LEMMA DeckSize == GameTypeOK => total_slides \in Nat \ {0}
<1> SUFFICES ASSUME GameTypeOK PROVE total_slides \in Nat \ {0}
  OBVIOUS
<1> DEFINE run == FlattenSeq([i \in Seat |-> Segment(i)])
<1> HIDE DEF run
<1>1. Len(run) \in Nat /\ Len(build_slides) = Len(run) + 3
  BY DeckList DEF run
<1> QED BY <1>1 DEF total_slides

-----------------------------------------------------------------------------
(* The inductive invariant, one lemma per operation *)

\* A new room is an empty lobby, at the first slide.
LEMMA InvInit == GameInit => GameInv
<1> SUFFICES ASSUME GameInit PROVE GameInv
  OBVIOUS
<1>1. GameTypeOK /\ current_slide = 0
  BY DEF GameInit, GameTypeOK, Phase
<1>2. SlideInRange
  BY <1>1, DeckSize DEF SlideInRange
<1> QED BY <1>1, <1>2
     DEF GameInit, GameInv, UniqueNames, Assigned, Answered, AllIn, CurtainDown,
         Seat

\* A step that leaves the carousel at its start stays inside the deck.
LEMMA StartInRange == GameTypeOK' /\ current_slide' = 0 => SlideInRange'
<1>1. (GameTypeOK => total_slides \in Nat \ {0})'
  BY DeckSize, PTL
<1> QED BY <1>1 DEF SlideInRange

\* A player with a new name joins the lobby.
LEMMA InvAddPlayer ==
  ASSUME GameInv, NEW n \in Name, AddPlayer(n) PROVE GameInv'
<1> USE DEF GameInv
<1>1. NewPlayer(n) \in Player
  BY DEF NewPlayer, Player
<1>2. /\ Len(players') = Len(players) + 1
      /\ Seat' = Seat \cup {Len(players) + 1}
      /\ \A i \in Seat : players'[i] = players[i]
      /\ players'[Len(players) + 1] = NewPlayer(n)
  BY DEF AddPlayer, GameTypeOK, Seat
<1>3. GameTypeOK'
  BY <1>1 DEF AddPlayer, GameTypeOK
<1>4. UniqueNames'
  <2>1. NewPlayer(n).name = n /\ \A i \in Seat : players[i].name # n
    BY DEF AddPlayer, CanAddPlayer, Roster, NewPlayer
  <2> SUFFICES ASSUME NEW i \in Seat', NEW j \in Seat',
                      players'[i].name = players'[j].name
               PROVE  i = j
    BY DEF UniqueNames
  <2> QED BY <1>2, <2>1 DEF UniqueNames
<1>5. Answered'
  BY <1>2 DEF Answered, NewPlayer, PromptCount
<1>6. phase' = "lobby" /\ current_slide' = 0
  BY DEF AddPlayer, CanAddPlayer, CurtainDown
<1>7. Assigned' /\ AllIn' /\ CurtainDown'
  BY <1>6 DEF Assigned, AllIn, CurtainDown
<1> QED BY <1>3, <1>4, <1>5, <1>6, <1>7, StartInRange

\* A player leaves the lobby; the others keep their order.
LEMMA InvRemovePlayer ==
  ASSUME GameInv, NEW n \in Name, RemovePlayer(n) PROVE GameInv'
<1> USE DEF GameInv
<1>1. PICK r \in Seat : players' = RemoveAt(players, r)
  BY DEF RemovePlayer
<1> DEFINE old(j) == IF j < r THEN j ELSE j + 1
<1>2. /\ players' \in Seq(Player)
      /\ Len(players') = Len(players) - 1
      /\ \A j \in 1 .. Len(players) - 1 : players'[j] = players[old(j)]
  BY <1>1, RemoveAtElements DEF GameTypeOK, Seat
<1>8. /\ Seat' = 1 .. Len(players) - 1
       /\ \A j \in Seat' : old(j) \in Seat /\ players'[j] = players[old(j)]
  BY <1>2 DEF GameTypeOK, Seat
<1>3. GameTypeOK'
  BY <1>2 DEF RemovePlayer, GameTypeOK
<1>4. UniqueNames'
  <2> SUFFICES ASSUME NEW i \in Seat', NEW j \in Seat',
                      players'[i].name = players'[j].name
               PROVE  i = j
    BY DEF UniqueNames
  <2>1. old(i) = old(j)
    BY <1>8 DEF UniqueNames
  <2>2. i \in Int /\ j \in Int /\ r \in Int
    BY <1>8 DEF GameTypeOK, Seat
  <2> QED BY <2>1, <2>2
<1>5. Answered'
  BY <1>8 DEF Answered, PromptCount
<1>6. phase' = "lobby" /\ current_slide' = 0
  BY DEF RemovePlayer, CanRemovePlayer, CurtainDown
<1>7. Assigned' /\ AllIn' /\ CurtainDown'
  BY <1>6 DEF Assigned, AllIn, CurtainDown
<1> QED BY <1>3, <1>4, <1>5, <1>6, <1>7, StartInRange

\* The assignments are handed out: a set and a partner for each seat.
LEMMA InvStartCollecting ==
  ASSUME GameInv, StartCollecting PROVE GameInv'
<1> USE DEF GameInv
<1> DEFINE n == Len(players)
<1>1. n \in Nat \ {0} /\ Seat = 1 .. n /\ PromptSets # <<>>
  BY DEF StartCollecting, CanStartCollecting, GameTypeOK, Seat
<1>2. \A i \in Seat : NextSeat(i, n) \in Seat /\ AssignedSet(i) \in PromptSetId
  BY <1>1, NextSeatRing, AssignedSetType
<1>3. /\ Len(players') = n
      /\ Seat' = Seat
      /\ \A i \in Seat :
           /\ players'[i] = [name          |-> players[i].name,
                             prompt_set_id |-> AssignedSet(i),
                             partner       |-> players[NextSeat(i, n)].name,
                             responses     |-> None]
           /\ players'[i].name = players[i].name
           /\ players'[i].prompt_set_id = AssignedSet(i)
           /\ players'[i].partner = players[NextSeat(i, n)].name
           /\ players'[i].responses = None
  BY <1>1 DEF StartCollecting, Seat
<1>4. \A i \in Seat : players'[i] \in Player
  <2> SUFFICES ASSUME NEW i \in Seat PROVE players'[i] \in Player
    OBVIOUS
  <2>1. players[i] \in Player /\ players[NextSeat(i, n)] \in Player
    BY <1>2 DEF GameTypeOK, Seat
  <2>2. players[i].name \in Name /\ players[NextSeat(i, n)].name \in Name
    BY <2>1 DEF Player
  <2>3. [name          |-> players[i].name,
         prompt_set_id |-> AssignedSet(i),
         partner       |-> players[NextSeat(i, n)].name,
         responses     |-> None] \in Player
    BY <1>2, <2>2 DEF Player
  <2> QED BY <1>3, <2>3, Zenon
<1>5. GameTypeOK'
  <2>1. players' \in Seq(Player)
    BY <1>1, <1>3, <1>4 DEF StartCollecting, Seat
  <2> QED BY <2>1 DEF StartCollecting, GameTypeOK, Phase
<1>6. UniqueNames'
  <2> SUFFICES ASSUME NEW i \in Seat, NEW j \in Seat,
                      players'[i].name = players'[j].name
               PROVE  i = j
    BY <1>3 DEF UniqueNames
  <2> QED BY <1>3 DEF UniqueNames
<1>7. Assigned'
  <2> SUFFICES ASSUME NEW i \in Seat
               PROVE  /\ players'[i].partner = players'[NextSeat(i, n)].name
                      /\ players'[i].prompt_set_id = AssignedSet(i)
    BY <1>1, <1>3 DEF Assigned, AssignedSet, NextSeat
  <2> QED BY <1>2, <1>3
<1>8. Answered'
  <2>1. \A i \in Seat : players'[i].responses = None
    BY <1>3
  <2> QED BY <1>3, <2>1 DEF Answered
<1>9. phase' = "collecting" /\ current_slide' = 0
  BY DEF StartCollecting, CanStartCollecting, CurtainDown
<1>10. AllIn' /\ CurtainDown'
  BY <1>9 DEF AllIn, CurtainDown
<1> QED BY <1>5, <1>6, <1>7, <1>8, <1>9, <1>10, StartInRange

\* One player answers; nobody else changes.
LEMMA InvSubmitResponses ==
  ASSUME GameInv, NEW n \in Name, NEW k \in ItemCount, NEW t \in Text,
         SubmitResponses(n, k, t)
  PROVE  GameInv'
<1> USE DEF GameInv
<1> DEFINE answer == [items |-> k, signoff |-> t]
<1>1. PICK r \in Seat :
        FirstSeat(n, r) /\ players' = [players EXCEPT ![r].responses = answer]
  BY DEF SubmitResponses
<1>2. k = PromptCount(players[r].prompt_set_id)
  BY <1>1 DEF SubmitResponses, CanSubmitResponses, FirstSeat, UniqueNames
<1>3. answer \in Responses /\ answer # None
  BY RequestAssumption, NoneAssumption DEF Responses
<1>4. /\ Seat' = Seat
      /\ Len(players') = Len(players)
      /\ \A i \in Seat :
           /\ players'[i].name = players[i].name
           /\ players'[i].prompt_set_id = players[i].prompt_set_id
           /\ players'[i].partner = players[i].partner
           /\ players'[i].responses = IF i = r THEN answer
                                      ELSE players[i].responses
  BY <1>1 DEF GameTypeOK, Seat, Player
<1>5. GameTypeOK'
  <2>1. players[r] \in Player
    BY <1>1 DEF GameTypeOK, Seat
  <2>2. [players[r] EXCEPT !.responses = answer] \in Player
    BY <1>3, <2>1 DEF Player
  <2>3. players' = [players EXCEPT ![r] = [players[r] EXCEPT !.responses = answer]]
    BY <1>1
  <2>4. players' \in Seq(Player)
    BY <2>2, <2>3, ExceptSeq DEF GameTypeOK, Seat
  <2> QED BY <2>4 DEF SubmitResponses, GameTypeOK
<1>6. phase' = "collecting" /\ phase = "collecting" /\ current_slide' = 0
  BY DEF SubmitResponses, CanSubmitResponses, CurtainDown
<1>7. UniqueNames'
  BY <1>4 DEF UniqueNames
<1>8. Assigned'
  <2>1. \A i \in Seat : NextSeat(i, Len(players)) \in Seat
    <3>1. Len(players) \in Nat /\ Seat = 1 .. Len(players)
      BY DEF GameTypeOK, Seat
    <3> QED BY <3>1, NextSeatRing
  <2> QED BY <1>1, <1>4, <1>6, <2>1 DEF Assigned, GameTypeOK
<1>9. Answered'
  <2> SUFFICES ASSUME NEW i \in Seat, players'[i].responses # None
               PROVE  players'[i].responses.items
                        = PromptCount(players[i].prompt_set_id)
    BY <1>4 DEF Answered, PromptCount
  <2>1. answer.items = k
    OBVIOUS
  <2> QED BY <1>2, <1>4, <2>1 DEF Answered
<1>10. AllIn' /\ CurtainDown'
  BY <1>6 DEF AllIn, CurtainDown
<1> QED BY <1>5, <1>6, <1>7, <1>8, <1>9, <1>10, StartInRange

\* The curtain rises over a roster that has answered.
LEMMA InvStartGame ==
  ASSUME GameInv, StartGame PROVE GameInv'
<1> USE DEF GameInv
<1>1. /\ phase' = "performing" /\ phase = "collecting"
      /\ players' = players
      /\ current_slide' = 0
      /\ \A i \in Seat : players[i].responses # None
  BY DEF StartGame, CanStartGame, all_submitted, submitted
<1>2. GameTypeOK'
  BY <1>1 DEF GameTypeOK, Phase
<1>3. UniqueNames' /\ Answered'
  BY <1>1 DEF UniqueNames, Answered, Seat, PromptCount
<1>4. Assigned'
  BY <1>1 DEF Assigned, Seat, NextSeat, AssignedSet
<1>5. AllIn' /\ CurtainDown'
  BY <1>1 DEF AllIn, CurtainDown, Seat
<1> QED BY <1>1, <1>2, <1>3, <1>4, <1>5, StartInRange

\* Next, previous and goto: the roster stays, the index stays inside the deck.
LEMMA InvMove ==
  ASSUME GameInv, phase = "performing",
         UNCHANGED <<phase, players>>,
         current_slide' \in Nat, current_slide' < total_slides
  PROVE  GameInv'
<1> USE DEF GameInv
<1>1. total_slides' = total_slides
  BY DEF total_slides, build_slides, Closing, Segment, PromptCount, Seat
<1>2. GameTypeOK' /\ SlideInRange'
  BY <1>1 DEF GameTypeOK, SlideInRange
<1>3. UniqueNames' /\ Answered'
  BY DEF UniqueNames, Answered, Seat, PromptCount
<1>4. Assigned'
  BY DEF Assigned, Seat, NextSeat, AssignedSet
<1>5. AllIn' /\ CurtainDown'
  BY DEF AllIn, CurtainDown, Seat
<1> QED BY <1>2, <1>3, <1>4, <1>5

\* The round leaves the stage as it is.
LEMMA InvArchiveRound ==
  ASSUME GameInv, ArchiveRound PROVE GameInv'
<1> USE DEF GameInv, ArchiveRound, CanArchiveRound
<1>1. total_slides' = total_slides
  BY DEF total_slides, build_slides, Closing, Segment, PromptCount, Seat
<1>2. GameTypeOK' /\ SlideInRange'
  BY <1>1 DEF GameTypeOK, SlideInRange, Phase
<1>3. UniqueNames' /\ Answered'
  BY DEF UniqueNames, Answered, Seat, PromptCount
<1>4. Assigned'
  BY DEF Assigned, Seat, NextSeat, AssignedSet
<1>5. AllIn' /\ CurtainDown'
  BY DEF AllIn, CurtainDown, Seat
<1> QED BY <1>2, <1>3, <1>4, <1>5

\* The next round begins as a new room does.
LEMMA InvNewRound ==
  ASSUME GameInv, NewRound PROVE GameInv'
<1> USE DEF GameInv, NewRound
<1>1. GameTypeOK' /\ Seat' = {}
  BY DEF GameTypeOK, Phase, Seat
<1>2. UniqueNames' /\ Answered'
  BY <1>1 DEF UniqueNames, Answered
<1>3. Assigned' /\ AllIn' /\ CurtainDown'
  BY DEF Assigned, AllIn, CurtainDown
<1> QED BY <1>1, <1>2, <1>3, StartInRange

\* A step that leaves the game alone keeps the invariant.
LEMMA InvStutter ==
  ASSUME GameInv, UNCHANGED gameVars PROVE GameInv'
<1> USE DEF GameInv, gameVars
<1>1. total_slides' = total_slides
  BY DEF total_slides, build_slides, Closing, Segment, PromptCount, Seat
<1>2. GameTypeOK' /\ SlideInRange'
  BY <1>1 DEF GameTypeOK, SlideInRange
<1>3. UniqueNames' /\ Answered'
  BY DEF UniqueNames, Answered, Seat, PromptCount
<1>4. Assigned'
  BY DEF Assigned, Seat, NextSeat, AssignedSet
<1>5. AllIn' /\ CurtainDown'
  BY DEF AllIn, CurtainDown, Seat
<1> QED BY <1>2, <1>3, <1>4, <1>5

\* Every step of the phase machine keeps the inductive invariant.
THEOREM GameStep == GameInv /\ [GameNext]_gameVars => GameInv'
<1> SUFFICES ASSUME GameInv, [GameNext]_gameVars PROVE GameInv'
  OBVIOUS
<1>1. ASSUME NEW n \in Name, AddPlayer(n) PROVE GameInv'
  BY <1>1, InvAddPlayer
<1>2. ASSUME NEW n \in Name, RemovePlayer(n) PROVE GameInv'
  BY <1>2, InvRemovePlayer
<1>3. CASE StartCollecting
  BY <1>3, InvStartCollecting
<1>4. ASSUME NEW n \in Name, NEW k \in ItemCount, NEW t \in Text,
             SubmitResponses(n, k, t)
      PROVE  GameInv'
  BY <1>4, InvSubmitResponses
<1>5. CASE StartGame
  BY <1>5, InvStartGame
<1>6. CASE AdvanceSlide
  <2>1. current_slide \in Nat /\ total_slides \in Nat \ {0}
        /\ current_slide < total_slides
    BY DeckSize DEF GameInv, GameTypeOK, SlideInRange
  <2>2. current_slide' \in Nat /\ current_slide' < total_slides
    BY <1>6, <2>1 DEF AdvanceSlide
  <2> QED BY <1>6, <2>2, InvMove DEF AdvanceSlide, CanMove
<1>7. CASE PrevSlide
  <2>1. current_slide \in Nat /\ total_slides \in Nat \ {0}
        /\ current_slide < total_slides
    BY DeckSize DEF GameInv, GameTypeOK, SlideInRange
  <2>2. current_slide' \in Nat /\ current_slide' < total_slides
    BY <1>7, <2>1 DEF PrevSlide
  <2> QED BY <1>7, <2>2, InvMove DEF PrevSlide, CanMove
<1>8. ASSUME NEW index \in SlideIndex, GotoSlide(index) PROVE GameInv'
  BY <1>8, InvMove, RequestAssumption DEF GotoSlide, CanGotoSlide, CanMove
<1>9. CASE ArchiveRound
  BY <1>9, InvArchiveRound
<1>10. CASE NewRound
  BY <1>10, InvNewRound
<1>11. CASE UNCHANGED gameVars
  BY <1>11, InvStutter
<1> QED BY <1>1, <1>2, <1>3, <1>4, <1>5, <1>6, <1>7, <1>8, <1>9, <1>10, <1>11
     DEF GameNext

\* The inductive invariant holds in every reachable state of the phase machine.
THEOREM GameInvariant == GameSpec => []GameInv
  BY InvInit, GameStep, PTL DEF GameSpec

-----------------------------------------------------------------------------
(* What follows from it *)

\* Every reachable state of a room has the shape of the code's types: in
\* particular the usize current_slide is never decremented below zero.
THEOREM TypeCorrect == GameSpec => []GameTypeOK
<1>1. GameInv => GameTypeOK
  BY DEF GameInv
<1> QED BY <1>1, GameInvariant, PTL

\* slide_at(current_slide) always exists, for every catalogue and roster.
THEOREM SlideAlwaysInRange == GameSpec => []SlideInRange
<1>1. GameInv => SlideInRange
  BY DEF GameInv
<1> QED BY <1>1, GameInvariant, PTL

\* The show never starts or is archived with an answer missing.
THEOREM AlwaysPerformedComplete == GameSpec => []PerformanceComplete
<1>1. GameInv => PerformanceComplete
  BY DEF GameInv, PerformanceComplete, AllIn, Answered, Assigned
<1> QED BY <1>1, GameInvariant, PTL

\* The partners are a permutation of the roster: the seat before one's own is
\* the only one whose player writes for one.
LEMMA InvPresentsOnce == GameInv => EveryonePresentsOnce
<1> SUFFICES ASSUME GameInv, phase # "lobby", NEW n \in Roster
             PROVE  \E i \in Seat : \A j \in Seat :
                      players[j].partner = n <=> j = i
  BY DEF EveryonePresentsOnce
<1> DEFINE N == Len(players)
<1>1. N \in Nat \ {0} /\ Seat = 1 .. N
  BY DEF GameInv, GameTypeOK, Seat, Assigned
<1>2. PICK m \in Seat : players[m].name = n
  BY DEF Roster
<1> DEFINE i == IF m = 1 THEN N ELSE m - 1
<1>3. i \in Seat
  BY <1>1
<1>4. ASSUME NEW j \in Seat PROVE players[j].partner = n <=> j = i
  <2>1. /\ NextSeat(j, N) \in Seat
        /\ players[j].partner = players[NextSeat(j, N)].name
    BY <1>1, NextSeatRing DEF GameInv, Assigned
  <2>2. players[j].partner = n <=> NextSeat(j, N) = m
    BY <2>1, <1>2 DEF GameInv, UniqueNames
  <2>3. NextSeat(j, N) = m <=> j = i
    <3> HIDE DEF N
    <3> QED BY <1>1, PreviousSeat
  <2> QED BY <2>2, <2>3
<1> QED BY <1>3, <1>4

\* Whatever was added and removed before, each player presents one segment.
THEOREM AlwaysPresentsOnce == GameSpec => []EveryonePresentsOnce
BY InvPresentsOnce, GameInvariant, PTL

\* A set of seats that holds the next seat of each of its own is all of them:
\* from its highest one the ring leads to the first, and on to every other.
LEMMA RingClosed ==
  ASSUME NEW n \in Nat \ {0}, NEW I, I \subseteq 1 .. n, I # {},
         \A i \in I : NextSeat(i, n) \in I
  PROVE  I = 1 .. n
<1>1. n \in I
  <2> DEFINE T == {n - i : i \in I}
  <2>1. T \subseteq Nat /\ T # {}
    <3>1. PICK i \in I : TRUE
      OBVIOUS
    <3>2. n - i \in T /\ \A j \in I : n - j \in Nat
      OBVIOUS
    <3> QED BY <3>2
  <2>2. PICK x \in T : \A y \in T : x <= y
    BY <2>1, Least
  <2>3. PICK m \in I : x = n - m
    OBVIOUS
  <2>4. CASE m = n
    BY <2>4
  <2>5. CASE m # n
    <3>1. m + 1 \in I
      BY <2>5, NextSeatRing
    <3>2. n - (m + 1) \in T
      BY <3>1
    <3> QED BY <2>2, <2>3, <3>2
  <2> QED BY <2>4, <2>5
<1>2. 1 \in I
  BY <1>1, NextSeatRing
<1>3. SUFFICES ASSUME (1 .. n) \ I # {} PROVE FALSE
  OBVIOUS
<1>4. PICK j \in (1 .. n) \ I : \A k \in (1 .. n) \ I : j <= k
  <2>1. (1 .. n) \ I \subseteq Nat
    OBVIOUS
  <2> QED BY <1>3, <2>1, Least
<1>5. j # 1 /\ j - 1 \in 1 .. n
  BY <1>2
<1>6. j - 1 \in I
  BY <1>4, <1>5
<1>7. NextSeat(j - 1, n) = j
  BY <1>5, NextSeatRing
<1> QED BY <1>6, <1>7

\* The partners are one ring: players who write only for each other are all.
THEOREM AlwaysOneRing == GameSpec => []OneRing
<1>1. GameInv => OneRing
  <2> SUFFICES ASSUME GameInv, phase # "lobby", NEW S \in SUBSET Roster, S # {},
                      \A i \in Seat : players[i].name \in S => players[i].partner \in S
               PROVE  S = Roster
    BY DEF OneRing
  <2> DEFINE N == Len(players)
             I == {i \in Seat : players[i].name \in S}
  <2>1. N \in Nat \ {0} /\ Seat = 1 .. N
    BY DEF GameInv, GameTypeOK, Seat, Assigned
  <2>2. I \subseteq 1 .. N /\ I # {}
    BY <2>1 DEF Roster
  <2>3. ASSUME NEW i \in I PROVE NextSeat(i, N) \in I
    <3>1. NextSeat(i, N) \in Seat /\ players[i].partner = players[NextSeat(i, N)].name
      BY <2>1, NextSeatRing DEF GameInv, Assigned
    <3> QED BY <3>1
  <2>4. I = 1 .. N
    <3> HIDE DEF N, I
    <3> QED BY <2>1, <2>2, <2>3, RingClosed
  <2> QED BY <2>1, <2>4 DEF Roster
<1> QED BY <1>1, GameInvariant, PTL

\* Division with remainder, by any length of catalogue.
LEMMA Remainder ==
  ASSUME NEW L \in Nat \ {0}, NEW i \in Nat
  PROVE  \E q \in Nat : i = q * L + (i % L)
<1>1. i = (i \div L) * L + (i % L) /\ (i \div L) \in Nat
  OBVIOUS
<1> QED BY <1>1

\* The remainder is the only number in its range.
LEMMA RemainderIs ==
  ASSUME NEW L \in Nat \ {0}, NEW q \in Int, NEW r \in 0 .. L - 1
  PROVE  (q * L + r) % L = r
OBVIOUS

\* Different multiples are at least the divisor apart.
LEMMA MultiplesApart ==
  ASSUME NEW L \in Nat \ {0}, NEW p \in Int, NEW q \in Int, p < q
  PROVE  p * L + L <= q * L
OBVIOUS

\* The seats of a roster of n that the round robin over L sets gives the k-th.
Turns(k, L, n) == {i \in 1 .. n : (i - 1) % L = k - 1}

\* Two seats of the same set are a whole round of the catalogue apart, and the
\* seats of the other sets lie in between.
LEMMA TurnsApart ==
  ASSUME NEW L \in Nat \ {0}, NEW n \in Nat, NEW k \in 1 .. L, NEW l \in 1 .. L
  PROVE  /\ \A i, j \in Turns(k, L, n) : i < j => i + L <= j
         /\ \A i \in Turns(k, L, n) : i + (l - k) \in 1 .. n => i + (l - k) \in Turns(l, L, n)
<1>1. ASSUME NEW i \in Turns(k, L, n)
      PROVE  \E q \in Nat : i - 1 = q * L + (k - 1)
  <2>1. i - 1 \in Nat /\ (i - 1) % L = k - 1
    BY DEF Turns
  <2> QED BY <2>1, Remainder
<1>2. ASSUME NEW i \in Turns(k, L, n), NEW j \in Turns(k, L, n), i < j
      PROVE  i + L <= j
  <2>1. PICK p \in Nat : i - 1 = p * L + (k - 1)
    BY <1>1
  <2>2. PICK q \in Nat : j - 1 = q * L + (k - 1)
    BY <1>1
  <2> DEFINE a == p * L
             b == q * L
  <2>3. a \in Nat /\ b \in Nat /\ i \in Nat /\ j \in Nat /\ i - 1 = a + (k - 1) /\ j - 1 = b + (k - 1)
    BY <2>1, <2>2 DEF Turns
  <2>4. p < q => a + L <= b
    BY MultiplesApart
  <2>5. q < p => b + L <= a
    BY MultiplesApart
  <2>6. p = q => a = b
    OBVIOUS
  <2> HIDE DEF a, b
  <2> QED BY <1>2, <2>3, <2>4, <2>5, <2>6
<1>3. ASSUME NEW i \in Turns(k, L, n), i + (l - k) \in 1 .. n
      PROVE  i + (l - k) \in Turns(l, L, n)
  <2>1. PICK q \in Nat : i - 1 = q * L + (k - 1)
    BY <1>1
  <2> DEFINE a == q * L
  <2>2. a \in Nat /\ i \in Nat /\ i - 1 = a + (k - 1)
    BY <2>1 DEF Turns
  <2>3. (a + (l - 1)) % L = l - 1
    BY RemainderIs
  <2> HIDE DEF a
  <2>4. (i + (l - k)) - 1 = a + (l - 1)
    BY <2>2
  <2> QED BY <1>3, <2>3, <2>4 DEF Turns
<1> QED BY <1>2, <1>3

\* The round robin is fair: of the seats of one set, all but the last are
\* followed by one of any other.
LEMMA TurnsFair ==
  ASSUME NEW L \in Nat \ {0}, NEW n \in Nat, NEW k \in 1 .. L, NEW l \in 1 .. L
  PROVE  Cardinality(Turns(k, L, n)) <= Cardinality(Turns(l, L, n)) + 1
<1> DEFINE G == Turns(k, L, n)
           H == Turns(l, L, n)
           late == {i \in G : i + (l - k) \notin 1 .. n}
<1>1. IsFiniteSet(G) /\ IsFiniteSet(H)
  <2>1. IsFiniteSet(1 .. n)
    BY FS_Interval
  <2>2. G \in SUBSET (1 .. n) /\ H \in SUBSET (1 .. n)
    BY DEF Turns
  <2> HIDE DEF G, H
  <2> QED BY <2>1, <2>2, FS_Subset
<1>2. Cardinality(G) \in Nat /\ Cardinality(H) \in Nat
  BY <1>1, FS_CardinalityType
<1>3. /\ \A i, j \in G : i < j => i + L <= j
      /\ \A i \in G : i + (l - k) \in 1 .. n => i + (l - k) \in H
      /\ G \subseteq 1 .. n
  <2>1. G \subseteq 1 .. n
    BY DEF Turns
  <2> QED BY <2>1, TurnsApart
<1>4. \A i, j \in late : i = j
  <2> SUFFICES ASSUME NEW i \in late, NEW j \in late, i < j PROVE FALSE
    BY <1>3
  <2>1. i + L <= j /\ i \in 1 .. n /\ j \in 1 .. n
    BY <1>3
  <2>2. i + (l - k) < i + L
    BY <2>1
  <2>3. i + (l - k) <= n
    BY <2>1, <2>2
  <2>4. i + (l - k) < 1
    BY <2>1, <2>3
  <2>5. i - 1 >= k - 1
    <3>1. i - 1 \in Nat /\ (i - 1) % L = k - 1
      BY <2>1 DEF Turns
    <3>2. PICK q \in Nat : i - 1 = q * L + (k - 1)
      BY <3>1, Remainder
    <3>3. q * L \in Nat
      BY <3>2
    <3> QED BY <3>1, <3>2, <3>3
  <2> QED BY <2>1, <2>4, <2>5
<1>5. IsFiniteSet(late) /\ Cardinality(late) <= 1
  <2>1. late = {} \/ \E x : late = {x}
    BY <1>4
  <2> HIDE DEF late
  <2>2. CASE late = {}
    BY <2>2, FS_EmptySet
  <2>3. CASE \E x : late = {x}
    <3>1. PICK x : late = {x}
      BY <2>3
    <3>2. IsFiniteSet({x}) /\ Cardinality({x}) = 1
      BY FS_Singleton
    <3> QED BY <3>1, <3>2
  <2> QED BY <2>1, <2>2, <2>3
<1> DEFINE f == [i \in G \ late |-> i + (l - k)]
<1>6. f \in Injection(G \ late, H)
  <2>1. f \in [G \ late -> H]
    BY <1>3
  <2>2. \A i, j \in G \ late : f[i] = f[j] => i = j
    BY <1>3
  <2> HIDE DEF f, late, G, H
  <2> QED BY <2>1, <2>2, Fun_IsInj
<1>7. Cardinality(G \ late) <= Cardinality(H)
  <2> HIDE DEF f, late, G, H
  <2> QED BY <1>1, <1>6, FS_Injection
<1>8. Cardinality(G \ late) = Cardinality(G) - Cardinality(G \cap late)
  <2> HIDE DEF late, G, H
  <2> QED BY <1>1, <1>5, FS_Difference
<1>9. G \cap late = late
  OBVIOUS
<1>10. Cardinality(late) \in Nat
  BY <1>5, FS_CardinalityType
<1> HIDE DEF G, H, late, f
<1>11. Cardinality(G) <= Cardinality(H) + 1
  <2> DEFINE g == Cardinality(G)
             h == Cardinality(H)
             c == Cardinality(late)
  <2>1. g \in Nat /\ h \in Nat /\ c \in Nat /\ c <= 1 /\ g - c <= h
    BY <1>2, <1>5, <1>7, <1>8, <1>9, <1>10
  <2> HIDE DEF g, h, c
  <2>2. g <= h + 1
    BY <2>1
  <2> QED BY <2>2 DEF g, h
<1> QED BY <1>11 DEF G, H

\* No prompt set is given to two players more than another one is.
THEOREM AlwaysBalanced == GameSpec => []PromptSetsBalanced
<1>1. GameInv => PromptSetsBalanced
  <2> DEFINE given(id) == {i \in Seat : players[i].prompt_set_id = id}
             L == Len(PromptSets)
             N == Len(players)
  <2> SUFFICES ASSUME GameInv, phase # "lobby",
                      NEW k \in DOMAIN PromptSets, NEW l \in DOMAIN PromptSets
               PROVE  Cardinality(given(PromptSets[k])) <= Cardinality(given(PromptSets[l])) + 1
    BY DEF PromptSetsBalanced
  <2>1. /\ L \in Nat \ {0} /\ DOMAIN PromptSets = 1 .. L /\ N \in Nat /\ Seat = 1 .. N
    BY PromptSetsAssumption DEF GameInv, GameTypeOK, Assigned, Seat
  <2>2. ASSUME NEW m \in 1 .. L PROVE given(PromptSets[m]) = Turns(m, L, N)
    <3> SUFFICES ASSUME NEW i \in 1 .. N
                 PROVE  players[i].prompt_set_id = PromptSets[m] <=> (i - 1) % L = m - 1
      BY <2>1 DEF Turns
    <3> DEFINE r == (i - 1) % L
    <3>1. r \in 0 .. L - 1
      BY <2>1
    <3>2. players[i].prompt_set_id = PromptSets[r + 1]
      BY <2>1 DEF GameInv, Assigned, AssignedSet
    <3>3. PromptSets[r + 1] = PromptSets[m] => r + 1 = m
      <4> HIDE DEF r
      <4>1. r + 1 \in DOMAIN PromptSets
        BY <2>1, <3>1
      <4> QED BY <2>1, <4>1, PromptIdsAssumption
    <3> HIDE DEF r, L, N
    <3>4. players[i].prompt_set_id = PromptSets[m] <=> r = m - 1
      BY <2>1, <3>1, <3>2, <3>3
    <3> QED BY <3>4 DEF r
  <2> HIDE DEF given, L, N
  <2>3. k \in 1 .. L /\ l \in 1 .. L
    BY <2>1
  <2> QED BY <2>1, <2>2, <2>3, TurnsFair
<1> QED BY <1>1, GameInvariant, PTL

\* Outside the lobby no operation touches the roster or the assignments.
THEOREM RosterStaysLocked == GameSpec => RosterLocked
<1> DEFINE Kept ==
      phase # "lobby" /\ phase' # "lobby" =>
        /\ Len(players') = Len(players)
        /\ \A i \in Seat :
             /\ players'[i].name = players[i].name
             /\ players'[i].partner = players[i].partner
             /\ players'[i].prompt_set_id = players[i].prompt_set_id
<1>1. GameInv /\ [GameNext]_gameVars => Kept
  <2> SUFFICES ASSUME GameInv, [GameNext]_gameVars,
                      phase # "lobby", phase' # "lobby"
               PROVE  Kept
    OBVIOUS
  <2>1. CASE players' = players
    BY <2>1
  <2>2. ASSUME NEW n \in Name, NEW k \in ItemCount, NEW t \in Text,
               SubmitResponses(n, k, t)
        PROVE  Kept
    <3>1. PICK r \in Seat :
            players' = [players EXCEPT ![r].responses =
                          [items |-> k, signoff |-> t]]
      BY <2>2 DEF SubmitResponses
    <3> QED BY <3>1 DEF GameInv, GameTypeOK, Seat, Player
  <2>3. \/ players' = players
        \/ \E n \in Name, k \in ItemCount, t \in Text : SubmitResponses(n, k, t)
    BY DEF GameNext, gameVars, AddPlayer, CanAddPlayer, RemovePlayer,
           CanRemovePlayer, StartCollecting, CanStartCollecting, StartGame,
           AdvanceSlide, PrevSlide, GotoSlide, ArchiveRound, NewRound
  <2> QED BY <2>1, <2>2, <2>3
<1> QED BY <1>1, GameInvariant, PTL DEF GameSpec, RosterLocked

\* What is performed and archived is what was final at start_game.
THEOREM FinalAnswersStay == GameSpec => FinalAnswersFrozen
<1>1. [GameNext]_gameVars =>
        (phase \in {"performing", "archived"} /\ phase' # "lobby" =>
           players' = players)
  BY DEF GameNext, gameVars, AddPlayer, CanAddPlayer, RemovePlayer,
         CanRemovePlayer, StartCollecting, CanStartCollecting, SubmitResponses,
         CanSubmitResponses, StartGame, AdvanceSlide, PrevSlide, GotoSlide,
         ArchiveRound, NewRound
<1> QED BY <1>1, PTL DEF GameSpec, FinalAnswersFrozen
=============================================================================
