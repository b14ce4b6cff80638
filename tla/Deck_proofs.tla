----------------------------- MODULE Deck_proofs -----------------------------
(***************************************************************************)
(* The slide deck of GameState: which slide stands at which index, and who *)
(* may turn it, for every roster and every catalogue of prompt sets.       *)
(***************************************************************************)
EXTENDS GameState_proofs

-----------------------------------------------------------------------------
(* Where the segments stand *)

\* Segments that begin where the one before ends; the first begins after the
\* rules.  at[b] is the index of the first slide of block b.
Adjacent(at) ==
  /\ at \in [1 .. Closing -> Nat]
  /\ at[1] = 1
  /\ \A b \in Seat : at[b + 1] = at[b] + Size(b)

\* The seats, and the block after the last one.
LEMMA Blocks ==
  ASSUME GameTypeOK
  PROVE  /\ Closing \in Nat \ {0} /\ Seat = 1 .. Closing - 1 /\ Len(players) = Closing - 1
         /\ \A b \in Seat : /\ b \in Nat \ {0} /\ b # Closing /\ b < Closing
                            /\ b \in 1 .. Closing /\ b + 1 \in 1 .. Closing
                            /\ Size(b) \in Nat /\ Size(b) >= 3
<1>1. Closing \in Nat \ {0} /\ Seat = 1 .. Closing - 1 /\ Len(players) = Closing - 1
  BY DEF Closing, GameTypeOK, Seat
<1>2. \A b \in Seat : Size(b) \in Nat /\ Size(b) >= 3
  BY SegmentSlides
<1> QED BY <1>1, <1>2

\* Segments that are adjacent do not overlap.
LEMMA StartsOrder ==
  ASSUME GameTypeOK, NEW at, Adjacent(at), NEW b \in Seat, NEW c \in 1 .. Closing, b < c
  PROVE  at[b] + Size(b) <= at[c]
<1> DEFINE bad == {k \in 1 .. Closing : b < k /\ ~ (at[b] + Size(b) <= at[k])}
<1>1. /\ Closing \in Nat /\ b \in Nat /\ c \in Nat
      /\ \A k \in 1 .. Closing : at[k] \in Nat
      /\ at[b] \in Nat /\ Size(b) \in Nat
  <2>1. Closing \in Nat /\ b \in Nat /\ b \in 1 .. Closing /\ Size(b) \in Nat
    BY Blocks
  <2>2. \A k \in 1 .. Closing : at[k] \in Nat
    BY DEF Adjacent
  <2> QED BY <2>1, <2>2
<1> SUFFICES ASSUME bad # {} PROVE FALSE
  BY <1>1
<1>2. bad \subseteq Nat
  BY <1>1
<1>3. PICK k \in bad : \A j \in bad : k <= j
  BY <1>2, Least
<1>4. k \in 1 .. Closing /\ b < k /\ ~ (at[b] + Size(b) <= at[k]) /\ k \in Nat
  BY <1>1
<1>5. k - 1 \in Seat /\ k - 1 \in 1 .. Closing /\ b <= k - 1
  BY <1>1, <1>4, Blocks
<1>6. at[k] = at[k - 1] + Size(k - 1) /\ Size(k - 1) \in Nat /\ at[k - 1] \in Nat /\ at[k] \in Nat
  <2>1. at[(k - 1) + 1] = at[k - 1] + Size(k - 1)
    BY <1>5 DEF Adjacent
  <2>2. (k - 1) + 1 = k
    BY <1>4
  <2>3. Size(k - 1) \in Nat
    BY <1>5, Blocks
  <2> QED BY <1>1, <1>4, <1>5, <2>1, <2>2, <2>3
<1>7. CASE b = k - 1
  BY <1>1, <1>4, <1>6, <1>7
<1>8. CASE b # k - 1
  <2>1. k - 1 \notin bad
    BY <1>1, <1>3, <1>4
  <2>2. at[b] + Size(b) <= at[k - 1]
    BY <1>1, <1>5, <1>8, <2>1
  <2> QED BY <1>1, <1>4, <1>6, <2>2
<1> QED BY <1>7, <1>8

\* The segments, pushed one after the other, are adjacent.
LEMMA SegmentsInPlace ==
  ASSUME GameTypeOK, NEW run, run = FlattenSeq([i \in Seat |-> Segment(i)])
  PROVE  \E at : /\ Adjacent(at)
                 /\ Len(run) = at[Closing] - 1
                 /\ \A b \in Seat : \A l \in 1 .. Size(b) : run[at[b] - 1 + l] = <<b, l>>
<1> DEFINE segments == [i \in Seat |-> Segment(i)]
           n == Len(players)
<1>1. n \in Nat /\ Seat = 1 .. n /\ Closing = n + 1
  BY DEF GameTypeOK, Seat, Closing
<1>2. segments \in Seq(Seq(Slides)) /\ Len(segments) = n
  BY SegmentsFlat
<1>3. CASE n = 0
  <2> DEFINE at == [b \in 1 .. 1 |-> 1]
  <2>1. Seat = {} /\ Closing = 1
    BY <1>1, <1>3
  <2>2. Len(run) = 0
    <3>1. run = segments
      <4> HIDE DEF segments
      <4> QED BY <1>2, <1>3 DEF FlattenSeq, segments
    <3> QED BY <1>2, <1>3, <3>1
  <2>3. Adjacent(at) /\ Len(run) = at[Closing] - 1
    BY <2>1, <2>2 DEF Adjacent
  <2> HIDE DEF at
  <2> QED BY <2>1, <2>3
<1>4. CASE n # 0
  <2>1. segments # << >>
    BY <1>2, <1>4
  <2> HIDE DEF segments
  <2>2. PICK f \in [1 .. Len(segments) -> Seq(Slides)] :
          Appends(f, segments) /\ FlattenSeq(segments) = f[Len(segments)]
    BY <1>2, <2>1, FlattenAppends
  <2>3. run = f[n]
    BY <1>2, <2>2 DEF segments
  <2>4. \A i \in 1 .. n : segments[i] = Segment(i)
    BY <1>1 DEF segments
  <2>5. f[1] = Segment(1) /\ \A i \in 2 .. n : f[i] = f[i - 1] \o Segment(i)
    <3>1. f[1] = segments[1] /\ \A i \in 2 .. n : f[i] = f[i - 1] \o segments[i]
      BY <1>2, <2>2 DEF Appends
    <3>2. 1 \in 1 .. n /\ \A i \in 2 .. n : i \in 1 .. n
      BY <1>1, <1>4
    <3> QED BY <2>4, <3>1, <3>2
  <2>6. \A i \in 1 .. n : f[i] \in Seq(Slides) /\ Len(f[i]) \in Nat
    BY <1>2, <2>2
  <2>7. \A i \in 1 .. n :
          /\ Segment(i) \in Seq(Slides) /\ Len(Segment(i)) = Size(i)
          /\ Size(i) \in Nat /\ Size(i) >= 3
          /\ \A l \in 1 .. Size(i) : Segment(i)[l] = <<i, l>>
    BY <1>1, SegmentSlides
  <2> HIDE DEF n
  <2>8. ASSUME NEW i \in 2 .. n
        PROVE  /\ i \in 1 .. n /\ i - 1 \in 1 .. n
               /\ Len(f[i]) = Len(f[i - 1]) + Size(i)
               /\ \A k \in 1 .. Len(f[i - 1]) + Size(i) :
                    f[i][k] = IF k <= Len(f[i - 1]) THEN f[i - 1][k]
                              ELSE Segment(i)[k - Len(f[i - 1])]
    <3> DEFINE g == f[i - 1]
               t == Segment(i)
    <3>1. i \in 1 .. n /\ i - 1 \in 1 .. n
      BY <1>1
    <3>2. g \in Seq(Slides) /\ t \in Seq(Slides) /\ Len(t) = Size(i) /\ f[i] = g \o t
      BY <2>5, <2>6, <2>7, <3>1
    <3> HIDE DEF g, t
    <3>3. /\ Len(g \o t) = Len(g) + Len(t)
          /\ \A k \in 1 .. Len(g) + Len(t) :
               (g \o t)[k] = IF k <= Len(g) THEN g[k] ELSE t[k - Len(g)]
      BY <3>2, ConcatProperties
    <3> QED BY <3>1, <3>2, <3>3 DEF g, t
  <2> DEFINE at == [b \in 1 .. n + 1 |-> IF b = 1 THEN 1 ELSE 1 + Len(f[b - 1])]
  <2>9. /\ at \in [1 .. Closing -> Nat] /\ at[1] = 1
        /\ \A b \in 1 .. n : at[b + 1] = 1 + Len(f[b])
    <3>1. \A b \in 1 .. n + 1 : b # 1 => b - 1 \in 1 .. n
      BY <1>1
    <3>2. at \in [1 .. Closing -> Nat]
      BY <1>1, <2>6, <3>1
    <3>3. at[1] = 1
      BY <1>1
    <3>4. ASSUME NEW b \in 1 .. n PROVE at[b + 1] = 1 + Len(f[b])
      <4>1. b + 1 \in 1 .. n + 1 /\ b + 1 # 1 /\ (b + 1) - 1 = b
        BY <1>1
      <4> QED BY <4>1
    <3> QED BY <3>2, <3>3, <3>4
  <2> HIDE DEF at
  <2>10. Adjacent(at)
    <3>1. ASSUME NEW b \in 1 .. n PROVE at[b + 1] = at[b] + Size(b)
      <4>1. at[b + 1] = 1 + Len(f[b]) /\ Size(b) \in Nat
        BY <2>7, <2>9
      <4>2. CASE b = 1
        BY <2>5, <2>7, <2>9, <4>1, <4>2
      <4>3. CASE b # 1
        <5>1. b \in 2 .. n /\ b - 1 \in 1 .. n /\ (b - 1) + 1 = b
          BY <1>1, <4>3
        <5>2. at[b] = 1 + Len(f[b - 1])
          BY <2>9, <5>1
        <5>3. Len(f[b]) = Len(f[b - 1]) + Size(b) /\ Len(f[b - 1]) \in Nat
          BY <2>6, <2>8, <5>1
        <5> QED BY <4>1, <5>2, <5>3
      <4> QED BY <4>2, <4>3
    <3> QED BY <1>1, <2>9, <3>1 DEF Adjacent
  <2> DEFINE Placed(i) == \A b \in 1 .. i : \A l \in 1 .. Size(b) :
                            f[i][at[b] - 1 + l] = <<b, l>>
             bad == {i \in 1 .. n : ~ Placed(i)}
  <2>11. Placed(1)
    <3>1. 1 \in 1 .. n
      BY <1>1, <1>4
    <3>2. ASSUME NEW l \in 1 .. Size(1) PROVE f[1][at[1] - 1 + l] = <<1, l>>
      <4>1. at[1] - 1 + l = l
        BY <2>7, <2>9, <3>1
      <4> QED BY <2>5, <2>7, <3>1, <4>1
    <3>3. \A b \in 1 .. 1 : b = 1
      OBVIOUS
    <3> QED BY <3>2, <3>3
  <2>12. ASSUME NEW i \in 2 .. n, Placed(i - 1) PROVE Placed(i)
    <3>1. /\ i \in 1 .. n /\ i - 1 \in 1 .. n /\ i \in Nat /\ (i - 1) + 1 = i
          /\ i \in 1 .. Closing
      BY <1>1
    <3> DEFINE m == Len(f[i - 1])
    <3>2. m \in Nat /\ at[i] = 1 + m /\ Size(i) \in Nat
      BY <2>6, <2>7, <2>9, <3>1
    <3>3. \A k \in 1 .. m + Size(i) :
            f[i][k] = IF k <= m THEN f[i - 1][k] ELSE Segment(i)[k - m]
      BY <2>8
    <3> HIDE DEF m
    <3>4. ASSUME NEW b \in 1 .. i, NEW l \in 1 .. Size(b)
          PROVE  f[i][at[b] - 1 + l] = <<b, l>>
      <4>1. CASE b = i
        <5>1. l \in 1 .. Size(i) /\ l \in Nat
          BY <3>2, <4>1
        <5>2. m + l \in 1 .. m + Size(i) /\ ~ (m + l <= m) /\ (m + l) - m = l
          BY <3>2, <5>1
        <5>3. f[i][m + l] = Segment(i)[l]
          BY <3>3, <5>2
        <5>4. at[i] - 1 + l = m + l
          BY <3>2, <5>1
        <5> QED BY <2>7, <3>1, <4>1, <5>1, <5>3, <5>4
      <4>2. CASE b # i
        <5>1. /\ b \in 1 .. i - 1 /\ b \in 1 .. n /\ b \in Seat /\ b < i
              /\ b \in 1 .. Closing
          BY <1>1, <3>1, <4>2
        <5>2. /\ at[b] \in Nat /\ at[b] >= 1 /\ Size(b) \in Nat
              /\ at[b] + Size(b) <= at[i]
          <6>1. at[b] \in Nat /\ Size(b) \in Nat
            BY <2>7, <2>9, <5>1
          <6>2. at[b] + Size(b) <= at[i]
            BY <2>10, <3>1, <5>1, StartsOrder
          <6>3. at[b] >= 1
            <7>1. CASE b = 1
              BY <2>9, <7>1
            <7>2. CASE b # 1
              <8>1. b - 1 \in 1 .. n /\ (b - 1) + 1 = b
                BY <1>1, <5>1, <7>2
              <8>2. at[b] = 1 + Len(f[b - 1]) /\ Len(f[b - 1]) \in Nat
                BY <2>6, <2>9, <8>1
              <8> QED BY <8>2
            <7> QED BY <7>1, <7>2
          <6> QED BY <6>1, <6>2, <6>3
        <5> DEFINE k == at[b] - 1 + l
        <5>3. k \in 1 .. m + Size(i) /\ k <= m
          <6>1. l \in Nat /\ 1 <= l /\ l <= Size(b)
            BY <5>2
          <6> QED BY ONLY <3>2, <5>2, <6>1
        <5> HIDE DEF k
        <5>4. f[i][k] = f[i - 1][k]
          BY <3>3, <5>3
        <5> QED BY <2>12, <5>1, <5>4 DEF k
      <4> QED BY <4>1, <4>2
    <3> QED BY <3>4
  <2> HIDE DEF Placed
  <2>13. bad = {}
    <3> SUFFICES ASSUME bad # {} PROVE FALSE
      OBVIOUS
    <3>1. bad \subseteq Nat
      BY <1>1
    <3>2. PICK k \in bad : \A j \in bad : k <= j
      BY <3>1, Least
    <3>3. k \in 1 .. n /\ ~ Placed(k) /\ k # 1
      BY <2>11
    <3>4. k \in 2 .. n /\ k - 1 \in 1 .. n /\ k - 1 \notin bad
      BY <1>1, <3>2, <3>3
    <3> QED BY <2>12, <3>3, <3>4
  <2>14. n \in 1 .. n /\ n \notin bad
    BY <1>1, <1>4, <2>13
  <2>15. Placed(n)
    BY <2>14
  <2>16. Len(run) = at[Closing] - 1
    BY <1>1, <2>3, <2>6, <2>9, <2>14
  <2> QED BY <1>1, <2>3, <2>10, <2>15, <2>16 DEF Placed
<1> QED BY <1>3, <1>4

\* What slide_at gives when the blocks begin as in at.
LaidOut(at) ==
  /\ Adjacent(at)
  /\ total_slides = at[Closing] + 2
  /\ slide_at(0) = <<0, 1>>
  /\ \A b \in Seat : \A l \in 1 .. Size(b) : slide_at(at[b] + l - 1) = <<b, l>>
  /\ slide_at(at[Closing]) = <<Closing, 1>>
  /\ slide_at(at[Closing] + 1) = <<Closing, 2>>
  /\ \A index \in Nat : index >= total_slides => slide_at(index) = None

\* Where the blocks of the deck begin.
StartOf == CHOOSE at : LaidOut(at)

\* The deck is laid out block after block.
LEMMA DeckLaidOut == GameTypeOK => LaidOut(StartOf)
<1> SUFFICES ASSUME GameTypeOK PROVE \E at : LaidOut(at)
  BY DEF StartOf
<1> DEFINE run == FlattenSeq([i \in Seat |-> Segment(i)])
<1> HIDE DEF run
<1>1. PICK at : /\ Adjacent(at)
                /\ Len(run) = at[Closing] - 1
                /\ \A b \in Seat : \A l \in 1 .. Size(b) : run[at[b] - 1 + l] = <<b, l>>
  BY SegmentsInPlace DEF run
<1>2. /\ Len(run) \in Nat
      /\ total_slides = Len(run) + 3
      /\ build_slides[1] = <<0, 1>>
      /\ \A k \in 1 .. Len(run) : build_slides[k + 1] = run[k]
      /\ build_slides[Len(run) + 2] = <<Closing, 1>>
      /\ build_slides[Len(run) + 3] = <<Closing, 2>>
  BY DeckList DEF run, total_slides
<1>3. /\ Closing \in Nat \ {0} /\ Closing \in 1 .. Closing
      /\ \A b \in 1 .. Closing : at[b] \in Nat
      /\ Len(run) = at[Closing] - 1 /\ at[Closing] \in Nat
  BY <1>1, Blocks DEF Adjacent
<1>4. total_slides = at[Closing] + 2 /\ total_slides \in Nat
  BY <1>2, <1>3
<1>5. \A index \in Nat : slide_at(index) = IF index < total_slides THEN build_slides[index + 1] ELSE None
  BY DEF slide_at
<1>6. slide_at(0) = <<0, 1>>
  <2>1. 0 < total_slides /\ 0 + 1 = 1
    BY <1>3, <1>4
  <2> QED BY <1>2, <1>5, <2>1
<1>7. ASSUME NEW b \in Seat, NEW l \in 1 .. Size(b)
      PROVE  slide_at(at[b] + l - 1) = <<b, l>>
  <2>1. /\ b \in 1 .. Closing /\ b < Closing /\ Size(b) \in Nat
        /\ at[b] \in Nat /\ l \in Nat /\ 1 <= l /\ l <= Size(b)
    BY <1>3, Blocks
  <2>2. at[b] + Size(b) <= at[Closing]
    BY <1>1, <1>3, <2>1, StartsOrder
  <2>3. at[b] >= 1
    <3>1. CASE b = 1
      BY <1>1, <3>1 DEF Adjacent
    <3>2. CASE b # 1
      <4>1. 1 \in Seat /\ 1 < b
        BY <2>1, <3>2, Blocks
      <4>2. at[1] + Size(1) <= at[b] /\ Size(1) \in Nat /\ at[1] = 1
        BY <1>1, <2>1, <4>1, StartsOrder, Blocks DEF Adjacent
      <4> QED BY <2>1, <4>2
    <3> QED BY <3>1, <3>2
  <2> DEFINE k == at[b] - 1 + l
  <2>4. k \in 1 .. Len(run) /\ k \in Nat /\ k < total_slides /\ at[b] + l - 1 = k
    <3> DEFINE z == at[Closing]
               a == at[b]
               s == Size(b)
    <3>1. /\ z \in Nat /\ a \in Nat /\ s \in Nat /\ a >= 1 /\ a + s <= z
          /\ l \in Nat /\ 1 <= l /\ l <= s /\ Len(run) = z - 1 /\ total_slides = z + 2
      BY <1>3, <1>4, <2>1, <2>2, <2>3
    <3> HIDE DEF z, a, s
    <3>2. k = a - 1 + l /\ at[b] = a
      BY DEF a
    <3> HIDE DEF k
    <3> QED BY <3>1, <3>2
  <2>5. run[k] = <<b, l>>
    BY <1>1
  <2> HIDE DEF k
  <2> QED BY <1>2, <1>5, <2>4, <2>5
<1>8. slide_at(at[Closing]) = <<Closing, 1>> /\ slide_at(at[Closing] + 1) = <<Closing, 2>>
  <2>1. /\ at[Closing] + 1 = Len(run) + 2 /\ (at[Closing] + 1) + 1 = Len(run) + 3
        /\ at[Closing] < total_slides /\ at[Closing] + 1 < total_slides
    BY <1>3, <1>4
  <2>2. at[Closing] \in Nat /\ at[Closing] + 1 \in Nat
    BY <1>3
  <2>3. /\ slide_at(at[Closing]) = build_slides[at[Closing] + 1]
        /\ slide_at(at[Closing] + 1) = build_slides[(at[Closing] + 1) + 1]
    BY <1>5, <2>1, <2>2
  <2> QED BY <1>2, <2>1, <2>3
<1>9. \A index \in Nat : index >= total_slides => slide_at(index) = None
  BY <1>4, <1>5
<1>10. LaidOut(at)
  BY <1>1, <1>4, <1>6, <1>7, <1>8, <1>9 DEF LaidOut
<1> QED BY <1>10

-----------------------------------------------------------------------------
(* Who may turn the slide *)

\* The run of slides of the i-th reader: a segment, and before the first one
\* the rules.
RunOf(i) == (IF i = 1 THEN 0 ELSE StartOf[i]) .. StartOf[i] + Size(i) - 1

\* Each segment of the deck and its place.
LEMMA Places ==
  ASSUME GameTypeOK
  PROVE  /\ total_slides \in Nat \ {0} /\ total_slides = StartOf[Closing] + 2
         /\ StartOf[1] = 1 /\ StartOf[Closing] \in Nat /\ Closing \in Nat \ {0}
         /\ \A i \in Seat :
              /\ StartOf[i] \in Nat /\ StartOf[i] >= 1 /\ (i # 1 => StartOf[i] >= 4)
              /\ Size(i) \in Nat /\ Size(i) >= 3
              /\ StartOf[i] + Size(i) <= total_slides - 2
<1> DEFINE at == StartOf
<1>1. Adjacent(at) /\ total_slides = at[Closing] + 2
  BY DeckLaidOut DEF LaidOut
<1>2. /\ Closing \in Nat \ {0} /\ Closing \in 1 .. Closing /\ at[1] = 1
      /\ \A b \in 1 .. Closing : at[b] \in Nat
  BY <1>1, Blocks DEF Adjacent
<1> HIDE DEF at
<1>3. ASSUME NEW i \in Seat
      PROVE  /\ at[i] \in Nat /\ at[i] >= 1 /\ (i # 1 => at[i] >= 4)
             /\ Size(i) \in Nat /\ Size(i) >= 3
             /\ at[i] + Size(i) <= total_slides - 2
  <2>1. i \in 1 .. Closing /\ i < Closing /\ Size(i) \in Nat /\ Size(i) >= 3
    BY Blocks
  <2>2. at[i] + Size(i) <= at[Closing]
    BY <1>1, <1>2, <2>1, StartsOrder
  <2>3. i # 1 => at[i] >= 4
    <3>1. SUFFICES ASSUME i # 1 PROVE at[i] >= 4
      OBVIOUS
    <3>2. 1 \in Seat /\ 1 < i
      BY <1>2, <2>1, <3>1, Blocks
    <3>3. at[1] + Size(1) <= at[i] /\ Size(1) \in Nat /\ Size(1) >= 3
      BY <1>1, <2>1, <3>2, StartsOrder, Blocks
    <3> QED BY <1>2, <2>1, <3>3
  <2> QED BY <1>1, <1>2, <2>1, <2>2, <2>3
<1> QED BY <1>1, <1>2, <1>3, DeckSize DEF at

\* Every index but those of the closing is in one run, whose reader is the
\* partner of its author; in the closing nobody is the reader.
LEMMA Readers ==
  ASSUME GameTypeOK, players # <<>>
  PROVE  /\ \A i \in Seat : \A index \in RunOf(i) : controller_at(index) = players[i].partner
         /\ \A index \in total_slides - 2 .. total_slides : controller_at(index) = None
         /\ \A index \in 0 .. total_slides - 3 : \E i \in Seat : index \in RunOf(i)
         /\ \A i \in Seat : RunOf(i) # {} /\ RunOf(i) \subseteq 0 .. total_slides - 3
<1> DEFINE at == StartOf
<1>1. /\ total_slides \in Nat \ {0} /\ total_slides = at[Closing] + 2
      /\ at[1] = 1 /\ at[Closing] \in Nat /\ Closing \in Nat \ {0}
      /\ \A i \in Seat :
           /\ at[i] \in Nat /\ at[i] >= 1 /\ (i # 1 => at[i] >= 4)
           /\ Size(i) \in Nat /\ Size(i) >= 3
           /\ at[i] + Size(i) <= total_slides - 2
  BY Places
<1>2. /\ slide_at(0) = <<0, 1>>
      /\ \A b \in Seat : \A l \in 1 .. Size(b) : slide_at(at[b] + l - 1) = <<b, l>>
      /\ slide_at(at[Closing]) = <<Closing, 1>>
      /\ slide_at(at[Closing] + 1) = <<Closing, 2>>
      /\ \A index \in Nat : index >= total_slides => slide_at(index) = None
  BY DeckLaidOut DEF LaidOut
<1>3. /\ 1 \in Seat /\ Seat = 1 .. Closing - 1 /\ 0 \notin Seat /\ Closing \notin Seat
      /\ Adjacent(at)
  BY Blocks, DeckLaidOut DEF GameTypeOK, Seat, LaidOut
<1>4. \A b, l \in Nat : <<b, l>> # None
  BY NoneAssumption
<1>5. \A i \in Seat : RunOf(i) = (IF i = 1 THEN 0 ELSE at[i]) .. at[i] + Size(i) - 1
  BY DEF RunOf
<1> HIDE DEF at
<1>7. ASSUME NEW i \in Seat, NEW index \in RunOf(i)
      PROVE  controller_at(index) = players[i].partner
  <2>1. i \in Nat /\ i # 0 /\ at[i] \in Nat /\ Size(i) \in Nat
    BY <1>1, Blocks
  <2>2. /\ index \in Int /\ index <= at[i] + Size(i) - 1
        /\ index >= at[i] \/ (i = 1 /\ index >= 0)
    BY <1>5, <2>1
  <2>3. CASE index >= at[i]
    <3> DEFINE l == index - at[i] + 1
    <3>1. l \in 1 .. Size(i) /\ l \in Nat /\ index = at[i] + l - 1
      BY <2>1, <2>2, <2>3
    <3> HIDE DEF l
    <3>2. slide_at(index) = <<i, l>>
      BY <1>2, <3>1
    <3> QED BY <1>4, <2>1, <3>1, <3>2 DEF controller_at, slide_controller
  <2>4. CASE i = 1 /\ index < at[i]
    <3>1. index = 0
      BY <1>1, <2>2, <2>4
    <3>2. slide_at(1) = <<1, 1>>
      <4>1. 1 \in 1 .. Size(1) /\ at[1] + 1 - 1 = 1
        BY <1>1, <1>3
      <4> QED BY <1>2, <1>3, <4>1
    <3> QED BY <1>2, <1>3, <1>4, <2>4, <3>1, <3>2 DEF controller_at, slide_controller
  <2> QED BY <2>1, <2>2, <2>3, <2>4
<1>8. ASSUME NEW index \in total_slides - 2 .. total_slides
      PROVE  controller_at(index) = None
  <2>1. index = at[Closing] \/ index = at[Closing] + 1 \/ index = total_slides
    BY <1>1
  <2>2. \/ \E l \in {1, 2} : slide_at(index) = <<Closing, l>>
        \/ slide_at(index) = None
    BY <1>1, <1>2, <2>1
  <2>3. CASE slide_at(index) = None
    BY <2>3 DEF controller_at, slide_controller
  <2>4. CASE \E l \in {1, 2} : slide_at(index) = <<Closing, l>>
    BY <1>1, <1>3, <2>4 DEF controller_at, slide_controller
  <2> QED BY <2>2, <2>3, <2>4
<1>9. ASSUME NEW index \in 0 .. total_slides - 3
      PROVE  \E i \in Seat : index \in RunOf(i)
  <2>1. CASE index = 0
    <3>1. 0 \in RunOf(1)
      BY <1>1, <1>3, <1>5
    <3> QED BY <1>3, <2>1, <3>1
  <2>2. CASE index # 0
    <3> DEFINE T == {b \in 1 .. Closing : at[b] > index}
    <3>1. T \subseteq Nat /\ Closing \in T
      BY <1>1
    <3>2. PICK b \in T : \A c \in T : b <= c
      BY <3>1, Least
    <3>3. b \in 1 .. Closing /\ at[b] > index /\ b # 1
      BY <1>1, <2>2
    <3>4. b - 1 \in Seat /\ b - 1 \in 1 .. Closing /\ b - 1 < b /\ (b - 1) + 1 = b
      BY <1>1, <1>3, <3>3
    <3>5. b - 1 \notin T
      BY <3>2, <3>4
    <3>6. at[b - 1] \in Nat /\ Size(b - 1) \in Nat /\ at[b] = at[b - 1] + Size(b - 1)
      BY <1>1, <1>3, <3>4 DEF Adjacent
    <3>7. at[b - 1] <= index
      BY <3>4, <3>5, <3>6
    <3>8. index \in RunOf(b - 1)
      <4>1. index \in Nat /\ index <= at[b - 1] + Size(b - 1) - 1
        BY <1>1, <3>3, <3>6
      <4> QED BY <1>5, <3>4, <3>6, <3>7, <4>1
    <3> QED BY <3>4, <3>8
  <2> QED BY <2>1, <2>2
<1>10. ASSUME NEW i \in Seat
       PROVE  RunOf(i) # {} /\ RunOf(i) \subseteq 0 .. total_slides - 3
  <2>1. /\ at[i] \in Nat /\ Size(i) \in Nat /\ Size(i) >= 3
        /\ at[i] + Size(i) <= total_slides - 2
    BY <1>1
  <2>2. at[i] \in RunOf(i)
    BY <1>5, <2>1
  <2>3. RunOf(i) \subseteq 0 .. total_slides - 3
    <3> DEFINE e == at[i] + Size(i)
    <3>1. e \in Int /\ total_slides \in Int /\ e <= total_slides - 2
      BY <1>1, <2>1
    <3>2. RunOf(i) \subseteq 0 .. e - 1
      BY <1>5, <2>1
    <3> HIDE DEF e
    <3> QED BY <3>1, <3>2
  <2> QED BY <2>2, <2>3
<1> QED BY <1>7, <1>8, <1>9, <1>10

\* Whoever may turn the slide holds the segment on stage, or the first one while
\* the rules show.
LEMMA ControllerIs ==
  ASSUME GameTypeOK, players # <<>>, SlideInRange, current_controller # None
  PROVE  LET block == slide_at(current_slide)[1]
         IN  \E i \in Seat : /\ players[i].partner = current_controller
                            /\ i = IF block = 0 THEN 1 ELSE block
<1> DEFINE index == current_slide
<1>1. /\ total_slides \in Nat \ {0} /\ index \in 0 .. total_slides - 1
      /\ 1 \in Seat /\ 0 \notin Seat
  BY DeckSize DEF GameTypeOK, Seat, SlideInRange
<1>2. controller_at(index) = current_controller
  BY DEF current_controller
<1>3. index \in 0 .. total_slides - 3
  <2>1. index \in total_slides - 2 .. total_slides => current_controller = None
    BY <1>2, Readers
  <2> QED BY <1>1, <2>1
<1>4. PICK i \in Seat : index \in RunOf(i)
  BY <1>3, Readers
<1>5. players[i].partner = current_controller
  BY <1>2, <1>4, Readers
<1>6. StartOf[i] \in Nat /\ Size(i) \in Nat /\ StartOf[1] = 1 /\ i \in Nat /\ i # 0
  BY Places, Blocks
<1>7. CASE index >= StartOf[i]
  <2> DEFINE l == index - StartOf[i] + 1
  <2>1. l \in 1 .. Size(i) /\ index = StartOf[i] + l - 1
    BY <1>3, <1>4, <1>6, <1>7 DEF RunOf
  <2> HIDE DEF l
  <2>2. slide_at(index) = <<i, l>>
    BY <2>1, DeckLaidOut DEF LaidOut
  <2> QED BY <1>5, <1>6, <2>2
<1>8. CASE ~ (index >= StartOf[i])
  <2>1. i = 1 /\ index = 0
    BY <1>3, <1>4, <1>6, <1>8 DEF RunOf
  <2>2. slide_at(index) = <<0, 1>>
    BY <2>1, DeckLaidOut DEF LaidOut
  <2> QED BY <1>1, <1>5, <2>1, <2>2
<1> QED BY <1>7, <1>8

\* The stage is handed from reader to reader: the run of each player of the
\* roster is the segment they present, with the rules for the first of them.
THEOREM AlwaysHandedOver == GameSpec => []ReaderHandover
<1>1. GameInv => EveryonePresentsOnce
  BY InvPresentsOnce
<1>2. GameInv => ReaderHandover
  <2> DEFINE reader  == [index \in 0 .. total_slides |-> controller_at(index)]
             mine(n) == {index \in DOMAIN reader : reader[index] = n}
  <2> SUFFICES ASSUME GameInv, phase = "performing"
               PROVE  /\ mine(None) = total_slides - 2 .. total_slides
                      /\ \A n \in Roster :
                           /\ mine(n) # {}
                           /\ \A a, c \in mine(n) : a .. c \subseteq mine(n)
    BY DEF ReaderHandover
  <2>1. GameTypeOK /\ players # <<>> /\ total_slides \in Nat \ {0}
    BY DeckSize DEF GameInv, Assigned
  <2>2. \A i \in Seat : players[i].partner \in Roster /\ players[i].partner # None
    <3> SUFFICES ASSUME NEW i \in Seat
                 PROVE  players[i].partner \in Roster /\ players[i].partner # None
      OBVIOUS
    <3>1. Len(players) \in Nat \ {0} /\ Seat = 1 .. Len(players)
      BY <2>1 DEF GameTypeOK, Seat
    <3>2. NextSeat(i, Len(players)) \in Seat
      BY <3>1, NextSeatRing
    <3>3. players[i].partner = players[NextSeat(i, Len(players))].name
      BY DEF GameInv, Assigned
    <3>4. \A j \in Seat : players[j] \in Player
      BY <2>1 DEF GameTypeOK, Seat
    <3>5. \A j \in Seat : players[j].name \in Name
      BY <3>4 DEF Player
    <3> QED BY <3>2, <3>3, <3>5, NoneAssumption DEF Roster
  <2>3. \A index \in 0 .. total_slides : index \in mine(None) <=> index >= total_slides - 2
    <3> SUFFICES ASSUME NEW index \in 0 .. total_slides
                 PROVE  controller_at(index) = None <=> index >= total_slides - 2
      OBVIOUS
    <3>1. CASE index >= total_slides - 2
      BY <2>1, <3>1, Readers
    <3>2. CASE ~ (index >= total_slides - 2)
      <4>1. index \in 0 .. total_slides - 3
        BY <2>1, <3>2
      <4> QED BY <2>1, <2>2, <3>2, <4>1, Readers
    <3> QED BY <3>1, <3>2
  <2>4. mine(None) = total_slides - 2 .. total_slides
    <3>1. mine(None) \subseteq 0 .. total_slides
      OBVIOUS
    <3>2. total_slides - 2 >= 0
      BY <2>1, Places
    <3>3. \A index : index \in total_slides - 2 .. total_slides
                   <=> index \in 0 .. total_slides /\ index >= total_slides - 2
      BY <2>1, <3>2
    <3> HIDE DEF mine
    <3> QED BY <2>3, <3>1, <3>3
  <2>5. ASSUME NEW n \in Roster
        PROVE  \E i \in Seat : mine(n) = RunOf(i)
    <3>1. PICK i \in Seat : \A j \in Seat : players[j].partner = n <=> j = i
      BY <1>1 DEF EveryonePresentsOnce
    <3>2. n # None
      BY <2>2, <3>1
    <3>3. ASSUME NEW index \in RunOf(i) PROVE index \in mine(n)
      BY <2>1, <3>1, <3>3, Readers
    <3>4. ASSUME NEW index \in mine(n) PROVE index \in RunOf(i)
      <4>1. index \in 0 .. total_slides /\ controller_at(index) = n
        OBVIOUS
      <4>2. index \in 0 .. total_slides - 3
        BY <2>1, <3>2, <4>1, Readers
      <4>3. PICK j \in Seat : index \in RunOf(j)
        BY <2>1, <4>2, Readers
      <4> QED BY <2>1, <3>1, <4>1, <4>3, Readers
    <3> HIDE DEF mine
    <3> QED BY <3>3, <3>4
  <2>6. ASSUME NEW n \in Roster
        PROVE  mine(n) # {} /\ \A a, c \in mine(n) : a .. c \subseteq mine(n)
    <3>1. PICK i \in Seat : mine(n) = RunOf(i)
      BY <2>5
    <3>2. RunOf(i) # {}
      BY <2>1, Readers
    <3>3. \A a, c \in RunOf(i) : a .. c \subseteq RunOf(i)
      <4>1. StartOf[i] \in Nat /\ Size(i) \in Nat
        BY <2>1, Places
      <4> QED BY <4>1 DEF RunOf
    <3> HIDE DEF mine
    <3> QED BY <3>1, <3>2, <3>3
  <2> QED BY <2>4, <2>6
<1> QED BY <1>2, GameInvariant, PTL
=============================================================================
