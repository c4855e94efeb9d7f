---------------------------- MODULE GradingProofs ----------------------------
(***************************************************************************)
(* Proofs about the two that grade: Outcomes, for any mentions, symbols,   *)
(* horizons and faults, and, in the second half, Scorer.                   *)
(*                                                                         *)
(* What is given for a mention depends on the beginning of a tape only:    *)
(* once there is a value, more bars do not change it.  So a value that was *)
(* right when it was written is right for good, and one written again is   *)
(* the same, as long as a run does not work with less of a tape than the   *)
(* run before it had.                                                      *)
(***************************************************************************)
EXTENDS Outcomes, Scorer, SequenceTheorems, FiniteSetTheorems, WellFoundedInduction, TLAPS

-----------------------------------------------------------------------------
(* Tapes                                                                   *)

\* The least of some numbers.
LEMMA LeastOf ==
  ASSUME NEW S, S \subseteq Nat, S # {}
  PROVE  Min(S) \in S /\ \A y \in S : Min(S) <= y
<1>1. PICK x \in S : \A y \in S : ~(<<y, x>> \in OpToRel(<, Nat))
  BY WFMin, NatLessThanWellFounded
<1>2. OpToRel(<, Nat) = {ss \in Nat \X Nat : ss[1] < ss[2]}
  BY DEF OpToRel
<1>3. \A y \in S : x <= y
  <2> SUFFICES ASSUME NEW y \in S
               PROVE  ~(y < x)
    OBVIOUS
  <2>1. x \in Nat /\ y \in Nat /\ ~(<<y, x>> \in OpToRel(<, Nat))
    BY <1>1
  <2> QED
    BY <1>2, <2>1
<1> QED
  BY <1>3 DEF Min

\* The bars of a tape.
LEMMA BarsOfTape ==
  ASSUME NEW tape \in Seq(Bars)
  PROVE  /\ Len(tape) \in Nat /\ DOMAIN tape = 1 .. Len(tape)
         /\ \A i \in 1 .. Len(tape) :
              tape[i] \in Bars /\ tape[i].day \in Nat /\ tape[i].day > 0
         /\ tape = <<>> <=> Len(tape) = 0
<1>1. Len(tape) \in Nat /\ DOMAIN tape = 1 .. Len(tape)
  BY LenProperties
<1>2. \A i \in 1 .. Len(tape) : tape[i] \in Bars
  BY <1>1, ElementOfSeq
<1>3. \A b \in Bars : b.day \in Nat /\ b.day > 0
  BY BoundsAssumption DEF Bars
<1>4. tape = <<>> <=> Len(tape) = 0
  BY EmptySeq
<1> QED
  BY <1>1, <1>2, <1>3, <1>4

\* Bar i is the first on day d or later.
FirstSince(tape, d, i) ==
  /\ i \in 1 .. Len(tape) /\ tape[i].day >= d
  /\ \A j \in 1 .. i - 1 : tape[j].day < d

\* The anchor is this bar, and there is none if all bars are earlier.
LEMMA AnchorOfTape ==
  ASSUME NEW tape \in Seq(Bars), NEW d \in Nat
  PROVE  \/ FirstSince(tape, d, AnchorIndex(tape, d))
         \/ AnchorIndex(tape, d) = 0 /\ \A j \in 1 .. Len(tape) : tape[j].day < d
<1> DEFINE I == {i \in 1 .. Len(tape) : tape[i].day >= d}
<1>1. AnchorIndex(tape, d) = IF I # {} THEN Min(I) ELSE 0
  BY DEF AnchorIndex, SelectInSeq
<1>2. Len(tape) \in Nat /\ \A i \in 1 .. Len(tape) : tape[i].day \in Nat
  BY BarsOfTape
<1>3. CASE I = {}
  BY <1>1, <1>2, <1>3
<1>4. CASE I # {}
  <2>1. I \subseteq Nat
    BY <1>2
  <2>2. Min(I) \in I /\ \A y \in I : Min(I) <= y
    <3> HIDE DEF I
    <3> QED
      BY <1>4, <2>1, LeastOf
  <2>3. PICK i \in 1 .. Len(tape) : i = Min(I) /\ tape[i].day >= d /\ \A y \in I : i <= y
    BY <2>2
  <2>4. ASSUME NEW j \in 1 .. i - 1
        PROVE  tape[j].day < d
    <3>1. j \in 1 .. Len(tape) /\ j < i /\ i \in Nat /\ tape[j].day \in Nat
      BY <1>2, <2>3, <2>4
    <3>2. j \notin I
      <4> HIDE DEF I
      <4> QED
        BY <2>3, <3>1
    <3> QED
      BY <3>1, <3>2
  <2> QED
    BY <1>1, <1>4, <2>3, <2>4 DEF FirstSince
<1> QED
  BY <1>3, <1>4

\* There is no other.
LEMMA AnchorIs ==
  ASSUME NEW tape \in Seq(Bars), NEW d \in Nat, NEW i, FirstSince(tape, d, i)
  PROVE  AnchorIndex(tape, d) = i
<1>1. Len(tape) \in Nat /\ \A j \in 1 .. Len(tape) : tape[j].day \in Nat
  BY BarsOfTape
<1>2. FirstSince(tape, d, AnchorIndex(tape, d))
  BY <1>1, AnchorOfTape DEF FirstSince
<1> HIDE DEF AnchorIndex
<1> QED
  BY <1>1, <1>2 DEF FirstSince

\* The beginning of a tape.
LEMMA BeginningOfTape ==
  ASSUME NEW tape \in Seq(Bars), NEW whole \in Seq(Bars)
  PROVE  IsPrefix(tape, whole) <=>
           /\ Len(tape) <= Len(whole)
           /\ \A i \in 1 .. Len(tape) : tape[i] = whole[i]
<1>1. Len(tape) \in Nat /\ Len(whole) \in Nat
  BY LenProperties
<1>2. ASSUME Len(tape) <= Len(whole)
      PROVE  /\ SubSeq(tape, 1, Len(tape)) = tape
             /\ SubSeq(whole, 1, Len(tape)) \in Seq(Bars)
             /\ Len(SubSeq(whole, 1, Len(tape))) = Len(tape)
             /\ \A i \in 1 .. Len(tape) : SubSeq(whole, 1, Len(tape))[i] = whole[i]
  <2>1. \A i \in 1 .. Len(tape) : whole[i] \in Bars
    BY <1>1, <1>2, ElementOfSeq
  <2>2. SubSeq(tape, 1, Len(tape)) = tape
    BY SubSeqFull
  <2> QED
    BY <1>1, <2>1, <2>2, SubSeqProperties
<1>3. CASE Len(tape) <= Len(whole)
  <2> DEFINE cut == SubSeq(whole, 1, Len(tape))
  <2>1. cut \in Seq(Bars) /\ Len(cut) = Len(tape)
        /\ \A i \in 1 .. Len(tape) : cut[i] = whole[i]
    BY <1>2, <1>3
  <2>2. IsPrefix(tape, whole) <=> tape = cut
    BY <1>2, <1>3 DEF IsPrefix
  <2>3. tape = cut <=> \A i \in 1 .. Len(tape) : tape[i] = cut[i]
    <3> HIDE DEF cut
    <3> QED
      BY <1>1, <2>1, SeqEqual
  <2> QED
    BY <1>3, <2>1, <2>2, <2>3
<1> QED
  BY <1>3 DEF IsPrefix

\* A tape that goes on begins as it did.
LEMMA BeginningStays ==
  ASSUME NEW tape \in Seq(Bars), NEW whole \in Seq(Bars), NEW bar \in Bars
  PROVE  /\ IsPrefix(tape, whole) => IsPrefix(tape, Append(whole, bar))
         /\ IsPrefix(whole, whole)
         /\ IsPrefix(<<>>, whole)
<1>1. /\ Append(whole, bar) \in Seq(Bars) /\ Len(Append(whole, bar)) = Len(whole) + 1
      /\ \A i \in 1 .. Len(whole) : Append(whole, bar)[i] = whole[i]
  BY AppendProperties
<1>2. Len(whole) \in Nat /\ <<>> \in Seq(Bars) /\ Len(<<>>) = 0
  BY LenProperties
<1>3. ASSUME IsPrefix(tape, whole)
      PROVE  IsPrefix(tape, Append(whole, bar))
  <2>1. /\ Len(tape) \in Nat /\ Len(tape) <= Len(whole)
        /\ \A i \in 1 .. Len(tape) : tape[i] = whole[i]
    BY <1>3, BeginningOfTape, LenProperties
  <2>2. /\ Len(tape) <= Len(Append(whole, bar))
        /\ \A i \in 1 .. Len(tape) : tape[i] = Append(whole, bar)[i]
    BY <1>1, <1>2, <2>1
  <2> QED
    BY <1>1, <2>2, BeginningOfTape
<1>4. IsPrefix(whole, whole)
  BY <1>2, BeginningOfTape
<1>5. IsPrefix(<<>>, whole)
  <2>1. Len(<<>>) <= Len(whole) /\ \A i \in 1 .. Len(<<>>) : <<>>[i] = whole[i]
    BY <1>2
  <2> QED
    BY <1>2, <2>1, BeginningOfTape
<1> QED
  BY <1>3, <1>4, <1>5

\* An anchor in the beginning of a tape is that of the whole.
LEMMA AnchorStays ==
  ASSUME NEW tape \in Seq(Bars), NEW whole \in Seq(Bars), IsPrefix(tape, whole),
         NEW d \in Nat, AnchorIndex(tape, d) # 0
  PROVE  AnchorIndex(whole, d) = AnchorIndex(tape, d)
<1>1. /\ Len(tape) \in Nat /\ Len(whole) \in Nat /\ Len(tape) <= Len(whole)
      /\ \A i \in 1 .. Len(tape) : tape[i] = whole[i]
  BY BeginningOfTape, LenProperties
<1>2. FirstSince(tape, d, AnchorIndex(tape, d))
  BY AnchorOfTape
<1>3. FirstSince(whole, d, AnchorIndex(tape, d))
  BY <1>1, <1>2 DEF FirstSince
<1> QED
  BY <1>3, AnchorIs

\* A return that the beginning of a tape gives is that of the whole.
LEMMA ReturnStays ==
  ASSUME NEW tape \in Seq(Bars), NEW whole \in Seq(Bars), IsPrefix(tape, whole),
         NEW d \in Nat, NEW h \in Horizons, NEW return, Given(tape, d, h, return)
  PROVE  Given(whole, d, h, return)
<1>1. /\ Len(tape) \in Nat /\ Len(whole) \in Nat /\ Len(tape) <= Len(whole)
      /\ \A i \in 1 .. Len(tape) : tape[i] = whole[i]
  BY BeginningOfTape, LenProperties
<1>2. SUFFICES ASSUME return # 0
               PROVE  /\ AnchorIndex(whole, d) # 0
                      /\ return = ForwardReturns(whole, d)[h]
  BY DEF Given
<1> DEFINE i == AnchorIndex(tape, d)
<1>3. i # 0 /\ return = ForwardReturns(tape, d)[h]
  BY <1>2 DEF Given
<1>4. i \in 1 .. Len(tape) /\ AnchorIndex(whole, d) = i
  BY <1>3, AnchorStays, AnchorOfTape DEF FirstSince
<1>5. h \in Nat \ {0}
  BY HorizonsAssumption
<1>6. i + h <= Len(tape) /\ return = tape[i + h].day
  BY <1>2, <1>3 DEF ForwardReturns
<1>7. i + h <= Len(whole) /\ whole[i + h] = tape[i + h]
  BY <1>1, <1>4, <1>5, <1>6
<1>8. ForwardReturns(whole, d)[h] = whole[i + h].day
  BY <1>4, <1>7 DEF ForwardReturns
<1> QED
  BY <1>3, <1>4, <1>6, <1>7, <1>8

\* Bar j closes a call whose anchor is bar i: the first bar that touches a level,
\* or the last of its time.
Closes(tape, i, j) ==
  /\ j \in i + 1 .. Len(tape) /\ j <= i + CallHorizon
  /\ \A k \in i + 1 .. j - 1 : tape[k].touch = {}
  /\ tape[j].touch # {} \/ j = i + CallHorizon

\* What such a bar makes of the call.
Verdict(bar) ==
  [status |-> IF bar.touch = {} THEN "timeout"
              ELSE IF "stop" \in bar.touch THEN "stop" ELSE "target",
   day |-> bar.day]

\* What the verdict says of the bar.
LEMMA VerdictOfBar ==
  ASSUME NEW bar \in Bars
  PROVE  /\ Verdict(bar).day = bar.day
         /\ Verdict(bar).status \in {"stop", "target", "timeout"}
         /\ Verdict(bar).status = "stop" => "stop" \in bar.touch
         /\ Verdict(bar).status = "target" => bar.touch = {"target"}
         /\ Verdict(bar).status = "timeout" => bar.touch = {}
<1>1. bar.touch \subseteq {"stop", "target"}
  BY DEF Bars
<1>2. Verdict(bar).day = bar.day
  BY DEF Verdict
<1>3. CASE bar.touch = {}
  BY <1>2, <1>3 DEF Verdict
<1>4. CASE bar.touch # {} /\ "stop" \in bar.touch
  BY <1>2, <1>4 DEF Verdict
<1>5. CASE bar.touch # {} /\ "stop" \notin bar.touch
  <2>1. bar.touch = {"target"}
    BY <1>1, <1>5
  <2>2. Verdict(bar).status = "target"
    BY <1>5 DEF Verdict
  <2> QED
    BY <1>2, <2>1, <2>2
<1> QED
  BY <1>3, <1>4, <1>5

\* A call is graded by the bar that closes it.
LEMMA GradedByBar ==
  ASSUME NEW tape \in Seq(Bars), NEW d \in Nat, NEW j,
         AnchorIndex(tape, d) # 0, Closes(tape, AnchorIndex(tape, d), j)
  PROVE  Graded(tape, d) = Verdict(tape[j])
<1> DEFINE i == AnchorIndex(tape, d)
           end == i + CallHorizon
           hits == {k \in i + 1 .. Min({end, Len(tape)}) : tape[k].touch # {}}
<1>1. Len(tape) \in Nat /\ i \in 1 .. Len(tape) /\ end \in Nat /\ CallHorizon \in Nat
  BY BarsOfTape, AnchorOfTape, HorizonsAssumption DEF FirstSince
<1>2. Min({end, Len(tape)}) = IF end <= Len(tape) THEN end ELSE Len(tape)
  <2>1. /\ Min({end, Len(tape)}) \in {end, Len(tape)}
        /\ \A y \in {end, Len(tape)} : Min({end, Len(tape)}) <= y
    <3> HIDE DEF end
    <3>1. {end, Len(tape)} \subseteq Nat /\ {end, Len(tape)} # {}
      BY <1>1
    <3> QED
      BY <3>1, LeastOf
  <2> QED
    BY <1>1, <2>1
<1>3. /\ j \in i + 1 .. Len(tape) /\ j <= end
      /\ \A k \in i + 1 .. j - 1 : tape[k].touch = {}
      /\ tape[j].touch # {} \/ j = end
  BY DEF Closes
<1>4. CASE tape[j].touch # {}
  <2>1. j \in hits /\ \A k \in hits : j <= k
    BY <1>1, <1>2, <1>3, <1>4
  <2>2. hits \subseteq Nat /\ hits # {}
    <3>1. \A k \in i + 1 .. Min({end, Len(tape)}) : k \in Nat
      BY <1>1, <1>2
    <3> QED
      BY <2>1, <3>1
  <2>3. Min(hits) = j
    <3>1. Min(hits) \in hits /\ \A y \in hits : Min(hits) <= y
      <4> HIDE DEF hits
      <4> QED
        BY <2>2, LeastOf
    <3>2. Min(hits) \in Nat /\ j \in Nat /\ Min(hits) <= j /\ j <= Min(hits)
      <4> HIDE DEF hits
      <4> QED
        BY <2>1, <2>2, <3>1
    <3> QED
      BY <3>2
  <2> QED
    BY <1>4, <2>2, <2>3 DEF Graded, Verdict
<1>5. CASE tape[j].touch = {}
  <2>1. j = end /\ end <= Len(tape)
    BY <1>1, <1>3, <1>5
  <2>2. hits = {}
    BY <1>1, <1>2, <1>3, <1>5, <2>1
  <2> QED
    BY <1>5, <2>1, <2>2 DEF Graded, Verdict
<1> QED
  BY <1>4, <1>5

\* A grade needs an anchor and a bar that closes the call.
LEMMA GradeHasBar ==
  ASSUME NEW tape \in Seq(Bars), NEW d \in Nat, Graded(tape, d) # Open
  PROVE  /\ AnchorIndex(tape, d) # 0
         /\ \E j \in 1 .. Len(tape) : Closes(tape, AnchorIndex(tape, d), j)
<1> DEFINE i == AnchorIndex(tape, d)
           end == i + CallHorizon
           hits == {k \in i + 1 .. Min({end, Len(tape)}) : tape[k].touch # {}}
<1>1. i # 0
  BY DEF Graded
<1>2. Len(tape) \in Nat /\ i \in 1 .. Len(tape) /\ end \in Nat /\ CallHorizon \in Nat \ {0}
  BY <1>1, BarsOfTape, AnchorOfTape, HorizonsAssumption DEF FirstSince
<1>3. Min({end, Len(tape)}) = IF end <= Len(tape) THEN end ELSE Len(tape)
  <2>1. /\ Min({end, Len(tape)}) \in {end, Len(tape)}
        /\ \A y \in {end, Len(tape)} : Min({end, Len(tape)}) <= y
    <3> HIDE DEF end
    <3>1. {end, Len(tape)} \subseteq Nat /\ {end, Len(tape)} # {}
      BY <1>2
    <3> QED
      BY <3>1, LeastOf
  <2> QED
    BY <1>2, <2>1
<1>4. CASE hits # {}
  <2>1. hits \subseteq Nat
    <3>1. \A k \in i + 1 .. Min({end, Len(tape)}) : k \in Nat
      BY <1>2, <1>3
    <3> QED
      BY <3>1
  <2>2. Min(hits) \in hits /\ \A y \in hits : Min(hits) <= y
    <3> HIDE DEF hits
    <3> QED
      BY <1>4, <2>1, LeastOf
  <2>3. PICK j \in hits : \A y \in hits : j <= y
    <3> HIDE DEF hits
    <3> QED
      BY <2>2
  <2>4. j \in i + 1 .. Len(tape) /\ j <= end /\ tape[j].touch # {}
    BY <1>2, <1>3, <2>3
  <2>5. ASSUME NEW k \in i + 1 .. j - 1
        PROVE  tape[k].touch = {}
    <3>1. k \in i + 1 .. Min({end, Len(tape)}) /\ k < j
      BY <1>2, <1>3, <2>4, <2>5
    <3>2. k \notin hits
      <4> HIDE DEF hits
      <4> QED
        BY <1>2, <2>3, <2>4, <3>1
    <3> QED
      BY <3>1, <3>2
  <2>6. Closes(tape, i, j)
    BY <2>4, <2>5 DEF Closes
  <2>7. j \in 1 .. Len(tape)
    BY <1>2, <2>4
  <2> QED
    BY <1>1, <2>6, <2>7
<1>5. CASE hits = {}
  <2>1. end <= Len(tape)
    BY <1>1, <1>5 DEF Graded
  <2>2. end \in i + 1 .. Len(tape) /\ end \in 1 .. Len(tape)
    BY <1>2, <2>1
  <2>3. \A k \in i + 1 .. end : tape[k].touch = {}
    BY <1>3, <1>5, <2>1
  <2>4. Closes(tape, i, end)
    BY <1>2, <2>2, <2>3 DEF Closes
  <2> QED
    BY <1>1, <2>2, <2>4
<1> QED
  BY <1>4, <1>5

\* A grade that the beginning of a tape gives is that of the whole.
LEMMA GradeStays ==
  ASSUME NEW tape \in Seq(Bars), NEW whole \in Seq(Bars), IsPrefix(tape, whole),
         NEW d \in Nat, Graded(tape, d) # Open
  PROVE  Graded(whole, d) = Graded(tape, d)
<1>1. /\ Len(tape) \in Nat /\ Len(whole) \in Nat /\ Len(tape) <= Len(whole)
      /\ \A i \in 1 .. Len(tape) : tape[i] = whole[i]
  BY BeginningOfTape, LenProperties
<1>2. /\ AnchorIndex(tape, d) # 0
      /\ \E k \in 1 .. Len(tape) : Closes(tape, AnchorIndex(tape, d), k)
  BY GradeHasBar
<1>3. PICK j \in 1 .. Len(tape) : Closes(tape, AnchorIndex(tape, d), j)
  BY <1>2
<1>4. AnchorIndex(whole, d) = AnchorIndex(tape, d)
  BY <1>2, AnchorStays
<1>5. AnchorIndex(tape, d) \in 1 .. Len(tape)
  BY <1>2, AnchorOfTape DEF FirstSince
<1>6. Closes(whole, AnchorIndex(whole, d), j)
  <2> DEFINE i == AnchorIndex(tape, d)
  <2>1. /\ i \in 1 .. Len(tape) /\ CallHorizon \in Nat
        /\ j \in i + 1 .. Len(tape) /\ j <= i + CallHorizon
        /\ \A k \in i + 1 .. j - 1 : tape[k].touch = {}
        /\ tape[j].touch # {} \/ j = i + CallHorizon
    BY <1>3, <1>5, HorizonsAssumption DEF Closes
  <2> HIDE DEF i
  <2>2. j \in i + 1 .. Len(whole) /\ tape[j] = whole[j]
    BY <1>1, <2>1
  <2>3. ASSUME NEW k \in i + 1 .. j - 1
        PROVE  whole[k].touch = {}
    <3>1. k \in 1 .. Len(tape)
      BY <1>1, <2>1, <2>3
    <3> QED
      BY <1>1, <2>1, <3>1
  <2>4. Closes(whole, i, j)
    BY <2>1, <2>2, <2>3 DEF Closes
  <2> QED
    BY <1>4, <2>4 DEF i
<1>7. Graded(whole, d) = Verdict(whole[j])
  BY <1>2, <1>4, <1>6, GradedByBar
<1>8. Graded(tape, d) = Verdict(tape[j])
  BY <1>2, <1>3, GradedByBar
<1> QED
  BY <1>1, <1>7, <1>8

\* The sessions between the anchor and a bar.
LEMMA SessionsToBar ==
  ASSUME NEW tape \in Seq(Bars), Ascending(tape), NEW d \in Nat,
         AnchorIndex(tape, d) # 0, NEW k \in 1 .. Len(tape)
  PROVE  SessionsBefore(tape, d, tape[k].day) =
           IF AnchorIndex(tape, d) <= k THEN k - AnchorIndex(tape, d) ELSE 0
<1> DEFINE i == AnchorIndex(tape, d)
           Between == {x \in DOMAIN tape : d <= tape[x].day /\ tape[x].day < tape[k].day}
<1>1. /\ Len(tape) \in Nat /\ DOMAIN tape = 1 .. Len(tape)
      /\ \A x \in 1 .. Len(tape) : tape[x].day \in Nat
  BY BarsOfTape
<1>2. /\ i \in 1 .. Len(tape) /\ tape[i].day >= d
      /\ \A x \in 1 .. i - 1 : tape[x].day < d
  BY AnchorOfTape DEF FirstSince
<1>3. \A x, y \in 1 .. Len(tape) : x < y => tape[x].day < tape[y].day
  BY <1>1 DEF Ascending
<1>4. Between = i .. k - 1
  <2>1. ASSUME NEW x \in Between
        PROVE  x \in i .. k - 1
    <3>1. /\ x \in 1 .. Len(tape) /\ d <= tape[x].day /\ tape[x].day < tape[k].day
      BY <1>1, <2>1
    <3>2. x >= i
      BY <1>1, <1>2, <3>1
    <3>3. x < k
      BY <1>1, <1>3, <3>1
    <3> QED
      BY <1>2, <3>1, <3>2, <3>3
  <2>2. ASSUME NEW x \in i .. k - 1
        PROVE  x \in Between
    <3>1. x \in 1 .. Len(tape) /\ x < k /\ (x = i \/ i < x)
      BY <1>1, <1>2, <2>2
    <3>2. tape[x].day < tape[k].day /\ tape[i].day <= tape[x].day
      BY <1>1, <1>2, <1>3, <3>1
    <3> QED
      BY <1>1, <1>2, <3>1, <3>2
  <2> QED
    BY <2>1, <2>2
<1>5. Cardinality(i .. k - 1) = IF i > k - 1 THEN 0 ELSE k - 1 - i + 1
  <2>1. i \in Int /\ k - 1 \in Int
    BY <1>1, <1>2
  <2> HIDE DEF i
  <2> QED
    BY <2>1, FS_Interval
<1>6. SessionsBefore(tape, d, tape[k].day) = Cardinality(i .. k - 1)
  BY <1>4 DEF SessionsBefore
<1> QED
  BY <1>1, <1>2, <1>5, <1>6

\* A return that the whole tape gives is the close so many sessions later.
LEMMA ReturnIsOfTheTape ==
  ASSUME NEW tape \in Seq(Bars), Ascending(tape), NEW d \in Nat,
         NEW h \in Horizons, NEW return, return # 0, Given(tape, d, h, return)
  PROVE  SessionsBefore(tape, d, return) = h
<1> DEFINE i == AnchorIndex(tape, d)
<1>1. i # 0 /\ return = ForwardReturns(tape, d)[h]
  BY DEF Given
<1>2. i + h <= Len(tape) /\ return = tape[i + h].day
  BY <1>1 DEF ForwardReturns
<1>3. Len(tape) \in Nat /\ i \in 1 .. Len(tape) /\ h \in Nat \ {0}
  BY <1>1, BarsOfTape, AnchorOfTape, HorizonsAssumption DEF FirstSince
<1>4. PICK k \in 1 .. Len(tape) : k = i + h
  BY <1>2, <1>3
<1>5. SessionsBefore(tape, d, tape[k].day) = IF i <= k THEN k - i ELSE 0
  BY <1>1, SessionsToBar
<1>6. i <= k /\ k - i = h /\ return = tape[k].day
  BY <1>2, <1>3, <1>4
<1> QED
  BY <1>5, <1>6

\* Two bars of one day are one bar.
LEMMA BarOfDay ==
  ASSUME NEW tape \in Seq(Bars), Ascending(tape), NEW j \in 1 .. Len(tape)
  PROVE  (CHOOSE b \in ToSet(tape) : b.day = tape[j].day) = tape[j]
<1>1. /\ DOMAIN tape = 1 .. Len(tape) /\ Len(tape) \in Nat
      /\ \A x \in 1 .. Len(tape) : tape[x].day \in Nat
  BY BarsOfTape
<1>2. tape[j] \in ToSet(tape)
  BY <1>1 DEF ToSet
<1>3. ASSUME NEW b \in ToSet(tape), b.day = tape[j].day
      PROVE  b = tape[j]
  <2>1. PICK x \in 1 .. Len(tape) : b = tape[x]
    BY <1>1 DEF ToSet
  <2>2. ~(x < j) /\ ~(j < x)
    BY <1>1, <1>3, <2>1 DEF Ascending
  <2>3. x = j
    BY <1>1, <2>2
  <2> QED
    BY <2>1, <2>3
<1> QED
  BY <1>2, <1>3

\* A grade that the whole tape gives is a fair one.
GradeIsFair(tape, d, grade) ==
  LET n == SessionsBefore(tape, d, grade.day)
      bar == CHOOSE b \in ToSet(tape) : b.day = grade.day
      later == {b \in ToSet(tape) :
                  b.day < bar.day /\ SessionsBefore(tape, d, b.day) > 0} IN
  /\ n \in 1 .. CallHorizon
  /\ \A b \in later : b.touch = {}
  /\ grade.status = "stop" => "stop" \in bar.touch
  /\ grade.status = "target" => bar.touch = {"target"}
  /\ grade.status = "timeout" => n = CallHorizon /\ bar.touch = {}

\* A grade that the whole tape gives is that of the first touch.
LEMMA GradeIsOfTheTape ==
  ASSUME NEW tape \in Seq(Bars), Ascending(tape), NEW d \in Nat, Graded(tape, d) # Open
  PROVE  GradeIsFair(tape, d, Graded(tape, d))
<1> DEFINE i == AnchorIndex(tape, d)
<1>1. i # 0 /\ \E k \in 1 .. Len(tape) : Closes(tape, i, k)
  BY GradeHasBar
<1>2. PICK j \in 1 .. Len(tape) : Closes(tape, i, j)
  BY <1>1
<1>3. Graded(tape, d) = Verdict(tape[j])
  BY <1>1, <1>2, GradedByBar
<1>4. /\ Len(tape) \in Nat /\ DOMAIN tape = 1 .. Len(tape) /\ i \in 1 .. Len(tape)
      /\ CallHorizon \in Nat \ {0}
  BY <1>1, BarsOfTape, AnchorOfTape, HorizonsAssumption DEF FirstSince
<1>5. /\ j \in i + 1 .. Len(tape) /\ j <= i + CallHorizon
      /\ \A k \in i + 1 .. j - 1 : tape[k].touch = {}
      /\ tape[j].touch # {} \/ j = i + CallHorizon
  BY <1>2 DEF Closes
<1> DEFINE grade == Graded(tape, d)
           n == SessionsBefore(tape, d, grade.day)
           bar == CHOOSE b \in ToSet(tape) : b.day = grade.day
           later == {b \in ToSet(tape) :
                       b.day < bar.day /\ SessionsBefore(tape, d, b.day) > 0}
<1>6. grade.day = tape[j].day /\ grade = Verdict(tape[j])
  BY <1>3 DEF Verdict
<1>7. bar = tape[j]
  <2>1. (CHOOSE b \in ToSet(tape) : b.day = tape[j].day) = tape[j]
    BY BarOfDay
  <2> QED
    BY <1>6, <2>1
<1>8. n = j - i
  <2>1. SessionsBefore(tape, d, tape[j].day) = IF i <= j THEN j - i ELSE 0
    BY <1>1, SessionsToBar
  <2>2. i <= j
    BY <1>4, <1>5
  <2> QED
    BY <1>6, <2>1, <2>2
<1>9. ASSUME NEW b \in later
      PROVE  b.touch = {}
  <2>1. PICK k \in 1 .. Len(tape) : b = tape[k]
    BY <1>4 DEF ToSet
  <2>2. /\ tape[k].day < tape[j].day /\ SessionsBefore(tape, d, tape[k].day) > 0
    BY <1>7, <2>1
  <2>3. SessionsBefore(tape, d, tape[k].day) = IF i <= k THEN k - i ELSE 0
    BY <1>1, SessionsToBar
  <2>4. i < k
    <3> HIDE DEF i
    <3> QED
      BY <1>4, <2>2, <2>3
  <2>5. k < j
    <3>1. ~(j < k) /\ ~(j = k)
      <4>1. tape[k].day \in Nat /\ tape[j].day \in Nat
        BY BarsOfTape
      <4>2. j < k => tape[j].day < tape[k].day
        BY <1>4 DEF Ascending
      <4> QED
        BY <2>2, <4>1, <4>2
    <3> QED
      BY <1>4, <3>1
  <2>6. k \in i + 1 .. j - 1
    <3> HIDE DEF i
    <3> QED
      BY <1>4, <2>4, <2>5
  <2> QED
    BY <1>5, <2>1, <2>6
<1>10. n \in 1 .. CallHorizon
  <2> HIDE DEF n, i
  <2> QED
    BY <1>4, <1>5, <1>8
<1>11. tape[j] \in Bars
  BY BarsOfTape
<1>12. /\ grade.status = "stop" => "stop" \in bar.touch
       /\ grade.status = "target" => bar.touch = {"target"}
       /\ grade.status = "timeout" => bar.touch = {}
  <2> HIDE DEF grade, bar
  <2> QED
    BY <1>6, <1>7, <1>11, VerdictOfBar
<1>14. grade.status = "timeout" => n = CallHorizon /\ bar.touch = {}
  <2>1. grade.status = "timeout" => tape[j].touch = {}
    BY <1>7, <1>12
  <2>2. tape[j].touch = {} => j = i + CallHorizon
    BY <1>5
  <2> HIDE DEF grade, n, bar, i
  <2> QED
    BY <1>4, <1>7, <1>8, <2>1, <2>2
<1> QED
  BY <1>9, <1>10, <1>12, <1>14 DEF GradeIsFair

\* The last bar is the latest.
LEMMA LatestBar ==
  ASSUME NEW tape \in Seq(Bars), Ascending(tape), NEW k \in 1 .. Len(tape)
  PROVE  tape[k].day <= LastDay(tape)
<1>1. /\ Len(tape) \in Nat /\ DOMAIN tape = 1 .. Len(tape)
      /\ \A x \in 1 .. Len(tape) : tape[x].day \in Nat
      /\ tape = <<>> <=> Len(tape) = 0
  BY BarsOfTape
<1>2. k \in Nat /\ k <= Len(tape) /\ Len(tape) \in 1 .. Len(tape)
  BY <1>1
<1>3. k < Len(tape) => tape[k].day < tape[Len(tape)].day
  BY <1>1, <1>2 DEF Ascending
<1>4. tape[k].day \in Nat /\ tape[Len(tape)].day \in Nat
  BY <1>1, <1>2
<1>5. LastDay(tape) = tape[Len(tape)].day
  BY <1>1, <1>2 DEF LastDay, Last
<1> QED
  BY <1>1, <1>2, <1>3, <1>4, <1>5

\* A return that the whole tape gives is a day of the tape.
LEMMA ReturnIsOnTape ==
  ASSUME NEW tape \in Seq(Bars), Ascending(tape), NEW d \in Nat,
         NEW h \in Horizons, NEW return, Given(tape, d, h, return)
  PROVE  return <= LastDay(tape)
<1>1. /\ Len(tape) \in Nat /\ DOMAIN tape = 1 .. Len(tape)
      /\ \A x \in 1 .. Len(tape) : tape[x].day \in Nat
      /\ tape = <<>> <=> Len(tape) = 0
  BY BarsOfTape
<1>2. LastDay(tape) \in Nat
  BY <1>1 DEF LastDay, Last
<1>3. CASE return = 0
  BY <1>2, <1>3
<1>4. CASE return # 0
  <2> DEFINE i == AnchorIndex(tape, d)
  <2>1. i # 0 /\ return = ForwardReturns(tape, d)[h]
    BY <1>4 DEF Given
  <2>2. i + h <= Len(tape) /\ return = tape[i + h].day
    BY <1>4, <2>1 DEF ForwardReturns
  <2>3. i \in 1 .. Len(tape) /\ h \in Nat \ {0}
    BY <2>1, AnchorOfTape, HorizonsAssumption DEF FirstSince
  <2>4. PICK k \in 1 .. Len(tape) : k = i + h
    BY <1>1, <2>2, <2>3
  <2> QED
    BY <2>2, <2>4, LatestBar
<1> QED
  BY <1>3, <1>4

\* A beginning of the tape that is not behind a return gives it again.
LEMMA ReturnIsKept ==
  ASSUME NEW tape \in Seq(Bars), NEW whole \in Seq(Bars), IsPrefix(tape, whole),
         Ascending(whole), NEW d \in Nat, NEW h \in Horizons, NEW return, return # 0,
         Given(whole, d, h, return), AnchorIndex(tape, d) # 0, return <= LastDay(tape)
  PROVE  ForwardReturns(tape, d)[h] = return
<1>1. /\ Len(tape) \in Nat /\ Len(whole) \in Nat /\ Len(tape) <= Len(whole)
      /\ DOMAIN whole = 1 .. Len(whole)
      /\ \A i \in 1 .. Len(tape) : tape[i] = whole[i]
      /\ \A i \in 1 .. Len(whole) : whole[i].day \in Nat
      /\ tape = <<>> <=> Len(tape) = 0
  BY BeginningOfTape, BarsOfTape
<1> DEFINE i == AnchorIndex(tape, d)
<1>2. i \in 1 .. Len(tape) /\ h \in Nat \ {0} /\ AnchorIndex(whole, d) = i
  BY AnchorStays, AnchorOfTape, HorizonsAssumption DEF FirstSince
<1>3. return = ForwardReturns(whole, d)[h]
  BY DEF Given
<1>4. i + h <= Len(whole) /\ return = whole[i + h].day
  BY <1>2, <1>3 DEF ForwardReturns
<1>5. PICK k \in 1 .. Len(whole) : k = i + h
  BY <1>1, <1>2, <1>4
<1>6. LastDay(tape) = whole[Len(tape)].day /\ Len(tape) \in 1 .. Len(whole)
  BY <1>1, <1>2 DEF LastDay, Last
<1>7. k <= Len(tape)
  <2>1. Len(tape) < k => whole[Len(tape)].day < whole[k].day
    BY <1>1, <1>6 DEF Ascending
  <2>2. whole[k].day <= whole[Len(tape)].day
    BY <1>4, <1>5, <1>6
  <2>3. whole[k].day \in Nat /\ whole[Len(tape)].day \in Nat
    BY <1>1, <1>6
  <2> QED
    BY <1>1, <2>1, <2>2, <2>3
<1>8. ForwardReturns(tape, d)[h] = tape[k].day
  BY <1>5, <1>7 DEF ForwardReturns
<1> QED
  BY <1>1, <1>4, <1>5, <1>7, <1>8

\* Returns and grades of a tape that ends today are none of tomorrow.
LEMMA ResultTypes ==
  ASSUME NEW tape \in Seq(Bars), NEW d \in Nat, NEW t \in Nat,
         \A i \in 1 .. Len(tape) : tape[i].day <= t
  PROVE  /\ ForwardReturns(tape, d) \in [Horizons -> 0 .. t]
         /\ Graded(tape, d) \in [status : {"none", "open", "stop", "target", "timeout"},
                                 day : 0 .. t]
<1>1. /\ Len(tape) \in Nat
      /\ \A i \in 1 .. Len(tape) : tape[i].day \in 0 .. t /\ tape[i] \in Bars
  BY BarsOfTape
<1>2. ForwardReturns(tape, d) \in [Horizons -> 0 .. t]
  <2>1. AnchorIndex(tape, d) \in Nat
    BY <1>1, AnchorOfTape DEF FirstSince
  <2>2. ASSUME NEW h \in Horizons, AnchorIndex(tape, d) + h <= Len(tape)
        PROVE  tape[AnchorIndex(tape, d) + h].day \in 0 .. t
    <3>1. PICK k : k = AnchorIndex(tape, d) + h
      OBVIOUS
    <3>2. k \in 1 .. Len(tape)
      BY <1>1, <2>1, <2>2, <3>1, HorizonsAssumption
    <3> QED
      BY <1>1, <3>1, <3>2
  <2> QED
    BY <2>2 DEF ForwardReturns
<1> DEFINE G == [status : {"none", "open", "stop", "target", "timeout"}, day : 0 .. t]
<1>3. Graded(tape, d) = Open => Graded(tape, d) \in G
  <2>1. Open \in G
    BY DEF Open
  <2> QED
    BY <2>1
<1>4. ASSUME Graded(tape, d) # Open
      PROVE  Graded(tape, d) \in G
  <2>1. PICK j \in 1 .. Len(tape) : Closes(tape, AnchorIndex(tape, d), j)
    BY <1>4, GradeHasBar
  <2>2. Graded(tape, d) = Verdict(tape[j])
    BY <1>4, <2>1, GradeHasBar, GradedByBar
  <2>3. tape[j] \in Bars /\ tape[j].day \in 0 .. t
    BY <1>1
  <2>4. Verdict(tape[j]).status \in {"stop", "target", "timeout"}
    BY <2>3, VerdictOfBar
  <2>5. Verdict(tape[j]) = [status |-> Verdict(tape[j]).status, day |-> tape[j].day]
    BY DEF Verdict
  <2>6. Verdict(tape[j]) \in G
    BY <2>3, <2>4, <2>5
  <2> QED
    BY <2>2, <2>6
<1> QED
  BY <1>2, <1>3, <1>4

-----------------------------------------------------------------------------
(* The ledger                                                              *)

\* What the steps keep; the rest of ResultsAreOfTheTape follows from it.
Core == TypeOK /\ WorkIsInOrder /\ RunIsNotBehind /\ ResultsFitTheFeed

\* The feeds of a mention.
LEMMA FeedsOfMention ==
  /\ Bench \in Feeds
  /\ \A m \in Mentions : SymbolOf[m] \in Feeds /\ AuthorOf[m] \in Authors
  BY DEF Feeds, Symbols, Authors

\* The tapes a run works with.
LEMMA TapesOfRun ==
  ASSUME Core, NEW s \in Feeds
  PROVE  /\ feed[s] \in Seq(Bars) /\ Ascending(feed[s])
         /\ run.got[s] \in Seq(Bars) /\ IsPrefix(run.got[s], feed[s])
         /\ cached[s] \in Seq(Bars) /\ IsPrefix(cached[s], feed[s])
         /\ BarsOf(s) \in Seq(Bars) /\ IsPrefix(BarsOf(s), feed[s])
         /\ today \in Nat
         /\ \A tape \in {run.got[s], feed[s], BarsOf(s)} :
              \A i \in 1 .. Len(tape) : tape[i].day <= today
<1>1. /\ feed[s] \in Seq(Bars) /\ Ascending(feed[s])
      /\ run.got[s] \in Seq(Bars) /\ IsPrefix(run.got[s], feed[s])
      /\ cached[s] \in Seq(Bars) /\ IsPrefix(cached[s], feed[s])
      /\ today \in Nat
      /\ \A i \in DOMAIN feed[s] : feed[s][i].day <= today
  BY BoundsAssumption DEF Core, TypeOK, WorkIsInOrder
<1>2. BarsOf(s) \in {run.got[s], cached[s]}
  BY DEF BarsOf
<1>3. \A tape \in Seq(Bars) : IsPrefix(tape, feed[s]) =>
        \A i \in 1 .. Len(tape) : tape[i].day <= today
  <2> SUFFICES ASSUME NEW tape \in Seq(Bars), IsPrefix(tape, feed[s]), NEW i \in 1 .. Len(tape)
               PROVE  tape[i].day <= today
    OBVIOUS
  <2>1. /\ Len(tape) \in Nat /\ Len(feed[s]) \in Nat /\ Len(tape) <= Len(feed[s])
        /\ tape[i] = feed[s][i]
        /\ DOMAIN feed[s] = 1 .. Len(feed[s])
    BY <1>1, BeginningOfTape, BarsOfTape
  <2> QED
    BY <1>1, <2>1
<1>4. \A i \in 1 .. Len(feed[s]) : feed[s][i].day <= today
  BY <1>1, BarsOfTape
<1> QED
  BY <1>1, <1>2, <1>3, <1>4

\* What fits the feed is what the whole tape gives.
LEMMA FitIsOfTheTape == Core => ReturnsAreOfTheTape /\ GradesAreOfTheTape
<1> SUFFICES ASSUME Core
             PROVE  ReturnsAreOfTheTape /\ GradesAreOfTheTape
  OBVIOUS
<1>1. \A m \in Mentions : posted[m] \in Nat
  BY BoundsAssumption DEF Core, TypeOK
<1>2. ReturnsAreOfTheTape
  <2> SUFFICES ASSUME NEW m \in Mentions, NEW h \in Horizons
               PROVE  /\ rows[m].fwd[h] # 0 =>
                           SessionsBefore(feed[SymbolOf[m]], posted[m], rows[m].fwd[h]) = h
                      /\ rows[m].bench[h] # 0 =>
                           SessionsBefore(feed[Bench], posted[m], rows[m].bench[h]) = h
    BY DEF ReturnsAreOfTheTape
  <2>1. /\ Given(feed[SymbolOf[m]], posted[m], h, rows[m].fwd[h])
        /\ Given(feed[Bench], posted[m], h, rows[m].bench[h])
    BY DEF Core, ResultsFitTheFeed
  <2>2. /\ feed[SymbolOf[m]] \in Seq(Bars) /\ Ascending(feed[SymbolOf[m]])
        /\ feed[Bench] \in Seq(Bars) /\ Ascending(feed[Bench])
    BY FeedsOfMention, TapesOfRun
  <2> QED
    BY <1>1, <2>1, <2>2, ReturnIsOfTheTape
<1>3. GradesAreOfTheTape
  <2> SUFFICES ASSUME NEW c \in Mentions, grades[c].status \in {"stop", "target", "timeout"}
               PROVE  GradeIsFair(feed[SymbolOf[c]], posted[c], grades[c])
    BY DEF GradesAreOfTheTape, GradeIsFair
  <2>1. Closed(c) /\ grades[c] # Open
    BY DEF Closed, NoCall, Open
  <2>2. grades[c] = Graded(feed[SymbolOf[c]], posted[c])
    BY <2>1 DEF Core, ResultsFitTheFeed
  <2>3. feed[SymbolOf[c]] \in Seq(Bars) /\ Ascending(feed[SymbolOf[c]])
    BY FeedsOfMention, TapesOfRun
  <2> QED
    BY <1>1, <2>1, <2>2, <2>3, GradeIsOfTheTape
<1> QED
  BY <1>2, <1>3

\* Nothing is published or stored yet.
LEMMA InitCore == Init => Core
<1> SUFFICES ASSUME Init
             PROVE  Core
  OBVIOUS
<1> USE DEF Init
<1>1. <<>> \in Seq(Bars) /\ DOMAIN <<>> = {} /\ Len(<<>>) = 0
  BY LenProperties
<1>2. NoBars \in [Feeds -> Seq(Bars)] /\ \A s \in Feeds : NoBars[s] = <<>>
  BY <1>1 DEF NoBars
<1>3. \A s \in Feeds : IsPrefix(<<>>, feed[s])
  <2>1. Len(<<>>) <= Len(<<>>) /\ \A i \in 1 .. Len(<<>>) : <<>>[i] = <<>>[i]
    BY <1>1
  <2> QED
    BY <1>1, <1>2, <2>1, BeginningOfTape
<1>4. TypeOK
  <2>1. NoReturns \in [Horizons -> 0 .. today] /\ NoRow = [fwd |-> NoReturns, bench |-> NoReturns]
    BY DEF NoReturns, NoRow
  <2>2. rows \in [Mentions -> [fwd : [Horizons -> 0 .. today], bench : [Horizons -> 0 .. today]]]
    BY <2>1
  <2> QED
    BY <1>1, <1>2, <2>2, BoundsAssumption
    DEF TypeOK, Ascending, NoCall, NoEvidence, Resting
<1>5. WorkIsInOrder
  BY <1>2, <1>3 DEF WorkIsInOrder, Resting
<1>6. RunIsNotBehind
  BY DEF RunIsNotBehind, Resting
<1>7. ResultsFitTheFeed
  BY DEF ResultsFitTheFeed, Given, NoRow, NoReturns, Closed
<1> QED
  BY <1>4, <1>5, <1>6, <1>7 DEF Core

-----------------------------------------------------------------------------
(* The steps                                                               *)

\* A day more.
LEMMA DayKeeps == Core /\ NextDay => Core'
<1> SUFFICES ASSUME Core, NextDay
             PROVE  Core'
  OBVIOUS
<1> USE DEF NextDay
<1>1. TypeOK'
  <2>1. today \in 1 .. MaxDay /\ today' \in 1 .. MaxDay /\ today < today'
    BY BoundsAssumption DEF Core, TypeOK
  <2>2. \A s \in Feeds : \A i \in DOMAIN feed[s] : feed[s][i].day <= today'
    <3> SUFFICES ASSUME NEW s \in Feeds, NEW i \in DOMAIN feed[s]
                 PROVE  feed[s][i].day <= today'
      OBVIOUS
    <3>1. feed[s][i].day \in Nat /\ feed[s][i].day <= today
      BY TapesOfRun, BarsOfTape
    <3> QED
      BY <2>1, <3>1, BoundsAssumption
  <2>3. \A x \in 0 .. today : x \in 0 .. today'
    BY <2>1, BoundsAssumption
  <2>4. posted \in [Mentions -> 0 .. today']
    BY <2>3 DEF Core, TypeOK
  <2>5. rows \in [Mentions -> [fwd : [Horizons -> 0 .. today'],
                               bench : [Horizons -> 0 .. today']]]
    <3>1. \A f \in [Horizons -> 0 .. today] : f \in [Horizons -> 0 .. today']
      BY <2>3
    <3> QED
      BY <3>1 DEF Core, TypeOK
  <2>6. grades \in [Mentions -> [status : {"none", "open", "stop", "target", "timeout"},
                                 day : 0 .. today']]
    BY <2>3 DEF Core, TypeOK
  <2> QED
    BY <2>1, <2>2, <2>4, <2>5, <2>6 DEF Core, TypeOK
<1>2. WorkIsInOrder'
  BY DEF Core, WorkIsInOrder
<1>3. RunIsNotBehind'
  BY DEF Core, RunIsNotBehind
<1>4. ResultsFitTheFeed'
  BY DEF Core, ResultsFitTheFeed, Closed
<1> QED
  BY <1>1, <1>2, <1>3, <1>4 DEF Core

\* A tape grows by a later bar.
LEMMA TapeGrows ==
  ASSUME NEW tape \in Seq(Bars), Ascending(tape), NEW bar \in Bars, bar.day > LastDay(tape)
  PROVE  Append(tape, bar) \in Seq(Bars) /\ Ascending(Append(tape, bar))
<1> DEFINE longer == Append(tape, bar)
<1>1. /\ longer \in Seq(Bars) /\ Len(longer) = Len(tape) + 1
      /\ \A i \in 1 .. Len(tape) : longer[i] = tape[i]
      /\ longer[Len(tape) + 1] = bar
  BY AppendProperties
<1>2. /\ Len(tape) \in Nat /\ DOMAIN tape = 1 .. Len(tape)
      /\ DOMAIN longer = 1 .. Len(tape) + 1
      /\ \A x \in 1 .. Len(tape) : tape[x].day \in Nat
      /\ tape = <<>> <=> Len(tape) = 0
  BY <1>1, BarsOfTape, LenProperties
<1> HIDE DEF longer
<1>3. \A x \in 1 .. Len(tape) : tape[x].day <= LastDay(tape)
  BY LatestBar
<1>4. ASSUME NEW i \in DOMAIN longer, NEW j \in DOMAIN longer, i < j
      PROVE  longer[i].day < longer[j].day
  <2>1. i \in 1 .. Len(tape) /\ longer[i] = tape[i]
    BY <1>1, <1>2, <1>4
  <2>2. CASE j \in 1 .. Len(tape)
    BY <1>1, <1>2, <1>4, <2>1, <2>2 DEF Ascending
  <2>3. CASE j = Len(tape) + 1
    <3>1. tape[i].day <= LastDay(tape) /\ LastDay(tape) \in Nat /\ bar.day \in Nat
      <4>1. LastDay(tape) = tape[Len(tape)].day /\ Len(tape) \in 1 .. Len(tape)
        BY <1>2, <2>1 DEF LastDay, Last
      <4> QED
        BY <1>2, <1>3, <2>1, <4>1, BoundsAssumption DEF Bars
    <3> QED
      BY <1>1, <1>2, <2>1, <2>3, <3>1
  <2> QED
    BY <1>2, <2>2, <2>3
<1>5. Ascending(longer)
  BY <1>4 DEF Ascending
<1> QED
  BY <1>1, <1>5 DEF longer

\* A close is published: what was given before is given still.
LEMMA PublishKeeps == ASSUME Core, NEW s \in Feeds, Publish(s) PROVE Core'
<1> USE DEF Publish
<1>1. PICK bar \in Bars :
        /\ feed' = [feed EXCEPT ![s] = Append(feed[s], bar)]
        /\ bar.day > LastDay(feed[s]) /\ bar.day <= today
  <2>1. PICK d \in LastDay(feed[s]) + 1 .. today,
             t \in (IF s = Bench THEN {{}} ELSE Touches) :
          feed' = [feed EXCEPT ![s] = Append(feed[s], [day |-> d, touch |-> t])]
    OBVIOUS
  <2>2. LastDay(feed[s]) \in Nat
    <3>1. feed[s] \in Seq(Bars)
      BY TapesOfRun
    <3> QED
      BY <3>1, BarsOfTape DEF LastDay, Last
  <2>3. d \in 1 .. MaxDay /\ d > LastDay(feed[s]) /\ d <= today
    BY <2>2, BoundsAssumption DEF Core, TypeOK
  <2>4. t \in SUBSET {"stop", "target"}
    BY BoundsAssumption
  <2>5. [day |-> d, touch |-> t] \in Bars
    BY <2>3, <2>4 DEF Bars
  <2> QED
    BY <2>1, <2>3, <2>5
<1>2. /\ feed \in [Feeds -> Seq(Bars)] /\ feed[s] \in Seq(Bars) /\ Ascending(feed[s])
      /\ today \in 1 .. MaxDay
  BY TapesOfRun DEF Core, TypeOK
<1> DEFINE longer == Append(feed[s], bar)
<1>3. longer \in Seq(Bars) /\ Ascending(longer)
  BY <1>1, <1>2, TapeGrows
<1>4. /\ feed' \in [Feeds -> Seq(Bars)] /\ feed'[s] = longer
      /\ \A u \in Feeds \ {s} : feed'[u] = feed[u]
  <2> HIDE DEF longer
  <2> QED
    BY <1>1, <1>2, <1>3 DEF longer
<1>5. \A u \in Feeds : \A tape \in Seq(Bars) :
        IsPrefix(tape, feed[u]) => IsPrefix(tape, feed'[u])
  BY <1>2, <1>4, BeginningStays
<1>6. \A u \in Feeds : IsPrefix(feed[u], feed'[u]) /\ feed[u] \in Seq(Bars) /\ feed'[u] \in Seq(Bars)
  BY <1>1, <1>2, <1>4, <1>5, BeginningStays
<1>7. TypeOK'
  <2>1. ASSUME NEW i \in DOMAIN longer
        PROVE  longer[i].day <= today
    <3>1. /\ DOMAIN longer = 1 .. Len(feed[s]) + 1 /\ Len(feed[s]) \in Nat
          /\ DOMAIN feed[s] = 1 .. Len(feed[s])
          /\ \A k \in 1 .. Len(feed[s]) : longer[k] = feed[s][k]
          /\ longer[Len(feed[s]) + 1] = bar
      BY <1>2, AppendProperties, LenProperties
    <3>2. \A k \in DOMAIN feed[s] : feed[s][k].day <= today
      BY DEF Core, TypeOK
    <3>3. i \in 1 .. Len(feed[s]) \/ i = Len(feed[s]) + 1
      BY <2>1, <3>1
    <3> HIDE DEF longer
    <3> QED
      BY <1>1, <3>1, <3>2, <3>3
  <2>2. \A u \in Feeds : /\ Ascending(feed'[u])
                         /\ \A i \in DOMAIN feed'[u] : feed'[u][i].day <= today
    <3> HIDE DEF longer
    <3>1. \A u \in Feeds : Ascending(feed[u]) /\ \A i \in DOMAIN feed[u] : feed[u][i].day <= today
      BY DEF Core, TypeOK
    <3> QED
      BY <1>3, <1>4, <2>1, <3>1
  <2> QED
    BY <1>4, <2>2 DEF Core, TypeOK
<1>8. WorkIsInOrder'
  <2>1. \A u \in Feeds : IsPrefix(run.got[u], feed'[u]) /\ IsPrefix(cached[u], feed'[u])
    BY <1>5, TapesOfRun
  <2> QED
    BY <2>1 DEF Core, WorkIsInOrder
<1>9. RunIsNotBehind'
  BY DEF Core, RunIsNotBehind
<1>10. ResultsFitTheFeed'
  <2>1. \A m \in Mentions : posted[m] \in Nat
    BY BoundsAssumption DEF Core, TypeOK
  <2>2. ASSUME NEW m \in Mentions, NEW h \in Horizons
        PROVE  /\ Given(feed'[SymbolOf[m]], posted[m], h, rows[m].fwd[h])
               /\ Given(feed'[Bench], posted[m], h, rows[m].bench[h])
    <3>1. /\ Given(feed[SymbolOf[m]], posted[m], h, rows[m].fwd[h])
          /\ Given(feed[Bench], posted[m], h, rows[m].bench[h])
      BY DEF Core, ResultsFitTheFeed
    <3> QED
      BY <1>6, <2>1, <3>1, FeedsOfMention, ReturnStays
  <2>3. ASSUME NEW c \in Mentions, Closed(c)
        PROVE  grades[c] = Graded(feed'[SymbolOf[c]], posted[c])
    <3>1. grades[c] = Graded(feed[SymbolOf[c]], posted[c]) /\ grades[c] # Open
      BY <2>3 DEF Core, ResultsFitTheFeed, Closed
    <3> QED
      BY <1>6, <2>1, <3>1, FeedsOfMention, GradeStays
  <2> QED
    BY <2>2, <2>3 DEF ResultsFitTheFeed, Closed
<1> QED
  BY <1>7, <1>8, <1>9, <1>10 DEF Core

\* A post is stored: it had no rows and no grade.
LEMMA StoreKeeps == ASSUME Core, NEW m \in Mentions, Store(m) PROVE Core'
<1> USE DEF Store
<1>1. /\ posted[m] = 0 /\ rows[m] = NoRow /\ grades[m] = NoCall
      /\ posted \in [Mentions -> 0 .. today] /\ today \in Nat /\ today # 0
      /\ posted' = [posted EXCEPT ![m] = today]
  BY BoundsAssumption DEF Core, TypeOK, WorkIsInOrder
<1>2. posted' \in [Mentions -> 0 .. today] /\ posted'[m] = today
      /\ \A n \in Mentions \ {m} : posted'[n] = posted[n]
  BY <1>1
<1>3. TypeOK'
  BY <1>2 DEF Core, TypeOK
<1>4. WorkIsInOrder'
  BY <1>1, <1>2 DEF Core, WorkIsInOrder, TypeOK
<1>5. RunIsNotBehind'
  BY DEF Core, RunIsNotBehind
<1>6. ResultsFitTheFeed'
  <2>1. ASSUME NEW n \in Mentions, NEW h \in Horizons
        PROVE  /\ Given(feed[SymbolOf[n]], posted'[n], h, rows[n].fwd[h])
               /\ Given(feed[Bench], posted'[n], h, rows[n].bench[h])
    <3>1. CASE n = m
      BY <1>1, <3>1 DEF Given, NoRow, NoReturns
    <3>2. CASE n # m
      BY <1>2, <3>2 DEF Core, ResultsFitTheFeed
    <3> QED
      BY <3>1, <3>2
  <2>2. ASSUME NEW c \in Mentions, Closed(c)
        PROVE  grades[c] = Graded(feed[SymbolOf[c]], posted'[c])
    <3>1. c # m
      BY <1>1, <2>2 DEF Closed
    <3> QED
      BY <1>2, <2>2, <3>1 DEF Core, ResultsFitTheFeed
  <2> QED
    BY <2>1, <2>2 DEF ResultsFitTheFeed, Closed
<1> QED
  BY <1>3, <1>4, <1>5, <1>6 DEF Core

\* A call is found in a post.
LEMMA SaveCallKeeps == ASSUME Core, NEW m \in Mentions, SaveCall(m) PROVE Core'
<1> USE DEF SaveCall
<1>1. /\ grades \in [Mentions -> [status : {"none", "open", "stop", "target", "timeout"},
                                  day : 0 .. today]]
      /\ grades' = [grades EXCEPT ![m] = Open] /\ today \in Nat
      /\ run.open = {} /\ run.pend = {}
  BY BoundsAssumption DEF Core, TypeOK, Resting
<1>2. Open \in [status : {"none", "open", "stop", "target", "timeout"}, day : 0 .. today]
  BY <1>1 DEF Open
<1>3. /\ grades' \in [Mentions -> [status : {"none", "open", "stop", "target", "timeout"},
                                   day : 0 .. today]]
      /\ grades'[m] = Open /\ \A n \in Mentions \ {m} : grades'[n] = grades[n]
  BY <1>1, <1>2
<1>4. TypeOK'
  BY <1>3 DEF Core, TypeOK
<1>5. WorkIsInOrder'
  BY <1>1, <1>3 DEF Core, WorkIsInOrder
<1>6. RunIsNotBehind'
  BY DEF Core, RunIsNotBehind
<1>7. ResultsFitTheFeed'
  BY <1>3 DEF Core, ResultsFitTheFeed, Closed
<1> QED
  BY <1>4, <1>5, <1>6, <1>7 DEF Core

\* A run starts, goes on to its next part, ends, or is lost.
RunMovesOn ==
  \/ StartRun \/ Fetched \/ RowsDone \/ CallsDone \/ EndRun \/ Abandon

\* The states a run may be in.
Runs ==
  [pc : {"idle", "fetch", "rows", "calls", "scores"}, pend : SUBSET Mentions,
   todo : SUBSET Feeds, got : [Feeds -> Seq(Bars)], open : SUBSET Mentions,
   score : SUBSET Authors]

\* What it has fetched by then stays, or it has nothing; and it is left with no more
\* mentions to write rows of, unless it has fetched nothing yet.
RunMoved ==
  /\ run' \in Runs
  /\ \/ run'.got = run.got /\ run'.pend \subseteq run.pend
     \/ run'.got = NoBars /\ \A m \in run'.pend : posted[m] # 0
  /\ \A c \in run'.open : grades[c] = Open
  /\ faults' \in 0 .. MaxFaults
  /\ UNCHANGED <<today, feed, posted, rows, grades, scores, cached>>

\* Every one of these steps is such a move.
LEMMA RunMoves == ASSUME Core, RunMovesOn PROVE RunMoved
<1>1. /\ run.pc \in {"idle", "fetch", "rows", "calls", "scores"}
      /\ run.pend \subseteq Mentions /\ run.todo \subseteq Feeds
      /\ run.got \in [Feeds -> Seq(Bars)] /\ run.open \subseteq Mentions
      /\ run.score \subseteq Authors
      /\ run = [pc |-> run.pc, pend |-> run.pend, todo |-> run.todo, got |-> run.got,
                open |-> run.open, score |-> run.score]
      /\ faults \in 0 .. MaxFaults /\ \A c \in run.open : grades[c] = Open
  BY DEF Core, TypeOK, WorkIsInOrder
<1>2. NoBars \in [Feeds -> Seq(Bars)]
  BY LenProperties DEF NoBars
<1> DEFINE open == {c \in Mentions : grades[c] = Open}
<1>3. open \subseteq Mentions /\ \A c \in open : grades[c] = Open
  OBVIOUS
<1>4. CASE StartRun
  <2> DEFINE pend == {m \in Mentions : NeedsOutcome(m)}
             todo == {Bench} \cup {SymbolOf[m] : m \in pend}
  <2>1. pend \subseteq Mentions /\ (\A m \in pend : posted[m] # 0) /\ todo \subseteq Feeds
    BY FeedsOfMention DEF NeedsOutcome
  <2>2. run' = [pc |-> "fetch", pend |-> pend, todo |-> todo, got |-> NoBars,
                open |-> {}, score |-> {}]
    BY <1>4 DEF StartRun, Resting
  <2> HIDE DEF pend, todo
  <2> QED
    <3>1. run' \in Runs
      BY <1>2, <2>1, <2>2 DEF Runs
    <3>2. UNCHANGED <<today, feed, posted, rows, grades, scores, cached, faults>>
      BY <1>4 DEF StartRun
    <3> QED
      BY <1>1, <2>1, <2>2, <3>1, <3>2 DEF RunMoved
<1>5. CASE Fetched
  <2>1. CASE run.got[Bench] = <<>>
    <3>1. run' = [pc |-> "calls", pend |-> {}, todo |-> run.todo, got |-> run.got,
                  open |-> open, score |-> run.score]
      BY <1>1, <1>5, <2>1 DEF Fetched
    <3> HIDE DEF open
    <3>2. run' \in Runs
      BY <1>1, <1>3, <3>1 DEF Runs
    <3> QED
      BY <1>1, <1>3, <1>5, <3>1, <3>2 DEF Fetched, RunMoved
  <2>2. CASE run.got[Bench] # <<>>
    <3>1. run' = [pc |-> "rows", pend |-> run.pend, todo |-> run.todo, got |-> run.got,
                  open |-> run.open, score |-> run.score]
      BY <1>1, <1>5, <2>2 DEF Fetched
    <3>2. run' \in Runs
      BY <1>1, <3>1 DEF Runs
    <3> QED
      BY <1>1, <1>5, <3>1, <3>2 DEF Fetched, RunMoved
  <2> QED
    BY <2>1, <2>2
<1>6. CASE RowsDone
  <2>1. run' = [pc |-> "calls", pend |-> run.pend, todo |-> run.todo, got |-> run.got,
                open |-> open, score |-> run.score]
    BY <1>1, <1>6 DEF RowsDone
  <2> HIDE DEF open
  <2>2. run' \in Runs
    BY <1>1, <1>3, <2>1 DEF Runs
  <2>3. UNCHANGED <<today, feed, posted, rows, grades, scores, cached, faults>>
    BY <1>6 DEF RowsDone
  <2> QED
    BY <1>1, <1>3, <2>1, <2>2, <2>3 DEF RunMoved
<1>7. CASE CallsDone
  <2>1. run' = [pc |-> "scores", pend |-> run.pend, todo |-> run.todo, got |-> run.got,
                open |-> run.open, score |-> Authors]
    BY <1>1, <1>7 DEF CallsDone
  <2>2. run' \in Runs
    BY <1>1, <2>1 DEF Runs
  <2> QED
    BY <1>1, <1>7, <2>1, <2>2 DEF CallsDone, RunMoved
<1>8. CASE EndRun
  BY <1>1, <1>2, <1>8 DEF EndRun, Resting, RunMoved, Runs
<1>9. CASE Abandon
  BY <1>1, <1>2, <1>9, BoundsAssumption DEF Abandon, Resting, RunMoved, Runs
<1> QED
  BY <1>4, <1>5, <1>6, <1>7, <1>8, <1>9 DEF RunMovesOn

\* The provider has published at least nothing.
LEMMA NothingIsABeginning == ASSUME Core, NEW s \in Feeds PROVE IsPrefix(<<>>, feed[s])
<1>1. feed[s] \in Seq(Bars) /\ <<>> \in Seq(Bars) /\ Len(<<>>) = 0
  BY TapesOfRun, LenProperties
<1>2. Len(<<>>) <= Len(feed[s])
  BY <1>1, LenProperties
<1>3. \A i \in 1 .. Len(<<>>) : <<>>[i] = feed[s][i]
  BY <1>1
<1> QED
  BY <1>1, <1>2, <1>3, BeginningOfTape

\* None of it changes what is given.
LEMMA RunMovesKeeps == ASSUME Core, RunMovesOn PROVE Core'
<1>1. RunMoved
  BY RunMoves
<1>2. TypeOK'
  BY <1>1 DEF Core, TypeOK, RunMoved, Runs
<1>3. WorkIsInOrder'
  <2>1. \A s \in Feeds : IsPrefix(run.got[s], feed[s]) /\ IsPrefix(<<>>, feed[s])
    BY TapesOfRun, NothingIsABeginning
  <2>2. \A s \in Feeds : IsPrefix(run'.got[s], feed[s])
    BY <1>1, <2>1 DEF RunMoved, NoBars
  <2>3. \A m \in run'.pend : posted[m] # 0
    BY <1>1 DEF Core, WorkIsInOrder, RunMoved
  <2> QED
    BY <1>1, <2>2, <2>3 DEF Core, WorkIsInOrder, RunMoved
<1>4. RunIsNotBehind'
  <2>1. CASE run'.got = run.got /\ run'.pend \subseteq run.pend
    BY <1>1, <2>1 DEF Core, RunIsNotBehind, RunMoved
  <2>2. CASE run'.got = NoBars
    <3>1. \A s \in Feeds : run'.got[s] = <<>>
      BY <2>2 DEF NoBars
    <3>2. run'.pend \subseteq Mentions
      BY <1>1 DEF RunMoved, Runs
    <3> QED
      BY <3>1, <3>2, FeedsOfMention DEF RunIsNotBehind
  <2> QED
    BY <1>1, <2>1, <2>2 DEF RunMoved
<1>5. ResultsFitTheFeed'
  BY <1>1 DEF Core, ResultsFitTheFeed, Closed, RunMoved
<1> QED
  BY <1>2, <1>3, <1>4, <1>5 DEF Core

\* A feed is fetched, as far as it goes by now, or nothing of it comes; its bars are
\* saved or not.
Fetches(s) ==
  /\ \E tape \in {<<>>, feed[s]} :
       run' = [run EXCEPT !.todo = @ \ {s}, !.got[s] = tape]
  /\ cached' \in {cached, [cached EXCEPT ![s] = feed[s]]}
  /\ faults' \in 0 .. MaxFaults
  /\ UNCHANGED <<today, feed, posted, rows, grades, scores>>

\* It is what a fetch does, and one that fails.
LEMMA FetchIs == ASSUME Core, NEW s \in Feeds, Fetch(s) \/ FetchFails(s) PROVE Fetches(s)
<1>1. faults \in 0 .. MaxFaults /\ MaxFaults \in Nat
  BY BoundsAssumption DEF Core, TypeOK
<1> QED
  BY <1>1 DEF Fetch, FetchFails, Fetches

\* A fetched tape reaches as far as any return that was written.
LEMMA FetchKeeps == ASSUME Core, NEW s \in Feeds, Fetch(s) \/ FetchFails(s) PROVE Core'
<1>1. Fetches(s)
  BY FetchIs
<1>2. PICK tape \in {<<>>, feed[s]} : run' = [run EXCEPT !.todo = @ \ {s}, !.got[s] = tape]
  BY <1>1 DEF Fetches
<1>3. feed[s] \in Seq(Bars) /\ <<>> \in Seq(Bars)
  BY TapesOfRun, LenProperties
<1>4. tape \in Seq(Bars) /\ IsPrefix(tape, feed[s]) /\ IsPrefix(feed[s], feed[s])
  <2>1. Len(feed[s]) \in Nat
    BY <1>3, LenProperties
  <2>2. IsPrefix(feed[s], feed[s])
    BY <1>3, <2>1, BeginningOfTape
  <2> QED
    BY <1>2, <1>3, <2>2, NothingIsABeginning
<1>5. /\ run.got \in [Feeds -> Seq(Bars)] /\ cached \in [Feeds -> Seq(Bars)]
      /\ run.pend \subseteq Mentions /\ run.todo \subseteq Feeds /\ run \in Runs
  BY DEF Core, TypeOK, Runs
<1> DEFINE got == [run.got EXCEPT ![s] = tape]
<1>6. /\ got \in [Feeds -> Seq(Bars)] /\ got[s] = tape
      /\ \A r \in Feeds \ {s} : got[r] = run.got[r]
  BY <1>4, <1>5
<1>7. run' = [run EXCEPT !.todo = @ \ {s}, !.got = got]
  BY <1>2, <1>5 DEF Runs
<1> HIDE DEF got
<1>8. /\ run'.pc = run.pc /\ run'.pend = run.pend /\ run'.todo = run.todo \ {s}
      /\ run'.got = got /\ run'.open = run.open /\ run'.score = run.score /\ run' \in Runs
  BY <1>5, <1>6, <1>7 DEF Runs
<1>9. /\ cached' \in [Feeds -> Seq(Bars)] /\ cached'[s] \in {cached[s], feed[s]}
      /\ \A r \in Feeds \ {s} : cached'[r] = cached[r]
  BY <1>1, <1>3, <1>5 DEF Fetches
<1>10. UNCHANGED <<today, feed, posted, rows, grades, scores>> /\ faults' \in 0 .. MaxFaults
  BY <1>1 DEF Fetches
<1>11. TypeOK'
  BY <1>8, <1>9, <1>10 DEF Core, TypeOK, Runs
<1>12. WorkIsInOrder'
  <2>1. \A r \in Feeds : IsPrefix(got[r], feed[r]) /\ IsPrefix(cached'[r], feed[r])
    BY <1>4, <1>6, <1>9, TapesOfRun
  <2> QED
    BY <1>8, <1>10, <2>1 DEF Core, WorkIsInOrder
<1>13. RunIsNotBehind'
  <2>1. tape = <<>> \/ tape = feed[s]
    BY <1>2
  <2>2. ASSUME NEW m \in run.pend, NEW h \in Horizons
        PROVE  /\ rows[m].fwd[h] <= LastDay(got[SymbolOf[m]]) \/ got[SymbolOf[m]] = <<>>
               /\ rows[m].bench[h] <= LastDay(got[Bench]) \/ got[Bench] = <<>>
    <3>1. m \in Mentions /\ posted[m] \in Nat /\ SymbolOf[m] \in Feeds /\ Bench \in Feeds
      BY <1>5, FeedsOfMention, BoundsAssumption DEF Core, TypeOK
    <3>2. /\ Given(feed[SymbolOf[m]], posted[m], h, rows[m].fwd[h])
          /\ Given(feed[Bench], posted[m], h, rows[m].bench[h])
      BY <3>1 DEF Core, ResultsFitTheFeed
    <3>3. /\ feed[SymbolOf[m]] \in Seq(Bars) /\ Ascending(feed[SymbolOf[m]])
          /\ feed[Bench] \in Seq(Bars) /\ Ascending(feed[Bench])
      BY <3>1, TapesOfRun
    <3>4. /\ rows[m].fwd[h] <= LastDay(feed[SymbolOf[m]])
          /\ rows[m].bench[h] <= LastDay(feed[Bench])
      BY <3>1, <3>2, <3>3, ReturnIsOnTape
    <3>5. /\ rows[m].fwd[h] <= LastDay(run.got[SymbolOf[m]]) \/ run.got[SymbolOf[m]] = <<>>
          /\ rows[m].bench[h] <= LastDay(run.got[Bench]) \/ run.got[Bench] = <<>>
      BY DEF Core, RunIsNotBehind
    <3> QED
      BY <1>6, <2>1, <3>1, <3>4, <3>5
  <2> QED
    BY <1>8, <1>10, <2>2 DEF RunIsNotBehind
<1>14. ResultsFitTheFeed'
  BY <1>10 DEF Core, ResultsFitTheFeed, Closed
<1> QED
  BY <1>11, <1>12, <1>13, <1>14 DEF Core

\* What a run makes of the returns of a mention from the tape it fetched: they are
\* those the feed gives, and those already in the row again.
LEMMA ReturnsOfRun ==
  ASSUME Core, NEW m \in Mentions, NEW s \in Feeds, NEW h \in Horizons,
         NEW return, Given(feed[s], posted[m], h, return),
         AnchorIndex(run.got[s], posted[m]) # 0,
         return <= LastDay(run.got[s]) \/ run.got[s] = <<>>
  PROVE  LET new == ForwardReturns(run.got[s], posted[m])[h] IN
         /\ Given(feed[s], posted[m], h, new)
         /\ return # 0 => new = return
<1> DEFINE tape == run.got[s]
           new == ForwardReturns(tape, posted[m])[h]
<1>1. posted[m] \in Nat
  BY BoundsAssumption DEF Core, TypeOK
<1>2. /\ tape \in Seq(Bars) /\ feed[s] \in Seq(Bars) /\ IsPrefix(tape, feed[s])
      /\ Ascending(feed[s])
  BY TapesOfRun
<1>3. Given(tape, posted[m], h, new)
  BY DEF Given
<1>4. return <= LastDay(tape)
  <2>1. FirstSince(tape, posted[m], AnchorIndex(tape, posted[m]))
    BY <1>1, <1>2, AnchorOfTape
  <2>2. Len(tape) # 0 /\ (tape = <<>> => Len(tape) = 0)
    BY <1>2, <2>1, BarsOfTape DEF FirstSince
  <2> QED
    BY <2>2
<1>5. AnchorIndex(tape, posted[m]) # 0
  OBVIOUS
<1> HIDE DEF tape
<1>6. Given(feed[s], posted[m], h, new)
  <2> HIDE DEF new
  <2> QED
    BY <1>1, <1>2, <1>3, ReturnStays
<1>7. return # 0 => new = return
  BY <1>1, <1>2, <1>4, <1>5, ReturnIsKept
<1> QED
  BY <1>6, <1>7 DEF tape

\* The row after an upsert.
LEMMA RowOfUpsert ==
  ASSUME Core, NEW m \in Mentions, Upsert(m)
  PROVE  /\ rows' \in [Mentions -> [fwd : [Horizons -> 0 .. today],
                                    bench : [Horizons -> 0 .. today]]]
         /\ \A n \in Mentions \ {m} : rows'[n] = rows[n]
         /\ \A h \in Horizons :
              /\ Given(feed[SymbolOf[m]], posted[m], h, rows'[m].fwd[h])
              /\ Given(feed[Bench], posted[m], h, rows'[m].bench[h])
              /\ rows[m].fwd[h] # 0 => rows'[m].fwd[h] = rows[m].fwd[h]
              /\ rows[m].bench[h] # 0 => rows'[m].bench[h] = rows[m].bench[h]
<1> DEFINE Rows == [fwd : [Horizons -> 0 .. today], bench : [Horizons -> 0 .. today]]
           tape == run.got[SymbolOf[m]]
           bench == run.got[Bench]
<1>1. rows \in [Mentions -> Rows] /\ posted[m] \in Nat /\ m \in run.pend
  BY BoundsAssumption DEF Core, TypeOK, Upsert
<1>2. \A h \in Horizons :
        /\ Given(feed[SymbolOf[m]], posted[m], h, rows[m].fwd[h])
        /\ Given(feed[Bench], posted[m], h, rows[m].bench[h])
  BY DEF Core, ResultsFitTheFeed
<1>3. CASE AnchorIndex(tape, posted[m]) = 0
  <2>1. rows' = rows
    BY <1>3 DEF Upsert
  <2> QED
    BY <1>1, <1>2, <2>1
<1>4. CASE AnchorIndex(tape, posted[m]) # 0
  <2>1. rows' = [rows EXCEPT ![m] = Upserted(m)]
    BY <1>4 DEF Upsert
  <2>2. /\ Upserted(m).fwd = ForwardReturns(tape, posted[m])
        /\ Upserted(m).bench = IF AnchorIndex(bench, posted[m]) = 0 THEN rows[m].bench
                               ELSE ForwardReturns(bench, posted[m])
        /\ Upserted(m) = [fwd |-> Upserted(m).fwd, bench |-> Upserted(m).bench]
    BY DEF Upserted
  <2>3. \A s \in Feeds : ForwardReturns(run.got[s], posted[m]) \in [Horizons -> 0 .. today]
    BY <1>1, TapesOfRun, ResultTypes
  <2>4. rows[m].bench \in [Horizons -> 0 .. today]
    BY <1>1
  <2>5. Upserted(m) \in Rows
    <3>1. /\ Upserted(m).fwd \in [Horizons -> 0 .. today]
          /\ Upserted(m).bench \in [Horizons -> 0 .. today]
      BY <2>2, <2>3, <2>4, FeedsOfMention
    <3> QED
      BY <2>2, <3>1
  <2>6. ASSUME NEW h \in Horizons
        PROVE  /\ Given(feed[SymbolOf[m]], posted[m], h, Upserted(m).fwd[h])
               /\ rows[m].fwd[h] # 0 => Upserted(m).fwd[h] = rows[m].fwd[h]
    <3>1. rows[m].fwd[h] <= LastDay(tape) \/ tape = <<>>
      BY <1>1 DEF Core, RunIsNotBehind
    <3>2. PICK s \in Feeds : s = SymbolOf[m]
      BY FeedsOfMention
    <3>3. /\ Given(feed[s], posted[m], h, rows[m].fwd[h])
          /\ AnchorIndex(run.got[s], posted[m]) # 0
          /\ rows[m].fwd[h] <= LastDay(run.got[s]) \/ run.got[s] = <<>>
      BY <1>2, <1>4, <3>1, <3>2
    <3>4. LET new == ForwardReturns(run.got[s], posted[m])[h] IN
          Given(feed[s], posted[m], h, new) /\ (rows[m].fwd[h] # 0 => new = rows[m].fwd[h])
      BY <3>3, ReturnsOfRun
    <3> QED
      BY <2>2, <3>2, <3>4
  <2>7. ASSUME NEW h \in Horizons
        PROVE  /\ Given(feed[Bench], posted[m], h, Upserted(m).bench[h])
               /\ rows[m].bench[h] # 0 => Upserted(m).bench[h] = rows[m].bench[h]
    <3>1. rows[m].bench[h] <= LastDay(bench) \/ bench = <<>>
      BY <1>1 DEF Core, RunIsNotBehind
    <3>2. CASE AnchorIndex(bench, posted[m]) = 0
      BY <1>2, <2>2, <3>2
    <3>3. CASE AnchorIndex(bench, posted[m]) # 0
      BY <1>2, <2>2, <3>1, <3>3, FeedsOfMention, ReturnsOfRun
    <3> QED
      BY <3>2, <3>3
  <2> HIDE DEF Rows
  <2>8. rows' \in [Mentions -> Rows] /\ rows'[m] = Upserted(m)
        /\ \A n \in Mentions \ {m} : rows'[n] = rows[n]
    BY <1>1, <2>1, <2>5
  <2> QED
    BY <2>6, <2>7, <2>8 DEF Rows
<1> QED
  BY <1>3, <1>4

\* A row is written, or there is nothing to write.
LEMMA UpsertKeeps == ASSUME Core, NEW m \in Mentions, Upsert(m) PROVE Core'
<1>1. /\ rows' \in [Mentions -> [fwd : [Horizons -> 0 .. today],
                                 bench : [Horizons -> 0 .. today]]]
      /\ \A n \in Mentions \ {m} : rows'[n] = rows[n]
      /\ \A h \in Horizons :
           /\ Given(feed[SymbolOf[m]], posted[m], h, rows'[m].fwd[h])
           /\ Given(feed[Bench], posted[m], h, rows'[m].bench[h])
  BY RowOfUpsert
<1>2. run \in Runs /\ run' = [run EXCEPT !.pend = @ \ {m}] /\ m \in run.pend
  BY DEF Core, TypeOK, Upsert, Runs
<1>3. /\ run' \in Runs /\ run'.pc = run.pc /\ run'.pend = run.pend \ {m}
      /\ run'.todo = run.todo /\ run'.got = run.got /\ run'.open = run.open
      /\ run'.score = run.score
  BY <1>2 DEF Runs
<1>4. UNCHANGED <<today, feed, posted, grades, scores, cached, faults>>
  BY DEF Upsert
<1>5. TypeOK'
  BY <1>1, <1>3, <1>4 DEF Core, TypeOK, Runs
<1>6. posted[m] # 0
  BY <1>2 DEF Core, WorkIsInOrder
<1>7. WorkIsInOrder'
  BY <1>1, <1>3, <1>4, <1>6 DEF Core, WorkIsInOrder
<1>8. RunIsNotBehind'
  <2>1. \A n \in run.pend \ {m} : rows'[n] = rows[n]
    BY <1>1, <1>2 DEF Runs
  <2> QED
    BY <1>3, <1>4, <2>1 DEF Core, RunIsNotBehind
<1>9. ResultsFitTheFeed'
  <2>1. \A n \in Mentions, h \in Horizons :
          /\ Given(feed[SymbolOf[n]], posted[n], h, rows'[n].fwd[h])
          /\ Given(feed[Bench], posted[n], h, rows'[n].bench[h])
    BY <1>1 DEF Core, ResultsFitTheFeed
  <2> QED
    BY <1>4, <2>1 DEF Core, ResultsFitTheFeed, Closed
<1> QED
  BY <1>5, <1>7, <1>8, <1>9 DEF Core

\* An open call is graded as the whole tape would grade it, or stays open.
LEMMA GradeOfCall ==
  ASSUME Core, NEW c \in Mentions, Grade(c)
  PROVE  /\ grades' \in [Mentions -> [status : {"none", "open", "stop", "target", "timeout"},
                                      day : 0 .. today]]
         /\ \A n \in Mentions \ {c} : grades'[n] = grades[n]
         /\ grades[c] = Open
         /\ grades'[c] = Open \/ grades'[c] = Graded(feed[SymbolOf[c]], posted[c])
<1> DEFINE G == [status : {"none", "open", "stop", "target", "timeout"}, day : 0 .. today]
           tape == BarsOf(SymbolOf[c])
           new == IF tape = <<>> THEN grades[c] ELSE Graded(tape, posted[c])
<1>1. grades \in [Mentions -> G] /\ posted[c] \in Nat /\ grades[c] = Open
  BY BoundsAssumption DEF Core, TypeOK, WorkIsInOrder, Grade
<1>2. /\ tape \in Seq(Bars) /\ feed[SymbolOf[c]] \in Seq(Bars)
      /\ IsPrefix(tape, feed[SymbolOf[c]])
      /\ today \in Nat /\ \A i \in 1 .. Len(tape) : tape[i].day <= today
  BY FeedsOfMention, TapesOfRun
<1>3. grades' = [grades EXCEPT ![c] = new]
  BY DEF Grade
<1>4. new \in G
  <2>1. Graded(tape, posted[c]) \in G
    <3> HIDE DEF tape
    <3> QED
      BY <1>1, <1>2, ResultTypes
  <2> QED
    BY <1>1, <2>1
<1>5. new = Open \/ new = Graded(feed[SymbolOf[c]], posted[c])
  <2>1. Graded(tape, posted[c]) # Open
          => Graded(feed[SymbolOf[c]], posted[c]) = Graded(tape, posted[c])
    <3> HIDE DEF tape
    <3> QED
      BY <1>1, <1>2, GradeStays
  <2> QED
    BY <1>1, <2>1
<1> HIDE DEF new, G
<1>6. /\ grades' \in [Mentions -> G] /\ grades'[c] = new
      /\ \A n \in Mentions \ {c} : grades'[n] = grades[n]
  BY <1>1, <1>3, <1>4
<1> QED
  BY <1>1, <1>5, <1>6 DEF G

\* One call after the other.
LEMMA GradeKeeps == ASSUME Core, NEW c \in Mentions, Grade(c) PROVE Core'
<1>1. /\ grades' \in [Mentions -> [status : {"none", "open", "stop", "target", "timeout"},
                                   day : 0 .. today]]
      /\ \A n \in Mentions \ {c} : grades'[n] = grades[n]
      /\ grades[c] = Open
      /\ grades'[c] = Open \/ grades'[c] = Graded(feed[SymbolOf[c]], posted[c])
  BY GradeOfCall
<1>2. run \in Runs /\ run' = [run EXCEPT !.open = @ \ {c}]
  BY DEF Core, TypeOK, Grade, Runs
<1>3. /\ run' \in Runs /\ run'.pc = run.pc /\ run'.pend = run.pend
      /\ run'.todo = run.todo /\ run'.got = run.got /\ run'.open = run.open \ {c}
      /\ run'.score = run.score
  BY <1>2 DEF Runs
<1>4. UNCHANGED <<today, feed, posted, rows, scores, cached, faults>>
  BY DEF Grade
<1>5. TypeOK'
  BY <1>1, <1>3, <1>4 DEF Core, TypeOK, Runs
<1>6. WorkIsInOrder'
  <2>1. posted[c] # 0
    BY <1>1 DEF Core, WorkIsInOrder, Open, NoCall
  <2>2. \A n \in run'.open : grades'[n] = Open
    BY <1>1, <1>2, <1>3 DEF Core, WorkIsInOrder, Runs
  <2> QED
    BY <1>1, <1>3, <1>4, <2>1, <2>2 DEF Core, WorkIsInOrder
<1>7. RunIsNotBehind'
  BY <1>3, <1>4 DEF Core, RunIsNotBehind
<1>8. ResultsFitTheFeed'
  BY <1>1, <1>4 DEF Core, ResultsFitTheFeed, Closed
<1> QED
  BY <1>5, <1>6, <1>7, <1>8 DEF Core

\* A row of credibility is written.
LEMMA ScoreKeeps == ASSUME Core, NEW a \in Authors, Score(a) PROVE Core'
<1> DEFINE Scores == [events : SUBSET Mentions, calls : SUBSET Mentions]
           new == IF Evidence(a) = NoEvidence THEN scores[a] ELSE Evidence(a)
<1>1. scores \in [Authors -> Scores] /\ run \in Runs
  BY DEF Core, TypeOK, Runs
<1>2. Evidence(a) \in Scores
  BY DEF Evidence
<1>3. scores' = [scores EXCEPT ![a] = new] /\ run' = [run EXCEPT !.score = @ \ {a}]
      /\ UNCHANGED <<today, feed, posted, rows, grades, cached, faults>>
  BY DEF Score
<1>4. new \in Scores
  BY <1>1, <1>2
<1> HIDE DEF new
<1>5. scores' \in [Authors -> Scores]
  <2> HIDE DEF Scores
  <2> QED
    BY <1>1, <1>3, <1>4
<1>6. /\ run' \in Runs /\ run'.pc = run.pc /\ run'.pend = run.pend
      /\ run'.todo = run.todo /\ run'.got = run.got /\ run'.open = run.open
      /\ run'.score = run.score \ {a}
  BY <1>1, <1>3 DEF Runs
<1>7. TypeOK'
  BY <1>3, <1>5, <1>6 DEF Core, TypeOK, Runs
<1>8. WorkIsInOrder'
  BY <1>3, <1>6 DEF Core, WorkIsInOrder
<1>9. RunIsNotBehind'
  BY <1>3, <1>6 DEF Core, RunIsNotBehind
<1>10. ResultsFitTheFeed'
  BY <1>3 DEF Core, ResultsFitTheFeed, Closed
<1> QED
  BY <1>7, <1>8, <1>9, <1>10 DEF Core

-----------------------------------------------------------------------------
(* The theorems                                                            *)

\* Every step keeps what the results rest on.
LEMMA NextCore == Core /\ [Next]_vars => Core'
<1> SUFFICES ASSUME Core, [Next]_vars
             PROVE  Core'
  OBVIOUS
<1>1. CASE Work
  <2>1. CASE StartRun \/ Fetched \/ RowsDone \/ CallsDone \/ EndRun
    BY <2>1, RunMovesKeeps DEF RunMovesOn
  <2>2. CASE \E s \in Feeds : Fetch(s)
    BY <2>2, FetchKeeps
  <2>3. CASE \E m \in Mentions : Upsert(m) \/ Grade(m)
    BY <2>3, UpsertKeeps, GradeKeeps
  <2>4. CASE \E a \in Authors : Score(a)
    BY <2>4, ScoreKeeps
  <2> QED
    BY <1>1, <2>1, <2>2, <2>3, <2>4 DEF Work
<1>2. CASE Abandon
  BY <1>2, RunMovesKeeps DEF RunMovesOn
<1>3. CASE NextDay
  BY <1>3, DayKeeps
<1>4. CASE \E s \in Feeds : Publish(s) \/ FetchFails(s)
  BY <1>4, PublishKeeps, FetchKeeps
<1>5. CASE \E m \in Mentions : Store(m) \/ SaveCall(m)
  BY <1>5, StoreKeeps, SaveCallKeeps
<1>6. CASE UNCHANGED vars
  <2>1. UNCHANGED <<today, feed, posted, rows, grades, scores, cached, run, faults>>
    BY <1>6 DEF vars
  <2>2. TypeOK'
    BY <2>1 DEF Core, TypeOK
  <2>3. WorkIsInOrder'
    BY <2>1 DEF Core, WorkIsInOrder
  <2>4. RunIsNotBehind'
    BY <2>1 DEF Core, RunIsNotBehind
  <2>5. ResultsFitTheFeed'
    BY <2>1 DEF Core, ResultsFitTheFeed, Closed
  <2> QED
    BY <2>2, <2>3, <2>4, <2>5 DEF Core
<1> QED
  BY <1>1, <1>2, <1>3, <1>4, <1>5, <1>6 DEF Next

\* Whatever had been published when a run wrote a return or a grade (upsert_outcome,
\* close_call), and however often it was written: it is the one the whole tape gives.
THEOREM ResultsAlwaysOfTheTape == Spec => []ResultsAreOfTheTape
<1>1. Spec => []Core
  BY InitCore, NextCore, PTL DEF Spec
<1>2. Core => ResultsAreOfTheTape
  BY FitIsOfTheTape DEF Core, ResultsAreOfTheTape
<1> QED
  BY <1>1, <1>2, PTL

\* A return once written is never changed or taken back by a later upsert, though it
\* writes all of them anew, and no run touches a call once graded.
THEOREM ResultsFinal == Spec => ResultsAreFinal
<1> DEFINE Final ==
      \A m \in Mentions :
        /\ \A h \in Horizons :
             /\ rows[m].fwd[h] # 0 => rows'[m].fwd[h] = rows[m].fwd[h]
             /\ rows[m].bench[h] # 0 => rows'[m].bench[h] = rows[m].bench[h]
        /\ grades[m] \notin {NoCall, Open} => grades'[m] = grades[m]
<1>1. Core /\ [Next]_vars => [Final]_vars
  <2> SUFFICES ASSUME Core, Next
               PROVE  Final
    OBVIOUS
  <2>1. CASE UNCHANGED <<rows, grades>>
    BY <2>1
  <2>2. ASSUME NEW m \in Mentions, Upsert(m)
        PROVE  Final
    <3>1. grades' = grades
      BY <2>2 DEF Upsert
    <3>2. /\ \A n \in Mentions \ {m} : rows'[n] = rows[n]
          /\ \A h \in Horizons :
               /\ rows[m].fwd[h] # 0 => rows'[m].fwd[h] = rows[m].fwd[h]
               /\ rows[m].bench[h] # 0 => rows'[m].bench[h] = rows[m].bench[h]
      BY <2>2, RowOfUpsert
    <3> QED
      BY <3>1, <3>2
  <2>3. ASSUME NEW c \in Mentions, Grade(c)
        PROVE  Final
    <3>1. rows' = rows
      BY <2>3 DEF Grade
    <3>2. grades[c] = Open /\ \A n \in Mentions \ {c} : grades'[n] = grades[n]
      BY <2>3, GradeOfCall
    <3> QED
      BY <3>1, <3>2
  <2>4. ASSUME NEW m \in Mentions, SaveCall(m)
        PROVE  Final
    <3>1. grades \in [Mentions -> [status : {"none", "open", "stop", "target", "timeout"},
                                   day : 0 .. today]]
      BY DEF Core, TypeOK
    <3>2. rows' = rows /\ grades[m] = NoCall /\ \A n \in Mentions \ {m} : grades'[n] = grades[n]
      BY <2>4, <3>1 DEF SaveCall
    <3> QED
      BY <3>2
  <2>5. ASSUME NEW s \in Feeds, Publish(s) \/ FetchFails(s) \/ Fetch(s)
        PROVE  UNCHANGED <<rows, grades>>
    BY <2>5 DEF Publish, FetchFails, Fetch
  <2>6. ASSUME NEW m \in Mentions, Store(m)
        PROVE  UNCHANGED <<rows, grades>>
    BY <2>6 DEF Store
  <2>7. ASSUME NEW a \in Authors, Score(a)
        PROVE  UNCHANGED <<rows, grades>>
    BY <2>7 DEF Score
  <2>8. ASSUME NextDay \/ Abandon \/ StartRun \/ Fetched \/ RowsDone \/ CallsDone \/ EndRun
        PROVE  UNCHANGED <<rows, grades>>
    BY <2>8 DEF NextDay, Abandon, StartRun, Fetched, RowsDone, CallsDone, EndRun
  <2> HIDE DEF Final
  <2> QED
    BY <2>1, <2>2, <2>3, <2>4, <2>5, <2>6, <2>7, <2>8 DEF Next, Work
<1>2. Spec => []Core
  BY InitCore, NextCore, PTL DEF Spec
<1>3. Spec => [][Final]_vars
  BY <1>1, <1>2, PTL DEF Spec
<1> QED
  BY <1>3 DEF ResultsAreFinal
-----------------------------------------------------------------------------
(***************************************************************************)
(* Proofs about Scorer, for any call, tape, split, dividend and terminal   *)
(* event.                                                                  *)
(*                                                                         *)
(* The result is a function of the window up to the bar where the loop     *)
(* stops.  What is later does not matter; what it says of this bar is one  *)
(* case for each rule; and a split changes neither the bar nor the rule.   *)
(***************************************************************************)
(* Numbers                                                                 *)

\* Of some whole numbers, one is the greatest.
LEMMA OneIsGreatest ==
  ASSUME NEW n \in Nat \ {0}, NEW f \in [1 .. n -> Int]
  PROVE  \E j \in 1 .. n : \A i \in 1 .. n : f[i] <= f[j]
<1> DEFINE Tops(m) == \E j \in 1 .. m : \A i \in 1 .. m : f[i] <= f[j]
           Bad == {m \in 1 .. n : ~Tops(m)}
<1> SUFFICES ASSUME ~Tops(n) PROVE FALSE
  OBVIOUS
<1>0. n \in Bad
  OBVIOUS
<1>1. PICK m \in Bad : \A k \in Bad : m <= k
  <2>1. Bad \subseteq Nat
    OBVIOUS
  <2> HIDE DEF Bad
  <2> QED
    BY <1>0, <2>1, LeastOf
<1>2. m \in 1 .. n /\ ~Tops(m)
  BY <1>1
<1>3. m # 1
  <2> SUFFICES ASSUME m = 1 PROVE Tops(m)
    BY <1>2
  <2>1. 1 .. m = {1} /\ f[1] \in Int
    BY <1>2
  <2> QED
    BY <2>1
<1>4. m - 1 \in 1 .. n /\ m - 1 \notin Bad
  <2>1. m - 1 \in 1 .. n /\ ~(m <= m - 1)
    BY <1>2, <1>3
  <2> QED
    BY <1>1, <2>1
<1>5. PICK j \in 1 .. m - 1 : \A i \in 1 .. m - 1 : f[i] <= f[j]
  BY <1>4
<1>6. \A i \in 1 .. m : i \in 1 .. n /\ f[i] \in Int /\ (i = m \/ i \in 1 .. m - 1)
  <2>1. m \in 1 .. n
    BY <1>2
  <2> HIDE DEF Tops, Bad
  <2>2. ASSUME NEW i \in 1 .. m
        PROVE  i \in 1 .. n /\ (i = m \/ i \in 1 .. m - 1)
    BY <2>1
  <2> QED
    BY <2>2
<1>7. j \in 1 .. m /\ m \in 1 .. m
  BY <1>2, <1>5
<1> HIDE DEF Bad
<1>8. CASE f[m] <= f[j]
  <2>1. \A i \in 1 .. m : f[i] <= f[j]
    BY <1>5, <1>6, <1>8
  <2> QED
    BY <1>2, <1>7, <2>1
<1>9. CASE ~(f[m] <= f[j])
  <2>1. ASSUME NEW i \in 1 .. m PROVE f[i] <= f[m]
    <3>1. f[i] \in Int /\ f[j] \in Int /\ f[m] \in Int /\ (i = m \/ f[i] <= f[j])
      BY <1>5, <1>6, <1>7
    <3> QED
      <4> HIDE DEF Tops, Bad
      <4> QED
        BY <1>9, <3>1
  <2> QED
    BY <1>2, <1>7, <2>1
<1> QED
  BY <1>8, <1>9

\* The greatest and the least of them.
LEMMA Extremes ==
  ASSUME NEW n \in Nat \ {0}, NEW f \in [1 .. n -> Int]
  PROVE  /\ Max({f[j] : j \in 1 .. n}) \in Int /\ Min({f[j] : j \in 1 .. n}) \in Int
         /\ \A i \in 1 .. n : /\ f[i] <= Max({f[j] : j \in 1 .. n})
                              /\ Min({f[j] : j \in 1 .. n}) <= f[i]
<1> DEFINE S == {f[i] : i \in 1 .. n}
<1>1. PICK j \in 1 .. n : \A i \in 1 .. n : f[i] <= f[j]
  BY OneIsGreatest
<1>2. PICK k \in 1 .. n : \A i \in 1 .. n : f[k] <= f[i]
  <2> DEFINE g == [i \in 1 .. n |-> 0 - f[i]]
  <2>1. g \in [1 .. n -> Int]
    OBVIOUS
  <2>2. PICK k \in 1 .. n : \A i \in 1 .. n : g[i] <= g[k]
    <3> HIDE DEF g
    <3> QED
      BY <2>1, OneIsGreatest
  <2>3. \A i \in 1 .. n : f[i] \in Int /\ g[i] = 0 - f[i]
    OBVIOUS
  <2>4. \A i \in 1 .. n : f[k] <= f[i]
    <3> HIDE DEF g
    <3> QED
      BY <2>2, <2>3
  <2> QED
    BY <2>4
<1>3. Max(S) \in S /\ \A y \in S : y <= Max(S)
  BY <1>1 DEF Max
<1>4. Min(S) \in S /\ \A y \in S : Min(S) <= y
  BY <1>2 DEF Min
<1> QED
  BY <1>3, <1>4
-----------------------------------------------------------------------------
(* One bar                                                                 *)

\* The prices of a bar lie between its worst and its best, as results too.
LEMMA PricesOf ==
  ASSUME NEW bar \in Quotes, Sound(bar), NEW s \in Nat, NEW k \in {1, 2}
  PROVE  /\ Scale(s, bar.ts) \in {1, 2}
         /\ R(k, bar.open) \in Int /\ R(k, bar.close) \in Int
         /\ R(k, WorstPrice(bar)) \in Int /\ R(k, BestPrice(bar)) \in Int
         /\ R(k, WorstPrice(bar)) <= R(k, bar.open) /\ R(k, bar.open) <= R(k, BestPrice(bar))
         /\ R(k, WorstPrice(bar)) <= R(k, bar.close) /\ R(k, bar.close) <= R(k, BestPrice(bar))
         /\ R(k, Halved(TerminalPrice, s, bar.ts)) \in Int
         /\ StopR \in Int /\ TargetR \in Int /\ StopR < TargetR
<1>1. /\ bar.open \in Int /\ bar.close \in Int /\ bar.low \in Int /\ bar.high \in Int
      /\ bar.ts \in Nat
  BY DEF Quotes
<1>2. Halved(TerminalPrice, s, bar.ts) \in Int
  BY EventsAssumption DEF Halved
<1>3. Entry \in Int /\ Risk \in Nat \ {0} /\ Reward \in Nat \ {0}
  BY CallAssumption
<1>4. Scale(s, bar.ts) \in {1, 2}
  BY DEF Scale
<1>5. CASE k = 1
  BY <1>1, <1>2, <1>3, <1>4, <1>5 DEF Sound, R, WorstPrice, BestPrice, StopR, TargetR
<1>6. CASE k = 2
  BY <1>1, <1>2, <1>3, <1>4, <1>6 DEF Sound, R, WorstPrice, BestPrice, StopR, TargetR
<1> QED
  BY <1>5, <1>6

\* They are numbers, with the split of the ledger.
LEMMA PriceTypes ==
  ASSUME NEW bar \in Quotes, Sound(bar), NEW s \in Nat
  PROVE  LET k == Scale(s, bar.ts) IN
         /\ R(k, WorstPrice(bar)) \in Int /\ R(k, BestPrice(bar)) \in Int
         /\ StopR \in Int /\ TargetR \in Int
<1>1. Scale(s, bar.ts) \in {1, 2}
  BY DEF Scale
<1> QED
  BY <1>1, PricesOf

\* The rule that closes a bar is the first that applies.
LEMMA RuleOf ==
  ASSUME NEW bar, NEW s
  PROVE  /\ ClosedBy(bar, s) \in 0 .. 7
         /\ ClosedBy(bar, s) # 0 => RulesOn(bar, s)[ClosedBy(bar, s)].if
         /\ \A j \in 1 .. 7 : ClosedBy(bar, s) = 0 \/ j < ClosedBy(bar, s)
                             => ~RulesOn(bar, s)[j].if
<1> DEFINE rules == RulesOn(bar, s)
           I == {i \in 1 .. 7 : rules[i].if}
<1>1. Len(rules) = 7
  BY DEF RulesOn, Rules
<1>2. ClosedBy(bar, s) = IF I # {} THEN Min(I) ELSE 0
  BY <1>1 DEF ClosedBy, SelectInSeq
<1> HIDE DEF rules
<1>3. CASE I = {}
  BY <1>2, <1>3 DEF rules
<1>4. CASE I # {}
  <2>1. I \subseteq Nat
    OBVIOUS
  <2>2. Min(I) \in I /\ \A y \in I : Min(I) <= y
    <3> HIDE DEF I
    <3> QED
      BY <1>4, <2>1, LeastOf
  <2>3. ASSUME NEW j \in 1 .. 7, j < Min(I)
        PROVE  ~rules[j].if
    <3>1. j \notin I
      <4>1. Min(I) \in Nat /\ j \in Nat
        BY <2>2
      <4> HIDE DEF I
      <4> QED
        BY <2>2, <2>3, <4>1
    <3> QED
      BY <3>1
  <2>4. ClosedBy(bar, s) = Min(I) /\ Min(I) \in 1 .. 7 /\ rules[Min(I)].if
    BY <1>2, <1>4, <2>2
  <2> HIDE DEF I
  <2> QED
    BY <2>3, <2>4 DEF rules
<1> QED
  BY <1>3, <1>4

\* What a bar says of a call: the verdict is at a price of the bar, conservative, and
\* there is none if and only if no level was touched.
LEMMA CloseIs ==
  ASSUME NEW bar \in Quotes, Sound(bar), NEW s \in Nat
  PROVE  LET k == Scale(s, bar.ts)
             close == Close(bar, s) IN
         /\ close.r \in Int
         /\ close.reason = "expiry" <=> ClosedBy(bar, s) = 0
         /\ ClosedBy(bar, s) = 0 =>
              ~(R(k, WorstPrice(bar)) <= StopR) /\ ~(R(k, BestPrice(bar)) >= TargetR)
         /\ close.reason # "terminal" =>
              R(k, WorstPrice(bar)) <= close.r /\ close.r <= R(k, BestPrice(bar))
         /\ close.reason = "stop" => close.r <= StopR
         /\ close.reason = "target" =>
              /\ close.r >= TargetR
              /\ \/ R(k, WorstPrice(bar)) > StopR
                 \/ R(k, bar.open) >= TargetR
                 \/ bar.first = "target" /\ R(k, bar.open) > StopR
<1> DEFINE k == Scale(s, bar.ts)
           rules == RulesOn(bar, s)
           n == ClosedBy(bar, s)
           open == R(k, bar.open)
           end == R(k, bar.close)
           worst == R(k, WorstPrice(bar))
           best == R(k, BestPrice(bar))
           paid == R(k, Halved(TerminalPrice, s, bar.ts))
<1>1. /\ rules[1] = [if |-> bar.ts = terminal, reason |-> "terminal", r |-> paid]
      /\ rules[2] = [if |-> open <= StopR, reason |-> "stop", r |-> open]
      /\ rules[3] = [if |-> open >= TargetR, reason |-> "target", r |-> open]
      /\ rules[4] = [if |-> worst <= StopR /\ best >= TargetR /\ bar.first = "target",
                     reason |-> "target", r |-> TargetR]
      /\ rules[5] = [if |-> worst <= StopR, reason |-> "stop", r |-> StopR]
      /\ rules[6] = [if |-> best >= TargetR, reason |-> "target", r |-> TargetR]
      /\ rules[7] = [if |-> bar.invalid, reason |-> "invalidated", r |-> end]
  BY DEF RulesOn, Rules
<1>a. /\ rules[2].if <=> open <= StopR
      /\ rules[3].if <=> open >= TargetR
      /\ rules[4].if <=> worst <= StopR /\ best >= TargetR /\ bar.first = "target"
      /\ rules[5].if <=> worst <= StopR
      /\ rules[6].if <=> best >= TargetR
  BY DEF RulesOn, Rules
<1>2. /\ open \in Int /\ end \in Int /\ worst \in Int /\ best \in Int /\ paid \in Int
      /\ worst <= open /\ open <= best /\ worst <= end /\ end <= best
      /\ StopR \in Int /\ TargetR \in Int /\ StopR < TargetR
  <2>1. k \in {1, 2}
    BY DEF Scale
  <2> HIDE DEF k
  <2> QED
    BY <2>1, PricesOf
<1>3. /\ n \in 0 .. 7
      /\ n # 0 => rules[n].if
      /\ \A j \in 1 .. 7 : n = 0 \/ j < n => ~rules[j].if
  BY RuleOf
<1>4. Close(bar, s) = IF n = 0 THEN [reason |-> "expiry", r |-> end]
                     ELSE [reason |-> rules[n].reason, r |-> rules[n].r]
  BY DEF Close
<1> HIDE DEF rules, n, open, end, worst, best, paid
<1> DEFINE close == Close(bar, s)
<1> SUFFICES
      /\ close.r \in Int
      /\ close.reason = "expiry" <=> n = 0
      /\ n = 0 => ~(worst <= StopR) /\ ~(best >= TargetR)
      /\ close.reason # "terminal" => worst <= close.r /\ close.r <= best
      /\ close.reason = "stop" => close.r <= StopR
      /\ close.reason = "target" =>
           /\ close.r >= TargetR
           /\ worst > StopR \/ open >= TargetR \/ (bar.first = "target" /\ open > StopR)
  BY DEF n, open, worst, best
<1>5. CASE n = 0
  <2>1. ~(worst <= StopR) /\ ~(best >= TargetR)
    BY <1>a, <1>3, <1>5
  <2> QED
    BY <1>2, <1>4, <1>5, <2>1
<1>6. CASE n = 1
  BY <1>1, <1>2, <1>4, <1>6
<1>7. CASE n = 2
  <2>1. open <= StopR
    BY <1>a, <1>3, <1>7
  <2> QED
    BY <1>1, <1>2, <1>4, <1>7, <2>1
<1>8. CASE n = 3
  <2>1. open >= TargetR
    BY <1>a, <1>3, <1>8
  <2> QED
    BY <1>1, <1>2, <1>4, <1>8, <2>1
<1>9. CASE n = 4
  <2>1. worst <= StopR /\ best >= TargetR /\ bar.first = "target" /\ ~(open <= StopR)
    BY <1>a, <1>3, <1>9
  <2> QED
    BY <1>1, <1>2, <1>4, <1>9, <2>1
<1>10. CASE n = 5
  <2>1. worst <= StopR /\ ~(open <= StopR)
    BY <1>a, <1>3, <1>10
  <2> QED
    BY <1>1, <1>2, <1>4, <1>10, <2>1
<1>11. CASE n = 6
  <2>1. best >= TargetR /\ ~(worst <= StopR) /\ ~(open >= TargetR)
    BY <1>a, <1>3, <1>11
  <2> QED
    BY <1>1, <1>2, <1>4, <1>11, <2>1
<1>12. CASE n = 7
  BY <1>1, <1>2, <1>4, <1>12
<1> QED
  BY <1>3, <1>5, <1>6, <1>7, <1>8, <1>9, <1>10, <1>11, <1>12

-----------------------------------------------------------------------------
(* The window, and where the loop stops                                    *)

\* The bars of a tape.
LEMMA TapeIs ==
  ASSUME NEW bars, IsTape(bars)
  PROVE  /\ bars \in Seq(Quotes) /\ Len(bars) \in Nat /\ DOMAIN bars = 1 .. Len(bars)
         /\ \A i \in 1 .. Len(bars) :
              bars[i] \in Quotes /\ Sound(bars[i]) /\ bars[i].ts \in Nat
         /\ bars # <<>> <=> Len(bars) # 0
<1>1. /\ bars \in Seq(Quotes) /\ Len(bars) \in Nat /\ DOMAIN bars = 1 .. Len(bars)
  BY LenProperties DEF IsTape
<1>2. bars # <<>> <=> Len(bars) # 0
  BY <1>1, EmptySeq
<1>3. \A i \in 1 .. Len(bars) : bars[i] \in Quotes /\ Sound(bars[i])
  BY <1>1, ElementOfSeq DEF IsTape
<1>4. \A bar \in Quotes : bar.ts \in Nat
  BY DEF Quotes
<1> QED
  BY <1>1, <1>2, <1>3, <1>4

\* The window has n bars: the last of the horizon, or the fill.
Reaches(bars, n) ==
  /\ n \in 1 .. Len(bars)
  /\ n = 1 \/ bars[n].ts <= Issued + Horizon
  /\ \A i \in 1 .. Len(bars) : bars[i].ts <= Issued + Horizon => i <= n

LEMMA WindowBy ==
  ASSUME NEW bars, IsTape(bars), NEW n, Reaches(bars, n)
  PROVE  /\ Window(bars) = SubSeq(bars, 1, n)
         /\ Window(bars) \in Seq(Quotes) /\ Len(Window(bars)) = n
         /\ \A i \in 1 .. n : Window(bars)[i] = bars[i]
<1> DEFINE S == {1} \cup {i \in DOMAIN bars : bars[i].ts <= Issued + Horizon}
<1>1. /\ bars \in Seq(Quotes) /\ Len(bars) \in Nat /\ DOMAIN bars = 1 .. Len(bars)
  BY TapeIs
<1>2. n \in S /\ n \in Nat /\ \A i \in S : i \in Nat /\ i <= n
  BY <1>1 DEF Reaches
<1>3. Max(S) = n
  <2> HIDE DEF S
  <2>1. \A x \in S : (\A y \in S : x >= y) => x = n
    BY <1>2
  <2> QED
    BY <1>2, <2>1 DEF Max
<1>4. Window(bars) = SubSeq(bars, 1, n)
  BY <1>3 DEF Window
<1>5. n \in 1 .. Len(bars)
  BY DEF Reaches
<1> QED
  BY <1>1, <1>4, <1>5, SubSeqProperties

\* There is such a number.
LEMMA WindowIs ==
  ASSUME NEW bars, IsTape(bars), bars # <<>>
  PROVE  \E n : Reaches(bars, n)
<1> DEFINE S == {1} \cup {i \in DOMAIN bars : bars[i].ts <= Issued + Horizon}
<1>1. Len(bars) \in Nat /\ Len(bars) # 0 /\ DOMAIN bars = 1 .. Len(bars)
  BY TapeIs
<1>2. S \subseteq 1 .. Len(bars) /\ S # {}
  BY <1>1
<1>3. \E n \in S : \A i \in S : i <= n
  <2> HIDE DEF S
  <2> DEFINE f == [i \in 1 .. Len(bars) |-> IF i \in S THEN i ELSE 0]
  <2>1. f \in [1 .. Len(bars) -> Int]
    OBVIOUS
  <2>2. PICK j \in 1 .. Len(bars) : \A i \in 1 .. Len(bars) : f[i] <= f[j]
    <3> HIDE DEF f
    <3> QED
      BY <1>1, <2>1, OneIsGreatest
  <2>3. \A i \in S : f[i] = i /\ i \in 1 .. Len(bars)
    BY <1>2
  <2>4. j \in S
    <3>1. PICK i \in S : TRUE
      BY <1>2
    <3>2. j \notin S => f[j] = 0
      OBVIOUS
    <3>3. f[i] = i /\ i > 0 /\ i \in Nat /\ f[i] <= f[j]
      <4> HIDE DEF f
      <4> QED
        BY <1>1, <2>2, <2>3, <3>1
    <3> HIDE DEF f
    <3> QED
      BY <3>2, <3>3
  <2> HIDE DEF f
  <2> QED
    BY <2>2, <2>3, <2>4
<1>4. PICK n \in S : \A i \in S : i <= n
  BY <1>3
<1>5. Reaches(bars, n)
  BY <1>1, <1>4 DEF Reaches
<1> QED
  BY <1>5

\* The loop stops at the first bar that closes the call, or at the last.
Stops(window, s, e) ==
  /\ e \in 1 .. Len(window)
  /\ \A i \in 1 .. Len(window) : i < e => ClosedBy(window[i], s) = 0
  /\ e = Len(window) \/ ClosedBy(window[e], s) # 0

LEMMA EndIs ==
  ASSUME NEW window \in Seq(Quotes), Len(window) # 0, NEW s
  PROVE  Stops(window, s, End(window, s))
<1> DEFINE S == {Len(window)} \cup {i \in DOMAIN window : ClosedBy(window[i], s) # 0}
<1>1. Len(window) \in Nat /\ DOMAIN window = 1 .. Len(window)
  BY LenProperties
<1>2. S \subseteq Nat /\ S # {}
  BY <1>1
<1>3. Min(S) \in S /\ \A y \in S : Min(S) <= y
  <2> HIDE DEF S
  <2> QED
    BY <1>2, LeastOf
<1>4. Min(S) \in 1 .. Len(window)
  BY <1>1, <1>3
<1>5. ASSUME NEW i \in 1 .. Len(window), i < Min(S)
      PROVE  ClosedBy(window[i], s) = 0
  <2>1. i \notin S
    <3> HIDE DEF S
    <3> QED
      BY <1>3, <1>4, <1>5
  <2> QED
    BY <1>1, <2>1
<1>6. Min(S) = Len(window) \/ ClosedBy(window[Min(S)], s) # 0
  BY <1>3
<1>7. End(window, s) = Min(S)
  BY DEF End
<1> HIDE DEF S
<1> QED
  BY <1>4, <1>5, <1>6, <1>7 DEF Stops

\* And nowhere else.
LEMMA EndBy ==
  ASSUME NEW window \in Seq(Quotes), NEW s, NEW e, Stops(window, s, e)
  PROVE  End(window, s) = e
<1>1. Len(window) \in Nat /\ Len(window) # 0 /\ Stops(window, s, End(window, s))
  <2>1. Len(window) \in Nat
    BY LenProperties
  <2> QED
    BY <2>1, EndIs DEF Stops
<1> DEFINE d == End(window, s)
<1>2. /\ d \in 1 .. Len(window) /\ e \in 1 .. Len(window)
      /\ d < e => d = Len(window)
      /\ e < d => e = Len(window)
  BY <1>1 DEF Stops
<1> HIDE DEF d
<1> QED
  BY <1>1, <1>2 DEF d

-----------------------------------------------------------------------------
(* The result                                                              *)

\* What the scorer makes of a window depends on its bars up to where it stops.
LEMMA OutcomeOfBeginning ==
  ASSUME NEW w \in Seq(Quotes), NEW v \in Seq(Quotes), NEW s,
         Len(w) # 0, Len(w) <= Len(v), \A i \in 1 .. Len(w) : v[i] = w[i],
         ClosedBy(w[End(w, s)], s) # 0
  PROVE  Outcome(v, s) = Outcome(w, s)
<1> DEFINE e == End(w, s)
<1>1. Stops(w, s, e)
  BY EndIs
<1>2. e \in 1 .. Len(w) /\ Len(w) \in Nat /\ Len(v) \in Nat
  BY <1>1, LenProperties DEF Stops
<1>3. Stops(v, s, e)
  BY <1>1, <1>2 DEF Stops
<1>4. End(v, s) = e
  BY <1>3, EndBy
<1>5. \A i \in 1 .. e : v[i] = w[i]
  BY <1>2
<1>6. v[1] = w[1] /\ v[e] = w[e]
  BY <1>2, <1>5
<1> HIDE DEF e
<1>7. {R(Scale(s, v[i].ts), BestPrice(v[i])) : i \in 1 .. e}
      = {R(Scale(s, w[i].ts), BestPrice(w[i])) : i \in 1 .. e}
  BY <1>5
<1>8. {R(Scale(s, v[i].ts), WorstPrice(v[i])) : i \in 1 .. e}
      = {R(Scale(s, w[i].ts), WorstPrice(w[i])) : i \in 1 .. e}
  BY <1>5
<1> QED
  BY <1>4, <1>6, <1>7, <1>8 DEF Outcome, e

\* A result is that of the bar it was found on, and of the best and the worst until then.
LEMMA OutcomeIs ==
  ASSUME NEW w \in Seq(Quotes), Len(w) # 0, NEW s
  PROVE  LET e == End(w, s) IN
         /\ e \in 1 .. Len(w)
         /\ Outcome(w, s).reason = Close(w[e], s).reason
         /\ Outcome(w, s).ts = w[e].ts
         /\ Outcome(w, s).r = Close(w[e], s).r + Dividend(w[1].ts, w[e].ts, s)
         /\ Outcome(w, s).mfe = Max({R(Scale(s, w[i].ts), BestPrice(w[i])) : i \in 1 .. e})
         /\ Outcome(w, s).mae = Min({R(Scale(s, w[i].ts), WorstPrice(w[i])) : i \in 1 .. e})
  BY EndIs DEF Stops, Outcome

\* The excursions go as far as the bar where the call ends.
LEMMA ExcursionsHold ==
  ASSUME NEW w \in Seq(Quotes), Len(w) # 0, NEW s \in Nat,
         \A i \in 1 .. Len(w) : w[i] \in Quotes /\ Sound(w[i])
  PROVE  LET e == End(w, s)
             k == Scale(s, w[e].ts) IN
         /\ R(k, BestPrice(w[e])) <= Outcome(w, s).mfe /\ Outcome(w, s).mfe \in Int
         /\ Outcome(w, s).mae <= R(k, WorstPrice(w[e])) /\ Outcome(w, s).mae \in Int
<1> DEFINE e == End(w, s)
           f == [i \in 1 .. e |-> R(Scale(s, w[i].ts), BestPrice(w[i]))]
           g == [i \in 1 .. e |-> R(Scale(s, w[i].ts), WorstPrice(w[i]))]
<1>1. Len(w) \in Nat /\ e \in 1 .. Len(w)
  BY EndIs, LenProperties DEF Stops
<1>2. Outcome(w, s).mfe = Max({f[i] : i \in 1 .. e})
  <2>1. {f[i] : i \in 1 .. e} = {R(Scale(s, w[i].ts), BestPrice(w[i])) : i \in 1 .. e}
    OBVIOUS
  <2> QED
    BY <2>1, OutcomeIs
<1>3. Outcome(w, s).mae = Min({g[i] : i \in 1 .. e})
  <2>1. {g[i] : i \in 1 .. e} = {R(Scale(s, w[i].ts), WorstPrice(w[i])) : i \in 1 .. e}
    OBVIOUS
  <2> QED
    BY <2>1, OutcomeIs
<1> HIDE DEF e
<1>4. \A i \in 1 .. e : /\ R(Scale(s, w[i].ts), BestPrice(w[i])) \in Int
                        /\ R(Scale(s, w[i].ts), WorstPrice(w[i])) \in Int
  <2> SUFFICES ASSUME NEW i \in 1 .. e
               PROVE  /\ R(Scale(s, w[i].ts), BestPrice(w[i])) \in Int
                      /\ R(Scale(s, w[i].ts), WorstPrice(w[i])) \in Int
    OBVIOUS
  <2>1. i \in 1 .. Len(w)
    BY <1>1
  <2>2. w[i] \in Quotes /\ Sound(w[i])
    BY <2>1
  <2>3. Scale(s, w[i].ts) \in {1, 2}
    BY DEF Scale
  <2> QED
    BY <2>2, <2>3, PricesOf
<1>5. f \in [1 .. e -> Int] /\ g \in [1 .. e -> Int]
  BY <1>4
<1>6. e \in Nat \ {0} /\ e \in 1 .. e
  BY <1>1
<1>7. /\ f[e] = R(Scale(s, w[e].ts), BestPrice(w[e]))
      /\ g[e] = R(Scale(s, w[e].ts), WorstPrice(w[e]))
  BY <1>6
<1> HIDE DEF f, g
<1>8. /\ f[e] <= Max({f[i] : i \in 1 .. e}) /\ Max({f[i] : i \in 1 .. e}) \in Int
      /\ Min({g[i] : i \in 1 .. e}) <= g[e] /\ Min({g[i] : i \in 1 .. e}) \in Int
  BY <1>5, <1>6, Extremes
<1> QED
  BY <1>2, <1>3, <1>7, <1>8 DEF e

\* The window of the tape, and the bar where the call ends.
LEMMA ScoreIs ==
  ASSUME ScoreTypeOK, quotes # <<>>
  PROVE  LET w == Window(quotes)
             e == End(w, split) IN
         /\ w \in Seq(Quotes) /\ Len(w) \in 1 .. Len(quotes) /\ DOMAIN w = 1 .. Len(w)
         /\ \A i \in 1 .. Len(w) :
              w[i] = quotes[i] /\ w[i] \in Quotes /\ Sound(w[i]) /\ w[i].ts \in Nat
         /\ Stops(w, split, e)
         /\ ScoreCall(quotes, split) = Outcome(w, split)
         /\ split \in Nat
<1>1. IsTape(quotes) /\ split \in Nat
  BY EventsAssumption DEF ScoreTypeOK
<1>2. PICK n : Reaches(quotes, n)
  BY <1>1, WindowIs
<1> DEFINE w == Window(quotes)
<1>3. w \in Seq(Quotes) /\ Len(w) = n /\ \A i \in 1 .. n : w[i] = quotes[i]
  BY <1>1, <1>2, WindowBy
<1>4. n \in 1 .. Len(quotes) /\ Len(quotes) \in Nat
      /\ \A i \in 1 .. Len(quotes) : quotes[i] \in Quotes /\ Sound(quotes[i]) /\ quotes[i].ts \in Nat
  BY <1>1, <1>2, TapeIs DEF Reaches
<1>5. ScoreCall(quotes, split) = Outcome(w, split)
  BY DEF ScoreCall
<1>6. \A i \in 1 .. n : i \in 1 .. Len(quotes)
  BY <1>4
<1> HIDE DEF w
<1>7. Stops(w, split, End(w, split)) /\ DOMAIN w = 1 .. Len(w)
  BY <1>3, <1>4, EndIs, LenProperties
<1> QED
  BY <1>1, <1>3, <1>4, <1>5, <1>6, <1>7 DEF w

\* The verdict of a tape is conservative, and at prices that were there.
LEMMA ScoreIsFair ==
  ScoreTypeOK /\ score = ScoreCall(quotes, split)
    => VerdictIsConservative /\ WithinExcursions
<1> SUFFICES ASSUME ScoreTypeOK, score = ScoreCall(quotes, split)
             PROVE  VerdictIsConservative /\ WithinExcursions
  OBVIOUS
<1>1. CASE quotes = <<>>
  BY <1>1 DEF VerdictIsConservative, WithinExcursions, ScoreCall, Pending
<1>2. CASE quotes # <<>>
  <2> DEFINE w == Window(quotes)
             e == End(w, split)
             bar == quotes[e]
             k == Scale(split, bar.ts)
             close == Close(bar, split)
  <2>1. /\ w \in Seq(Quotes) /\ Len(w) \in 1 .. Len(quotes) /\ DOMAIN w = 1 .. Len(w)
        /\ \A i \in 1 .. Len(w) :
             w[i] = quotes[i] /\ w[i] \in Quotes /\ Sound(w[i]) /\ w[i].ts \in Nat
        /\ Stops(w, split, e)
        /\ score = Outcome(w, split)
        /\ split \in Nat
    BY <1>2, ScoreIs
  <2>2. IsTape(quotes) /\ Len(quotes) \in Nat /\ DOMAIN quotes = 1 .. Len(quotes)
    BY TapeIs DEF ScoreTypeOK
  <2> HIDE DEF w
  <2>3. e \in 1 .. Len(w) /\ e \in 1 .. Len(quotes) /\ w[e] = bar /\ Len(w) # 0
        /\ bar \in Quotes /\ Sound(bar)
    BY <2>1, <2>2 DEF Stops
  <2>4. /\ score.reason = close.reason /\ score.ts = bar.ts
        /\ score.r = close.r + Dividend(w[1].ts, bar.ts, split)
    BY <2>1, <2>3, OutcomeIs
  <2>5. /\ score.mae <= R(k, WorstPrice(bar)) /\ score.mae \in Int
        /\ R(k, BestPrice(bar)) <= score.mfe /\ score.mfe \in Int
    BY <2>1, <2>3, ExcursionsHold
  <2> HIDE DEF e
  <2>6. /\ close.r \in Int
        /\ close.reason = "expiry" => ClosedBy(bar, split) = 0
        /\ ClosedBy(bar, split) = 0 =>
             ~(R(k, WorstPrice(bar)) <= StopR) /\ ~(R(k, BestPrice(bar)) >= TargetR)
        /\ close.reason # "terminal" =>
             R(k, WorstPrice(bar)) <= close.r /\ close.r <= R(k, BestPrice(bar))
        /\ close.reason = "stop" => close.r <= StopR
        /\ close.reason = "target" =>
             /\ close.r >= TargetR
             /\ \/ R(k, WorstPrice(bar)) > StopR
                \/ R(k, bar.open) >= TargetR
                \/ bar.first = "target" /\ R(k, bar.open) > StopR
    BY <2>1, <2>3, CloseIs
  <2>7. div = 0 => score.r = close.r
    BY <2>4, <2>6 DEF Dividend, Credited
  <2>8. WithinExcursions
    <3>1. R(k, WorstPrice(bar)) \in Int /\ R(k, BestPrice(bar)) \in Int
      BY <2>1, <2>3, PriceTypes
    <3>2. close.reason # "terminal" => score.mae <= close.r /\ close.r <= score.mfe
      <4> HIDE DEF bar, k, close
      <4> QED
        BY <2>5, <2>6, <3>1
    <3> QED
      BY <2>4, <2>7, <3>2 DEF WithinExcursions
  <2>9. (CHOOSE b \in ToSet(quotes) : b.ts = score.ts) = bar
    <3>1. bar \in ToSet(quotes) /\ bar.ts = score.ts
      BY <2>2, <2>3, <2>4 DEF ToSet
    <3>2. ASSUME NEW b \in ToSet(quotes), b.ts = score.ts
          PROVE  b = bar
      <4>1. PICK i \in 1 .. Len(quotes) : b = quotes[i]
        BY <2>2 DEF ToSet
      <4>2. \A j \in 1 .. Len(quotes), l \in 1 .. Len(quotes) : j < l => quotes[j].ts < quotes[l].ts
        BY <2>2 DEF IsTape
      <4>3. quotes[i].ts \in Nat /\ bar.ts \in Nat
        BY <2>2, <2>3, TapeIs
      <4>4. quotes[i].ts = quotes[e].ts
        BY <2>4, <3>2, <4>1
      <4>5. ~(i < e) /\ ~(e < i)
        BY <2>3, <4>2, <4>3, <4>4
      <4>6. i = e
        BY <2>2, <2>3, <4>5
      <4> QED
        BY <4>1, <4>6
    <3> QED
      BY <3>1, <3>2
  <2>10. ASSUME NEW b \in ToSet(w), b.ts < score.ts
         PROVE  ~TouchesALevel(b)
    <3>1. PICK i \in 1 .. Len(w) : b = w[i]
      BY <2>1 DEF ToSet
    <3>2. b \in Quotes /\ Sound(b) /\ i \in 1 .. Len(quotes) /\ b = quotes[i]
      BY <2>1, <2>2, <3>1
    <3>3. i < e
      <4>1. \A j \in 1 .. Len(quotes), l \in 1 .. Len(quotes) : j < l => quotes[j].ts < quotes[l].ts
        BY <2>2 DEF IsTape
      <4>2. quotes[i].ts \in Nat /\ quotes[e].ts \in Nat /\ quotes[i].ts < quotes[e].ts
        BY <2>2, <2>3, <2>4, <2>10, <3>2, TapeIs
      <4>3. ~(e < i) /\ i # e
        BY <2>3, <3>2, <4>1, <4>2
      <4> QED
        BY <2>2, <2>3, <3>2, <4>3
    <3>4. ClosedBy(b, split) = 0
      BY <2>1, <3>1, <3>3 DEF Stops
    <3>5. LET j == Scale(split, b.ts) IN
          ~(R(j, WorstPrice(b)) <= StopR) /\ ~(R(j, BestPrice(b)) >= TargetR)
      BY <2>1, <3>2, <3>4, CloseIs
    <3> QED
      BY <3>5 DEF TouchesALevel
  <2>11. score.reason = "expiry" => ~TouchesALevel(bar)
    <3> HIDE DEF bar, close
    <3> QED
      BY <2>4, <2>6 DEF TouchesALevel
  <2> HIDE DEF bar, k, close
  <2>12. VerdictIsConservative
    BY <2>4, <2>6, <2>7, <2>9, <2>10, <2>11 DEF VerdictIsConservative, w, k
  <2> QED
    BY <2>8, <2>12
<1> QED
  BY <1>1, <1>2

-----------------------------------------------------------------------------
(* The tape grows                                                          *)

\* A shape upside down is a shape.
LEMMA MirrorIs ==
  ASSUME NEW shape \in Shapes
  PROVE  /\ Mirror(shape) \in [open : Int, high : Int, low : Int, close : Int,
                               first : {"none", "stop", "target"}, invalid : BOOLEAN]
         /\ Sound(Mirror(shape))
<1>1. /\ shape \in [open : Int, high : Int, low : Int, close : Int,
                    first : {"none", "stop", "target"}, invalid : BOOLEAN]
      /\ Sound(shape) /\ Entry \in Int
  BY ShapesAssumption, CallAssumption
<1>2. CASE Long
  BY <1>1, <1>2 DEF Mirror
<1>3. CASE ~Long
  <2> DEFINE mirror == Mirror(shape)
  <2>1. /\ mirror.open = 2 * Entry - shape.open /\ mirror.close = 2 * Entry - shape.close
        /\ mirror.high = 2 * Entry - shape.low /\ mirror.low = 2 * Entry - shape.high
    BY <1>1, <1>3 DEF Mirror
  <2>2. mirror \in [open : Int, high : Int, low : Int, close : Int,
                    first : {"none", "stop", "target"}, invalid : BOOLEAN]
    <3> DEFINE open == 2 * Entry - shape.open
               close == 2 * Entry - shape.close
               high == 2 * Entry - shape.low
               low == 2 * Entry - shape.high
    <3>1. mirror = [shape EXCEPT !.open = open, !.close = close, !.high = high, !.low = low]
      BY <1>3 DEF Mirror
    <3>2. open \in Int /\ close \in Int /\ high \in Int /\ low \in Int
      BY <1>1
    <3> HIDE DEF mirror, open, close, high, low
    <3> QED
      BY <1>1, <3>1, <3>2
  <2>3. /\ shape.open \in Int /\ shape.close \in Int /\ shape.low \in Int /\ shape.high \in Int
        /\ shape.low <= shape.open /\ shape.open <= shape.high
        /\ shape.low <= shape.close /\ shape.close <= shape.high
    BY <1>1 DEF Sound
  <2> HIDE DEF mirror
  <2>4. Sound(mirror)
    BY <1>1, <2>1, <2>3 DEF Sound
  <2> QED
    BY <2>2, <2>4 DEF mirror
<1> QED
  BY <1>2, <1>3

\* Half of less is not more.
LEMMA HalfIs ==
  ASSUME NEW p \in Int, NEW ts \in Nat
  PROVE  /\ Quoted(p, ts) \in Int
         /\ \A q \in Int : p <= q => Quoted(p, ts) <= Quoted(q, ts)
  BY DEF Quoted, Halved

\* The new bar is sound and later than the others.
LEMMA GrowIs ==
  ASSUME ScoreTypeOK, Grow
  PROVE  \E bar \in Quotes :
           /\ Sound(bar) /\ Issued < bar.ts
           /\ quotes # <<>> => Last(quotes).ts < bar.ts
           /\ quotes' = Append(quotes, bar)
           /\ score' = ScoreCall(Append(quotes, bar), split)
           /\ UNCHANGED <<direction, split, div, terminal>>
<1>1. PICK shape \in Shapes, gap \in {1, 2} :
        LET ts == gap + (IF quotes = <<>> THEN Issued ELSE Last(quotes).ts)
            bar == Mirror(shape)
            longer == Append(quotes,
              [ts |-> ts, first |-> bar.first, invalid |-> bar.invalid,
               open |-> Quoted(bar.open, ts), high |-> Quoted(bar.high, ts),
               low |-> Quoted(bar.low, ts), close |-> Quoted(bar.close, ts)]) IN
        quotes' = longer /\ score' = ScoreCall(longer, split)
  BY DEF Grow
<1> DEFINE ts == gap + (IF quotes = <<>> THEN Issued ELSE Last(quotes).ts)
           mirror == Mirror(shape)
           bar == [ts |-> ts, first |-> mirror.first, invalid |-> mirror.invalid,
                   open |-> Quoted(mirror.open, ts), high |-> Quoted(mirror.high, ts),
                   low |-> Quoted(mirror.low, ts), close |-> Quoted(mirror.close, ts)]
<1>2. quotes' = Append(quotes, bar) /\ score' = ScoreCall(Append(quotes, bar), split)
  BY <1>1
<1>3. ts \in Nat /\ Issued < ts /\ (quotes # <<>> => Last(quotes).ts < ts)
  <2>1. CASE quotes = <<>>
    BY <2>1 DEF Issued
  <2>2. CASE quotes # <<>>
    <3>1. IsTape(quotes)
      BY DEF ScoreTypeOK
    <3>2. Len(quotes) \in 1 .. Len(quotes)
      BY <2>2, <3>1, TapeIs
    <3>3. quotes[Len(quotes)].ts \in Nat /\ Issued < quotes[Len(quotes)].ts
      BY <3>1, <3>2, TapeIs DEF IsTape
    <3> QED
      BY <2>2, <3>3 DEF Last, Issued
  <2> QED
    BY <2>1, <2>2
<1> HIDE DEF ts
<1>4. mirror \in [open : Int, high : Int, low : Int, close : Int,
                  first : {"none", "stop", "target"}, invalid : BOOLEAN]
      /\ Sound(mirror)
  BY MirrorIs
<1> HIDE DEF mirror
<1>5. /\ mirror.open \in Int /\ mirror.close \in Int /\ mirror.low \in Int /\ mirror.high \in Int
      /\ mirror.low <= mirror.open /\ mirror.open <= mirror.high
      /\ mirror.low <= mirror.close /\ mirror.close <= mirror.high
  BY <1>4 DEF Sound
<1>6. bar \in Quotes
  BY <1>3, <1>4, <1>5, HalfIs DEF Quotes
<1>7. Sound(bar)
  BY <1>3, <1>5, HalfIs DEF Sound
<1>8. bar.ts = ts
  OBVIOUS
<1>9. UNCHANGED <<direction, split, div, terminal>>
  BY DEF Grow
<1> HIDE DEF bar
<1> QED
  BY <1>2, <1>3, <1>6, <1>7, <1>8, <1>9

\* A tape with one more bar, later than the others.
LEMMA LongerTape ==
  ASSUME NEW bars, IsTape(bars), NEW bar \in Quotes, Sound(bar), Issued < bar.ts,
         bars # <<>> => Last(bars).ts < bar.ts
  PROVE  IsTape(Append(bars, bar))
<1> DEFINE longer == Append(bars, bar)
<1>1. /\ bars \in Seq(Quotes) /\ Len(bars) \in Nat
      /\ \A i \in 1 .. Len(bars) :
           bars[i] \in Quotes /\ Sound(bars[i]) /\ bars[i].ts \in Nat /\ Issued < bars[i].ts
      /\ \A i \in 1 .. Len(bars), j \in 1 .. Len(bars) : i < j => bars[i].ts < bars[j].ts
  BY TapeIs DEF IsTape
<1>2. /\ longer \in Seq(Quotes) /\ Len(longer) = Len(bars) + 1
      /\ DOMAIN longer = 1 .. Len(bars) + 1
      /\ \A i \in 1 .. Len(bars) : longer[i] = bars[i]
      /\ longer[Len(bars) + 1] = bar
  BY <1>1, AppendProperties, LenProperties
<1>3. bar.ts \in Nat
  BY DEF Quotes
<1>4. \A i \in 1 .. Len(bars) : bars[i].ts < bar.ts
  <2> SUFFICES ASSUME NEW i \in 1 .. Len(bars)
               PROVE  bars[i].ts < bar.ts
    OBVIOUS
  <2>1. bars # <<>>
    BY <1>1, TapeIs
  <2>2. bars[Len(bars)].ts < bar.ts /\ Len(bars) \in 1 .. Len(bars)
    BY <1>1, <2>1 DEF Last
  <2>3. i = Len(bars) \/ bars[i].ts < bars[Len(bars)].ts
    BY <1>1, <2>2
  <2>4. bars[i].ts \in Nat /\ bars[Len(bars)].ts \in Nat
    BY <1>1, <2>2
  <2> QED
    BY <1>3, <2>2, <2>3, <2>4
<1> HIDE DEF longer
<1>5. \A i \in DOMAIN longer : Sound(longer[i]) /\ Issued < longer[i].ts
  <2> SUFFICES ASSUME NEW i \in 1 .. Len(bars) + 1
               PROVE  Sound(longer[i]) /\ Issued < longer[i].ts
    BY <1>2
  <2>1. i \in 1 .. Len(bars) \/ i = Len(bars) + 1
    BY <1>1
  <2> QED
    BY <1>1, <1>2, <2>1
<1>6. ASSUME NEW i \in 1 .. Len(bars) + 1, NEW j \in 1 .. Len(bars) + 1, i < j
      PROVE  longer[i].ts < longer[j].ts
  <2>1. i \in 1 .. Len(bars) /\ (j \in 1 .. Len(bars) \/ j = Len(bars) + 1)
    BY <1>1, <1>6
  <2> QED
    BY <1>1, <1>2, <1>4, <1>6, <2>1
<1>7. IsTape(longer)
  BY <1>2, <1>5, <1>6 DEF IsTape
<1> QED
  BY <1>7 DEF longer

\* What the scorer says of given bars depends on the call and its events only.
LEMMA SameScore ==
  ASSUME UNCHANGED <<direction, div, terminal>>, NEW bars, NEW s
  PROVE  ScoreCall(bars, s)' = ScoreCall(bars, s)
<1>1. \A k, p : R(k, p)' = R(k, p)
  BY DEF R, Long
<1>2. \A bar : BestPrice(bar)' = BestPrice(bar) /\ WorstPrice(bar)' = WorstPrice(bar)
  BY DEF BestPrice, WorstPrice, Long
<1>3. \A bar, k : Rules(bar, k, s)' = Rules(bar, k, s)
  BY <1>1, <1>2 DEF Rules, StopR, TargetR
<1>4. \A bar : RulesOn(bar, s)' = RulesOn(bar, s)
  BY <1>3 DEF RulesOn
<1>5. ASSUME NEW bar
      PROVE  ClosedBy(bar, s)' = ClosedBy(bar, s)
  <2>1. RulesOn(bar, s)' = RulesOn(bar, s)
    BY <1>4
  <2> QED
    BY <2>1 DEF ClosedBy, SelectInSeq
<1>6. ASSUME NEW window
      PROVE  End(window, s)' = End(window, s)
  <2>1. {i \in DOMAIN window : ClosedBy(window[i], s) # 0}'
        = {i \in DOMAIN window : ClosedBy(window[i], s) # 0}
    BY <1>5
  <2> QED
    BY <2>1 DEF End
<1>7. \A bar : Close(bar, s)' = Close(bar, s)
  BY <1>1, <1>4, <1>5 DEF Close
<1>8. \A from, to : Dividend(from, to, s)' = Dividend(from, to, s)
  BY DEF Dividend, Credited, Paid, Long
<1>9. \A window : Outcome(window, s)' = Outcome(window, s)
  BY <1>1, <1>2, <1>6, <1>7, <1>8 DEF Outcome
<1> QED
  BY <1>9 DEF ScoreCall

\* What the induction is about: a tape, and its score.
Scored == ScoreTypeOK /\ score = ScoreCall(quotes, split)

LEMMA InitScored == ScoreInit => Scored
<1> SUFFICES ASSUME ScoreInit PROVE Scored
  OBVIOUS
<1>1. IsTape(<<>>)
  BY EmptySeq DEF IsTape
<1> QED
  BY <1>1 DEF ScoreInit, Scored, ScoreTypeOK, ScoreCall

LEMMA GrowKeeps == ASSUME Scored, Grow PROVE Scored'
<1>1. PICK bar \in Quotes :
        /\ Sound(bar) /\ Issued < bar.ts
        /\ quotes # <<>> => Last(quotes).ts < bar.ts
        /\ quotes' = Append(quotes, bar)
        /\ score' = ScoreCall(Append(quotes, bar), split)
        /\ UNCHANGED <<direction, split, div, terminal>>
  BY GrowIs DEF Scored
<1>2. IsTape(quotes')
  BY <1>1, LongerTape DEF Scored, ScoreTypeOK
<1>3. IsTape(quotes)'
  BY <1>2 DEF IsTape, Quotes, Sound, Issued
<1>4. ScoreTypeOK'
  BY <1>1, <1>3 DEF Scored, ScoreTypeOK
<1>5. (score = ScoreCall(quotes, split))'
  BY <1>1, SameScore
<1> QED
  BY <1>4, <1>5 DEF Scored

LEMMA NextScored == Scored /\ [Grow]_scoreVars => Scored'
<1> SUFFICES ASSUME Scored, [Grow]_scoreVars PROVE Scored'
  OBVIOUS
<1>1. CASE UNCHANGED scoreVars
  <2>1. UNCHANGED <<direction, split, div, terminal, quotes, score>>
    BY <1>1 DEF scoreVars
  <2>2. (score = ScoreCall(quotes, split))'
    BY <2>1, SameScore DEF Scored
  <2>3. ScoreTypeOK'
    BY <2>1 DEF Scored, ScoreTypeOK
  <2> QED
    BY <2>2, <2>3 DEF Scored
<1> QED
  BY <1>1, GrowKeeps

\* Whatever the tape, and whatever happens to the stock, the verdict is conservative
\* and at a price the market was at (INV-5; scorer/core.py:132-176).
THEOREM ResultsAreFair == ScoreSpec => []ResultIsFair
<1>1. Scored => ResultIsFair
  BY ScoreIsFair DEF Scored, ResultIsFair
<1> QED
  BY <1>1, InitScored, NextScored, PTL DEF ScoreSpec

-----------------------------------------------------------------------------
(* No look-ahead                                                           *)

\* A call that is decided, or whose horizon is over, keeps its result when a bar is
\* added.
LEMMA SettledKeeps ==
  ASSUME Scored, Settled, NEW bar \in Quotes, Sound(bar), Issued < bar.ts,
         Last(quotes).ts < bar.ts
  PROVE  ScoreCall(Append(quotes, bar), split) = score
<1> DEFINE longer == Append(quotes, bar)
           w == Window(quotes)
           v == Window(longer)
           cut == Issued + Horizon
<1>1. /\ IsTape(quotes) /\ IsTape(longer) /\ quotes # <<>> /\ cut \in Nat /\ split \in Nat
      /\ quotes \in Seq(Quotes) /\ Len(quotes) \in Nat \ {0}
      /\ \A i \in 1 .. Len(quotes) : quotes[i].ts \in Nat
  BY TapeIs, LongerTape, CallAssumption, EventsAssumption
     DEF Scored, Settled, ScoreTypeOK, Issued
<1>2. /\ longer \in Seq(Quotes) /\ Len(longer) = Len(quotes) + 1 /\ longer # <<>>
      /\ \A i \in 1 .. Len(quotes) : longer[i] = quotes[i]
      /\ longer[Len(quotes) + 1] = bar
  BY <1>1, AppendProperties
<1>3. bar.ts \in Nat /\ quotes[Len(quotes)].ts < bar.ts
  BY DEF Quotes, Last
<1>4. PICK n : Reaches(quotes, n)
  BY <1>1, WindowIs
<1>5. PICK m : Reaches(longer, m)
  BY <1>1, <1>2, WindowIs
<1> HIDE DEF longer
<1>6. /\ n \in 1 .. Len(quotes) /\ (n = 1 \/ quotes[n].ts <= cut)
      /\ \A i \in 1 .. Len(quotes) : quotes[i].ts <= cut => i <= n
  BY <1>4 DEF Reaches
<1>7. /\ m \in 1 .. Len(quotes) + 1 /\ (m = 1 \/ longer[m].ts <= cut)
      /\ \A i \in 1 .. Len(quotes) + 1 : longer[i].ts <= cut => i <= m
  BY <1>2, <1>5 DEF Reaches
<1>8. n <= m
  <2>1. n \in 1 .. Len(quotes) + 1 /\ longer[n] = quotes[n]
    BY <1>1, <1>2, <1>6
  <2> QED
    BY <1>6, <1>7, <2>1
<1>9. /\ w \in Seq(Quotes) /\ Len(w) = n /\ \A i \in 1 .. n : w[i] = quotes[i]
      /\ v \in Seq(Quotes) /\ Len(v) = m /\ \A i \in 1 .. m : v[i] = longer[i]
  BY <1>1, <1>4, <1>5, WindowBy
<1>10. score = Outcome(w, split) /\ ScoreCall(longer, split) = Outcome(v, split)
  BY <1>1, <1>2 DEF Scored, ScoreCall
<1> HIDE DEF w, v, cut
<1>11. \A i \in 1 .. n : v[i] = w[i]
  <2> SUFFICES ASSUME NEW i \in 1 .. n
               PROVE  v[i] = w[i]
    OBVIOUS
  <2>1. i \in 1 .. m /\ i \in 1 .. Len(quotes)
    BY <1>1, <1>6, <1>7, <1>8
  <2> QED
    BY <1>2, <1>9, <2>1
<1>12. CASE score.reason # "expiry"
  <2>0. Len(w) # 0
    BY <1>6, <1>9
  <2>1. /\ End(w, split) \in 1 .. n
        /\ score.reason = Close(w[End(w, split)], split).reason
    BY <1>9, <1>10, <2>0, OutcomeIs
  <2>2. ClosedBy(w[End(w, split)], split) # 0
    BY <1>12, <2>1 DEF Close
  <2>3. Len(w) <= Len(v)
    BY <1>8, <1>9
  <2> QED
    BY <1>9, <1>10, <1>11, <2>0, <2>2, <2>3, OutcomeOfBeginning DEF longer
<1>13. CASE quotes[Len(quotes)].ts >= cut
  <2>1. m = n
    <3>1. cut < bar.ts
      BY <1>1, <1>3, <1>13
    <3>2. m = 1 \/ m # Len(quotes) + 1
      BY <1>1, <1>2, <1>3, <1>7, <3>1
    <3>3. m \in 1 .. Len(quotes) /\ (m = 1 \/ m <= n)
      BY <1>1, <1>2, <1>6, <1>7, <3>2
    <3> QED
      BY <1>6, <1>7, <1>8, <3>3
  <2>2. v = w
    BY <1>9, <1>11, <2>1, SeqEqual
  <2> QED
    BY <1>10, <2>2 DEF longer
<1> QED
  BY <1>12, <1>13 DEF Settled, Last, cut

\* Once a call is decided, or its horizon over, no later bar changes its result
\* (scorer/core.py:1-6, "look-ahead").
THEOREM ScoresAreFinal == ScoreSpec => ResultIsFinal
<1>1. ASSUME Scored, [Grow]_scoreVars
      PROVE  [Settled => score' = score]_scoreVars
  <2> SUFFICES ASSUME Grow, Settled PROVE score' = score
    BY <1>1
  <2>1. PICK bar \in Quotes :
          /\ Sound(bar) /\ Issued < bar.ts
          /\ quotes # <<>> => Last(quotes).ts < bar.ts
          /\ score' = ScoreCall(Append(quotes, bar), split)
    BY <1>1, GrowIs DEF Scored
  <2>2. quotes # <<>>
    BY DEF Settled
  <2> QED
    BY <1>1, <2>1, <2>2, SettledKeeps
<1> QED
  BY <1>1, InitScored, NextScored, PTL DEF ScoreSpec, ResultIsFinal

-----------------------------------------------------------------------------
(* Splits                                                                  *)

\* A bar as it would be without the split.
Undone(bar) ==
  IF Issued < split /\ split <= bar.ts
  THEN [bar EXCEPT !.open = 2 * @, !.high = 2 * @, !.low = 2 * @, !.close = 2 * @]
  ELSE bar

\* It has the same prices, as results.
LEMMA SamePrices ==
  ASSUME NEW bar \in Quotes, Issued < split, split \in Nat
  PROVE  LET k == Scale(split, bar.ts)
             j == Scale(0, Undone(bar).ts) IN
         /\ Undone(bar) \in Quotes
         /\ Undone(bar).ts = bar.ts /\ Undone(bar).first = bar.first
         /\ Undone(bar).invalid = bar.invalid
         /\ R(j, Undone(bar).open) = R(k, bar.open)
         /\ R(j, Undone(bar).close) = R(k, bar.close)
         /\ R(j, BestPrice(Undone(bar))) = R(k, BestPrice(bar))
         /\ R(j, WorstPrice(Undone(bar))) = R(k, WorstPrice(bar))
         /\ R(j, Halved(TerminalPrice, 0, Undone(bar).ts))
            = R(k, Halved(TerminalPrice, split, bar.ts))
<1>1. /\ bar.open \in Int /\ bar.close \in Int /\ bar.low \in Int /\ bar.high \in Int
      /\ bar.ts \in Nat /\ Entry \in Int /\ TerminalPrice \in Int
      /\ 2 * (TerminalPrice \div 2) = TerminalPrice
  BY CallAssumption, EventsAssumption DEF Quotes
<1>2. CASE split <= bar.ts
  <2> DEFINE u == Undone(bar)
  <2>1. /\ u.ts = bar.ts /\ u.first = bar.first /\ u.invalid = bar.invalid
        /\ u.open = 2 * bar.open /\ u.close = 2 * bar.close
        /\ u.low = 2 * bar.low /\ u.high = 2 * bar.high
    BY <1>2 DEF Undone, Quotes
  <2>2. u \in Quotes
    <3> DEFINE open == 2 * bar.open
               close == 2 * bar.close
               high == 2 * bar.high
               low == 2 * bar.low
    <3>1. u = [bar EXCEPT !.open = open, !.close = close, !.high = high, !.low = low]
      BY <1>2 DEF Undone, Quotes
    <3>2. open \in Int /\ close \in Int /\ high \in Int /\ low \in Int
      BY <1>1
    <3> HIDE DEF u, open, close, high, low
    <3> QED
      BY <3>1, <3>2 DEF Quotes
  <2> HIDE DEF u
  <2>3. Scale(split, bar.ts) = 2 /\ Scale(0, u.ts) = 1
    BY <1>2 DEF Scale, Issued
  <2>4. Halved(TerminalPrice, split, bar.ts) = TerminalPrice \div 2
        /\ Halved(TerminalPrice, 0, u.ts) = TerminalPrice
    BY <1>2 DEF Halved, Issued
  <2>5. \A p, q \in Int : p = 2 * q => R(1, p) = R(2, q)
    BY <1>1 DEF R
  <2>6. /\ R(1, u.open) = R(2, bar.open) /\ R(1, u.close) = R(2, bar.close)
        /\ R(1, u.high) = R(2, bar.high) /\ R(1, u.low) = R(2, bar.low)
        /\ R(1, TerminalPrice) = R(2, TerminalPrice \div 2)
    BY <1>1, <2>1, <2>5
  <2> QED
    BY <2>1, <2>2, <2>3, <2>4, <2>6 DEF u, BestPrice, WorstPrice
<1>3. CASE ~(split <= bar.ts)
  <2>1. Undone(bar) = bar
    BY <1>3 DEF Undone
  <2>2. Scale(split, bar.ts) = 1 /\ Scale(0, bar.ts) = 1
    BY <1>3 DEF Scale
  <2>3. Halved(TerminalPrice, split, bar.ts) = TerminalPrice
        /\ Halved(TerminalPrice, 0, bar.ts) = TerminalPrice
    BY <1>3 DEF Halved, Issued
  <2> QED
    BY <2>1, <2>2, <2>3
<1> QED
  BY <1>2, <1>3

\* So the rules say the same of it.
LEMMA SameClose ==
  ASSUME NEW bar \in Quotes, Issued < split, split \in Nat
  PROVE  /\ ClosedBy(Undone(bar), 0) = ClosedBy(bar, split)
         /\ Close(Undone(bar), 0) = Close(bar, split)
<1>1. RulesOn(Undone(bar), 0) = RulesOn(bar, split)
  BY SamePrices DEF RulesOn, Rules
<1>2. ClosedBy(Undone(bar), 0) = ClosedBy(bar, split)
  BY <1>1 DEF ClosedBy
<1>3. R(Scale(0, Undone(bar).ts), Undone(bar).close) = R(Scale(split, bar.ts), bar.close)
  BY SamePrices
<1> QED
  BY <1>1, <1>2, <1>3 DEF Close

\* The dividends after the split are paid by the new shares, of which there are more.
LEMMA SameDividend ==
  ASSUME Issued < split, split \in Nat, div \in Nat, div = 0 \/ split <= div,
         NEW from \in Nat, NEW to \in Nat
  PROVE  Dividend(from, to, 0) = Dividend(from, to, split)
<1>1. CASE Credited(from, to)
  <2>1. split <= div /\ split <= to
    BY <1>1 DEF Credited
  <2>2. Paid(split) = Cash \div 2 /\ Scale(split, to) = 2 /\ Paid(0) = Cash /\ Scale(0, to) = 1
    BY <2>1 DEF Paid, Halved, Scale, Issued
  <2>3. Cash \in Int /\ 2 * (Cash \div 2) = Cash
    BY EventsAssumption
  <2> QED
    BY <1>1, <2>2, <2>3 DEF Dividend
<1>2. CASE ~Credited(from, to)
  BY <1>2 DEF Dividend
<1> QED
  BY <1>1, <1>2

\* A window without the split has the same result.
LEMMA SameOutcome ==
  ASSUME NEW w \in Seq(Quotes), NEW v \in Seq(Quotes), Len(w) # 0, Len(v) = Len(w),
         \A i \in 1 .. Len(w) : v[i] = Undone(w[i]),
         Issued < split, split \in Nat, div \in Nat, div = 0 \/ split <= div
  PROVE  Outcome(v, 0) = Outcome(w, split)
<1> DEFINE e == End(w, split)
<1>1. \A i \in 1 .. Len(w) : w[i] \in Quotes /\ w[i].ts \in Nat
  <2>1. \A bar \in Quotes : bar.ts \in Nat
    BY DEF Quotes
  <2> QED
    BY <2>1, ElementOfSeq, LenProperties
<1>2. Len(w) \in Nat /\ e \in 1 .. Len(w) /\ Stops(w, split, e)
  BY EndIs, LenProperties DEF Stops
<1>3. \A i \in 1 .. Len(w) :
        /\ ClosedBy(v[i], 0) = ClosedBy(w[i], split)
        /\ Close(v[i], 0) = Close(w[i], split)
        /\ v[i].ts = w[i].ts
        /\ R(Scale(0, v[i].ts), BestPrice(v[i])) = R(Scale(split, w[i].ts), BestPrice(w[i]))
        /\ R(Scale(0, v[i].ts), WorstPrice(v[i])) = R(Scale(split, w[i].ts), WorstPrice(w[i]))
  BY <1>1, SameClose, SamePrices
<1>4. Stops(v, 0, e)
  BY <1>2, <1>3 DEF Stops
<1>5. End(v, 0) = e
  BY <1>4, EndBy
<1> HIDE DEF e
<1>6. \A i \in 1 .. e : i \in 1 .. Len(w)
  BY <1>2
<1>7. {R(Scale(0, v[i].ts), BestPrice(v[i])) : i \in 1 .. e}
      = {R(Scale(split, w[i].ts), BestPrice(w[i])) : i \in 1 .. e}
  BY <1>3, <1>6
<1>8. {R(Scale(0, v[i].ts), WorstPrice(v[i])) : i \in 1 .. e}
      = {R(Scale(split, w[i].ts), WorstPrice(w[i])) : i \in 1 .. e}
  BY <1>3, <1>6
<1>9. 1 \in 1 .. Len(w) /\ w[1].ts \in Nat /\ w[e].ts \in Nat
  BY <1>1, <1>2
<1>10. Dividend(v[1].ts, v[e].ts, 0) = Dividend(w[1].ts, w[e].ts, split)
  BY <1>2, <1>3, <1>9, SameDividend
<1>11. v[e].ts = w[e].ts /\ Close(v[e], 0) = Close(w[e], split)
  BY <1>2, <1>3
<1> QED
  BY <1>5, <1>7, <1>8, <1>10, <1>11 DEF Outcome, e

\* The tape without the split.
LEMMA RestatedIs ==
  ASSUME ScoreTypeOK, quotes # <<>>, Issued < split, split \in Nat
  PROVE  /\ Restated # <<>> /\ Window(Restated) \in Seq(Quotes)
         /\ Len(Window(Restated)) = Len(Window(quotes))
         /\ \A i \in 1 .. Len(Window(quotes)) : Window(Restated)[i] = Undone(Window(quotes)[i])
<1>1. /\ IsTape(quotes) /\ Len(quotes) \in Nat \ {0} /\ DOMAIN quotes = 1 .. Len(quotes)
      /\ \A i \in 1 .. Len(quotes) : quotes[i] \in Quotes
  BY TapeIs DEF ScoreTypeOK
<1>2. Restated = [i \in 1 .. Len(quotes) |-> Undone(quotes[i])]
  BY <1>1 DEF Restated, Undone
<1>3. \A i \in 1 .. Len(quotes) : Undone(quotes[i]) \in Quotes /\ Undone(quotes[i]).ts = quotes[i].ts
  BY <1>1, SamePrices
<1>4. /\ DOMAIN Restated = 1 .. Len(quotes) /\ Len(Restated) = Len(quotes)
      /\ Restated \in Seq(Quotes)
      /\ \A i \in 1 .. Len(quotes) : Restated[i] = Undone(quotes[i])
  BY <1>1, <1>2, <1>3
<1>5. Restated # <<>>
  BY <1>1, <1>4
<1>6. PICK n : Reaches(quotes, n)
  BY <1>1, WindowIs
<1>7. n \in 1 .. Len(quotes) /\ \A i \in 1 .. n : i \in 1 .. Len(quotes)
  BY <1>1, <1>6 DEF Reaches
<1>8. Window(quotes) \in Seq(Quotes) /\ Len(Window(quotes)) = n
      /\ \A i \in 1 .. n : Window(quotes)[i] = quotes[i]
  BY <1>1, <1>6, WindowBy
<1>9. Window(Restated) = SubSeq(Restated, 1, n)
  <2> DEFINE S == {1} \cup {i \in DOMAIN quotes : quotes[i].ts <= Issued + Horizon}
             T == {1} \cup {i \in DOMAIN Restated : Restated[i].ts <= Issued + Horizon}
  <2>1. S = T
    BY <1>1, <1>3, <1>4
  <2>2. n \in S /\ n \in Nat /\ \A i \in S : i \in Nat /\ i <= n
    BY <1>1, <1>6 DEF Reaches
  <2>3. Max(S) = n
    <3> HIDE DEF S
    <3>1. \A x \in S : (\A y \in S : x >= y) => x = n
      BY <2>2
    <3> QED
      BY <2>2, <3>1 DEF Max
  <2> QED
    BY <2>1, <2>3 DEF Window
<1>10. /\ Window(Restated) \in Seq(Quotes) /\ Len(Window(Restated)) = n
       /\ \A i \in 1 .. n : Window(Restated)[i] = Restated[i]
  <2>1. \A i \in 1 .. n : Restated[i] \in Quotes
    BY <1>3, <1>4, <1>7
  <2>2. 1 \in Int /\ n \in Int /\ 1 <= n
    BY <1>7
  <2> QED
    BY <1>9, <2>1, <2>2, SubSeqProperties
<1> QED
  BY <1>4, <1>5, <1>7, <1>8, <1>10

\* A call has the result it would have had without the split (scorer/core.py:4-6), if no
\* dividend came before the split.
THEOREM SplitsDoNotMatter == ScoreSpec => []SplitInvariance
<1>1. Scored => SplitInvariance
  <2> SUFFICES ASSUME Scored, quotes # <<>>, Issued < split, div = 0 \/ split <= div
               PROVE  score = ScoreCall(Restated, 0)
    BY DEF SplitInvariance
  <2>1. split \in Nat /\ div \in Nat /\ ScoreTypeOK
    BY EventsAssumption DEF Scored, ScoreTypeOK
  <2>2. /\ Window(quotes) \in Seq(Quotes) /\ Len(Window(quotes)) # 0
        /\ score = Outcome(Window(quotes), split)
    BY <2>1, ScoreIs DEF Scored
  <2>3. /\ Restated # <<>> /\ Window(Restated) \in Seq(Quotes)
        /\ Len(Window(Restated)) = Len(Window(quotes))
        /\ \A i \in 1 .. Len(Window(quotes)) : Window(Restated)[i] = Undone(Window(quotes)[i])
    BY <2>1, RestatedIs
  <2>4. ScoreCall(Restated, 0) = Outcome(Window(Restated), 0)
    BY <2>3 DEF ScoreCall
  <2>5. Outcome(Window(Restated), 0) = Outcome(Window(quotes), split)
    BY <2>1, <2>2, <2>3, SameOutcome
  <2> QED
    BY <2>2, <2>4, <2>5
<1> QED
  BY <1>1, InitScored, NextScored, PTL DEF ScoreSpec
=============================================================================
