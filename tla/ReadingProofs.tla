---------------------------- MODULE ReadingProofs ----------------------------
(***************************************************************************)
(* Proofs about Reading, for any posts, answers of the models, budgets and *)
(* number of tasks.                                                        *)
(*                                                                         *)
(* What ReadingInv and TextIsKept say of a task is Sound: a property of    *)
(* the state of the task alone, given the mention objects there are and    *)
(* the images read.  Each stage is first shown to lead from a sound state  *)
(* to a sound one (constant-level lemmas about records); each action of    *)
(* task t then is Moved(t), which leaves the others as sound as they were: *)
(* objects are only added, and images only read by the process loop.  The  *)
(* cache has an argument of its own (Reads: an answer makes new objects),  *)
(* and so do the daily budget and the convictions.                         *)
(*                                                                         *)
(* MoodIsOfThePosts is inductive as it stands.  Its proof is about sums    *)
(* that fade: of the sums of one symbol, of its mentions seq[i] at the     *)
(* places S, one more mention makes those of S and one place more          *)
(* (HeardOnce), in halves of the units there were; Moods goes through the  *)
(* mentions of a post in this way.  Sums over sets, powers of two and      *)
(* recursive functions are argued about by a smallest counterexample.  The *)
(* lists of contributors are gone through likewise: ContributorsAre says   *)
(* of each that it is Recent, which one mention more keeps (OneMoreSaid).  *)
(***************************************************************************)
EXTENDS Reading, SequenceTheorems, FiniteSetTheorems,
        WellFoundedInduction, TLAPS

-----------------------------------------------------------------------------
(* Sequences                                                               *)

\* The first element of a sequence, and what the rest of it holds.
LEMMA HeadAndTail ==
  ASSUME NEW S, NEW s \in Seq(S), s # <<>>
  PROVE  /\ Head(s) \in S
         /\ Tail(s) \in Seq(S)
         /\ ToSet(s) = {Head(s)} \cup ToSet(Tail(s))
<1>1. PICK h \in S, t \in Seq(S) : h = Head(s) /\ t = Tail(s)
  BY HeadTailProperties
<1>2. <<h>> \in Seq(S) /\ Len(<<h>>) = 1 /\ <<h>>[1] = h /\ Range(<<h>>) = {h}
  BY DEF Range
<1>3. PICK one \in Seq(S) : one = <<h>>
  BY <1>2
<1>4. s = one \o t
  <2>1. one \o t \in Seq(S) /\ Len(one \o t) = Len(s)
    BY <1>1, <1>2, <1>3, HeadTailProperties, ConcatProperties, LenProperties
  <2>2. \A i \in 1 .. Len(s) : s[i] = (one \o t)[i]
    BY <1>1, <1>2, <1>3, HeadTailProperties, ConcatProperties, LenProperties
  <2> QED
    BY <2>1, <2>2, SeqEqual
<1>5. Range(s) = {h} \cup Range(t)
  <2>1. Range(one \o t) = Range(one) \cup Range(t)
    BY RangeConcatenation
  <2> QED
    BY <1>2, <1>3, <1>4, <2>1
<1> QED
  BY <1>1, <1>5 DEF ToSet, Range

-----------------------------------------------------------------------------
(* The budgets                                                             *)

\* What a step does to the budget of the day: it asks, is denied, or leaves it
\* alone; midnight and a restart begin the count anew.
LEMMA StepOfBudget ==
  ASSUME [Next]_vars
  PROVE  \/ UNCHANGED <<today, llm, calls>>
         \/ Consume /\ UNCHANGED today
         \/ Denied /\ UNCHANGED today
         \/ Midnight \/ Crash
<1>1. ASSUME NEW t \in Tasks, Continue(t)
      PROVE  \/ UNCHANGED <<today, llm, calls>>
             \/ Consume /\ UNCHANGED today
             \/ Denied /\ UNCHANGED today
  BY <1>1 DEF Continue, Relevance, Infer, CacheHit, OverVision, LookAt, Answer, Refused,
     LookFails, Stance, Feed, SaveConviction, Alert, NoAnswer, shared
<1>2. ASSUME NEW t \in Tasks, NEW p \in Posts, Take(t, p)
      PROVE  UNCHANGED <<today, llm, calls>>
  BY <1>2 DEF Take, shared
<1> QED
  BY <1>1, <1>2 DEF Next, ScanAsks, vars, shared

\* The budget is well-typed.
LEMMA NextBudgetTypes ==
  ASSUME TypeOK, [Next]_vars
  PROVE  /\ today' \in 0 .. MaxDays
         /\ llm' \in [day : 0 .. today', used : Nat] /\ calls' \in Nat
<1>1. /\ today \in 0 .. MaxDays /\ llm \in [day : 0 .. today, used : Nat] /\ calls \in Nat
      /\ MaxDays \in Nat
  BY BudgetAssumption DEF TypeOK
<1>2. Rolled \in [day : 0 .. today, used : Nat]
  BY <1>1 DEF Rolled
<1>3. CASE Consume /\ UNCHANGED today
  <2>1. [Rolled EXCEPT !.used = Rolled.used + 1] \in [day : 0 .. today, used : Nat]
    BY <1>2
  <2> QED
    BY <1>1, <1>3, <2>1 DEF Consume
<1>4. CASE Denied /\ UNCHANGED today
  BY <1>1, <1>2, <1>4 DEF Denied
<1>5. CASE Midnight
  <2>1. 0 .. today \subseteq 0 .. today + 1 /\ today + 1 \in 0 .. MaxDays
    BY <1>1, <1>5 DEF Midnight
  <2> QED
    BY <1>1, <1>5, <2>1 DEF Midnight
<1>6. CASE Crash
  <2>1. 0 \in 0 .. today
    BY <1>1
  <2> QED
    BY <1>1, <1>6, <2>1 DEF Crash
<1> QED
  BY <1>1, <1>3, <1>4, <1>5, <1>6, StepOfBudget

\* The count of the day is the number of calls: the date it is for is never one
\* to come, so midnight makes it stale and the next call starts it anew.
LEMMA NextBudgetIsExact ==
  ASSUME TypeOK, BudgetIsExact, [Next]_vars
  PROVE  BudgetIsExact'
<1> SUFFICES ASSUME DailyLimit > 0
             PROVE  calls' <= DailyLimit /\ Rolled'.used = calls'
  BY DEF BudgetIsExact
<1>1. /\ today \in Nat /\ llm.day \in 0 .. today /\ llm \in [day : 0 .. today, used : Nat]
      /\ calls \in Nat /\ DailyLimit \in Nat
      /\ calls <= DailyLimit /\ Rolled.used = calls
  BY BudgetAssumption DEF TypeOK, BudgetIsExact
<1>2. /\ Rolled \in [day : 0 .. today, used : Nat] /\ Rolled.day = today
      /\ Permits(Rolled) <=> calls < DailyLimit
  BY <1>1 DEF Rolled, Permits
<1>3. CASE UNCHANGED <<today, llm, calls>>
  BY <1>1, <1>3 DEF Rolled
<1>4. CASE Consume /\ UNCHANGED today
  <2>1. llm'.day = today /\ llm'.used = calls + 1 /\ calls' = calls + 1
    BY <1>1, <1>2, <1>4 DEF Consume
  <2> QED
    BY <1>1, <1>2, <1>4, <2>1 DEF Rolled, Consume
<1>5. CASE Denied /\ UNCHANGED today
  BY <1>1, <1>2, <1>5 DEF Rolled, Denied
<1>6. CASE Midnight
  BY <1>1, <1>6 DEF Rolled, Midnight
<1>7. CASE Crash
  BY <1>1, <1>7 DEF Rolled, Crash
<1> QED
  BY <1>3, <1>4, <1>5, <1>6, <1>7, StepOfBudget

-----------------------------------------------------------------------------
(* Texts and mentions                                                      *)

\* What the stages look at in a post.
LEMMA Texts ==
  ASSUME NEW p \in Posts
  PROVE  /\ \A o \in Text[p].options : o.root \in Symbols /\ o.contract \in Contracts
         /\ \A s \in Text[p].tags : s \in Symbols
         /\ Text[p].aliases \in Seq(Names) /\ Text[p].media \in Seq(Images)
         /\ ToSet(Text[p].media) = ImagesOf(p) /\ ImagesOf(p) \subseteq Images
         /\ Text[p].bull \in Nat /\ Text[p].bear \in Nat
         /\ Text[p].committed \in Nat /\ Text[p].hedged \in Nat
         /\ Text[p].lean \in {"bullish", "bearish", "none"}
<1>1. /\ {o.root : o \in Text[p].options} \cup Text[p].tags \subseteq Symbols
      /\ Text[p].aliases \in Seq(Names) /\ Text[p].media \in Seq(ImagesOf(p))
      /\ {Text[p].bull, Text[p].bear, Text[p].committed, Text[p].hedged} \subseteq Nat
      /\ Text[p].lean \in {"bullish", "bearish", "none"}
  BY ReadingAssumption
<1>2. ImagesOf(p) \subseteq Images /\ ToSet(Text[p].media) = ImagesOf(p)
  BY DEF Images, ImagesOf
<1>3. Text[p].media \in Seq(Images)
  BY <1>1, <1>2
<1>4. \A o \in Text[p].options : o.contract \in Contracts
  BY DEF Contracts, ContractsIn
<1> QED
  BY <1>1, <1>2, <1>3, <1>4

\* What the models answer.
LEMMA Answers ==
  /\ \A items \in InferAnswers \cup ImageAnswers :
       DOMAIN items \subseteq Nat /\ \A k \in DOMAIN items : items[k] \in Items
  /\ \A label \in StanceAnswers : label \in Labels
<1>1. ASSUME NEW items \in InferAnswers \cup ImageAnswers
      PROVE  DOMAIN items \subseteq Nat /\ \A k \in DOMAIN items : items[k] \in Items
  <2>1. items \in Seq(Items)
    BY ReadingAssumption
  <2> QED
    BY <2>1, LenProperties, ElementOfSeq
<1> QED
  BY <1>1, ReadingAssumption

\* What the fields of a new mention are.
LEMMA PlainMention ==
  ASSUME NEW s \in Symbols, NEW c \in Classes, NEW n \in Nat,
         NEW h \in {"exact", "disambig", "alias", "inferred", "image"}
  PROVE  /\ Plain(s, c, h, n) \in Mentions
         /\ Plain(s, c, h, n).symbol = s /\ Plain(s, c, h, n).class = c
         /\ Plain(s, c, h, n).how = h /\ Plain(s, c, h, n).object = <<>>
  BY DEF Plain, Mentions, Contracts, Stances

\* What a list adds to the mentions: one for each symbol that is new.
LEMMA Unseen ==
  ASSUME NEW ms \in SUBSET Mentions, NEW list, DOMAIN list \subseteq Nat,
         \A k \in DOMAIN list : list[k] \in Mentions
  PROVE  /\ AddUnseen(ms, list) \in SUBSET Mentions
         /\ ms \subseteq AddUnseen(ms, list)
         /\ \A m \in AddUnseen(ms, list) : m \in ms \/ \E k \in DOMAIN list : m = list[k]
         /\ OneEach(ms) => OneEach(AddUnseen(ms, list))
<1> DEFINE new == {k \in DOMAIN list : /\ list[k].symbol \notin SymbolsOf(ms)
                                       /\ \A j \in DOMAIN list :
                                            j < k => list[j].symbol # list[k].symbol}
<1>1. AddUnseen(ms, list) = ms \cup {list[k] : k \in new}
  BY DEF AddUnseen
<1>2. ASSUME NEW k \in new
      PROVE  k \in DOMAIN list /\ \A m \in ms : m.symbol # list[k].symbol
  BY DEF SymbolsOf
<1>3. ASSUME NEW k \in new, NEW l \in new, list[k].symbol = list[l].symbol
      PROVE  k = l
  <2>1. ~(k < l) /\ ~(l < k) /\ k \in Nat /\ l \in Nat
    BY <1>3
  <2> QED
    BY <2>1
<1> HIDE DEF new
<1>4. OneEach(ms) => OneEach(AddUnseen(ms, list))
  <2> SUFFICES ASSUME OneEach(ms), NEW m \in AddUnseen(ms, list), NEW n \in AddUnseen(ms, list),
                      m # n, m.symbol = n.symbol
               PROVE  m \in ms /\ n \in ms
    BY DEF OneEach
  <2> QED
    BY <1>1, <1>2, <1>3
<1> QED
  BY <1>1, <1>2, <1>4

\* A symbol's class is that of a share, a fund or a coin.
LEMMA ClassOfSymbol ==
  ASSUME NEW s, NEW x
  PROVE  ClassifySymbol(s, x) \in Classes
  BY DEF ClassifySymbol, Classes

\* What the deterministic stages find: a symbol once, or as several options.
LEMMA FoundInText ==
  ASSUME NEW p \in Posts
  PROVE  /\ Found(Text[p]) \in SUBSET Mentions /\ OneEach(Found(Text[p]))
         /\ \A m \in Found(Text[p]) : m.how # "image" /\ m.object = <<>>
<1> DEFINE x == Text[p]
           option(o) == [Plain(o.root, "option", "exact", 90) EXCEPT !.contract = o.contract]
           tagged == {c \in x.tags : /\ c \notin {o.root : o \in x.options}
                                     /\ IsRealTicker(c, x).real # "no"}
           tag(s) == Plain(s, ClassifySymbol(s, x),
                           IF IsRealTicker(s, x).confidence >= 90 THEN "exact" ELSE "disambig",
                           IsRealTicker(s, x).confidence)
<1>1. /\ Options(x) = {option(o) : o \in x.options} /\ Cashtags(x) = {tag(s) : s \in tagged}
  BY DEF Options, Cashtags
<1>2. ASSUME NEW o \in x.options
      PROVE  /\ option(o) \in Mentions /\ option(o).symbol = o.root
             /\ option(o).class = "option" /\ option(o).how = "exact"
             /\ option(o).object = <<>> /\ option(o).contract = o.contract
  <2>1. o.root \in Symbols /\ o.contract \in Contracts
    BY Texts
  <2>2. option(o) = [symbol |-> o.root, class |-> "option", contract |-> o.contract,
                     how |-> "exact", confidence |-> 90, object |-> <<>>,
                     stance |-> "neutral", stanceConfidence |-> 0]
    BY DEF Plain
  <2> QED
    BY <2>1, <2>2 DEF Mentions, Classes, Stances
<1>3. ASSUME NEW s \in tagged
      PROVE  /\ tag(s) \in Mentions /\ tag(s).symbol = s /\ tag(s).how # "image"
             /\ tag(s).object = <<>>
  <2>1. s \in Symbols
    BY Texts
  <2>2. IsRealTicker(s, x).confidence \in Nat
    BY DEF IsRealTicker
  <2> QED
    BY <2>1, <2>2, ClassOfSymbol, PlainMention
<1>4. \A o \in x.options : o.root \notin tagged
  OBVIOUS
<1>5. \A o, q \in x.options : o.root = q.root /\ o.contract = q.contract => option(o) = option(q)
  OBVIOUS
<1> HIDE DEF option, tag, tagged
<1>6. /\ Options(x) \cup Cashtags(x) \in SUBSET Mentions
      /\ \A m \in Options(x) \cup Cashtags(x) : m.how # "image" /\ m.object = <<>>
  BY <1>1, <1>2, <1>3
<1>7. OneEach(Options(x) \cup Cashtags(x))
  <2> SUFFICES ASSUME NEW m \in Options(x) \cup Cashtags(x), NEW n \in Options(x) \cup Cashtags(x),
                      m # n, m.symbol = n.symbol
               PROVE  m.class = "option" /\ n.class = "option" /\ m.contract # n.contract
    BY DEF OneEach
  <2> QED
    BY <1>1, <1>2, <1>3, <1>4, <1>5
<1>8. /\ DOMAIN Aliases(x) \subseteq Nat
      /\ \A k \in DOMAIN Aliases(x) : /\ Aliases(x)[k] \in Mentions
                                      /\ Aliases(x)[k].how = "alias"
                                      /\ Aliases(x)[k].object = <<>>
  <2>1. x.aliases \in Seq(Names)
    BY Texts
  <2>2. DOMAIN x.aliases \subseteq Nat /\ \A k \in DOMAIN x.aliases : x.aliases[k] \in Names
    BY <2>1, LenProperties, ElementOfSeq
  <2>3. \A k \in DOMAIN x.aliases : x.aliases[k].symbol \in Symbols /\ x.aliases[k].class \in Classes
    BY <2>2 DEF Names
  <2> HIDE DEF x
  <2>4. DOMAIN Aliases(x) = DOMAIN x.aliases
    BY DEF Aliases
  <2>5. ASSUME NEW k \in DOMAIN x.aliases
        PROVE  /\ Aliases(x)[k] \in Mentions /\ Aliases(x)[k].how = "alias"
               /\ Aliases(x)[k].object = <<>>
    BY <2>3, PlainMention DEF Aliases
  <2> QED
    BY <2>2, <2>4, <2>5
<1> DEFINE ms == Options(x) \cup Cashtags(x)
<1>9. ms \in SUBSET Mentions /\ OneEach(ms) /\ Found(x) = AddUnseen(ms, Aliases(x))
  BY <1>6, <1>7 DEF Found
<1>10. \A m \in ms : m.how # "image" /\ m.object = <<>>
  BY <1>6
<1> HIDE DEF ms, x
<1>11. /\ Found(x) \in SUBSET Mentions /\ OneEach(Found(x))
       /\ \A m \in Found(x) : m \in ms \/ \E k \in DOMAIN Aliases(x) : m = Aliases(x)[k]
  BY <1>8, <1>9, Unseen
<1>12. \A m \in Found(x) : m.how # "image" /\ m.object = <<>>
  BY <1>8, <1>10, <1>11
<1> QED
  BY <1>11, <1>12 DEF x

\* What the inference adds.
LEMMA InferredMentions ==
  ASSUME NEW items \in InferAnswers
  PROVE  /\ DOMAIN Inferred(items) \subseteq Nat
         /\ \A k \in DOMAIN Inferred(items) :
              /\ Inferred(items)[k] \in Mentions /\ Inferred(items)[k].how = "inferred"
              /\ Inferred(items)[k].object = <<>>
<1>1. DOMAIN items \subseteq Nat /\ \A k \in DOMAIN items : items[k] \in Items
  BY Answers
<1>2. ASSUME NEW k \in DOMAIN items
      PROVE  /\ items[k].symbol \in Symbols /\ Least(85, items[k].confidence) \in Nat
             /\ (IF items[k].class = "crypto" THEN "crypto" ELSE "equity") \in Classes
  BY <1>1 DEF Items, Least, Classes
<1> QED
  BY <1>1, <1>2, PlainMention DEF Inferred

\* What a reading of an image makes: mentions of their own.
LEMMA MentionsOffImage ==
  ASSUME NEW items \in ImageAnswers, NEW url \in Images
  PROVE  /\ DOMAIN OffImage(url, items) \subseteq Nat
         /\ \A k \in DOMAIN OffImage(url, items) :
              LET m == OffImage(url, items)[k]
              IN m \in Mentions /\ m.how = "image" /\ m.object = <<url, k>>
<1> DEFINE good == {k \in DOMAIN items : items[k].wellFormed /\ items[k].confidence >= 60}
           class(i) == ClassifySymbol(i.symbol, [etf |-> FALSE, onchain |-> FALSE])
           sure(i) == IF i.stance = "neutral" THEN 50 ELSE (i.confidence * 85) \div 100
           mention(i, k) ==
             [symbol |-> i.symbol, class |-> class(i), contract |-> "none", how |-> "image",
              confidence |-> Least(90, i.confidence), object |-> <<url, k>>,
              stance |-> i.stance, stanceConfidence |-> sure(i)]
<1>1. OffImage(url, items) = [k \in good |-> mention(items[k], k)]
  BY DEF OffImage
<1>2. DOMAIN items \subseteq Nat /\ \A k \in DOMAIN items : items[k] \in Items
  BY Answers
<1>3. ASSUME NEW k \in good
      PROVE  /\ mention(items[k], k) \in Mentions /\ mention(items[k], k).how = "image"
             /\ mention(items[k], k).object = <<url, k>>
  <2> DEFINE i == items[k]
  <2>1. /\ i.symbol \in Symbols /\ i.stance \in Stances /\ i.confidence \in Nat /\ k \in Nat
    BY <1>2 DEF Items
  <2>2. Least(90, i.confidence) \in Nat /\ sure(i) \in Nat
    BY <2>1 DEF Least
  <2>3. <<url, k>> \in Objects /\ "none" \in Contracts
    BY <2>1 DEF Objects, Contracts
  <2>4. class(i) \in Classes
    BY ClassOfSymbol
  <2> HIDE DEF sure, class
  <2> QED
    BY <2>1, <2>2, <2>3, <2>4 DEF Mentions
<1> HIDE DEF mention
<1> QED
  BY <1>1, <1>2, <1>3

\* The rules label every text.
LEMMA RulesLabel ==
  ASSUME NEW p \in Posts
  PROVE  RuleStance(Text[p]) \in Labels
<1> DEFINE x == Text[p]
           conv == Cut(50 + 15 * x.committed - 15 * x.hedged, 20, 90)
           margin == IF x.bull > x.bear THEN x.bull - x.bear ELSE x.bear - x.bull
           base == IF x.bull > x.bear THEN "bullish"
                   ELSE IF x.bear > x.bull THEN "bearish" ELSE x.lean
           strength == IF margin = 0 THEN 50 ELSE Cut(55 + 15 * margin, 0, 100)
           negated == IF x.negated THEN Flip(base) ELSE base
           label(stance, sure, c) == [stance |-> stance, confidence |-> sure, conviction |-> c]
<1>1. /\ x.bull \in Nat /\ x.bear \in Nat /\ x.committed \in Nat /\ x.hedged \in Nat
      /\ x.lean \in {"bullish", "bearish", "none"}
  BY Texts
<1>2. conv \in 0 .. 100
  <2> DEFINE sum == 50 + 15 * x.committed - 15 * x.hedged
  <2>1. sum \in Int /\ conv = Cut(sum, 20, 90)
    BY <1>1
  <2> HIDE DEF sum, conv
  <2>2. Cut(sum, 20, 90) \in 20 .. 90
    BY <2>1 DEF Cut
  <2> QED
    BY <2>1, <2>2
<1>3. strength \in Nat /\ Cut(strength, 0, 65) \in Nat
  <2>1. margin \in Nat
    BY <1>1
  <2> HIDE DEF margin
  <2>2. strength \in Nat
    BY <2>1 DEF Cut
  <2> HIDE DEF strength
  <2> QED
    BY <2>2 DEF Cut
<1>4. base # "none" => base \in {"bullish", "bearish"}
  BY <1>1
<1>5. base # "none" => negated \in {"bullish", "bearish"} /\ Flip(negated) \in {"bullish", "bearish"}
  BY <1>4 DEF Flip
<1>6. RuleStance(x) =
        IF x.question THEN label("neutral", 80, 25)
        ELSE IF x.bull = x.bear /\ x.bull > 0 THEN label("unclear", 40, conv)
        ELSE IF base = "none"
             THEN IF x.sarcasm THEN label("unclear", 40, conv) ELSE label("neutral", 55, conv)
        ELSE IF x.sarcasm THEN label(Flip(negated), Cut(strength, 0, 65), conv)
             ELSE label(negated, strength, conv)
  BY DEF RuleStance
<1>7. \A stance \in Stances, sure \in Nat, c \in 0 .. 100 : label(stance, sure, c) \in Labels
  BY DEF Labels
<1> HIDE DEF x, conv, base, strength, negated, label
<1>8. \A c \in {25, conv} : c \in 0 .. 100
  BY <1>2
<1> QED
  BY <1>3, <1>5, <1>6, <1>7, <1>8 DEF Stances, x

\* The label changes no mention's symbol, class and source; and no two mentions
\* have one signature when a symbol is mentioned once.
LEMMA Judged ==
  ASSUME NEW ms \in SUBSET Mentions, OneEach(ms), NEW label \in Labels
  PROVE  LET out == Dedupe(Labelled(ms, label)) IN
         /\ out \in SUBSET Mentions /\ OneEach(out)
         /\ \A n \in out : \E m \in ms : n.how = m.how /\ n.object = m.object
         /\ \A m \in ms : \E n \in out : Signature(n) = Signature(m) /\ n.how = m.how
<1> DEFINE new(m) == IF m.how = "image" THEN m
                     ELSE [m EXCEPT !.stance = label.stance,
                                    !.stanceConfidence = label.confidence]
           all == Labelled(ms, label)
<1>1. all = {new(m) : m \in ms}
  BY DEF Labelled
<1>2. ASSUME NEW m \in ms
      PROVE  /\ new(m) \in Mentions /\ new(m).symbol = m.symbol /\ new(m).class = m.class
             /\ new(m).contract = m.contract /\ new(m).how = m.how
             /\ new(m).object = m.object /\ new(m).confidence \in Nat
  <2>1. m \in Mentions /\ label.stance \in Stances /\ label.confidence \in Nat
    BY DEF Labels
  <2> QED
    BY <2>1 DEF Mentions
<1> HIDE DEF new, all
<1>3. all \in SUBSET Mentions
  BY <1>1, <1>2
<1>4. OneEach(all)
  <2> SUFFICES ASSUME NEW m \in ms, NEW n \in ms, new(m) # new(n), new(m).symbol = new(n).symbol
               PROVE  /\ new(m).class = "option" /\ new(n).class = "option"
                      /\ new(m).contract # new(n).contract
    BY <1>1 DEF OneEach
  <2> QED
    BY <1>2 DEF OneEach
<1>5. Dedupe(all) = all
  <2> SUFFICES ASSUME NEW m \in all, NEW n \in all, Signature(n) = Signature(m)
               PROVE  n.confidence <= m.confidence
    BY DEF Dedupe
  <2>1. n.symbol = m.symbol /\ n.contract = m.contract
    BY DEF Signature
  <2>2. n = m /\ m.confidence \in Nat
    BY <1>1, <1>2, <1>4, <2>1 DEF OneEach
  <2> QED
    BY <2>2
<1>6. \A m \in ms : Signature(new(m)) = Signature(m)
  BY <1>2 DEF Signature
<1>7. \A n \in all : \E m \in ms : n.how = m.how /\ n.object = m.object
  BY <1>1, <1>2
<1>8. \A m \in ms : \E n \in all : Signature(n) = Signature(m) /\ n.how = m.how
  BY <1>1, <1>2, <1>6
<1> QED
  BY <1>3, <1>4, <1>5, <1>7, <1>8 DEF all

-----------------------------------------------------------------------------
(* The tasks, each by itself                                               *)

\* What the text of its post names is with a task at every stage.
Keeps(r) ==
  \A m \in Found(Text[r.post]) :
    m.symbol \in r.dropped
    \/ \E n \in r.found : Signature(n) = Signature(m) /\ n.how = m.how

\* What the invariant says of task t in state r, given the mention objects there are
\* and the images that have been read.
Sound(r, t, objects, urls) ==
  /\ r \in TaskStates
  /\ r.pc = "idle" \/ r.post \in Posts
  /\ r.pc = "relevance" => r.dropped = {}
  /\ t # Loop => r.media = <<>>
  /\ r.pc = "infer" => r.found = {}
  /\ r.pc \in {"image", "looking"} => r.media # <<>>
  /\ r.pc # "idle" => ToSet(r.media) \subseteq ImagesOf(r.post)
  /\ r.pc = "looking" => Head(r.media) \notin urls
  /\ \A m \in r.found :
       IF m.how = "image"
       THEN t = Loop /\ m.object \in objects /\ m.object[1] \in ImagesOf(r.post)
       ELSE m.object = <<>>
  /\ OneEach(r.found)
  /\ r.pc # "idle" => Keeps(r)

\* A task with nothing to do is sound.
LEMMA NoTaskIsSound ==
  ASSUME NEW t, NEW objects, NEW urls
  PROVE  Sound(NoTask, t, objects, urls)
<1>1. NoTask \in TaskStates
  BY DEF NoTask, TaskStates
<1> QED
  BY <1>1 DEF Sound, NoTask, OneEach

\* More objects change nothing for a task, nor do the images read for another.
LEMMA SoundForOthers ==
  ASSUME NEW r, NEW t, NEW objects, NEW urls, NEW moreObjects, NEW moreUrls,
         Sound(r, t, objects, urls), objects \subseteq moreObjects,
         t = Loop => moreUrls \subseteq urls
  PROVE  Sound(r, t, moreObjects, moreUrls)
  BY DEF Sound

\* Where the stages after the text begin.
LEMMA NextStage ==
  ASSUME NEW x, NEW media, NEW ms
  PROVE  /\ AfterInference(media, ms) \in {"image", "stance"}
         /\ AfterInference(media, ms) = "image" => media # <<>>
         /\ AfterText(x, media, ms) \in {"infer", "image", "stance"}
         /\ AfterText(x, media, ms) = "infer" => ms = {}
         /\ AfterText(x, media, ms) = "image" => media # <<>>
  BY DEF AfterText, AfterInference

\* process_post takes up a post, in the process loop with its images.
LEMMA TakenIsSound ==
  ASSUME NEW p \in Posts, NEW t, NEW objects, NEW urls, NEW new \in BOOLEAN
  PROVE  LET ms == Found(Text[p])
             media == MediaFor(t, p)
         IN Sound([pc |-> IF ms # {} THEN "relevance" ELSE AfterText(Text[p], media, ms),
                   post |-> p, new |-> new, found |-> ms, dropped |-> {},
                   media |-> media, own |-> 0], t, objects, urls)
<1> DEFINE ms == Found(Text[p])
           media == MediaFor(t, p)
           pc == IF ms # {} THEN "relevance" ELSE AfterText(Text[p], media, ms)
           r == [pc |-> pc, post |-> p, new |-> new, found |-> ms, dropped |-> {},
                 media |-> media, own |-> 0]
<1>1. /\ ms \in SUBSET Mentions /\ OneEach(ms)
      /\ \A m \in ms : m.how # "image" /\ m.object = <<>>
  BY FoundInText
<1>2. media \in Seq(Images) /\ ToSet(media) \subseteq ImagesOf(p) /\ (t # Loop => media = <<>>)
  <2>1. Text[p].media \in Seq(Images) /\ ToSet(Text[p].media) = ImagesOf(p)
    BY Texts
  <2>2. <<>> \in Seq(Images) /\ ToSet(<<>>) = {}
    BY EmptySeq DEF ToSet
  <2> QED
    BY <2>1, <2>2 DEF MediaFor
<1> HIDE DEF media
<1>3. /\ pc \in {"relevance", "infer", "image", "stance"}
      /\ pc = "infer" => ms = {}
      /\ pc = "image" => media # <<>>
  BY NextStage
<1> HIDE DEF pc
<1>4. Keeps(r)
  BY DEF Keeps
<1> HIDE DEF ms
<1>5. r \in TaskStates
  BY <1>1, <1>2, <1>3 DEF TaskStates
<1>6. Sound(r, t, objects, urls)
  BY <1>1, <1>2, <1>3, <1>4, <1>5 DEF Sound
<1> QED
  BY <1>6 DEF ms, media, pc

\* The gate drops some symbols; none of what is left, and nothing else, is lost.
LEMMA GatedIsSound ==
  ASSUME NEW r, NEW t, NEW objects, NEW urls, Sound(r, t, objects, urls),
         r.pc = "relevance", NEW out \in SUBSET SymbolsOf(r.found),
         NEW kept \in SUBSET r.found, \A m \in r.found : m.symbol \in out \/ m \in kept
  PROVE  Sound([r EXCEPT !.found = kept, !.dropped = out,
                         !.pc = AfterText(Text[r.post], r.media, kept)], t, objects, urls)
<1> DEFINE pc == AfterText(Text[r.post], r.media, kept)
           q == [r EXCEPT !.found = kept, !.dropped = out, !.pc = pc]
<1>1. /\ r \in TaskStates /\ r.post \in Posts /\ (t # Loop => r.media = <<>>)
      /\ r.found \in SUBSET Mentions /\ Keeps(r) /\ r.dropped = {} /\ OneEach(r.found)
      /\ ToSet(r.media) \subseteq ImagesOf(r.post)
  BY DEF Sound, TaskStates
<1>2. /\ pc \in {"infer", "image", "stance"}
      /\ pc = "infer" => kept = {}
      /\ pc = "image" => r.media # <<>>
  BY NextStage
<1>3. out \in SUBSET Symbols
  BY <1>1 DEF SymbolsOf, Mentions
<1>4. kept \subseteq r.found /\ OneEach(kept)
  BY <1>1 DEF OneEach
<1> HIDE DEF pc
<1>5. /\ q \in TaskStates /\ q.pc = pc /\ q.found = kept /\ q.dropped = out
      /\ q.post = r.post /\ q.media = r.media
  BY <1>1, <1>2, <1>3, <1>4 DEF TaskStates
<1>6. Keeps(q)
  <2> SUFFICES ASSUME NEW m \in Found(Text[r.post])
               PROVE  m.symbol \in out
                      \/ \E n \in kept : Signature(n) = Signature(m) /\ n.how = m.how
    BY <1>5 DEF Keeps
  <2>1. PICK n \in r.found : Signature(n) = Signature(m) /\ n.how = m.how
    BY <1>1 DEF Keeps
  <2>2. n.symbol = m.symbol
    BY <2>1 DEF Signature
  <2> QED
    BY <2>1, <2>2
<1> HIDE DEF q
<1>7. Sound(q, t, objects, urls)
  BY <1>1, <1>2, <1>4, <1>5, <1>6 DEF Sound
<1> QED
  BY <1>7 DEF q, pc

\* A task that goes on as it is to a stage that asks for nothing in particular.
LEMMA OnIsSound ==
  ASSUME NEW r, NEW t, NEW objects, NEW urls, Sound(r, t, objects, urls),
         r.pc # "idle", NEW pc \in {"stance", "feed", "save", "alert"}
  PROVE  Sound([r EXCEPT !.pc = pc], t, objects, urls)
<1> DEFINE q == [r EXCEPT !.pc = pc]
<1>1. r \in TaskStates /\ r.post \in Posts /\ ToSet(r.media) \subseteq ImagesOf(r.post)
      /\ Keeps(r)
  BY DEF Sound
<1>2. /\ q \in TaskStates /\ q.pc = pc /\ q.found = r.found /\ q.dropped = r.dropped
      /\ q.post = r.post /\ q.media = r.media
  BY <1>1 DEF TaskStates
<1>3. Keeps(q)
  BY <1>1, <1>2 DEF Keeps
<1> HIDE DEF q
<1>4. Sound(q, t, objects, urls)
  BY <1>1, <1>2, <1>3 DEF Sound
<1> QED
  BY <1>4 DEF q

\* A task looks at an image that has not been read.
LEMMA LookingIsSound ==
  ASSUME NEW r, NEW t, NEW objects, NEW urls, Sound(r, t, objects, urls),
         r.pc = "image", Head(r.media) \notin urls
  PROVE  Sound([r EXCEPT !.pc = "looking"], t, objects, urls)
<1> DEFINE q == [r EXCEPT !.pc = "looking"]
<1>1. r \in TaskStates /\ r.post \in Posts /\ ToSet(r.media) \subseteq ImagesOf(r.post)
      /\ Keeps(r) /\ r.media # <<>>
  BY DEF Sound
<1>2. /\ q \in TaskStates /\ q.pc = "looking" /\ q.found = r.found /\ q.dropped = r.dropped
      /\ q.post = r.post /\ q.media = r.media
  BY <1>1 DEF TaskStates
<1>3. Keeps(q)
  BY <1>1, <1>2 DEF Keeps
<1> HIDE DEF q
<1>4. Sound(q, t, objects, urls)
  BY <1>1, <1>2, <1>3 DEF Sound
<1> QED
  BY <1>4 DEF q

\* What the inference finds comes where the text left nothing: all the text named
\* is dropped.
LEMMA InferredIsSound ==
  ASSUME NEW r, NEW t, NEW objects, NEW urls, Sound(r, t, objects, urls),
         r.pc = "infer", NEW ms \in SUBSET Mentions, OneEach(ms),
         \A m \in ms : m.how # "image" /\ m.object = <<>>
  PROVE  Sound([r EXCEPT !.found = ms, !.pc = AfterInference(r.media, ms)],
               t, objects, urls)
<1> DEFINE pc == AfterInference(r.media, ms)
           q == [r EXCEPT !.found = ms, !.pc = pc]
<1>1. /\ r \in TaskStates /\ r.post \in Posts /\ (t # Loop => r.media = <<>>)
      /\ r.found = {} /\ Keeps(r) /\ ToSet(r.media) \subseteq ImagesOf(r.post)
  BY DEF Sound
<1>2. pc \in {"image", "stance"} /\ (pc = "image" => r.media # <<>>)
  BY NextStage
<1> HIDE DEF pc
<1>3. /\ q \in TaskStates /\ q.pc = pc /\ q.found = ms /\ q.dropped = r.dropped
      /\ q.post = r.post /\ q.media = r.media
  BY <1>1, <1>2 DEF TaskStates
<1>4. Keeps(q)
  BY <1>1, <1>3 DEF Keeps
<1> HIDE DEF q
<1>5. Sound(q, t, objects, urls)
  BY <1>1, <1>2, <1>3, <1>4 DEF Sound
<1> QED
  BY <1>5 DEF q, pc

\* What an image shows is added to what there is.
LEMMA SeenIsSound ==
  ASSUME NEW r, NEW t, NEW objects, NEW urls, NEW moreObjects, NEW moreUrls,
         Sound(r, t, objects, urls), objects \subseteq moreObjects,
         r.pc \in {"image", "looking"},
         NEW list, DOMAIN list \subseteq Nat,
         \A k \in DOMAIN list : /\ list[k] \in Mentions /\ list[k].how = "image"
                                /\ list[k].object \in moreObjects
                                /\ list[k].object[1] = Head(r.media)
  PROVE  Sound([r EXCEPT !.found = AddUnseen(r.found, list), !.media = Tail(r.media),
                         !.pc = IF Len(r.media) = 1 THEN "stance" ELSE "image"],
               t, moreObjects, moreUrls)
<1> DEFINE pc == IF Len(r.media) = 1 THEN "stance" ELSE "image"
           found == AddUnseen(r.found, list)
           q == [r EXCEPT !.found = found, !.media = Tail(r.media), !.pc = pc]
<1>1. /\ r \in TaskStates /\ r.post \in Posts /\ r.media # <<>> /\ Keeps(r)
      /\ r.media \in Seq(Images) /\ r.found \in SUBSET Mentions /\ OneEach(r.found)
      /\ ToSet(r.media) \subseteq ImagesOf(r.post)
      /\ t = Loop
      /\ \A m \in r.found :
           IF m.how = "image" THEN m.object \in objects /\ m.object[1] \in ImagesOf(r.post)
           ELSE m.object = <<>>
  BY DEF Sound, TaskStates
<1>2. /\ Tail(r.media) \in Seq(Images) /\ ToSet(r.media) = {Head(r.media)} \cup ToSet(Tail(r.media))
      /\ Head(r.media) \in ImagesOf(r.post)
  BY <1>1, HeadAndTail
<1>3. pc \in {"image", "stance"} /\ (pc = "image" => Tail(r.media) # <<>>)
  <2>1. Len(Tail(r.media)) = Len(r.media) - 1 /\ Len(r.media) \in Nat
    BY <1>1, HeadTailProperties, LenProperties
  <2> DEFINE rest == Tail(r.media)
  <2>2. Len(rest) = Len(r.media) - 1 /\ Len(<<>>) = 0
    BY <2>1
  <2> HIDE DEF rest
  <2>3. rest = <<>> => Len(r.media) = 1
    BY <2>1, <2>2
  <2> QED
    BY <2>3 DEF rest
<1>4. /\ found \in SUBSET Mentions /\ r.found \subseteq found /\ OneEach(found)
      /\ \A m \in found : m \in r.found \/ \E k \in DOMAIN list : m = list[k]
  BY <1>1, Unseen
<1> HIDE DEF pc, found
<1>5. /\ q \in TaskStates /\ q.pc = pc /\ q.found = found /\ q.dropped = r.dropped
      /\ q.post = r.post /\ q.media = Tail(r.media)
  BY <1>1, <1>2, <1>3, <1>4 DEF TaskStates
<1>6. Keeps(q)
  BY <1>1, <1>4, <1>5 DEF Keeps
<1>7. \A m \in found :
        IF m.how = "image" THEN m.object \in moreObjects /\ m.object[1] \in ImagesOf(r.post)
        ELSE m.object = <<>>
  BY <1>1, <1>2, <1>4
<1> HIDE DEF q
<1>8. Sound(q, t, moreObjects, moreUrls)
  BY <1>1, <1>2, <1>3, <1>4, <1>5, <1>6, <1>7 DEF Sound
<1> QED
  BY <1>8 DEF q, pc, found

\* The label of the post.
LEMMA LabelledIsSound ==
  ASSUME NEW r, NEW t, NEW objects, NEW urls, Sound(r, t, objects, urls),
         r.pc = "stance", NEW label \in Labels, NEW pc \in {"feed", "alert"}
  PROVE  Sound([r EXCEPT !.found = Dedupe(Labelled(r.found, label)),
                         !.own = label.conviction, !.pc = pc], t, objects, urls)
<1> DEFINE out == Dedupe(Labelled(r.found, label))
           q == [r EXCEPT !.found = out, !.own = label.conviction, !.pc = pc]
<1>1. /\ r \in TaskStates /\ r.post \in Posts /\ Keeps(r)
      /\ r.found \in SUBSET Mentions /\ OneEach(r.found)
      /\ ToSet(r.media) \subseteq ImagesOf(r.post) /\ (t # Loop => r.media = <<>>)
      /\ \A m \in r.found :
           IF m.how = "image"
           THEN t = Loop /\ m.object \in objects /\ m.object[1] \in ImagesOf(r.post)
           ELSE m.object = <<>>
  BY DEF Sound, TaskStates
<1>2. /\ out \in SUBSET Mentions /\ OneEach(out)
      /\ \A n \in out : \E m \in r.found : n.how = m.how /\ n.object = m.object
      /\ \A m \in r.found : \E n \in out : Signature(n) = Signature(m) /\ n.how = m.how
  BY <1>1, Judged
<1>3. label.conviction \in 0 .. 100
  BY DEF Labels
<1> HIDE DEF out
<1>4. /\ q \in TaskStates /\ q.pc = pc /\ q.found = out /\ q.dropped = r.dropped
      /\ q.post = r.post /\ q.media = r.media
  BY <1>1, <1>2, <1>3 DEF TaskStates
<1>5. Keeps(q)
  <2> SUFFICES ASSUME NEW m \in Found(Text[r.post]), m.symbol \notin r.dropped
               PROVE  \E n \in out : Signature(n) = Signature(m) /\ n.how = m.how
    BY <1>4 DEF Keeps
  <2>1. PICK l \in r.found : Signature(l) = Signature(m) /\ l.how = m.how
    BY <1>1 DEF Keeps
  <2> QED
    BY <1>2, <2>1
<1>6. \A n \in out :
        IF n.how = "image"
        THEN t = Loop /\ n.object \in objects /\ n.object[1] \in ImagesOf(r.post)
        ELSE n.object = <<>>
  BY <1>1, <1>2
<1> HIDE DEF q
<1>7. Sound(q, t, objects, urls)
  BY <1>1, <1>2, <1>4, <1>5, <1>6 DEF Sound
<1> QED
  BY <1>7 DEF q, out

-----------------------------------------------------------------------------
(* The steps of the tasks                                                  *)

\* The invariant is what it says of each task, and of the cache.
LEMMA TasksAreSound ==
  ASSUME ReadingInv, TextIsKept, NEW t \in Tasks
  PROVE  /\ Sound(task[t], t, DOMAIN conviction, DOMAIN cache)
         /\ task[t] \in TaskStates /\ task \in [Tasks -> TaskStates]
<1>1. task \in [Tasks -> TaskStates] /\ task[t] \in TaskStates
  BY DEF ReadingInv, TypeOK
<1>2. task[t].pc # "idle" => Keeps(task[t])
  BY DEF TextIsKept, The, Keeps
<1> QED
  BY <1>1, <1>2 DEF ReadingInv, StageInv, CacheInv, OneMentionPerContract, Sound, At, The

\* A step of task t: its new state is sound, nothing that the others rest on is
\* gone, and only the process loop has images read.
Moved(t) ==
  /\ task' \in [Tasks -> TaskStates] /\ \A u \in Tasks \ {t} : task'[u] = task[u]
  /\ Sound(task'[t], t, DOMAIN conviction', DOMAIN cache')
  /\ DOMAIN conviction \subseteq DOMAIN conviction'
  /\ t # Loop => DOMAIN cache' \subseteq DOMAIN cache

\* It is enough to know the new state of the task.
LEMMA OneTaskMoves ==
  ASSUME ReadingInv, TextIsKept, NEW t \in Tasks, NEW r,
         task' = [task EXCEPT ![t] = r],
         Sound(r, t, DOMAIN conviction', DOMAIN cache'),
         DOMAIN conviction \subseteq DOMAIN conviction',
         t # Loop => DOMAIN cache' \subseteq DOMAIN cache
  PROVE  Moved(t)
<1>1. r \in TaskStates /\ task \in [Tasks -> TaskStates]
  BY TasksAreSound DEF Sound
<1>2. task' \in [Tasks -> TaskStates] /\ task'[t] = r /\ \A u \in Tasks \ {t} : task'[u] = task[u]
  BY <1>1
<1> QED
  BY <1>2 DEF Moved

\* A post is taken up.
LEMMA TakeMoves ==
  ASSUME ReadingInv, TextIsKept, NEW t \in Tasks, NEW p \in Posts, Take(t, p)
  PROVE  Moved(t)
<1> DEFINE ms == Found(Text[p])
           media == MediaFor(t, p)
           r == [pc |-> IF ms # {} THEN "relevance" ELSE AfterText(Text[p], media, ms),
                 post |-> p, new |-> p \notin inserted, found |-> ms, dropped |-> {},
                 media |-> media, own |-> 0]
<1>1. task' = [task EXCEPT ![t] = r] /\ conviction' = conviction /\ cache' = cache
  BY DEF Take, shared
<1>2. Sound(r, t, DOMAIN conviction, DOMAIN cache)
  BY TakenIsSound
<1> HIDE DEF r
<1> QED
  BY <1>1, <1>2, OneTaskMoves

\* The relevance gate answers, or does not.
LEMMA RelevanceMoves ==
  ASSUME ReadingInv, TextIsKept, NEW t \in Tasks, Relevance(t)
  PROVE  Moved(t)
<1>1. /\ Sound(task[t], t, DOMAIN conviction, DOMAIN cache) /\ task[t].pc = "relevance"
      /\ conviction' = conviction /\ cache' = cache
      /\ task \in [Tasks -> TaskStates]
  BY TasksAreSound DEF Relevance, At
<1>2. ASSUME NEW out \in SUBSET SymbolsOf(task[t].found),
             task' = [task EXCEPT ![t].found = {m \in task[t].found : m.symbol \notin out},
                                  ![t].dropped = out,
                                  ![t].pc = AfterText(The(t), task[t].media,
                                              {m \in task[t].found : m.symbol \notin out})]
      PROVE  Moved(t)
  <2> DEFINE kept == {m \in task[t].found : m.symbol \notin out}
             r == [task[t] EXCEPT !.found = kept, !.dropped = out,
                                  !.pc = AfterText(Text[task[t].post], task[t].media, kept)]
  <2>1. Sound(r, t, DOMAIN conviction, DOMAIN cache)
    <3>1. kept \in SUBSET task[t].found /\ \A m \in task[t].found : m.symbol \in out \/ m \in kept
      OBVIOUS
    <3> HIDE DEF kept
    <3> QED
      BY <1>1, <1>2, <3>1, GatedIsSound
  <2>2. task' = [task EXCEPT ![t].found = kept, ![t].dropped = out,
                             ![t].pc = AfterText(Text[task[t].post], task[t].media, kept)]
    BY <1>2 DEF The
  <2> HIDE DEF kept
  <2>3. task' = [task EXCEPT ![t] = r]
    BY <1>1, <2>2
  <2> HIDE DEF r
  <2> QED
    BY <1>1, <2>1, <2>3, OneTaskMoves
<1>3. ASSUME task' = [task EXCEPT ![t].pc = "stance"]
      PROVE  Moved(t)
  <2>1. task' = [task EXCEPT ![t] = [task[t] EXCEPT !.pc = "stance"]]
    BY <1>1, <1>3
  <2>2. Sound([task[t] EXCEPT !.pc = "stance"], t, DOMAIN conviction, DOMAIN cache)
    BY <1>1, OnIsSound
  <2> QED
    BY <1>1, <2>1, <2>2, OneTaskMoves
<1> QED
  BY <1>2, <1>3 DEF Relevance

\* The inference answers, or does not.
LEMMA InferMoves ==
  ASSUME ReadingInv, TextIsKept, NEW t \in Tasks, Infer(t)
  PROVE  Moved(t)
<1>1. /\ Sound(task[t], t, DOMAIN conviction, DOMAIN cache) /\ task[t].pc = "infer"
      /\ conviction' = conviction /\ cache' = cache
      /\ task \in [Tasks -> TaskStates]
  BY TasksAreSound DEF Infer, At
<1>2. ASSUME NEW ms \in SUBSET Mentions, OneEach(ms),
             \A m \in ms : m.how # "image" /\ m.object = <<>>,
             task' = [task EXCEPT ![t].found = ms, ![t].pc = AfterInference(task[t].media, ms)]
      PROVE  Moved(t)
  <2> DEFINE r == [task[t] EXCEPT !.found = ms, !.pc = AfterInference(task[t].media, ms)]
  <2>1. Sound(r, t, DOMAIN conviction, DOMAIN cache)
    BY <1>1, <1>2, InferredIsSound
  <2>2. task' = [task EXCEPT ![t] = r]
    BY <1>1, <1>2 DEF The
  <2> HIDE DEF r
  <2> QED
    BY <1>1, <2>1, <2>2, OneTaskMoves
<1>3. OneEach({})
  BY DEF OneEach
<1>4. ASSUME NEW items \in InferAnswers
      PROVE  LET ms == AddUnseen({}, Inferred(items)) IN
             /\ ms \in SUBSET Mentions /\ OneEach(ms)
             /\ \A m \in ms : m.how # "image" /\ m.object = <<>>
  <2>1. /\ DOMAIN Inferred(items) \subseteq Nat
        /\ \A k \in DOMAIN Inferred(items) :
             /\ Inferred(items)[k] \in Mentions /\ Inferred(items)[k].how = "inferred"
             /\ Inferred(items)[k].object = <<>>
    BY InferredMentions
  <2> QED
    BY <1>3, <2>1, Unseen
<1>5. ASSUME NEW items \in InferAnswers,
             task' = [task EXCEPT ![t].found = AddUnseen({}, Inferred(items)),
                                  ![t].pc = AfterInference(task[t].media, AddUnseen({}, Inferred(items)))]
      PROVE  Moved(t)
  <2> DEFINE ms == AddUnseen({}, Inferred(items))
  <2>1. ms \in SUBSET Mentions /\ OneEach(ms) /\ \A m \in ms : m.how # "image" /\ m.object = <<>>
    BY <1>4
  <2>2. task' = [task EXCEPT ![t].found = ms, ![t].pc = AfterInference(task[t].media, ms)]
    BY <1>5
  <2> HIDE DEF ms
  <2> QED
    BY <1>2, <2>1, <2>2
<1> QED
  BY <1>2, <1>3, <1>5 DEF Infer

\* What the task and an image it sees make of each other.
LEMMA SeenMoves ==
  ASSUME ReadingInv, TextIsKept, NEW t \in Tasks, At(t, "image") \/ At(t, "looking"),
         NEW list, DOMAIN list \subseteq Nat, Seen(t, list),
         \A k \in DOMAIN list : /\ list[k] \in Mentions /\ list[k].how = "image"
                                /\ list[k].object \in DOMAIN conviction'
                                /\ list[k].object[1] = Head(task[t].media),
         DOMAIN conviction \subseteq DOMAIN conviction',
         t # Loop => DOMAIN cache' \subseteq DOMAIN cache
  PROVE  Moved(t)
<1>1. /\ Sound(task[t], t, DOMAIN conviction, DOMAIN cache)
      /\ task[t].pc \in {"image", "looking"} /\ task \in [Tasks -> TaskStates]
  BY TasksAreSound DEF At
<1> DEFINE r == [task[t] EXCEPT !.found = AddUnseen(task[t].found, list),
                                !.media = Tail(task[t].media),
                                !.pc = IF Len(task[t].media) = 1 THEN "stance" ELSE "image"]
<1>2. Sound(r, t, DOMAIN conviction', DOMAIN cache')
  BY <1>1, SeenIsSound
<1>3. task' = [task EXCEPT ![t] = r]
  BY <1>1 DEF Seen
<1> HIDE DEF r
<1> QED
  BY <1>2, <1>3, OneTaskMoves

\* The image is in the cache, or the process has had its share of images.
LEMMA CacheMoves ==
  ASSUME ReadingInv, TextIsKept, NEW t \in Tasks, CacheHit(t) \/ OverVision(t)
  PROVE  Moved(t)
<1>1. conviction' = conviction /\ cache' = cache /\ At(t, "image")
  BY DEF CacheHit, OverVision, shared
<1>2. CASE CacheHit(t)
  <2> DEFINE url == Head(task[t].media)
  <2>1. url \in DOMAIN cache /\ Seen(t, cache[url])
    BY <1>2 DEF CacheHit, InCache
  <2>2. DOMAIN cache[url] \subseteq Nat /\ \A k \in DOMAIN cache[url] : cache[url][k] \in Mentions
    BY <2>1 DEF ReadingInv, TypeOK
  <2>3. \A k \in DOMAIN cache[url] :
          /\ cache[url][k].how = "image" /\ cache[url][k].object \in DOMAIN conviction
          /\ cache[url][k].object[1] = url
    BY <2>1 DEF ReadingInv, CacheInv
  <2> QED
    BY <1>1, <2>1, <2>2, <2>3, SeenMoves
<1>3. CASE OverVision(t)
  <2>1. Seen(t, <<>>)
    BY <1>3 DEF OverVision
  <2> DEFINE list == <<>>
  <2>2. DOMAIN list = {} /\ Seen(t, list)
    BY <2>1
  <2> HIDE DEF list
  <2> QED
    BY <1>1, <2>2, SeenMoves
<1> QED
  BY <1>2, <1>3

\* An image is looked at that was not in the cache: it has not been read.
LEMMA LookMoves ==
  ASSUME ReadingInv, TextIsKept, NEW t \in Tasks, LookAt(t)
  PROVE  Moved(t)
<1>1. /\ Sound(task[t], t, DOMAIN conviction, DOMAIN cache) /\ task[t].pc = "image"
      /\ conviction' = conviction /\ cache' = cache /\ task \in [Tasks -> TaskStates]
      /\ task' = [task EXCEPT ![t].pc = "looking"]
      /\ Head(task[t].media) \notin DOMAIN cache
  BY TasksAreSound DEF LookAt, At, InCache
<1>2. Sound([task[t] EXCEPT !.pc = "looking"], t, DOMAIN conviction, DOMAIN cache)
  BY <1>1, LookingIsSound
<1>3. task' = [task EXCEPT ![t] = [task[t] EXCEPT !.pc = "looking"]]
  BY <1>1
<1> QED
  BY <1>1, <1>2, <1>3, OneTaskMoves

\* The answer on the image url, which has not been read, is list: the objects it is
\* made of are new.
Reads(url, list) ==
  /\ url \in Images /\ url \notin DOMAIN cache
  /\ DOMAIN list \subseteq Nat
  /\ \A k \in DOMAIN list : /\ list[k] \in Mentions /\ list[k].how = "image"
                            /\ list[k].object = <<url, k>>
  /\ DOMAIN cache' = DOMAIN cache \cup {url} /\ cache'[url] = list
  /\ \A other \in DOMAIN cache : other # url => cache'[other] = cache[other]
  /\ DOMAIN conviction' = DOMAIN conviction \cup {list[k].object : k \in DOMAIN list}
  /\ \A o \in DOMAIN conviction' :
       conviction'[o] = IF \E k \in DOMAIN list : o = list[k].object
                        THEN 50 ELSE conviction[o]

\* What an answer is.
LEMMA AnswerOfImage ==
  ASSUME ReadingInv, TextIsKept, NEW t \in Tasks, Answer(t)
  PROVE  \E list : Reads(Head(task[t].media), list) /\ Seen(t, list)
<1> DEFINE url == Head(task[t].media)
<1>1. /\ Sound(task[t], t, DOMAIN conviction, DOMAIN cache) /\ task[t].pc = "looking"
      /\ task[t] \in TaskStates
  BY TasksAreSound DEF Answer, At
<1>2. url \in Images /\ url \notin DOMAIN cache
  <2>1. task[t].media \in Seq(Images) /\ task[t].media # <<>>
    BY <1>1 DEF Sound, TaskStates
  <2> QED
    BY <1>1, <2>1, HeadAndTail DEF Sound
<1>3. PICK items \in ImageAnswers :
        LET ms == OffImage(url, items)
            objects == {ms[k].object : k \in DOMAIN ms} IN
        /\ cache' = Put(cache, url, ms)
        /\ conviction' = [o \in DOMAIN conviction \cup objects |->
                            IF o \in objects THEN 50 ELSE conviction[o]]
        /\ Seen(t, ms)
  BY DEF Answer
<1> DEFINE list == OffImage(url, items)
<1>4. /\ DOMAIN list \subseteq Nat /\ Seen(t, list)
      /\ \A k \in DOMAIN list : /\ list[k] \in Mentions /\ list[k].how = "image"
                                /\ list[k].object = <<url, k>>
  BY <1>2, <1>3, MentionsOffImage
<1>5. cache' = Put(cache, url, list)
  BY <1>3
<1>6. /\ DOMAIN conviction' = DOMAIN conviction \cup {list[k].object : k \in DOMAIN list}
      /\ \A o \in DOMAIN conviction' :
           conviction'[o] = IF \E k \in DOMAIN list : o = list[k].object
                            THEN 50 ELSE conviction[o]
  BY <1>3
<1> HIDE DEF list
<1>7. /\ DOMAIN cache' = DOMAIN cache \cup {url} /\ cache'[url] = list
      /\ \A other \in DOMAIN cache : other # url => cache'[other] = cache[other]
  BY <1>5 DEF Put
<1> HIDE DEF url
<1>8. Reads(url, list) /\ Seen(t, list)
  BY <1>2, <1>4, <1>6, <1>7 DEF Reads
<1> QED
  BY <1>8 DEF url

\* The answer becomes part of what the task has found.
LEMMA AnswerMoves ==
  ASSUME ReadingInv, TextIsKept, NEW t \in Tasks, Answer(t)
  PROVE  Moved(t)
<1> DEFINE url == Head(task[t].media)
<1>1. PICK list : Reads(url, list) /\ Seen(t, list)
  BY AnswerOfImage
<1>2. At(t, "looking")
  BY DEF Answer
<1> HIDE DEF url
<1>3. /\ DOMAIN list \subseteq Nat
      /\ \A k \in DOMAIN list : /\ list[k] \in Mentions /\ list[k].how = "image"
                                /\ list[k].object \in DOMAIN conviction'
                                /\ list[k].object[1] = url
      /\ DOMAIN conviction \subseteq DOMAIN conviction'
  BY <1>1 DEF Reads
<1>4. t = Loop
  BY <1>2, TasksAreSound DEF Sound, At
<1> QED
  BY <1>1, <1>2, <1>3, <1>4, SeenMoves DEF url

\* An exception ends the task, as does the alert.
LEMMA QuitMoves ==
  ASSUME ReadingInv, TextIsKept, NEW t \in Tasks, Refused(t) \/ LookFails(t) \/ Alert(t)
  PROVE  Moved(t)
<1>1. /\ conviction' = conviction /\ cache' = cache
      /\ task' = [task EXCEPT ![t] = NoTask]
  BY DEF Refused, LookFails, Alert, shared
<1> QED
  BY <1>1, NoTaskIsSound, OneTaskMoves

\* What a label of the LLM or of the rules does.
LEMMA JudgeOfPost ==
  ASSUME NEW t \in Tasks, Stance(t), ReadingInv
  PROVE  /\ task[t].pc = "stance"
         /\ \E label \in Labels : Judge(t, label)
<1>1. task[t].pc = "stance" /\ task[t].post \in Posts
  BY DEF Stance, At, ReadingInv, StageInv
<1>2. \A label \in StanceAnswers : label \in Labels
  BY Answers
<1>3. RuleStance(The(t)) \in Labels
  BY <1>1, RulesLabel DEF The
<1> QED
  BY <1>1, <1>2, <1>3 DEF Stance

\* The post gets its label.
LEMMA StanceMoves ==
  ASSUME ReadingInv, TextIsKept, NEW t \in Tasks, Stance(t)
  PROVE  Moved(t)
<1>1. PICK label \in Labels : Judge(t, label)
  BY JudgeOfPost
<1>2. /\ Sound(task[t], t, DOMAIN conviction, DOMAIN cache) /\ task[t].pc = "stance"
      /\ task \in [Tasks -> TaskStates] /\ cache' = cache
      /\ DOMAIN conviction' = DOMAIN conviction
  BY <1>1, TasksAreSound, JudgeOfPost DEF Judge, Stance
<1> DEFINE pc == IF task[t].new THEN "feed" ELSE "alert"
           found == Dedupe(Labelled(task[t].found, label))
           r == [task[t] EXCEPT !.found = found, !.own = label.conviction, !.pc = pc]
<1>3. task' = [task EXCEPT ![t].found = found, ![t].own = label.conviction, ![t].pc = pc]
  BY <1>1, <1>2 DEF Judge
<1>4. pc \in {"feed", "alert"}
  OBVIOUS
<1> HIDE DEF pc
<1>5. Sound(r, t, DOMAIN conviction, DOMAIN cache)
  BY <1>2, <1>4, LabelledIsSound
<1> HIDE DEF found
<1>6. task' = [task EXCEPT ![t] = r]
  BY <1>2, <1>3
<1> HIDE DEF r
<1> QED
  BY <1>2, <1>5, <1>6, OneTaskMoves

\* The mentions are fed to the Analyzer, and their conviction is saved.
LEMMA OnMoves ==
  ASSUME ReadingInv, TextIsKept, NEW t \in Tasks, Feed(t) \/ SaveConviction(t)
  PROVE  Moved(t)
<1>1. /\ Sound(task[t], t, DOMAIN conviction, DOMAIN cache) /\ task[t].pc # "idle"
      /\ task \in [Tasks -> TaskStates] /\ cache' = cache /\ conviction' = conviction
  BY TasksAreSound DEF Feed, SaveConviction, At, shared
<1>2. \/ task' = [task EXCEPT ![t].pc = "save"] \/ task' = [task EXCEPT ![t].pc = "alert"]
  BY DEF Feed, SaveConviction
<1>3. ASSUME NEW next \in {"save", "alert"}, task' = [task EXCEPT ![t].pc = next]
      PROVE  Moved(t)
  <2>1. task' = [task EXCEPT ![t] = [task[t] EXCEPT !.pc = next]]
    BY <1>1, <1>3
  <2>2. Sound([task[t] EXCEPT !.pc = next], t, DOMAIN conviction, DOMAIN cache)
    BY <1>1, OnIsSound
  <2> QED
    BY <1>1, <2>1, <2>2, OneTaskMoves
<1> QED
  BY <1>2, <1>3

\* Whatever a task does next, it moves as it should.
LEMMA TasksMove ==
  ASSUME ReadingInv, TextIsKept, NEW t \in Tasks,
         Continue(t) \/ \E p \in Posts : Take(t, p)
  PROVE  Moved(t)
<1>1. CASE \E p \in Posts : Take(t, p)
  BY <1>1, TakeMoves
<1>2. CASE Continue(t)
  BY <1>2, RelevanceMoves, InferMoves, CacheMoves, LookMoves, AnswerMoves, QuitMoves,
     StanceMoves, OnMoves DEF Continue
<1> QED
  BY <1>1, <1>2

-----------------------------------------------------------------------------
(* The invariant                                                           *)

\* A step keeps every task sound: its own, and those that it leaves alone.
LEMMA NextTasks ==
  ASSUME ReadingInv, TextIsKept, [Next]_vars
  PROVE  /\ task' \in [Tasks -> TaskStates]
         /\ \A u \in Tasks : Sound(task'[u], u, DOMAIN conviction', DOMAIN cache')
<1>1. /\ task \in [Tasks -> TaskStates]
      /\ \A u \in Tasks : Sound(task[u], u, DOMAIN conviction, DOMAIN cache)
  BY TasksAreSound DEF ReadingInv, TypeOK
<1>2. ASSUME NEW t \in Tasks, Moved(t)
      PROVE  /\ task' \in [Tasks -> TaskStates]
             /\ \A u \in Tasks : Sound(task'[u], u, DOMAIN conviction', DOMAIN cache')
  <2>1. ASSUME NEW u \in Tasks, u # t
        PROVE  Sound(task'[u], u, DOMAIN conviction', DOMAIN cache')
    <3>1. /\ task'[u] = task[u] /\ DOMAIN conviction \subseteq DOMAIN conviction'
          /\ u = Loop => DOMAIN cache' \subseteq DOMAIN cache
      BY <1>2, <2>1 DEF Moved
    <3> QED
      BY <1>1, <3>1, SoundForOthers
  <2> QED
    BY <1>2, <2>1 DEF Moved
<1>3. CASE UNCHANGED <<task, conviction, cache>>
  BY <1>1, <1>3
<1>4. CASE Crash
  <2>1. task' = [t \in Tasks |-> NoTask]
    BY <1>4 DEF Crash
  <2>2. NoTask \in TaskStates
    BY NoTaskIsSound DEF Sound
  <2> QED
    BY <2>1, <2>2, NoTaskIsSound
<1> QED
  BY <1>2, <1>3, <1>4, TasksMove DEF Next, ScanAsks, Midnight, vars, shared

\* What a step does to the cache: an answer or a label changes it, a restart
\* empties it.
LEMMA StepOfCache ==
  ASSUME [Next]_vars
  PROVE  \/ UNCHANGED <<cache, conviction>>
         \/ \E t \in Tasks : Answer(t)
         \/ \E t \in Tasks : Stance(t)
         \/ Crash
<1>1. ASSUME NEW t \in Tasks, Continue(t)
      PROVE  UNCHANGED <<cache, conviction>> \/ Answer(t) \/ Stance(t)
  BY <1>1 DEF Continue, Relevance, Infer, CacheHit, OverVision, LookAt, Refused,
     LookFails, Feed, SaveConviction, Alert, shared
<1>2. ASSUME NEW t \in Tasks, NEW p \in Posts, Take(t, p)
      PROVE  UNCHANGED <<cache, conviction>>
  BY <1>2 DEF Take, shared
<1> QED
  BY <1>1, <1>2 DEF Next, ScanAsks, Midnight, vars, shared

\* The invariant, as it speaks of the cache and its objects.
CacheSound ==
  /\ DOMAIN cache \subseteq Images
  /\ \A url \in DOMAIN cache :
       /\ DOMAIN cache[url] \subseteq Nat
       /\ \A k \in DOMAIN cache[url] :
            /\ cache[url][k] \in Mentions /\ cache[url][k].how = "image"
            /\ cache[url][k].object \in DOMAIN conviction
            /\ cache[url][k].object[1] = url
  /\ DOMAIN conviction \subseteq Objects
  /\ \A o \in DOMAIN conviction : /\ conviction[o] \in 0 .. 100
                                  /\ o[1] \in DOMAIN cache

\* An answer adds an image, and the objects made of it; a label changes the
\* conviction of objects there are.
LEMMA NextCache ==
  ASSUME ReadingInv, TextIsKept, [Next]_vars
  PROVE  CacheSound'
<1>1. CacheSound
  BY DEF ReadingInv, TypeOK, CacheInv, CacheSound
<1>2. CASE UNCHANGED <<cache, conviction>>
  BY <1>1, <1>2 DEF CacheSound
<1>3. ASSUME NEW t \in Tasks, Answer(t)
      PROVE  CacheSound'
  <2> DEFINE url == Head(task[t].media)
  <2>1. PICK list : Reads(url, list)
    BY <1>3, AnswerOfImage
  <2> HIDE DEF url
  <2>2. DOMAIN cache' \subseteq Images
    BY <1>1, <2>1 DEF CacheSound, Reads
  <2>3. ASSUME NEW k \in DOMAIN list
        PROVE  /\ list[k].object \in Objects /\ list[k].object[1] = url
               /\ list[k] \in Mentions /\ list[k].how = "image"
    <3>1. /\ k \in Nat /\ url \in Images /\ list[k].object = <<url, k>>
          /\ list[k] \in Mentions /\ list[k].how = "image"
      BY <2>1 DEF Reads
    <3>2. <<url, k>> \in Objects
      BY <3>1 DEF Objects
    <3> QED
      BY <3>1, <3>2
  <2>4. ASSUME NEW other \in DOMAIN cache'
        PROVE  /\ DOMAIN cache'[other] \subseteq Nat
               /\ \A k \in DOMAIN cache'[other] :
                    /\ cache'[other][k] \in Mentions /\ cache'[other][k].how = "image"
                    /\ cache'[other][k].object \in DOMAIN conviction'
                    /\ cache'[other][k].object[1] = other
    <3>1. CASE other = url
      BY <2>1, <2>3, <3>1 DEF Reads
    <3>2. CASE other # url
      <4>1. other \in DOMAIN cache /\ cache'[other] = cache[other]
            /\ DOMAIN conviction \subseteq DOMAIN conviction'
        BY <2>1, <3>2 DEF Reads
      <4> QED
        BY <1>1, <4>1 DEF CacheSound
    <3> QED
      BY <3>1, <3>2
  <2>5. ASSUME NEW o \in DOMAIN conviction'
        PROVE  /\ o \in Objects /\ conviction'[o] \in 0 .. 100
               /\ o[1] \in DOMAIN cache'
    <3>1. CASE \E k \in DOMAIN list : o = list[k].object
      <4>1. conviction'[o] = 50 /\ url \in DOMAIN cache'
        BY <2>1, <3>1 DEF Reads
      <4>2. o \in Objects /\ o[1] = url
        BY <2>3, <3>1
      <4> QED
        BY <4>1, <4>2
    <3>2. CASE ~ \E k \in DOMAIN list : o = list[k].object
      <4>1. /\ o \in DOMAIN conviction /\ conviction'[o] = conviction[o]
            /\ DOMAIN cache \subseteq DOMAIN cache'
        BY <2>1, <3>2 DEF Reads
      <4> QED
        BY <1>1, <4>1 DEF CacheSound
    <3> QED
      BY <3>1, <3>2
  <2> QED
    BY <2>2, <2>4, <2>5 DEF CacheSound
<1>4. ASSUME NEW t \in Tasks, Stance(t)
      PROVE  CacheSound'
  <2>1. PICK label \in Labels : Judge(t, label)
    BY <1>4, JudgeOfPost
  <2>2. /\ DOMAIN conviction' = DOMAIN conviction /\ label.conviction \in 0 .. 100
        /\ \A o \in DOMAIN conviction : \/ conviction'[o] = conviction[o]
                                        \/ conviction'[o] = label.conviction
    BY <2>1 DEF Judge, Labels
  <2>3. cache' = cache
    BY <1>4 DEF Stance
  <2> QED
    BY <1>1, <2>2, <2>3 DEF CacheSound
<1>5. CASE Crash
  <2>1. DOMAIN cache' = {} /\ DOMAIN conviction' = {}
    BY <1>5 DEF Crash
  <2> QED
    BY <2>1 DEF CacheSound
<1> QED
  BY <1>2, <1>3, <1>4, <1>5, StepOfCache

\* The share of images, and the rows.
LEMMA NextRows ==
  ASSUME ReadingInv, TextIsKept, [Next]_vars
  PROVE  /\ visionUsed' \in 0 .. VisionLimit /\ inserted' \subseteq Posts
         /\ saved' \in [Posts -> 0 .. 100 \cup {NoRow}]
         /\ labels' \in [Posts -> SUBSET (0 .. 100)]
<1>1. /\ visionUsed \in 0 .. VisionLimit /\ inserted \subseteq Posts /\ VisionLimit \in Nat
      /\ saved \in [Posts -> 0 .. 100 \cup {NoRow}]
      /\ labels \in [Posts -> SUBSET (0 .. 100)]
  BY BudgetAssumption DEF ReadingInv, TypeOK
<1>2. visionUsed' = visionUsed \/ (visionUsed < VisionLimit /\ visionUsed' = visionUsed + 1)
      \/ visionUsed' = 0
  <2>1. ASSUME NEW t \in Tasks, Continue(t)
        PROVE  visionUsed' = visionUsed \/ (visionUsed < VisionLimit /\ visionUsed' = visionUsed + 1)
    BY <2>1 DEF Continue, Relevance, Infer, CacheHit, OverVision, LookAt, Answer, Refused,
       LookFails, Stance, Feed, SaveConviction, Alert, shared
  <2> QED
    BY <2>1 DEF Next, Take, ScanAsks, Midnight, Crash, vars, shared
<1>3. inserted' = inserted \/ \E p \in Posts : inserted' = inserted \cup {p}
  <2>1. ASSUME NEW t \in Tasks, Continue(t)
        PROVE  inserted' = inserted
    BY <2>1 DEF Continue, Relevance, Infer, CacheHit, OverVision, LookAt, Answer, Refused,
       LookFails, Stance, Feed, SaveConviction, Alert
  <2> QED
    BY <2>1 DEF Next, Take, ScanAsks, Midnight, Crash, vars
<1>4. saved' = saved \/ \E t \in Tasks : SaveConviction(t)
  <2>1. ASSUME NEW t \in Tasks, Continue(t)
        PROVE  saved' = saved \/ SaveConviction(t)
    BY <2>1 DEF Continue, Relevance, Infer, CacheHit, OverVision, LookAt, Answer, Refused,
       LookFails, Stance, Feed, Alert
  <2> QED
    BY <2>1 DEF Next, Take, ScanAsks, Midnight, Crash, vars
<1>5. ASSUME NEW t \in Tasks, SaveConviction(t)
      PROVE  saved' \in [Posts -> 0 .. 100 \cup {NoRow}]
  <2>1. PICK m \in task[t].found :
          \/ saved' = saved
          \/ saved' = [saved EXCEPT ![task[t].post] = ConvictionOf(t, m)]
    BY <1>1, <1>5 DEF SaveConviction
  <2>2. task[t] \in TaskStates /\ (m.how = "image" => conviction[m.object] \in 0 .. 100)
    BY DEF ReadingInv, TypeOK, CacheInv
  <2>3. ConvictionOf(t, m) \in 0 .. 100
    BY <2>2 DEF ConvictionOf, TaskStates
  <2> QED
    BY <1>1, <2>1, <2>3
<1>6. labels' = labels \/ \E t \in Tasks : Stance(t)
  <2>1. ASSUME NEW t \in Tasks, Continue(t)
        PROVE  labels' = labels \/ Stance(t)
    BY <2>1 DEF Continue, Relevance, Infer, CacheHit, OverVision, LookAt, Answer, Refused,
       LookFails, SaveConviction, Feed, Alert
  <2> QED
    BY <2>1 DEF Next, Take, ScanAsks, Midnight, Crash, vars
<1>7. ASSUME NEW t \in Tasks, Stance(t)
      PROVE  labels' \in [Posts -> SUBSET (0 .. 100)]
  <2>1. PICK label \in Labels : Judge(t, label)
    BY <1>7, JudgeOfPost
  <2>2. /\ label.conviction \in 0 .. 100
        /\ labels' = [labels EXCEPT ![task[t].post] =
                        labels[task[t].post] \cup {label.conviction}]
    BY <2>1 DEF Judge, Labels
  <2> QED
    BY <1>1, <2>2
<1> QED
  BY <1>1, <1>2, <1>3, <1>4, <1>5, <1>6, <1>7

\* The invariant is kept, and the text with it.
LEMMA NextReading ==
  ASSUME ReadingInv, TextIsKept, [Next]_vars
  PROVE  ReadingInv' /\ TextIsKept'
<1>1. /\ task' \in [Tasks -> TaskStates]
      /\ \A u \in Tasks : Sound(task'[u], u, DOMAIN conviction', DOMAIN cache')
  BY NextTasks
<1>2. CacheSound'
  BY NextCache
<1>3. TypeOK'
  BY <1>1, <1>2, NextBudgetTypes, NextRows DEF TypeOK, CacheSound, ReadingInv
<1>4. StageInv'
  BY <1>1 DEF Sound, StageInv, At, The
<1>5. CacheInv'
  BY <1>1, <1>2 DEF Sound, CacheSound, CacheInv, At
<1>6. OneMentionPerContract'
  BY <1>1 DEF Sound, OneMentionPerContract
<1>7. TextIsKept'
  BY <1>1 DEF Sound, Keeps, TextIsKept, The
<1> QED
  BY <1>3, <1>4, <1>5, <1>6, <1>7 DEF ReadingInv

-----------------------------------------------------------------------------
(* The conviction of a post                                                *)

\* The stages at which the post of a task has its label.
Labelling == {"feed", "save", "alert"}

\* What the invariant says of a task, given the convictions and the labels.
OwnOf(r, convictions, given) ==
  r.pc \in Labelling =>
    /\ r.own \in given[r.post]
    /\ \A m \in r.found : m.how = "image" => convictions[m.object] = r.own

\* The convictions that are there stay as they are, and no task gets to the end of
\* extract.
Unlabelled ==
  /\ labels' = labels /\ \A o \in DOMAIN conviction : conviction'[o] = conviction[o]
  /\ \A u \in Tasks :
       task'[u].pc \in Labelling =>
         /\ task[u].pc \in Labelling /\ task'[u].found = task[u].found
         /\ task'[u].post = task[u].post /\ task'[u].own = task[u].own

\* No step of a task but the stance does.
LEMMA StepOfLabels ==
  ASSUME ReadingInv, TextIsKept, [Next]_vars
  PROVE  \/ Unlabelled /\ (saved' = saved \/ \E t \in Tasks : SaveConviction(t))
         \/ \E t \in Tasks : Stance(t)
         \/ Crash
<1>1. task \in [Tasks -> TaskStates]
  BY DEF ReadingInv, TypeOK
<1>2. ASSUME NEW t \in Tasks, labels' = labels, conviction' = conviction,
             \A u \in Tasks \ {t} : task'[u] = task[u],
             task'[t].pc \in Labelling =>
               /\ task[t].pc \in Labelling /\ task'[t].found = task[t].found
               /\ task'[t].post = task[t].post /\ task'[t].own = task[t].own
      PROVE  Unlabelled
  BY <1>2 DEF Unlabelled
<1>3. ASSUME NEW t \in Tasks, NEW p \in Posts, Take(t, p)
      PROVE  Unlabelled /\ saved' = saved
  <2>1. task'[t].pc \in {"relevance", "infer", "image", "stance"}
    BY <1>1, <1>3, NextStage DEF Take, MediaFor
  <2>2. /\ labels' = labels /\ conviction' = conviction /\ saved' = saved
        /\ \A u \in Tasks \ {t} : task'[u] = task[u]
    BY <1>1, <1>3 DEF Take, shared
  <2> QED
    BY <1>2, <2>1, <2>2 DEF Labelling
<1>4. ASSUME NEW t \in Tasks, Relevance(t) \/ Infer(t)
      PROVE  Unlabelled /\ saved' = saved
  <2>1. /\ labels' = labels /\ conviction' = conviction /\ saved' = saved
        /\ \A u \in Tasks \ {t} : task'[u] = task[u]
    BY <1>1, <1>4 DEF Relevance, Infer
  <2>2. task'[t].pc \in {"infer", "image", "stance"}
    <3>1. \A x, media, ms : /\ AfterText(x, media, ms) \in {"infer", "image", "stance"}
                            /\ AfterInference(media, ms) \in {"image", "stance"}
      BY NextStage
    <3>2. CASE Relevance(t)
      <4>1. \/ \E kept, out :
                task' = [task EXCEPT ![t].found = kept, ![t].dropped = out,
                                     ![t].pc = AfterText(The(t), task[t].media, kept)]
            \/ task' = [task EXCEPT ![t].pc = "stance"]
        BY <3>2 DEF Relevance
      <4>2. ASSUME NEW kept, NEW out, NEW pc,
                   task' = [task EXCEPT ![t].found = kept, ![t].dropped = out, ![t].pc = pc]
            PROVE  task'[t].pc = pc
        BY <1>1, <4>2
      <4>3. ASSUME task' = [task EXCEPT ![t].pc = "stance"]
            PROVE  task'[t].pc = "stance"
        BY <1>1, <4>3
      <4>4. ASSUME NEW kept, NEW out,
                   task' = [task EXCEPT ![t].found = kept, ![t].dropped = out,
                                        ![t].pc = AfterText(The(t), task[t].media, kept)]
            PROVE  task'[t].pc \in {"infer", "image", "stance"}
        <5> DEFINE pc == AfterText(The(t), task[t].media, kept)
        <5>1. pc \in {"infer", "image", "stance"}
          BY <3>1
        <5>2. task' = [task EXCEPT ![t].found = kept, ![t].dropped = out, ![t].pc = pc]
          BY <4>4
        <5> HIDE DEF pc
        <5> QED
          BY <4>2, <5>1, <5>2
      <4> QED
        BY <4>1, <4>3, <4>4
    <3>3. CASE Infer(t)
      <4>1. PICK ms : task' = [task EXCEPT ![t].found = ms,
                                           ![t].pc = AfterInference(task[t].media, ms)]
        BY <3>3 DEF Infer
      <4> DEFINE pc == AfterInference(task[t].media, ms)
      <4>2. pc \in {"image", "stance"}
        BY <3>1
      <4>3. task' = [task EXCEPT ![t].found = ms, ![t].pc = pc]
        BY <4>1
      <4> HIDE DEF pc
      <4> QED
        BY <1>1, <4>2, <4>3
    <3> QED
      BY <1>4, <3>2, <3>3
  <2> QED
    BY <1>2, <2>1, <2>2 DEF Labelling
<1>5. ASSUME NEW t \in Tasks, CacheHit(t) \/ OverVision(t) \/ LookAt(t)
      PROVE  Unlabelled /\ saved' = saved
  <2>1. /\ labels' = labels /\ conviction' = conviction /\ saved' = saved
        /\ \A u \in Tasks \ {t} : task'[u] = task[u]
    BY <1>1, <1>5 DEF CacheHit, OverVision, LookAt, Seen, shared
  <2>2. task'[t].pc \in {"stance", "image", "looking"}
    <3>1. ASSUME NEW list, Seen(t, list)
          PROVE  task'[t].pc \in {"stance", "image"}
      BY <1>1, <3>1 DEF Seen
    <3>2. CASE LookAt(t)
      BY <1>1, <3>2 DEF LookAt
    <3> QED
      BY <1>5, <3>1, <3>2 DEF CacheHit, OverVision
  <2> QED
    BY <1>2, <2>1, <2>2 DEF Labelling
<1>6. ASSUME NEW t \in Tasks, Answer(t)
      PROVE  Unlabelled /\ saved' = saved
  <2>1. PICK list : Reads(Head(task[t].media), list) /\ Seen(t, list)
    BY <1>6, AnswerOfImage
  <2>2. /\ labels' = labels /\ saved' = saved
        /\ \A u \in Tasks \ {t} : task'[u] = task[u]
        /\ task'[t].pc \in {"stance", "image"}
    BY <1>1, <1>6, <2>1 DEF Answer, Seen
  <2>3. ASSUME NEW o \in DOMAIN conviction
        PROVE  conviction'[o] = conviction[o]
    <3> DEFINE url == Head(task[t].media)
    <3>1. o[1] \in DOMAIN cache
      BY DEF ReadingInv, CacheInv
    <3>2. /\ url \notin DOMAIN cache
          /\ \A k \in DOMAIN list : list[k].object = <<url, k>>
          /\ o \in DOMAIN conviction'
          /\ (~ \E k \in DOMAIN list : o = list[k].object) => conviction'[o] = conviction[o]
      BY <2>1 DEF Reads
    <3> HIDE DEF url
    <3>3. ASSUME NEW k \in DOMAIN list, o = list[k].object
          PROVE  FALSE
      <4>1. o = <<url, k>>
        BY <3>2, <3>3
      <4>2. o[1] = url
        BY <4>1
      <4> QED
        BY <3>1, <3>2, <4>2
    <3> QED
      BY <3>2, <3>3
  <2> QED
    BY <2>2, <2>3 DEF Unlabelled, Labelling
<1>7. ASSUME NEW t \in Tasks, Refused(t) \/ LookFails(t) \/ Alert(t)
      PROVE  Unlabelled /\ saved' = saved
  <2>1. /\ labels' = labels /\ conviction' = conviction /\ saved' = saved
        /\ \A u \in Tasks \ {t} : task'[u] = task[u]
        /\ task'[t].pc = "idle"
    BY <1>1, <1>7 DEF Refused, LookFails, Alert, NoTask, shared
  <2> QED
    BY <1>2, <2>1 DEF Labelling
<1>8. ASSUME NEW t \in Tasks, Feed(t) \/ SaveConviction(t)
      PROVE  Unlabelled /\ (saved' = saved \/ SaveConviction(t))
  <2>1. /\ labels' = labels /\ conviction' = conviction
        /\ saved' = saved \/ SaveConviction(t)
        /\ task[t].pc \in Labelling
    BY <1>8 DEF Feed, SaveConviction, At, Labelling, shared
  <2>2. \E next : task' = [task EXCEPT ![t].pc = next]
    BY <1>8 DEF Feed, SaveConviction
  <2>3. /\ \A u \in Tasks \ {t} : task'[u] = task[u]
        /\ task'[t].found = task[t].found /\ task'[t].post = task[t].post
        /\ task'[t].own = task[t].own
    BY <1>1, <2>2
  <2> QED
    BY <1>2, <2>1, <2>3
<1>9. CASE UNCHANGED <<labels, conviction, saved, task>>
  BY <1>9 DEF Unlabelled
<1> QED
  BY <1>3, <1>4, <1>5, <1>6, <1>7, <1>8, <1>9
     DEF Next, Continue, ScanAsks, Midnight, vars, shared

\* The label of a post is of the post.  It goes into all the mentions of its task,
\* and the mentions of an image are with one task only.
LEMMA NextConviction ==
  ASSUME ReadingInv, TextIsKept, ConvictionIsOwn, [Next]_vars
  PROVE  ConvictionIsOwn'
<1>1. /\ task \in [Tasks -> TaskStates] /\ saved \in [Posts -> 0 .. 100 \cup {NoRow}]
      /\ labels \in [Posts -> SUBSET (0 .. 100)]
  BY DEF ReadingInv, TypeOK
<1>2. \A t \in Tasks : task[t].pc \in Labelling => task[t].post \in Posts
  BY DEF ReadingInv, StageInv, At, Labelling
<1>3. /\ \A p \in Posts : saved[p] \in {NoRow} \cup labels[p]
      /\ \A t \in Tasks : OwnOf(task[t], conviction, labels)
  BY DEF ConvictionIsOwn, ConvictionOf, OwnOf, Labelling
<1>4. ASSUME \A p \in Posts : saved'[p] \in {NoRow} \cup labels'[p],
             \A t \in Tasks : OwnOf(task'[t], conviction', labels')
      PROVE  ConvictionIsOwn'
  BY <1>4 DEF ConvictionIsOwn, ConvictionOf, OwnOf, Labelling
<1>5. CASE Unlabelled /\ (saved' = saved \/ \E t \in Tasks : SaveConviction(t))
  <2>1. /\ labels' = labels
        /\ \A o \in DOMAIN conviction : conviction'[o] = conviction[o]
        /\ \A u \in Tasks :
             task'[u].pc \in Labelling =>
               /\ task[u].pc \in Labelling /\ task'[u].found = task[u].found
               /\ task'[u].post = task[u].post /\ task'[u].own = task[u].own
    BY <1>5 DEF Unlabelled
  <2>2. ASSUME NEW t \in Tasks
        PROVE  OwnOf(task'[t], conviction', labels')
    <3>1. \A m \in task[t].found : m.how = "image" => m.object \in DOMAIN conviction
      BY DEF ReadingInv, CacheInv
    <3> QED
      BY <1>3, <2>1, <3>1 DEF OwnOf
  <2>3. ASSUME NEW p \in Posts
        PROVE  saved'[p] \in {NoRow} \cup labels'[p]
    <3>1. ASSUME NEW t \in Tasks, SaveConviction(t)
          PROVE  saved'[p] = saved[p] \/ saved'[p] \in labels[p]
      <4>1. PICK m \in task[t].found :
              \/ saved' = saved
              \/ saved' = [saved EXCEPT ![task[t].post] = ConvictionOf(t, m)]
        BY <1>1, <3>1 DEF SaveConviction
      <4>2. task[t].pc \in Labelling
        BY <3>1 DEF SaveConviction, At, Labelling
      <4>3. ConvictionOf(t, m) \in labels[task[t].post]
        BY <1>3, <4>2 DEF OwnOf, ConvictionOf
      <4> QED
        BY <1>1, <4>1, <4>3
    <3> QED
      BY <1>3, <1>5, <2>1, <3>1
  <2> QED
    BY <1>4, <2>2, <2>3
<1>6. ASSUME NEW s \in Tasks, Stance(s)
      PROVE  ConvictionIsOwn'
  <2> DEFINE p == task[s].post
  <2>1. PICK label \in Labels : Judge(s, label)
    BY <1>6, JudgeOfPost
  <2>2. /\ p \in Posts /\ labels' = [labels EXCEPT ![p] = labels[p] \cup {label.conviction}]
        /\ saved' = saved
        /\ task' = [task EXCEPT ![s].found = Dedupe(Labelled(task[s].found, label)),
                                ![s].own = label.conviction,
                                ![s].pc = IF task[s].new THEN "feed" ELSE "alert"]
    BY <1>6, <2>1, JudgeOfPost DEF Judge, Stance, ReadingInv, StageInv, At
  <2>3. /\ label.conviction \in labels'[p] /\ \A q \in Posts : labels[q] \subseteq labels'[q]
    BY <1>1, <2>2
  <2>4. /\ \A u \in Tasks \ {s} : task'[u] = task[u]
        /\ task'[s].post = p /\ task'[s].own = label.conviction
        /\ task'[s].found = Dedupe(Labelled(task[s].found, label))
    BY <1>1, <2>2
  <2>5. ASSUME NEW m \in task[s].found, m.how = "image"
        PROVE  conviction'[m.object] = label.conviction
    <3>1. m.object \in DOMAIN conviction
      BY <2>5 DEF ReadingInv, CacheInv
    <3> QED
      BY <2>1, <3>1 DEF Judge
  <2>6. ASSUME NEW u \in Tasks \ {s}
        PROVE  OwnOf(task'[u], conviction', labels')
    <3> SUFFICES ASSUME task[u].pc \in Labelling
                 PROVE  /\ task[u].own \in labels'[task[u].post]
                        /\ \A m \in task[u].found :
                             m.how = "image" => conviction'[m.object] = task[u].own
      BY <2>4 DEF OwnOf
    <3>1. task[u].own \in labels'[task[u].post]
      BY <1>2, <1>3, <2>3 DEF OwnOf
    <3>2. ASSUME NEW m \in task[u].found, m.how = "image"
          PROVE  conviction'[m.object] = task[u].own
      <4>1. u = Loop /\ m.object \in DOMAIN conviction /\ conviction[m.object] = task[u].own
        BY <1>3, <3>2 DEF OwnOf, ReadingInv, CacheInv
      <4>2. m.object # <<>>
        <5>1. m.object \in Images \X Nat
          BY <4>1 DEF ReadingInv, TypeOK, Objects
        <5>2. PICK url \in Images, k \in Nat : m.object = <<url, k>>
          BY <5>1
        <5>3. Len(<<url, k>>) = 2 /\ Len(<<>>) = 0
          OBVIOUS
        <5> QED
          BY <5>2, <5>3
      <4>3. \A n \in task[s].found : n.object = <<>>
        BY <4>1 DEF ReadingInv, CacheInv
      <4> QED
        BY <2>1, <4>1, <4>2, <4>3 DEF Judge
    <3> QED
      BY <3>1, <3>2
  <2>7. OwnOf(task'[s], conviction', labels')
    <3> SUFFICES ASSUME NEW n \in task'[s].found, n.how = "image"
                 PROVE  conviction'[n.object] = label.conviction
      BY <2>3, <2>4 DEF OwnOf
    <3>1. task[s].found \in SUBSET Mentions /\ OneEach(task[s].found)
      BY <1>1 DEF TaskStates, ReadingInv, OneMentionPerContract
    <3>2. PICK m \in task[s].found : n.how = m.how /\ n.object = m.object
      BY <2>4, <3>1, Judged
    <3> QED
      BY <2>5, <3>2
  <2>8. \A q \in Posts : saved'[q] \in {NoRow} \cup labels'[q]
    BY <1>3, <2>2, <2>3
  <2> QED
    BY <1>4, <2>6, <2>7, <2>8
<1>7. CASE Crash
  <2>1. /\ labels' = labels /\ saved' = saved
        /\ \A t \in Tasks : task'[t].pc = "idle"
    BY <1>7 DEF Crash, NoTask
  <2>2. \A t \in Tasks : OwnOf(task'[t], conviction', labels')
    BY <2>1 DEF OwnOf, Labelling
  <2> QED
    BY <1>3, <1>4, <2>1, <2>2
<1> QED
  BY <1>5, <1>6, <1>7, StepOfLabels


-----------------------------------------------------------------------------
(* The theorems                                                            *)

\* Before the first post there is nothing to be wrong about.
LEMMA InitReading == Init => ReadingInv /\ TextIsKept /\ BudgetIsExact /\ ConvictionIsOwn
<1> SUFFICES ASSUME Init
             PROVE  ReadingInv /\ TextIsKept /\ BudgetIsExact /\ ConvictionIsOwn
  OBVIOUS
<1>1. /\ today = 0 /\ llm = [day |-> 0, used |-> 0] /\ calls = 0 /\ visionUsed = 0
      /\ DOMAIN cache = {} /\ DOMAIN conviction = {}
      /\ task = [t \in Tasks |-> NoTask] /\ inserted = {}
      /\ saved = [p \in Posts |-> NoRow] /\ labels = [p \in Posts |-> {}]
      /\ MaxDays \in Nat /\ VisionLimit \in Nat /\ DailyLimit \in Nat
  BY BudgetAssumption DEF Init
<1>2. task \in [Tasks -> TaskStates]
  BY <1>1, NoTaskIsSound DEF Sound
<1>3. TypeOK
  BY <1>1, <1>2 DEF TypeOK
<1>4. \A t \in Tasks : /\ task[t].pc = "idle" /\ task[t].found = {}
                      /\ task[t].media = <<>>
  BY <1>1 DEF NoTask
<1>5. StageInv /\ CacheInv /\ OneMentionPerContract /\ TextIsKept
  BY <1>1, <1>4 DEF StageInv, CacheInv, OneMentionPerContract, OneEach, TextIsKept, At
<1>6. BudgetIsExact
  BY <1>1 DEF BudgetIsExact, Rolled
<1>7. ConvictionIsOwn
  BY <1>1, <1>4 DEF ConvictionIsOwn
<1> QED
  BY <1>3, <1>5, <1>6, <1>7 DEF ReadingInv

\* What every step keeps.
LEMMA ReadingCore == Spec => [](ReadingInv /\ TextIsKept /\ BudgetIsExact /\ ConvictionIsOwn)
<1> DEFINE Core == ReadingInv /\ TextIsKept /\ BudgetIsExact /\ ConvictionIsOwn
<1>1. Init => Core
  BY InitReading
<1>2. Core /\ [Next]_vars => Core'
  <2> SUFFICES ASSUME Core, [Next]_vars
               PROVE  Core'
    OBVIOUS
  <2>1. TypeOK
    BY DEF ReadingInv
  <2> QED
    BY <2>1, NextReading, NextBudgetIsExact, NextConviction
<1> QED
  BY <1>1, <1>2, PTL DEF Spec

\* Tasks, budgets, cache and rows are well-typed; each stage of extract starts from
\* what the ones before it left; an image is read once in a process, and its
\* mentions are with the process loop only, at a post with that image; and a symbol
\* is mentioned once in a post, or as several options on it.
THEOREM ReadingIsSound == Spec => []ReadingInv
<1>1. ReadingInv /\ TextIsKept /\ BudgetIsExact /\ ConvictionIsOwn => ReadingInv
  OBVIOUS
<1> QED
  BY <1>1, ReadingCore, PTL

\* What the text of a post names is with its task until the alert, unless the gate
\* was confident that it is no asset: no refusal of a budget and no failing LLM
\* takes it away.
THEOREM TextStays == Spec => []TextIsKept
<1>1. ReadingInv /\ TextIsKept /\ BudgetIsExact /\ ConvictionIsOwn => TextIsKept
  OBVIOUS
<1> QED
  BY <1>1, ReadingCore, PTL

\* The daily cap holds over all that ask the budget and over midnight, and nobody
\* is refused before the calls granted that day are as many.
THEOREM BudgetHolds == Spec => []BudgetIsExact
<1>1. ReadingInv /\ TextIsKept /\ BudgetIsExact /\ ConvictionIsOwn => BudgetIsExact
  OBVIOUS
<1> QED
  BY <1>1, ReadingCore, PTL

\* A post is stored and alerted with the conviction its own reading gave it, though
\* the mentions of an image pass from one post to the next with the old one.
THEOREM ConvictionStaysOwn == Spec => []ConvictionIsOwn
<1>1. ReadingInv /\ TextIsKept /\ BudgetIsExact /\ ConvictionIsOwn => ConvictionIsOwn
  OBVIOUS
<1> QED
  BY <1>1, ReadingCore, PTL

-----------------------------------------------------------------------------
(* Sums over finite sets                                                   *)

\* A smallest one among some subsets of a finite set.
LEMMA SmallestSubset ==
  ASSUME NEW S, IsFiniteSet(S), NEW B, B \subseteq SUBSET S, B # {}
  PROVE  \E u \in B : \A v \in SUBSET u : v # u => v \notin B
<1>1. IsWellFoundedOn(StrictSubsetOrdering(S), SUBSET S)
  BY FS_FiniteSubsetsOfFinite, FS_StrictSubsetOrderingWellFounded
<1> DEFINE R == StrictSubsetOrdering(S)
<1>2. PICK u \in B : \A v \in B : ~(<<v, u>> \in R)
  <2> HIDE DEF R
  <2>1. IsWellFoundedOn(R, SUBSET S)
    BY <1>1 DEF R
  <2> QED
    BY <2>1, WFMin
<1>3. ASSUME NEW v \in SUBSET u, v # u, v \in B
      PROVE  <<v, u>> \in R
  <2>1. v \in SUBSET S /\ u \in SUBSET S /\ v \subseteq u
    BY <1>3
  <2> QED
    BY <1>3, <2>1 DEF StrictSubsetOrdering
<1> HIDE DEF R
<1>4. \A v \in SUBSET u : v # u => v \notin B
  BY <1>2, <1>3
<1>5. u \in B
  OBVIOUS
<1> QED
  BY <1>4, <1>5

\* The partial sums that a sum over S is made of.
Pick(s) == CHOOSE x \in s : TRUE
Adds(f, S, g) ==
  g = [s \in SUBSET S |-> IF s = {} THEN 0 ELSE f[Pick(s)] + g[s \ {Pick(s)}]]

\* A sum is the last of its partial sums.
LEMMA SumIsOfPartials ==
  ASSUME NEW f, NEW S
  PROVE  SumFunctionOnSet(f, S) = (CHOOSE g : Adds(f, S, g))[S]
  BY Zenon DEF SumFunctionOnSet, FoldFunctionOnSet, MapThenFoldSet, Adds, Pick

\* One element is picked.
LEMMA Picked == ASSUME NEW s, s # {} PROVE Pick(s) \in s /\ s \ {Pick(s)} # s
  BY DEF Pick

\* There is only one way to add.
LEMMA OnePartial ==
  ASSUME NEW S, IsFiniteSet(S), NEW T, NEW f, NEW g, NEW h,
         Adds(f, S, g), Adds(f, T, h), NEW u, u \subseteq S, u \subseteq T
  PROVE  g[u] = h[u]
<1> DEFINE B == {v \in SUBSET u : g[v] # h[v]}
<1> SUFFICES ASSUME B # {}
             PROVE  FALSE
  OBVIOUS
<1>1. PICK v \in B : \A w \in SUBSET v : w # v => w \notin B
  <2>1. B \subseteq SUBSET S
    OBVIOUS
  <2> HIDE DEF B
  <2> QED
    BY <2>1, SmallestSubset
<1>2. /\ g[v] = IF v = {} THEN 0 ELSE f[Pick(v)] + g[v \ {Pick(v)}]
      /\ h[v] = IF v = {} THEN 0 ELSE f[Pick(v)] + h[v \ {Pick(v)}]
  BY DEF Adds
<1>3. CASE v = {}
  BY <1>2, <1>3
<1>4. CASE v # {}
  <2>1. PICK w : w = v \ {Pick(v)}
    OBVIOUS
  <2>2. w \in SUBSET v /\ w # v
    BY <1>4, <2>1, Picked
  <2>3. g[w] = h[w]
    BY <1>1, <2>2
  <2> QED
    BY <1>1, <1>2, <1>4, <2>1, <2>3
<1> QED
  BY <1>3, <1>4

\* There is one.
LEMMA SomePartial ==
  ASSUME NEW S, IsFiniteSet(S), NEW f
  PROVE  \E g : Adds(f, S, g)
<1> DEFINE B == {T \in SUBSET S : ~ \E g : Adds(f, T, g)}
<1> SUFFICES ASSUME B # {}
             PROVE  FALSE
  OBVIOUS
<1>1. PICK T \in B : \A u \in SUBSET T : u # T => u \notin B
  <2>1. B \subseteq SUBSET S
    OBVIOUS
  <2> HIDE DEF B
  <2> QED
    BY <2>1, SmallestSubset
<1>2. T \subseteq S /\ ~ \E g : Adds(f, T, g)
  OBVIOUS
<1> DEFINE G(u) == CHOOSE g : Adds(f, u, g)
<1>3. ASSUME NEW u \in SUBSET T, u # T
      PROVE  Adds(f, u, G(u))
  BY <1>1, <1>2, <1>3
<1>4. IsFiniteSet(T) /\ \A u \in SUBSET T : IsFiniteSet(u)
  BY <1>2, FS_Subset
<1> HIDE DEF B, G
<1> DEFINE h == [s \in SUBSET T |-> IF s = {} THEN 0
                   ELSE f[Pick(s)] + G(s \ {Pick(s)})[s \ {Pick(s)}]]
<1>5. ASSUME NEW u \in SUBSET T, u # T
      PROVE  h[u] = G(u)[u]
  <2>1. Adds(f, u, G(u))
    BY <1>3, <1>5
  <2>2. G(u)[u] = IF u = {} THEN 0 ELSE f[Pick(u)] + G(u)[u \ {Pick(u)}]
    BY <2>1 DEF Adds
  <2>3. ASSUME u # {}
        PROVE  G(u)[u \ {Pick(u)}] = G(u \ {Pick(u)})[u \ {Pick(u)}]
    <3>1. PICK v : v = u \ {Pick(u)}
      OBVIOUS
    <3>2. v \subseteq u /\ v \in SUBSET T /\ v # T
      BY <1>5, <2>3, <3>1, Picked
    <3>3. Adds(f, v, G(v))
      BY <1>3, <3>2
    <3> QED
      BY <1>4, <2>1, <3>1, <3>2, <3>3, OnePartial
  <2> QED
    BY <2>2, <2>3
<1>6. ASSUME NEW s \in SUBSET T, s # {}
      PROVE  h[s] = f[Pick(s)] + h[s \ {Pick(s)}]
  <2>1. PICK v : v = s \ {Pick(s)}
    OBVIOUS
  <2>2. v \in SUBSET T /\ v # T
    BY <1>6, <2>1, Picked
  <2>3. h[s] = f[Pick(s)] + G(v)[v]
    BY <1>6, <2>1
  <2> QED
    BY <1>5, <2>1, <2>2, <2>3
<1>7. Adds(f, T, h)
  <2>1. h = [s \in SUBSET T |-> h[s]] /\ (T \in SUBSET T => h[{}] = 0)
    OBVIOUS
  <2> HIDE DEF h
  <2> QED
    BY <1>6, <2>1 DEF Adds
<1> QED
  BY <1>2, <1>7

\* A sum is taken element by element.
LEMMA SumUp ==
  ASSUME NEW S, IsFiniteSet(S), NEW f
  PROVE  /\ S = {} => SumFunctionOnSet(f, S) = 0
         /\ S # {} => SumFunctionOnSet(f, S)
                        = f[Pick(S)] + SumFunctionOnSet(f, S \ {Pick(S)})
<1> DEFINE G(u) == CHOOSE g : Adds(f, u, g)
<1>1. \A u \in SUBSET S : IsFiniteSet(u)
  BY FS_Subset
<1>2. ASSUME NEW u \in SUBSET S
      PROVE  Adds(f, u, G(u)) /\ SumFunctionOnSet(f, u) = G(u)[u]
  <2>1. \E g : Adds(f, u, g)
    BY <1>1, SomePartial
  <2> QED
    BY <2>1, SumIsOfPartials
<1> HIDE DEF G
<1>3. Adds(f, S, G(S)) /\ SumFunctionOnSet(f, S) = G(S)[S]
  BY <1>2
<1>4. G(S)[S] = IF S = {} THEN 0 ELSE f[Pick(S)] + G(S)[S \ {Pick(S)}]
  BY <1>3 DEF Adds
<1>5. ASSUME S # {}
      PROVE  G(S)[S \ {Pick(S)}] = SumFunctionOnSet(f, S \ {Pick(S)})
  <2>1. PICK v : v = S \ {Pick(S)}
    OBVIOUS
  <2>2. v \in SUBSET S
    BY <2>1
  <2>3. Adds(f, v, G(v)) /\ SumFunctionOnSet(f, v) = G(v)[v]
    BY <1>2, <2>2
  <2> QED
    BY <1>3, <2>1, <2>2, <2>3, OnePartial
<1> QED
  BY <1>3, <1>4, <1>5

\* The sum of whole numbers is one, and it is positive if all of them are.
LEMMA SumOfInts ==
  ASSUME NEW S, IsFiniteSet(S), NEW f, \A x \in S : f[x] \in Int
  PROVE  /\ SumFunctionOnSet(f, S) \in Int
         /\ (S # {} /\ \A x \in S : f[x] > 0) => SumFunctionOnSet(f, S) > 0
<1> DEFINE Good(u) ==
             /\ SumFunctionOnSet(f, u) \in Int
             /\ (\A x \in u : f[x] > 0) =>
                  SumFunctionOnSet(f, u) >= 0 /\ (u # {} => SumFunctionOnSet(f, u) > 0)
           B == {u \in SUBSET S : ~ Good(u)}
<1>1. SUFFICES ASSUME B # {}
               PROVE  FALSE
  <2>1. Good(S)
    BY <1>1
  <2> QED
    BY <2>1
<1>2. PICK u \in B : \A v \in SUBSET u : v # u => v \notin B
  <2>1. B \subseteq SUBSET S
    OBVIOUS
  <2> HIDE DEF B
  <2> QED
    BY <1>1, <2>1, SmallestSubset
<1>3. u \subseteq S /\ ~ Good(u) /\ IsFiniteSet(u)
  BY FS_Subset
<1>4. ASSUME u # {}
      PROVE  Good(u)
  <2>1. PICK v : v = u \ {Pick(u)}
    OBVIOUS
  <2>2. v \subseteq u /\ v # u /\ Pick(u) \in u
    BY <1>4, <2>1, Picked
  <2>3. Good(v)
    BY <1>2, <1>3, <2>2
  <2>4. SumFunctionOnSet(f, u) = f[Pick(u)] + SumFunctionOnSet(f, v)
    BY <1>3, <1>4, <2>1, SumUp
  <2>5. f[Pick(u)] \in Int
    BY <1>3, <2>2
  <2>6. (\A x \in u : f[x] > 0) => f[Pick(u)] > 0 /\ \A x \in v : f[x] > 0
    BY <2>2
  <2> QED
    BY <1>4, <2>3, <2>4, <2>5, <2>6
<1>5. u = {} => Good(u)
  BY <1>3, SumUp
<1> QED
  BY <1>3, <1>4, <1>5

\* The sum of multiples is the multiple of the sum.
LEMMA SumOfMultiples ==
  ASSUME NEW S, IsFiniteSet(S), NEW f, NEW g, NEW k \in Int,
         \A x \in S : f[x] \in Int /\ g[x] = k * f[x]
  PROVE  SumFunctionOnSet(g, S) = k * SumFunctionOnSet(f, S)
<1> DEFINE Good(u) == SumFunctionOnSet(g, u) = k * SumFunctionOnSet(f, u)
           B == {u \in SUBSET S : ~ Good(u)}
<1>1. SUFFICES ASSUME B # {}
               PROVE  FALSE
  <2>1. Good(S)
    BY <1>1
  <2> QED
    BY <2>1
<1>2. PICK u \in B : \A v \in SUBSET u : v # u => v \notin B
  <2>1. B \subseteq SUBSET S
    OBVIOUS
  <2> HIDE DEF B
  <2> QED
    BY <1>1, <2>1, SmallestSubset
<1>3. u \subseteq S /\ ~ Good(u) /\ IsFiniteSet(u)
  BY FS_Subset
<1>4. ASSUME u # {}
      PROVE  Good(u)
  <2>1. PICK v : v = u \ {Pick(u)}
    OBVIOUS
  <2>2. v \subseteq u /\ v # u /\ Pick(u) \in u /\ IsFiniteSet(v)
    BY <1>3, <1>4, <2>1, Picked, FS_Subset
  <2>3. Good(v)
    BY <1>2, <1>3, <2>2
  <2>4. /\ SumFunctionOnSet(f, u) = f[Pick(u)] + SumFunctionOnSet(f, v)
        /\ SumFunctionOnSet(g, u) = g[Pick(u)] + SumFunctionOnSet(g, v)
    BY <1>3, <1>4, <2>1, SumUp
  <2>5. f[Pick(u)] \in Int /\ g[Pick(u)] = k * f[Pick(u)]
    BY <1>3, <2>2
  <2>6. SumFunctionOnSet(f, v) \in Int
    <3>1. \A x \in v : f[x] \in Int
      BY <1>3, <2>2
    <3> QED
      BY <2>2, <3>1, SumOfInts
  <2>7. \A x, y \in Int : k * (x + y) = k * x + k * y
    BY SMT
  <2> QED
    BY <2>3, <2>4, <2>5, <2>6, <2>7
<1>5. ASSUME u = {}
      PROVE  Good(u)
  <2>1. SumFunctionOnSet(f, u) = 0 /\ SumFunctionOnSet(g, u) = 0
    BY <1>3, <1>5, SumUp
  <2> QED
    BY <2>1
<1> QED
  BY <1>3, <1>4, <1>5

\* An element more in a sum.
LEMMA SumWithout ==
  ASSUME NEW S, IsFiniteSet(S), NEW f, \A x \in S : f[x] \in Int, NEW x \in S
  PROVE  SumFunctionOnSet(f, S) = f[x] + SumFunctionOnSet(f, S \ {x})
<1> DEFINE Good(u) ==
             \A y \in u : SumFunctionOnSet(f, u) = f[y] + SumFunctionOnSet(f, u \ {y})
           B == {u \in SUBSET S : ~ Good(u)}
<1>1. SUFFICES ASSUME B # {}
               PROVE  FALSE
  <2>1. Good(S)
    BY <1>1
  <2> QED
    BY <2>1
<1>2. PICK u \in B : \A v \in SUBSET u : v # u => v \notin B
  <2>1. B \subseteq SUBSET S
    OBVIOUS
  <2> HIDE DEF B
  <2> QED
    BY <1>1, <2>1, SmallestSubset
<1>3. u \subseteq S /\ ~ Good(u) /\ IsFiniteSet(u)
  BY FS_Subset
<1>4. PICK y \in u : SumFunctionOnSet(f, u) # f[y] + SumFunctionOnSet(f, u \ {y})
  BY <1>3
<1>5. PICK p : p = Pick(u) /\ p \in u
  BY <1>4, Picked
<1>6. SumFunctionOnSet(f, u) = f[p] + SumFunctionOnSet(f, u \ {p})
  BY <1>3, <1>4, <1>5, SumUp
<1>7. p # y
  BY <1>4, <1>6
<1>8. ASSUME NEW z \in u, NEW w \in u \ {z}
      PROVE  SumFunctionOnSet(f, u \ {z})
               = f[w] + SumFunctionOnSet(f, (u \ {z}) \ {w})
  <2>1. PICK v : v = u \ {z}
    OBVIOUS
  <2>2. v \subseteq u /\ v # u /\ v \in SUBSET S /\ w \in v
    BY <1>3, <2>1
  <2>3. Good(v)
    BY <1>2, <2>2
  <2> QED
    BY <2>1, <2>2, <2>3
<1>9. /\ SumFunctionOnSet(f, u \ {p}) = f[y] + SumFunctionOnSet(f, (u \ {p}) \ {y})
      /\ SumFunctionOnSet(f, u \ {y}) = f[p] + SumFunctionOnSet(f, (u \ {y}) \ {p})
  BY <1>5, <1>7, <1>8
<1>10. (u \ {p}) \ {y} = (u \ {y}) \ {p} /\ f[p] \in Int /\ f[y] \in Int
  BY <1>3, <1>5
<1>11. PICK w : w = (u \ {p}) \ {y} /\ w \subseteq S
  BY <1>3
<1>12. SumFunctionOnSet(f, w) \in Int
  <2>1. IsFiniteSet(w) /\ \A z \in w : f[z] \in Int
    BY <1>11, FS_Subset
  <2> QED
    BY <2>1, SumOfInts
<1>13. /\ SumFunctionOnSet(f, u) = f[p] + (f[y] + SumFunctionOnSet(f, w))
       /\ SumFunctionOnSet(f, u \ {y}) = f[p] + SumFunctionOnSet(f, w)
  BY <1>6, <1>9, <1>10, <1>11
<1>14. SumFunctionOnSet(f, u) = f[y] + SumFunctionOnSet(f, u \ {y})
  BY <1>10, <1>12, <1>13
<1> QED
  BY <1>4, <1>14

-----------------------------------------------------------------------------
(* Powers of two                                                           *)

\* Induction for a set of numbers.
LEMMA AllNumbers ==
  ASSUME NEW S, 0 \in S, \A n \in Nat : n \in S => n + 1 \in S
  PROVE  Nat \subseteq S
<1> SUFFICES ASSUME NEW n \in Nat, n \notin S
             PROVE  FALSE
  OBVIOUS
<1> DEFINE B == {u \in SUBSET (1 .. n) : \E k \in 0 .. n : u = 1 .. k /\ k \notin S}
<1>1. IsFiniteSet(1 .. n)
  BY FS_Interval
<1>2. 1 .. n \in B /\ B \subseteq SUBSET (1 .. n)
  OBVIOUS
<1>3. PICK u \in B : \A v \in SUBSET u : v # u => v \notin B
  <2> DEFINE N == 1 .. n
  <2>1. IsFiniteSet(N) /\ B \subseteq SUBSET N /\ B # {}
    BY <1>1, <1>2
  <2> HIDE DEF B, N
  <2> QED
    BY <2>1, SmallestSubset
<1> HIDE DEF B
<1>4. PICK k \in 0 .. n : u = 1 .. k /\ k \notin S
  BY DEF B
<1>5. PICK m \in Nat : k = m + 1
  <2>1. k # 0
    BY <1>4
  <2>2. k - 1 \in Nat /\ k = (k - 1) + 1
    BY <2>1
  <2> QED
    BY <2>2
<1>6. 1 .. m \subseteq u /\ 1 .. m # u /\ m \in 0 .. n /\ 1 .. m \subseteq 1 .. n
  BY <1>4, <1>5
<1>7. m \in S
  BY <1>3, <1>6 DEF B
<1> QED
  BY <1>4, <1>5, <1>7

\* The subsets of a set with one element more: those without and those with it.
LEMMA OneMoreSubsets ==
  ASSUME NEW S, IsFiniteSet(S), NEW x, x \notin S
  PROVE  Cardinality(SUBSET (S \cup {x})) = Cardinality(SUBSET S) + Cardinality(SUBSET S)
<1> DEFINE A == {u \cup {x} : u \in SUBSET S}
           f == [u \in SUBSET S |-> u \cup {x}]
<1>1. IsFiniteSet(SUBSET S) /\ Cardinality(SUBSET S) \in Nat
  BY FS_SUBSET, FS_CardinalityType
<1>2. f \in Bijection(SUBSET S, A)
  <2>1. f \in [SUBSET S -> A]
    OBVIOUS
  <2>2. ASSUME NEW u \in SUBSET S, NEW v \in SUBSET S, f[u] = f[v]
        PROVE  u = v
    <3>1. u \cup {x} = v \cup {x} /\ x \notin u /\ x \notin v
      BY <2>2
    <3> QED
      BY <3>1
  <2>3. \A y \in A : \E u \in SUBSET S : f[u] = y
    OBVIOUS
  <2> HIDE DEF A, f
  <2> QED
    BY <2>1, <2>2, <2>3 DEF Bijection, Injection, Surjection, IsInjective
<1>3. IsFiniteSet(A) /\ Cardinality(A) = Cardinality(SUBSET S)
  <2>1. ExistsBijection(SUBSET S, A)
    BY <1>2 DEF ExistsBijection
  <2> HIDE DEF A, f
  <2> QED
    BY <1>1, <2>1, FS_Bijection
<1>4. SUBSET (S \cup {x}) = (SUBSET S) \cup A
  <2>1. ASSUME NEW u \in SUBSET (S \cup {x})
        PROVE  u \in (SUBSET S) \cup A
    <3>1. CASE x \in u
      <4>1. u \ {x} \in SUBSET S /\ u = (u \ {x}) \cup {x}
        BY <3>1
      <4> QED
        BY <4>1
    <3>2. CASE x \notin u
      BY <3>2
    <3> QED
      BY <3>1, <3>2
  <2>2. (SUBSET S) \cup A \subseteq SUBSET (S \cup {x})
    OBVIOUS
  <2> QED
    BY <2>1, <2>2
<1>5. (SUBSET S) \cap A = {}
  OBVIOUS
<1> HIDE DEF A
<1>6. Cardinality((SUBSET S) \cap A) = 0
  BY <1>5, FS_EmptySet
<1>7. Cardinality((SUBSET S) \cup A)
        = Cardinality(SUBSET S) + Cardinality(A) - Cardinality((SUBSET S) \cap A)
  BY <1>1, <1>3, FS_Union
<1>8. Cardinality((SUBSET S) \cup A) = Cardinality(SUBSET S) + Cardinality(SUBSET S)
  BY <1>1, <1>3, <1>6, <1>7
<1> QED
  BY <1>4, <1>8

\* Each power is twice the one before.
LEMMA Doubles ==
  ASSUME NEW n \in Nat
  PROVE  2 ^ n \in Nat \ {0} /\ 2 ^ (n + 1) = 2 * 2 ^ n
<1>1. IsFiniteSet(1 .. n) /\ Cardinality(1 .. n) = n
  BY FS_Interval
<1>2. IsFiniteSet(1 .. n + 1) /\ Cardinality(1 .. n + 1) = n + 1
  BY FS_Interval
<1>3. 1 .. n + 1 = (1 .. n) \cup {n + 1} /\ n + 1 \notin 1 .. n
  OBVIOUS
<1>4. Cardinality(SUBSET (1 .. n)) = 2 ^ n
  BY <1>1, FS_SUBSET
<1>5. Cardinality(SUBSET (1 .. n + 1)) = 2 ^ (n + 1)
  BY <1>2, FS_SUBSET
<1>6. Cardinality(SUBSET (1 .. n + 1)) = 2 ^ n + 2 ^ n
  BY <1>1, <1>3, <1>4, OneMoreSubsets
<1>7. 2 ^ n \in Nat
  BY <1>1, <1>4, FS_SUBSET, FS_CardinalityType
<1>8. 2 ^ n # 0
  <2>1. IsFiniteSet(SUBSET (1 .. n)) /\ {} \in SUBSET (1 .. n)
    BY <1>1, FS_SUBSET
  <2> QED
    BY <1>4, <2>1, FS_EmptySet
<1> QED
  BY <1>5, <1>6, <1>7, <1>8

\* Halves of halves.
LEMMA PowersMultiply ==
  ASSUME NEW n \in Nat, NEW m \in Nat
  PROVE  /\ 2 ^ n \in Nat \ {0} /\ 2 ^ m \in Nat \ {0}
         /\ 2 ^ (n + m) = 2 ^ m * 2 ^ n
<1> DEFINE S == {k \in Nat : 2 ^ (n + k) = 2 ^ k * 2 ^ n}
<1>1. 0 \in S
  <2>1. 2 ^ 0 = 1 /\ n + 0 = n /\ 2 ^ n \in Nat
    BY Doubles
  <2> QED
    BY <2>1
<1>2. ASSUME NEW k \in Nat, k \in S
      PROVE  k + 1 \in S
  <2>1. PICK j \in Nat : j = n + k
    OBVIOUS
  <2>2. 2 ^ (j + 1) = 2 * 2 ^ j /\ 2 ^ (k + 1) = 2 * 2 ^ k
    BY Doubles
  <2>3. j + 1 = n + (k + 1)
    BY <2>1
  <2>4. 2 ^ j = 2 ^ k * 2 ^ n
    BY <1>2, <2>1
  <2>5. PICK x \in Nat, y \in Nat : x = 2 ^ k /\ y = 2 ^ n
    BY Doubles
  <2>6. 2 * (x * y) = (2 * x) * y
    OBVIOUS
  <2>7. 2 ^ (n + (k + 1)) = 2 ^ (k + 1) * 2 ^ n
    BY <2>2, <2>3, <2>4, <2>5, <2>6
  <2> QED
    BY <2>7
<1> HIDE DEF S
<1>3. Nat \subseteq S
  BY <1>1, <1>2, AllNumbers
<1> QED
  BY <1>3, Doubles DEF S

-----------------------------------------------------------------------------
(* Fading sums                                                             *)

\* What each of S weighs, by g, after it has faded for el, in halves of a halves.
Weighed(g, el, S, unit) == [i \in S |-> g[i] * 2 ^ (unit - el[i])]

\* A sum of no negative numbers is not negative, and it does not get less by finer units.
LEMMA FinerIsMore ==
  ASSUME NEW b \in Nat, NEW sum \in Int, b <= sum, NEW r \in Nat
  PROVE  b <= 2 ^ r * sum
<1>1. PICK y \in Nat \ {0} : y = 2 ^ r
  BY Doubles
<1>2. sum <= y * sum
  <2>1. (y - 1) * sum >= 0
    <3>1. y - 1 \in Nat /\ sum \in Nat
      OBVIOUS
    <3> QED
      BY <3>1
  <2>2. (y - 1) * sum = y * sum - sum
    OBVIOUS
  <2>3. y * sum \in Int
    OBVIOUS
  <2> QED
    BY <2>1, <2>2, <2>3
<1>3. y * sum \in Int
  OBVIOUS
<1> QED
  BY <1>1, <1>2, <1>3

\* The number of voices grows by one at most with a mention.
LEMMA OneMoreVoice ==
  ASSUME NEW b \in Nat, NEW q \in Nat, NEW n \in Nat, NEW w \in Nat,
         q <= b * b, b * b <= n * q
  PROVE  /\ q + w * w <= (b + w) * (b + w)
         /\ (b + w) * (b + w) <= (n + 1) * (q + w * w)
<1>1. (b + w) * (b + w) = b * b + 2 * (b * w) + w * w
  OBVIOUS
<1>2. b * w \in Nat /\ w * w \in Nat /\ b * b \in Nat /\ n * q \in Nat /\ n * (w * w) \in Nat
  OBVIOUS
<1>3. (n + 1) * (q + w * w) = n * q + n * (w * w) + q + w * w
  OBVIOUS
<1>4. 2 * (b * w) <= n * (w * w) + q
  <2>1. CASE n = 0
    <3>1. b * b <= 0
      BY <2>1
    <3>2. b = 0
      BY <3>1
    <3> QED
      BY <2>1, <3>2, <1>2
  <2>2. CASE n # 0
    <3>1. (b - n * w) * (b - n * w) >= 0
      <4>1. \A z \in Int : z * z >= 0
        OBVIOUS
      <4>2. b - n * w \in Int
        OBVIOUS
      <4> QED
        BY <4>1, <4>2
    <3>2. (b - n * w) * (b - n * w) = b * b - 2 * (n * (b * w)) + n * (n * (w * w))
      OBVIOUS
    <3>3. n * (n * (w * w) + q - 2 * (b * w)) = n * (n * (w * w)) + n * q - 2 * (n * (b * w))
      OBVIOUS
    <3>4. n * (n * (w * w) + q - 2 * (b * w)) >= 0
      <4>1. PICK i \in Int, j \in Int : i = n * (b * w) /\ j = n * (n * (w * w))
        OBVIOUS
      <4>2. b * b - 2 * i + j >= 0
        BY <3>1, <3>2, <4>1
      <4>3. j + n * q - 2 * i >= 0
        BY <1>2, <4>1, <4>2
      <4> QED
        BY <3>3, <4>1, <4>3
    <3>5. PICK d \in Int : d = n * (w * w) + q - 2 * (b * w)
      OBVIOUS
    <3>6. d >= 0
      BY <2>2, <3>4, <3>5
    <3> QED
      BY <1>2, <3>5, <3>6
  <2> QED
    BY <2>1, <2>2
<1> QED
  BY <1>1, <1>2, <1>3, <1>4

-----------------------------------------------------------------------------
(* The Analyzer: one symbol, one mention                                   *)

\* What the invariant says of the sums st of a symbol, whose mentions are those of
\* seq at the places S.
Els(seq, S, now) == [i \in S |-> Elapsed(seq[i].ts, now)]
Weights(seq, S) == [i \in S |-> Weight(seq[i])]
SignedWeights(seq, S) == [i \in S |-> SignedWeight(seq[i])]
SumAt(g, seq, S, now, unit) == SumFunctionOnSet(Weighed(g, Els(seq, S, now), S, unit), S)

ClockOf(st, seq, S) ==
  IF st.known THEN \E i \in S : (\A j \in S : j <= i) /\ st.last = seq[i].ts
  ELSE S = {} /\ st = NoMood

Ordered(seq, S, now) ==
  /\ \A i, j \in S : i < j => seq[i].ts <= seq[j].ts
  /\ \A i \in S : seq[i].ts <= now

SumsIn(st, seq, S, now, unit) ==
  /\ \A i \in S : Elapsed(seq[i].ts, now) <= unit
  /\ st.b <= SumAt(Weights(seq, S), seq, S, now, unit)
  /\ Ordered(seq, S, now) => /\ st.a = SumAt(SignedWeights(seq, S), seq, S, now, unit)
                             /\ st.b = SumAt(Weights(seq, S), seq, S, now, unit)
SumsOf(st, seq, S, now) == SumsIn(st, seq, S, now, st.halved + Elapsed(st.last, now))

VoicesOf(st, S) ==
  st.q <= st.b * st.b /\ st.b * st.b <= Cardinality(S) * st.q

\* What goes by is a number of half-lives, and two times add up to no less than the
\* whole.
LEMMA TimeGoesBy ==
  ASSUME NEW u \in Int, NEW v \in Int, NEW w \in Int
  PROVE  /\ Elapsed(u, v) \in Nat
         /\ Elapsed(u, w) <= Elapsed(u, v) + Elapsed(v, w)
         /\ u <= v /\ v <= w => Elapsed(u, w) = Elapsed(u, v) + Elapsed(v, w)
  BY DEF Elapsed

\* A mention weighs a number of units, and the sign is that of its stance.
LEMMA WeightIs ==
  ASSUME NEW m \in Entries
  PROVE  /\ m.ts \in Int /\ m.symbol \in Symbols
         /\ Weight(m) \in Nat /\ SignedWeight(m) \in Int
         /\ Sign(m.stance) \in {-1, 0, 1}
         /\ SignedWeight(m) = Weight(m) * Sign(m.stance)
<1>1. m.credibility \in Nat /\ m.confidence \in Nat /\ m.ts \in Int /\ m.symbol \in Symbols
  BY ReadingAssumption DEF Entries
<1>2. m.credibility * m.confidence \in Nat
  BY <1>1
<1>3. Sign(m.stance) \in {-1, 0, 1}
  BY DEF Sign
<1> QED
  BY <1>1, <1>2, <1>3 DEF Weight, SignedWeight

\* Nothing weighs nothing.
LEMMA NothingHeard ==
  ASSUME NEW g, NEW el, NEW unit
  PROVE  SumFunctionOnSet(Weighed(g, el, {}, unit), {}) = 0
  BY SumUp, FS_EmptySet

\* The units in which the sums of a symbol are kept when its next mention comes.
LEMMA UnitsThen ==
  ASSUME NEW st \in Moments, NEW S, NEW seq, NEW now \in Int, NEW x \in Entries,
         NEW n \in Nat, S \subseteq 1 .. n, \A i \in S : seq[i] \in Entries,
         ClockOf(st, seq, S), SumsOf(st, seq, S, now)
  PROVE  LET d == IF st.known THEN Elapsed(st.last, x.ts) ELSE 0 IN
         \E unit \in Nat : \E r \in Nat :
           /\ d \in Nat /\ unit + r = (st.halved + d) + Elapsed(x.ts, now)
           /\ SumsIn(st, seq, S, now, unit)
           /\ (\A i \in S : seq[i].ts <= x.ts) /\ x.ts <= now =>
                r = 0 \/ S = {}
<1>1. x.ts \in Int /\ st.halved \in Nat /\ st.last \in Int
  BY WeightIs DEF Moments
<1>2. CASE st.known
  <2>1. PICK k \in Nat, d \in Nat, l \in Nat :
          /\ k = Elapsed(st.last, now) /\ d = Elapsed(st.last, x.ts)
          /\ l = Elapsed(x.ts, now) /\ k <= d + l
          /\ st.last <= x.ts /\ x.ts <= now => k = d + l
    <3>1. /\ Elapsed(st.last, now) \in Nat /\ Elapsed(st.last, x.ts) \in Nat
          /\ Elapsed(x.ts, now) \in Nat
      BY <1>1, TimeGoesBy
    <3>2. /\ Elapsed(st.last, now) <= Elapsed(st.last, x.ts) + Elapsed(x.ts, now)
          /\ st.last <= x.ts /\ x.ts <= now =>
               Elapsed(st.last, now) = Elapsed(st.last, x.ts) + Elapsed(x.ts, now)
      BY <1>1, TimeGoesBy
    <3> QED
      BY <3>1, <3>2
  <2>2. PICK unit \in Nat, r \in Nat : unit = st.halved + k /\ r = (d + l) - k
    BY <1>1, <2>1
  <2>3. unit + r = (st.halved + d) + l
    BY <1>1, <2>1, <2>2
  <2>4. SumsIn(st, seq, S, now, unit)
    BY <2>1, <2>2 DEF SumsOf
  <2>5. (\A i \in S : seq[i].ts <= x.ts) /\ x.ts <= now => r = 0
    <3>1. PICK i \in S : st.last = seq[i].ts
      BY <1>2 DEF ClockOf
    <3> QED
      BY <2>1, <2>2, <3>1
  <2> QED
    BY <1>2, <2>1, <2>2, <2>3, <2>4, <2>5
<1>3. CASE ~st.known
  <2>1. S = {} /\ st = NoMood
    BY <1>3 DEF ClockOf
  <2>2. st.halved = 0 /\ st.a = 0 /\ st.b = 0
    BY <2>1 DEF NoMood
  <2>3. SumsIn(st, seq, S, now, 0)
    BY <2>1, <2>2, NothingHeard DEF SumsIn, SumAt
  <2>4. PICK r \in Nat : r = Elapsed(x.ts, now)
    BY <1>1, TimeGoesBy
  <2>5. 0 + r = (st.halved + 0) + Elapsed(x.ts, now)
    BY <2>2, <2>4
  <2> QED
    BY <1>3, <2>1, <2>3, <2>4, <2>5
<1> QED
  BY <1>2, <1>3 DEF Moments

\* The sums of a symbol with one mention more, and the mentions with it.
LEMMA HeardOnce ==
  ASSUME NEW st \in Moments, NEW n \in Nat, NEW S, S \subseteq 1 .. n,
         NEW seq, \A i \in S : seq[i] \in Entries, seq[n + 1] \in Entries,
         NEW now \in Int,
         ClockOf(st, seq, S), SumsOf(st, seq, S, now), VoicesOf(st, S)
  PROVE  /\ Updated(st, seq[n + 1]) \in Moments
         /\ ClockOf(Updated(st, seq[n + 1]), seq, S \cup {n + 1})
         /\ SumsOf(Updated(st, seq[n + 1]), seq, S \cup {n + 1}, now)
         /\ VoicesOf(Updated(st, seq[n + 1]), S \cup {n + 1})
<1> DEFINE x == seq[n + 1]
           T == S \cup {n + 1}
           d == IF st.known THEN Elapsed(st.last, x.ts) ELSE 0
           st2 == Updated(st, x)
           p == 2 ^ (st.halved + d)
           w == Weight(x) * p
           sw == SignedWeight(x) * p
           W == Weights(seq, T)
           V == SignedWeights(seq, T)
           E == Els(seq, T, now)
<1>1. PICK unit \in Nat, r \in Nat :
        /\ d \in Nat /\ unit + r = (st.halved + d) + Elapsed(x.ts, now)
        /\ SumsIn(st, seq, S, now, unit)
        /\ (\A i \in S : seq[i].ts <= x.ts) /\ x.ts <= now => r = 0 \/ S = {}
  BY UnitsThen
<1>2. /\ st.halved \in Nat /\ st.a \in Int /\ st.b \in Nat /\ st.q \in Nat
      /\ st.known \in BOOLEAN /\ st.last \in Int
      /\ st = [known |-> st.known, a |-> st.a, b |-> st.b, q |-> st.q,
               halved |-> st.halved, last |-> st.last]
  BY DEF Moments
<1>3. /\ x.ts \in Int /\ Weight(x) \in Nat /\ SignedWeight(x) \in Int
      /\ Sign(x.stance) \in {-1, 0, 1} /\ SignedWeight(x) = Weight(x) * Sign(x.stance)
  BY WeightIs
<1>4. p \in Nat \ {0}
  BY <1>1, <1>2, Doubles
<1>5. w \in Nat /\ w * w \in Nat /\ sw \in Int /\ sw = w * Sign(x.stance)
  <2>1. \A k \in Nat, l \in Nat, z \in {-1, 0, 1} :
          k * l \in Nat /\ (k * z) * l = (k * l) * z /\ (k * z) * l \in Int
    OBVIOUS
  <2> QED
    BY <1>3, <1>4, <2>1
<1>6. st2 = [known |-> TRUE, a |-> st.a + w * Sign(x.stance), b |-> st.b + w,
             q |-> st.q + w * w, halved |-> st.halved + d, last |-> x.ts]
  <2>1. CASE st.known
    BY <1>2, <2>1 DEF Updated, Faded, With
  <2>2. CASE ~st.known
    <3>1. st.halved + d = st.halved
      BY <1>2, <2>2
    <3> QED
      BY <1>2, <2>2, <3>1 DEF Updated, With
  <2> QED
    BY <2>1, <2>2
<1>7. st2 \in Moments
  BY <1>1, <1>2, <1>3, <1>5, <1>6 DEF Moments
<1>8. ClockOf(st2, seq, T)
  BY <1>6 DEF ClockOf
<1>9. /\ IsFiniteSet(S) /\ IsFiniteSet(T) /\ Cardinality(S) \in Nat
      /\ Cardinality(T) = Cardinality(S) + 1
  <2>1. IsFiniteSet(1 .. n)
    BY FS_Interval
  <2>2. IsFiniteSet(S)
    BY <2>1, FS_Subset
  <2>3. n + 1 \notin S
    OBVIOUS
  <2> QED
    BY <2>2, <2>3, FS_AddElement, FS_CardinalityType
<1>10. VoicesOf(st2, T)
  <2>1. st.q <= st.b * st.b /\ st.b * st.b <= Cardinality(S) * st.q
    BY DEF VoicesOf
  <2>2. /\ st.q + w * w <= (st.b + w) * (st.b + w)
        /\ (st.b + w) * (st.b + w) <= (Cardinality(S) + 1) * (st.q + w * w)
    BY <1>2, <1>5, <1>9, <2>1, OneMoreVoice
  <2> QED
    BY <1>6, <1>9, <2>2 DEF VoicesOf
<1>11. \A i \in T : E[i] \in Nat /\ W[i] \in Int /\ V[i] \in Int
  <2>1. \A i \in T : seq[i] \in Entries
    OBVIOUS
  <2>2. \A i \in T : /\ Elapsed(seq[i].ts, now) \in Nat
                     /\ Weight(seq[i]) \in Int /\ SignedWeight(seq[i]) \in Int
    <3> TAKE i \in T
    <3>1. /\ seq[i].ts \in Int /\ Weight(seq[i]) \in Nat /\ SignedWeight(seq[i]) \in Int
      BY <2>1, WeightIs
    <3> QED
      BY <3>1 DEF Elapsed
  <2> QED
    BY <2>2 DEF Els, Weights, SignedWeights
<1>12. \A i \in S : E[i] <= unit
  BY <1>1 DEF SumsIn, Els
<1>13. unit + r = (st.halved + d) + E[n + 1]
  BY <1>1 DEF Els
<1>14. /\ Weighed(W, E, S, unit) = Weighed(Weights(seq, S), Els(seq, S, now), S, unit)
       /\ Weighed(V, E, S, unit) = Weighed(SignedWeights(seq, S), Els(seq, S, now), S, unit)
  BY DEF Weighed, Weights, SignedWeights, Els
<1> DEFINE B == SumAt(Weights(seq, S), seq, S, now, unit)
           A == SumAt(SignedWeights(seq, S), seq, S, now, unit)
<1>15. ASSUME NEW g, \A i \in T : g[i] \in Int
       PROVE  /\ SumFunctionOnSet(Weighed(g, E, S, unit), S) \in Int
              /\ SumFunctionOnSet(Weighed(g, E, T, unit + r), T)
                   = 2 ^ r * SumFunctionOnSet(Weighed(g, E, S, unit), S) + g[n + 1] * p
  <2> DEFINE f == Weighed(g, E, S, unit)
             h == Weighed(g, E, T, unit + r)
  <2>1. PICK k \in Int : k = 2 ^ r
    BY <1>1, Doubles
  <2>2. ASSUME NEW i \in S
        PROVE  f[i] \in Int /\ h[i] = k * f[i]
    <3>1. g[i] \in Int /\ E[i] \in Nat /\ E[i] <= unit /\ unit \in Nat /\ r \in Nat
      BY <1>1, <1>11, <1>12, <1>15
    <3> HIDE DEF E
    <3>2. PICK j \in Nat : unit - E[i] = j /\ (unit + r) - E[i] = j + r
      BY <3>1
    <3>3. PICK y \in Nat : y = 2 ^ j /\ 2 ^ (j + r) = k * y
      BY <2>1, <3>1, <3>2, PowersMultiply
    <3>4. g[i] * (k * y) = k * (g[i] * y) /\ g[i] * y \in Int
      BY <2>1, <3>1, <3>3
    <3>5. f[i] = g[i] * 2 ^ j /\ h[i] = g[i] * 2 ^ (j + r)
      BY <3>2 DEF Weighed
    <3> QED
      BY <3>3, <3>4, <3>5
  <2>3. h[n + 1] = g[n + 1] * p /\ h[n + 1] \in Int
    <3>0. st.halved + d \in Nat
      BY <1>1, <1>2
    <3>1. st.halved + d \in Nat /\ E[n + 1] \in Nat
      BY <1>11, <3>0
    <3> HIDE DEF E, d, p
    <3>2. (unit + r) - E[n + 1] = st.halved + d
      BY <1>13, <3>1
    <3>3. h[n + 1] = g[n + 1] * 2 ^ (st.halved + d)
      BY <3>2 DEF Weighed
    <3>4. g[n + 1] * p \in Int
      BY <1>4, <1>15
    <3> QED
      BY <3>3, <3>4 DEF p
  <2> HIDE DEF f, h
  <2>4. SumFunctionOnSet(h, T) = h[n + 1] + SumFunctionOnSet(h, S)
    <3>1. T \ {n + 1} = S /\ n + 1 \in T /\ IsFiniteSet(T)
      BY <1>9
    <3>2. \A i \in T : h[i] \in Int
      BY <2>1, <2>2, <2>3
    <3> HIDE DEF T
    <3> QED
      BY <3>1, <3>2, SumWithout
  <2>5. SumFunctionOnSet(f, S) \in Int
    BY <1>9, <2>2, SumOfInts
  <2>6. SumFunctionOnSet(h, S) = k * SumFunctionOnSet(f, S)
    BY <1>9, <2>1, <2>2, SumOfMultiples
  <2>7. k * SumFunctionOnSet(f, S) \in Int
    BY <2>1, <2>5
  <2> QED
    BY <2>1, <2>3, <2>4, <2>5, <2>6, <2>7 DEF f, h
<1>16. /\ B \in Int /\ SumAt(W, seq, T, now, unit + r) = 2 ^ r * B + w
       /\ A \in Int /\ SumAt(V, seq, T, now, unit + r) = 2 ^ r * A + sw
  <2>1. W[n + 1] * p = w /\ V[n + 1] * p = sw
    BY DEF Weights, SignedWeights
  <2> HIDE DEF x, d, w, sw, p, E, V, W
  <2>2. /\ SumFunctionOnSet(Weighed(W, E, S, unit), S) \in Int
        /\ SumFunctionOnSet(Weighed(W, E, T, unit + r), T)
             = 2 ^ r * SumFunctionOnSet(Weighed(W, E, S, unit), S) + W[n + 1] * p
    BY <1>11, <1>15
  <2>3. /\ SumFunctionOnSet(Weighed(V, E, S, unit), S) \in Int
        /\ SumFunctionOnSet(Weighed(V, E, T, unit + r), T)
             = 2 ^ r * SumFunctionOnSet(Weighed(V, E, S, unit), S) + V[n + 1] * p
    BY <1>11, <1>15
  <2>4. SumAt(W, seq, T, now, unit + r) = 2 ^ r * B + w /\ B \in Int
    BY <1>14, <2>1, <2>2 DEF SumAt, E
  <2>5. SumAt(V, seq, T, now, unit + r) = 2 ^ r * A + sw /\ A \in Int
    BY <1>14, <2>1, <2>3 DEF SumAt, E
  <2> QED
    BY <2>4, <2>5
<1>17. SumsOf(st2, seq, T, now)
  <2>1. st2.halved + Elapsed(st2.last, now) = unit + r
    BY <1>1, <1>6
  <2>2. \A i \in T : Elapsed(seq[i].ts, now) <= unit + r
    <3>1. \A i \in S : Elapsed(seq[i].ts, now) <= unit + r
      <4>1. \A i \in S : E[i] \in Nat /\ E[i] <= unit + r
        BY <1>11, <1>12
      <4> QED
        BY <4>1 DEF Els
    <3>2. E[n + 1] <= unit + r
      <4>1. E[n + 1] \in Nat
        BY <1>11
      <4>2. st.halved + d \in Nat
        BY <1>1, <1>2
      <4> HIDE DEF E, d
      <4> QED
        BY <1>13, <4>1, <4>2
    <3>3. Elapsed(seq[n + 1].ts, now) <= unit + r
      BY <3>2 DEF Els
    <3> QED
      BY <3>1, <3>3
  <2>3. st.b + w <= 2 ^ r * B + w
    <3>1. st.b <= B
      BY <1>1 DEF SumsIn
    <3>2. st.b <= 2 ^ r * B
      BY <1>1, <1>2, <1>16, <3>1, FinerIsMore
    <3>3. 2 ^ r * B \in Int
      <4>1. 2 ^ r \in Int
        BY <1>1, Doubles
      <4> HIDE DEF B
      <4> QED
        BY <1>16, <4>1
    <3>4. PICK z \in Int : z = 2 ^ r * B
      BY <3>3
    <3>5. st.b <= z /\ st.b \in Nat /\ w \in Nat
      BY <1>2, <1>5, <3>2, <3>4
    <3> HIDE DEF B, w
    <3>6. st.b + w <= z + w
      BY <3>4, <3>5
    <3> QED
      BY <3>4, <3>6
  <2>4. ASSUME Ordered(seq, T, now)
        PROVE  st.a + w * Sign(x.stance) = 2 ^ r * A + sw /\ st.b + w = 2 ^ r * B + w
    <3>1. Ordered(seq, S, now) /\ (\A i \in S : seq[i].ts <= x.ts) /\ x.ts <= now
      <4>1. n + 1 \in T /\ S \subseteq T /\ \A i \in S : i < n + 1
        OBVIOUS
      <4> HIDE DEF T, A, B, p, w, sw, W, V, E, st2, d
      <4> QED
        BY <2>4, <4>1 DEF Ordered
    <3>2. st.a = A /\ st.b = B
      BY <1>1, <3>1 DEF SumsIn
    <3>3. 2 ^ r * A = A /\ 2 ^ r * B = B
      <4>1. CASE r = 0
        <5>1. 2 ^ r = 1
          BY <4>1, Doubles
        <5> HIDE DEF A, B
        <5> QED
          BY <1>16, <5>1
      <4>2. CASE S = {}
        <5>1. A = 0 /\ B = 0
          BY <4>2, NothingHeard DEF SumAt
        <5>2. 2 ^ r \in Int
          BY <1>1, Doubles
        <5> HIDE DEF A, B
        <5> QED
          BY <5>1, <5>2
      <4> QED
        BY <1>1, <3>1, <4>1, <4>2
    <3> QED
      BY <1>5, <3>2, <3>3
  <2> HIDE DEF A, B, st2, W, V, w, sw
  <2>5. SumsIn(st2, seq, T, now, unit + r)
    BY <1>6, <1>16, <2>2, <2>3, <2>4 DEF SumsIn, W, V
  <2> QED
    BY <2>1, <2>5 DEF SumsOf
<1> QED
  BY <1>7, <1>8, <1>10, <1>17

\* The places of the mentions of a symbol among the first n, and what the sums of
\* all symbols are after these.
PlacesOf(seq, n, s) == {i \in 1 .. n : seq[i].symbol = s}
Nows == UNION {{Text[p].ts, Text[p].ts + 1} : p \in Posts}
MeansAt(st, seq, S) ==
  ClockOf(st, seq, S) /\ VoicesOf(st, S) /\ \A now \in Nows : SumsOf(st, seq, S, now)
Means(moods, seq, n) ==
  /\ moods \in [Symbols -> Moments]
  /\ \A s \in Symbols : MeansAt(moods[s], seq, PlacesOf(seq, n, s))

\* With one mention more the sums of all symbols are those of the mentions.
LEMMA OneMention ==
  ASSUME NEW moods, NEW n \in Nat, NEW seq, \A i \in 1 .. n + 1 : seq[i] \in Entries,
         Means(moods, seq, n)
  PROVE  Means([moods EXCEPT ![seq[n + 1].symbol] = Updated(@, seq[n + 1])], seq, n + 1)
<1> DEFINE x == seq[n + 1]
           after == [moods EXCEPT ![x.symbol] = Updated(@, x)]
<1>1. x \in Entries /\ x.symbol \in Symbols /\ x.ts \in Nows
  <2>1. x \in Entries
    OBVIOUS
  <2> QED
    BY <2>1 DEF Entries, Nows
<1>2. Nows \subseteq Int
  BY ReadingAssumption DEF Nows
<1>3. moods \in [Symbols -> Moments]
  BY DEF Means
<1>4. ASSUME NEW s \in Symbols, s # x.symbol
      PROVE  after[s] = moods[s] /\ PlacesOf(seq, n + 1, s) = PlacesOf(seq, n, s)
  BY <1>3, <1>4 DEF PlacesOf
<1>5. /\ after[x.symbol] = Updated(moods[x.symbol], x)
      /\ PlacesOf(seq, n + 1, x.symbol) = PlacesOf(seq, n, x.symbol) \cup {n + 1}
  BY <1>1, <1>3 DEF PlacesOf
<1>6. Updated(moods[x.symbol], x) \in Moments
      /\ MeansAt(Updated(moods[x.symbol], x), seq, PlacesOf(seq, n, x.symbol) \cup {n + 1})
  <2> DEFINE S == PlacesOf(seq, n, x.symbol)
             st == moods[x.symbol]
  <2>1. st \in Moments /\ MeansAt(st, seq, S)
    BY <1>1, <1>3 DEF Means
  <2>2. S \subseteq 1 .. n /\ \A i \in S : seq[i] \in Entries
    BY DEF PlacesOf
  <2>3. ASSUME NEW now \in Nows
        PROVE  /\ Updated(st, x) \in Moments
               /\ ClockOf(Updated(st, x), seq, S \cup {n + 1})
               /\ SumsOf(Updated(st, x), seq, S \cup {n + 1}, now)
               /\ VoicesOf(Updated(st, x), S \cup {n + 1})
    <3>1. now \in Int
      BY <1>2
    <3>2. ClockOf(st, seq, S) /\ SumsOf(st, seq, S, now) /\ VoicesOf(st, S)
      BY <2>1 DEF MeansAt
    <3> HIDE DEF S, st
    <3> QED
      BY <1>1, <2>1, <2>2, <3>1, <3>2, HeardOnce
  <2> QED
    BY <1>1, <2>3 DEF MeansAt
<1>7. after \in [Symbols -> Moments]
  BY <1>1, <1>3, <1>6
<1>8. ASSUME NEW s \in Symbols
      PROVE  MeansAt(after[s], seq, PlacesOf(seq, n + 1, s))
  <2>1. CASE s = x.symbol
    <3> HIDE DEF after, x
    <3> QED
      BY <1>5, <1>6, <2>1
  <2>2. CASE s # x.symbol
    <3>1. MeansAt(moods[s], seq, PlacesOf(seq, n, s))
      BY DEF Means
    <3> HIDE DEF after, x
    <3> QED
      BY <1>4, <2>2, <3>1
  <2> QED
    BY <2>1, <2>2
<1> QED
  BY <1>7, <1>8 DEF Means

\* What came before does not depend on what comes after.
LEMMA SameMentions ==
  ASSUME NEW st, NEW S, NEW seq, NEW seq2, \A i \in S : seq2[i] = seq[i],
         MeansAt(st, seq, S)
  PROVE  MeansAt(st, seq2, S)
<1>1. ASSUME NEW now
      PROVE  /\ Els(seq2, S, now) = Els(seq, S, now)
             /\ Weights(seq2, S) = Weights(seq, S)
             /\ SignedWeights(seq2, S) = SignedWeights(seq, S)
  BY DEF Els, Weights, SignedWeights
<1>2. ClockOf(st, seq2, S)
  BY DEF MeansAt, ClockOf
<1>3. ASSUME NEW now \in Nows
      PROVE  SumsOf(st, seq2, S, now)
  <2> DEFINE unit == st.halved + Elapsed(st.last, now)
  <2>1. SumsIn(st, seq, S, now, unit)
    BY DEF MeansAt, SumsOf
  <2> HIDE DEF unit
  <2>2. /\ SumAt(Weights(seq2, S), seq2, S, now, unit)
            = SumAt(Weights(seq, S), seq, S, now, unit)
        /\ SumAt(SignedWeights(seq2, S), seq2, S, now, unit)
            = SumAt(SignedWeights(seq, S), seq, S, now, unit)
    BY <1>1 DEF SumAt
  <2>3. \A i \in S : Elapsed(seq2[i].ts, now) <= unit
    BY <2>1 DEF SumsIn
  <2>4. Ordered(seq2, S, now) => Ordered(seq, S, now)
    BY DEF Ordered
  <2>5. SumsIn(st, seq2, S, now, unit)
    BY <2>1, <2>2, <2>3, <2>4 DEF SumsIn
  <2> QED
    BY <2>5 DEF SumsOf, unit
<1> QED
  BY <1>2, <1>3 DEF MeansAt

\* The sums after each of some mentions, as Moods goes through them.
Goes(f, before, ms, k) ==
  f = [n \in 0 .. k |->
         IF n = 0 THEN before
         ELSE [f[n - 1] EXCEPT ![ms[n].symbol] = Updated(@, ms[n])]]

\* There are such sums for every number of mentions.
LEMMA SomeGoes ==
  ASSUME NEW before, NEW ms, NEW k \in Nat
  PROVE  \E f : Goes(f, before, ms, k)
<1> DEFINE S == {n \in Nat : \E f : Goes(f, before, ms, n)}
<1>1. 0 \in S
  <2> DEFINE f == [n \in 0 .. 0 |-> before]
  <2>1. f = [n \in 0 .. 0 |->
               IF n = 0 THEN before
               ELSE [f[n - 1] EXCEPT ![ms[n].symbol] = Updated(@, ms[n])]]
    OBVIOUS
  <2> HIDE DEF f
  <2>2. Goes(f, before, ms, 0)
    BY <2>1 DEF Goes
  <2> QED
    BY <2>2
<1>2. ASSUME NEW n \in Nat, n \in S
      PROVE  n + 1 \in S
  <2>1. PICK f : Goes(f, before, ms, n)
    BY <1>2
  <2> DEFINE Step(g, m) == [g[m - 1] EXCEPT ![ms[m].symbol] = Updated(@, ms[m])]
             h == [m \in 0 .. n + 1 |-> IF m = n + 1 THEN Step(f, n + 1) ELSE f[m]]
  <2>2. \A m \in 0 .. n : h[m] = f[m]
    OBVIOUS
  <2>3. ASSUME NEW m \in 0 .. n + 1
        PROVE  h[m] = IF m = 0 THEN before ELSE Step(h, m)
    <3>1. CASE m = n + 1
      <4>1. h[m] = Step(f, m) /\ m # 0 /\ h[m - 1] = f[m - 1]
        BY <2>2, <3>1
      <4> HIDE DEF h
      <4> QED
        BY <4>1
    <3>2. CASE m # n + 1
      <4>1. m \in 0 .. n /\ h[m] = f[m] /\ (m # 0 => h[m - 1] = f[m - 1])
        BY <2>2, <3>2
      <4>2. f[m] = IF m = 0 THEN before ELSE Step(f, m)
        BY <2>1, <4>1 DEF Goes
      <4> HIDE DEF h
      <4> QED
        BY <4>1, <4>2
    <3> QED
      BY <3>1, <3>2
  <2>4. h = [m \in 0 .. n + 1 |-> h[m]]
    OBVIOUS
  <2> HIDE DEF h
  <2>5. Goes(h, before, ms, n + 1)
    BY <2>3, <2>4 DEF Goes
  <2> QED
    BY <2>5
<1> HIDE DEF S
<1>3. Nat \subseteq S
  BY <1>1, <1>2, AllNumbers
<1> QED
  BY <1>3 DEF S

\* The sums after some mentions are those of all mentions so far.
LEMMA AllMentions ==
  ASSUME NEW before, NEW seq \in Seq(Entries), NEW ms \in Seq(Entries),
         Means(before, seq, Len(seq))
  PROVE  Means(Moods(before, ms), seq \o ms, Len(seq \o ms))
<1> DEFINE all == seq \o ms
           L == Len(seq)
           after == CHOOSE f : Goes(f, before, ms, Len(ms))
<1>1. /\ L \in Nat /\ Len(ms) \in Nat /\ Len(all) = L + Len(ms)
      /\ \A i \in 1 .. L + Len(ms) : all[i] \in Entries
      /\ \A i \in 1 .. L : all[i] = seq[i]
      /\ \A k \in 1 .. Len(ms) : all[L + k] = ms[k]
  OBVIOUS
<1>2. Goes(after, before, ms, Len(ms))
  BY <1>1, SomeGoes
<1>3. Moods(before, ms) = after[Len(ms)]
  BY DEF Moods, Goes
<1>4. Means(before, all, L)
  <2>1. before \in [Symbols -> Moments]
    BY DEF Means
  <2>2. ASSUME NEW s \in Symbols
        PROVE  MeansAt(before[s], all, PlacesOf(all, L, s))
    <3>1. PlacesOf(all, L, s) = PlacesOf(seq, L, s)
      BY <1>1 DEF PlacesOf
    <3>2. \A i \in PlacesOf(seq, L, s) : all[i] = seq[i]
      BY <1>1 DEF PlacesOf
    <3>3. MeansAt(before[s], seq, PlacesOf(seq, L, s))
      BY DEF Means
    <3> QED
      BY <3>1, <3>2, <3>3, SameMentions
  <2> QED
    BY <2>1, <2>2 DEF Means
<1> HIDE DEF after
<1> DEFINE S == {k \in Nat : k <= Len(ms) => Means(after[k], all, L + k)}
<1>5. 0 \in S
  <2>1. after[0] = before
    BY <1>1, <1>2 DEF Goes
  <2>2. Means(after[0], all, L + 0)
    BY <1>1, <1>4, <2>1
  <2> QED
    BY <2>2
<1>6. ASSUME NEW k \in Nat, k \in S
      PROVE  k + 1 \in S
  <2> SUFFICES ASSUME k + 1 <= Len(ms)
               PROVE  Means(after[k + 1], all, L + (k + 1))
    OBVIOUS
  <2> DEFINE n == L + k
  <2>1. Means(after[k], all, n)
    BY <1>1, <1>6
  <2>2. n \in Nat /\ n + 1 = L + (k + 1) /\ \A i \in 1 .. n + 1 : all[i] \in Entries
    BY <1>1
  <2>3. after[k + 1] = [after[k] EXCEPT ![ms[k + 1].symbol] = Updated(@, ms[k + 1])]
    <3>1. k + 1 \in 0 .. Len(ms) /\ k + 1 # 0 /\ (k + 1) - 1 = k
      BY <1>1
    <3> QED
      BY <1>2, <3>1 DEF Goes
  <2>4. all[n + 1] = ms[k + 1]
    BY <1>1, <2>2
  <2> HIDE DEF n, all
  <2>5. Means([after[k] EXCEPT ![all[n + 1].symbol] = Updated(@, all[n + 1])], all, n + 1)
    BY <2>1, <2>2, OneMention
  <2> QED
    BY <2>2, <2>3, <2>4, <2>5
<1> HIDE DEF S
<1>7. Len(ms) \in S
  BY <1>1, <1>5, <1>6, AllNumbers
<1> QED
  BY <1>1, <1>3, <1>7 DEF S

\* The invariant, in these terms.
LEMMA MoodMeans ==
  MoodIsOfThePosts <=> fed \in Seq(Entries) /\ Means(mood, fed, Len(fed))
<1> SUFFICES ASSUME fed \in Seq(Entries), mood \in [Symbols -> Moments]
             PROVE  MoodIsOfThePosts <=> Means(mood, fed, Len(fed))
  BY DEF MoodIsOfThePosts, Means
<1> DEFINE S(s) == PlacesOf(fed, Len(fed), s)
<1>1. ASSUME NEW s \in Symbols
      PROVE  Heard(s) = S(s)
  BY DEF Heard, PlacesOf
<1>2. ClockIsOfTheLast <=> \A s \in Symbols : ClockOf(mood[s], fed, S(s))
  BY <1>1 DEF ClockIsOfTheLast, ClockOf
<1>3. VoicesAreCounted <=> \A s \in Symbols : VoicesOf(mood[s], S(s))
  BY <1>1 DEF VoicesAreCounted, VoicesOf
<1>4. ASSUME NEW s \in Symbols, NEW now
      PROVE  SumsOf(mood[s], fed, S(s), now) <=>
               LET r == Read(s, now) IN
               /\ \A i \in Heard(s) : Elapsed(fed[i].ts, now) <= r.halved
               /\ r.b <= Total(s, Weight, now)
               /\ InOrder(s) /\ (\A i \in Heard(s) : fed[i].ts <= now) =>
                    r.a = Total(s, SignedWeight, now) /\ r.b = Total(s, Weight, now)
  <2> DEFINE unit == mood[s].halved + Elapsed(mood[s].last, now)
  <2>1. /\ Read(s, now).halved = unit /\ Read(s, now).a = mood[s].a
        /\ Read(s, now).b = mood[s].b
    <3>1. mood[s] \in Moments
      OBVIOUS
    <3> QED
      BY <3>1 DEF Read, Faded, Moments
  <2> HIDE DEF unit
  <2>2. /\ Weighed(Weights(fed, S(s)), Els(fed, S(s), now), S(s), unit)
           = [i \in S(s) |-> Weight(fed[i]) * 2 ^ (unit - Elapsed(fed[i].ts, now))]
        /\ Weighed(SignedWeights(fed, S(s)), Els(fed, S(s), now), S(s), unit)
           = [i \in S(s) |-> SignedWeight(fed[i]) * 2 ^ (unit - Elapsed(fed[i].ts, now))]
    BY DEF Weighed, Weights, SignedWeights, Els
  <2>3. Total(s, Weight, now) = SumAt(Weights(fed, S(s)), fed, S(s), now, unit)
    BY <1>1, <2>1, <2>2 DEF Total, SumAt
  <2>4. Total(s, SignedWeight, now) = SumAt(SignedWeights(fed, S(s)), fed, S(s), now, unit)
    BY <1>1, <2>1, <2>2 DEF Total, SumAt
  <2>5. InOrder(s) /\ (\A i \in Heard(s) : fed[i].ts <= now) <=> Ordered(fed, S(s), now)
    BY <1>1 DEF InOrder, Ordered
  <2>6. SumsOf(mood[s], fed, S(s), now) <=> SumsIn(mood[s], fed, S(s), now, unit)
    BY DEF SumsOf, unit
  <2> HIDE DEF S
  <2> QED
    BY <1>1, <2>1, <2>3, <2>4, <2>5, <2>6 DEF SumsIn
<1>5. ASSUME NEW now
      PROVE  MoodIsOfThePostsAt(now) <=> \A s \in Symbols : SumsOf(mood[s], fed, S(s), now)
  <2> HIDE DEF S
  <2> QED
    BY <1>4 DEF MoodIsOfThePostsAt
<1> HIDE DEF S
<1>6. (\A p \in Posts : \A now \in {Text[p].ts, Text[p].ts + 1} : MoodIsOfThePostsAt(now))
        <=> \A now \in Nows : \A s \in Symbols : SumsOf(mood[s], fed, S(s), now)
  BY <1>5 DEF Nows
<1>7. MoodIsOfThePosts <=> \A s \in Symbols : MeansAt(mood[s], fed, S(s))
  BY <1>2, <1>3, <1>6 DEF MoodIsOfThePosts, MeansAt
<1> QED
  BY <1>7 DEF Means, S

-----------------------------------------------------------------------------
(* The mentions of a post are finitely many                                *)

\* There are no more values of a function than places.
LEMMA FiniteRange ==
  ASSUME NEW D, IsFiniteSet(D), NEW f
  PROVE  IsFiniteSet({f[k] : k \in D})
<1> DEFINE T == {f[k] : k \in D}
           g == [k \in D |-> f[k]]
<1>1. g \in Surjection(D, T)
  BY DEF Surjection
<1> HIDE DEF g, T
<1>2. IsFiniteSet(T)
  BY <1>1, FS_Surjection
<1> QED
  BY <1>2 DEF T

\* A list with finitely many places adds finitely many mentions.
LEMMA FiniteUnseen ==
  ASSUME NEW ms, IsFiniteSet(ms), NEW list, IsFiniteSet(DOMAIN list)
  PROVE  IsFiniteSet(AddUnseen(ms, list))
<1> DEFINE new == {k \in DOMAIN list : /\ list[k].symbol \notin SymbolsOf(ms)
                                       /\ \A j \in DOMAIN list :
                                            j < k => list[j].symbol # list[k].symbol}
<1>1. IsFiniteSet(new)
  BY FS_Subset
<1>2. AddUnseen(ms, list) = ms \cup {list[k] : k \in new}
  BY DEF AddUnseen
<1> HIDE DEF new
<1>3. IsFiniteSet({list[k] : k \in new})
  BY <1>1, FiniteRange
<1> QED
  BY <1>2, <1>3, FS_Union

\* A sequence has finitely many places.
LEMMA FinitePlaces ==
  ASSUME NEW S, NEW list \in Seq(S), NEW D, D \subseteq DOMAIN list
  PROVE  IsFiniteSet(D)
<1>1. DOMAIN list = 1 .. Len(list) /\ Len(list) \in Nat
  OBVIOUS
<1>2. IsFiniteSet(DOMAIN list)
  BY <1>1, FS_Interval
<1> QED
  BY <1>2, FS_Subset

\* What is read off the text, inferred from it or read off an image.
LEMMA FiniteFindings ==
  /\ \A p \in Posts : IsFiniteSet(Found(Text[p]))
  /\ \A items \in InferAnswers : IsFiniteSet(DOMAIN Inferred(items))
  /\ \A items \in ImageAnswers : \A url, t : IsFiniteSet(DOMAIN OffImage(url, items))
<1>1. ASSUME NEW p \in Posts
      PROVE  IsFiniteSet(Found(Text[p]))
  <2> DEFINE x == Text[p]
             option == [o \in x.options |->
                          [Plain(o.root, "option", "exact", 90) EXCEPT !.contract = o.contract]]
             tags == {c \in x.tags : /\ c \notin {o.root : o \in x.options}
                                     /\ IsRealTicker(c, x).real # "no"}
             tag == [s \in tags |->
                       Plain(s, ClassifySymbol(s, x),
                             IF IsRealTicker(s, x).confidence >= 90 THEN "exact" ELSE "disambig",
                             IsRealTicker(s, x).confidence)]
  <2>1. IsFiniteSet(x.options) /\ IsFiniteSet(x.tags) /\ x.aliases \in Seq(Names)
    BY ReadingAssumption
  <2>2. IsFiniteSet(tags)
    BY <2>1, FS_Subset
  <2>3. Options(x) = {option[o] : o \in x.options} /\ Cashtags(x) = {tag[s] : s \in tags}
    BY DEF Options, Cashtags
  <2>4. DOMAIN Aliases(x) = DOMAIN x.aliases
    BY DEF Aliases
  <2>5. IsFiniteSet(DOMAIN Aliases(x))
    BY <2>1, <2>4, FinitePlaces
  <2>6. Found(x) = AddUnseen(Options(x) \cup Cashtags(x), Aliases(x))
    BY DEF Found
  <2> HIDE DEF option, tags, tag, x
  <2>7. IsFiniteSet(Options(x)) /\ IsFiniteSet(Cashtags(x))
    BY <2>1, <2>2, <2>3, FiniteRange
  <2>8. IsFiniteSet(Options(x) \cup Cashtags(x))
    BY <2>7, FS_Union
  <2> QED
    BY <2>5, <2>6, <2>8, FiniteUnseen DEF x
<1>2. ASSUME NEW items \in InferAnswers
      PROVE  IsFiniteSet(DOMAIN Inferred(items))
  <2>1. items \in Seq(Items)
    BY ReadingAssumption
  <2>2. DOMAIN Inferred(items) \subseteq DOMAIN items
    BY DEF Inferred
  <2> QED
    BY <2>1, <2>2, FinitePlaces
<1>3. ASSUME NEW items \in ImageAnswers, NEW url, NEW t
      PROVE  IsFiniteSet(DOMAIN OffImage(url, items))
  <2>1. items \in Seq(Items)
    BY ReadingAssumption
  <2>2. DOMAIN OffImage(url, items) \subseteq DOMAIN items
    BY DEF OffImage
  <2> QED
    BY <2>1, <2>2, FinitePlaces
<1> QED
  BY <1>1, <1>2, <1>3

\* A label makes no mentions.
LEMMA FiniteJudged ==
  ASSUME NEW ms, IsFiniteSet(ms), NEW label
  PROVE  IsFiniteSet(Dedupe(Labelled(ms, label)))
<1> DEFINE new == [m \in ms |->
                     IF m.how = "image" THEN m
                     ELSE [m EXCEPT !.stance = label.stance,
                                    !.stanceConfidence = label.confidence]]
<1>1. Labelled(ms, label) = {new[m] : m \in ms}
  BY DEF Labelled
<1> HIDE DEF new
<1>2. IsFiniteSet(Labelled(ms, label))
  BY <1>1, FiniteRange
<1>3. Dedupe(Labelled(ms, label)) \subseteq Labelled(ms, label)
  BY DEF Dedupe
<1> QED
  BY <1>2, <1>3, FS_Subset

\* The tasks have found finitely many mentions, as the cache has.
AllFinite ==
  /\ \A t \in Tasks : IsFiniteSet(task[t].found)
  /\ \A url \in DOMAIN cache : IsFiniteSet(DOMAIN cache[url])

\* What a task does next leaves it with finitely many.
LEMMA FoundStaysFinite ==
  ASSUME ReadingInv, AllFinite, NEW t \in Tasks,
         Continue(t) \/ \E p \in Posts : Take(t, p)
  PROVE  IsFiniteSet(task'[t].found)
<1>1. task[t] \in TaskStates /\ task \in [Tasks -> TaskStates] /\ IsFiniteSet(task[t].found)
  BY DEF ReadingInv, TypeOK, AllFinite
<1>2. IsFiniteSet({}) /\ IsFiniteSet(NoTask.found)
  BY FS_EmptySet DEF NoTask
<1>3. CASE \E p \in Posts : Take(t, p)
  <2>1. PICK p \in Posts : Take(t, p)
    BY <1>3
  <2>2. task'[t].found = Found(Text[p])
    BY <1>1, <2>1 DEF Take
  <2> QED
    BY <2>1, <2>2, FiniteFindings
<1>4. CASE Relevance(t)
  <2>1. \/ \E kept, out, pc :
             /\ kept \subseteq task[t].found
             /\ task' = [task EXCEPT ![t].found = kept, ![t].dropped = out, ![t].pc = pc]
        \/ \E pc : task' = [task EXCEPT ![t].pc = pc]
    BY <1>4 DEF Relevance
  <2>2. task'[t].found \subseteq task[t].found
    <3>1. ASSUME NEW kept, NEW out, NEW pc, kept \subseteq task[t].found,
                 task' = [task EXCEPT ![t].found = kept, ![t].dropped = out, ![t].pc = pc]
          PROVE  task'[t].found \subseteq task[t].found
      BY <1>1, <3>1 DEF TaskStates
    <3>2. ASSUME NEW pc, task' = [task EXCEPT ![t].pc = pc]
          PROVE  task'[t].found = task[t].found
      BY <1>1, <3>2 DEF TaskStates
    <3> QED
      BY <2>1, <3>1, <3>2
  <2> QED
    BY <1>1, <2>2, FS_Subset
<1>5. CASE Infer(t)
  <2>1. \/ task'[t].found = {}
        \/ \E items \in InferAnswers : task'[t].found = AddUnseen({}, Inferred(items))
    BY <1>1, <1>5 DEF Infer, TaskStates
  <2> QED
    BY <1>2, <2>1, FiniteFindings, FiniteUnseen
<1>6. ASSUME NEW list, IsFiniteSet(DOMAIN list), Seen(t, list)
      PROVE  IsFiniteSet(task'[t].found)
  <2>1. task'[t].found = AddUnseen(task[t].found, list)
    BY <1>1, <1>6 DEF Seen, TaskStates
  <2> QED
    BY <1>1, <1>6, <2>1, FiniteUnseen
<1>7. CASE CacheHit(t)
  <2> DEFINE url == Head(task[t].media)
  <2>1. url \in DOMAIN cache /\ Seen(t, cache[url])
    BY <1>7 DEF CacheHit, InCache
  <2> QED
    BY <1>6, <2>1 DEF AllFinite
<1>8. CASE OverVision(t)
  <2>1. Seen(t, <<>>)
    BY <1>8 DEF OverVision
  <2> DEFINE list == <<>>
  <2>2. DOMAIN list = {} /\ Seen(t, list)
    BY <2>1
  <2> HIDE DEF list
  <2> QED
    BY <1>2, <1>6, <2>2
<1>9. CASE LookAt(t) \/ Feed(t) \/ SaveConviction(t)
  <2>1. \E pc : task' = [task EXCEPT ![t].pc = pc]
    BY <1>9 DEF LookAt, Feed, SaveConviction
  <2>2. task'[t].found = task[t].found
    BY <1>1, <2>1 DEF TaskStates
  <2> QED
    BY <1>1, <2>2
<1>10. CASE Answer(t)
  <2> DEFINE url == Head(task[t].media)
  <2>1. PICK items \in ImageAnswers : Seen(t, OffImage(url, items))
    BY <1>10 DEF Answer
  <2> QED
    BY <1>6, <2>1, FiniteFindings
<1>11. CASE Refused(t) \/ LookFails(t) \/ Alert(t)
  <2>1. task'[t] = NoTask
    BY <1>1, <1>11 DEF Refused, LookFails, Alert
  <2> QED
    BY <1>2, <2>1
<1>12. CASE Stance(t)
  <2>1. PICK label \in Labels : Judge(t, label)
    BY <1>12, JudgeOfPost
  <2>2. task'[t].found = Dedupe(Labelled(task[t].found, label))
    BY <1>1, <2>1 DEF Judge, TaskStates
  <2> QED
    BY <1>1, <2>2, FiniteJudged
<1> QED
  BY <1>3, <1>4, <1>5, <1>7, <1>8, <1>9, <1>10, <1>11, <1>12 DEF Continue

\* So does every step.
LEMMA NextAllFinite ==
  ASSUME ReadingInv, TextIsKept, AllFinite, [Next]_vars
  PROVE  AllFinite'
<1>1. ASSUME NEW u \in Tasks
      PROVE  IsFiniteSet(task'[u].found)
  <2>1. CASE UNCHANGED task
    BY <2>1 DEF AllFinite
  <2>2. CASE Crash
    BY <2>2, FS_EmptySet DEF Crash, NoTask
  <2>3. ASSUME NEW t \in Tasks, Continue(t) \/ \E p \in Posts : Take(t, p)
        PROVE  IsFiniteSet(task'[u].found)
    <3>1. IsFiniteSet(task'[t].found) /\ Moved(t)
      BY <2>3, FoundStaysFinite, TasksMove
    <3>2. u # t => task'[u] = task[u]
      BY <3>1 DEF Moved
    <3> QED
      BY <3>1, <3>2 DEF AllFinite
  <2> QED
    BY <2>1, <2>2, <2>3 DEF Next, ScanAsks, Midnight, vars
<1>2. ASSUME NEW url \in DOMAIN cache'
      PROVE  IsFiniteSet(DOMAIN cache'[url])
  <2>1. CASE UNCHANGED cache
    BY <2>1 DEF AllFinite
  <2>2. CASE Crash
    <3>1. DOMAIN cache' = {}
      BY <2>2 DEF Crash
    <3> QED
      BY <3>1
  <2>3. ASSUME NEW t \in Tasks, Answer(t)
        PROVE  IsFiniteSet(DOMAIN cache'[url])
    <3> DEFINE head == Head(task[t].media)
    <3>1. PICK items \in ImageAnswers : cache' = Put(cache, head, OffImage(head, items))
      BY <2>3 DEF Answer
    <3>2. IsFiniteSet(DOMAIN OffImage(head, items))
      BY FiniteFindings
    <3>3. \/ cache'[url] = OffImage(head, items)
          \/ url \in DOMAIN cache /\ cache'[url] = cache[url]
      BY <3>1 DEF Put
    <3> QED
      BY <3>2, <3>3 DEF AllFinite
  <2>4. ASSUME NEW t \in Tasks, Stance(t)
        PROVE  UNCHANGED cache
    BY <2>4 DEF Stance
  <2> QED
    BY <2>1, <2>2, <2>3, <2>4, StepOfCache
<1> QED
  BY <1>1, <1>2 DEF AllFinite

-----------------------------------------------------------------------------
(* What the Analyzer is fed with                                           *)

\* Some order of the mentions.
LEMMA SomeOrder ==
  ASSUME NEW S, IsFiniteSet(S)
  PROVE  SetToSeq(S) \in Seq(S)
<1>1. Cardinality(S) \in Nat /\ ExistsBijection(1 .. Cardinality(S), S)
  BY FS_CardinalityType
<1>2. \E f \in [1 .. Cardinality(S) -> S] : IsInjective(f)
  BY <1>1 DEF ExistsBijection, Bijection, Injection, Surjection
<1>3. SetToSeq(S) \in [1 .. Cardinality(S) -> S]
  BY <1>2 DEF SetToSeq
<1> QED
  BY <1>1, <1>3

\* What goes to the Analyzer is a sequence of what it can be fed with.
LEMMA FedInOrder ==
  ASSUME ReadingInv, AllFinite, NEW t \in Tasks, Feed(t)
  PROVE  \E entries \in Seq(Entries) : Ingest(entries)
<1> DEFINE x == The(t)
           ms == SetToSeq(task[t].found)
           entry(m) == [symbol |-> m.symbol, stance |-> m.stance, author |-> x.author,
                        confidence |-> m.stanceConfidence, ts |-> x.ts,
                        credibility |-> x.credibility]
           entries == [i \in DOMAIN ms |-> entry(ms[i])]
<1>1. /\ task[t].found \in SUBSET Mentions /\ IsFiniteSet(task[t].found)
      /\ task[t].post \in Posts
  <2>1. task[t] \in TaskStates /\ (At(t, "idle") \/ task[t].post \in Posts)
    BY DEF ReadingInv, TypeOK, StageInv
  <2> QED
    BY <2>1 DEF Feed, At, TaskStates, AllFinite
<1>2. Ingest(entries)
  BY DEF Feed
<1>3. entries \in Seq(Entries)
  <2>1. ms \in Seq(task[t].found)
    BY <1>1, SomeOrder
  <2>2. Len(ms) \in Nat /\ DOMAIN ms = 1 .. Len(ms) /\ \A i \in DOMAIN ms : ms[i] \in Mentions
    BY <1>1, <2>1
  <2>3. ASSUME NEW m \in Mentions
        PROVE  entry(m) \in Entries
    BY <1>1 DEF Mentions, Entries, The
  <2> HIDE DEF ms, entry
  <2>4. entries \in [1 .. Len(ms) -> Entries]
    BY <2>2, <2>3
  <2> QED
    BY <2>2, <2>4
<1> HIDE DEF entries
<1> QED
  BY <1>2, <1>3

\* The mentions of a post go to the Analyzer.
LEMMA FeedKeepsMood ==
  ASSUME ReadingInv, AllFinite, MoodIsOfThePosts, NEW t \in Tasks, Feed(t)
  PROVE  MoodIsOfThePosts'
<1>1. PICK entries \in Seq(Entries) : Ingest(entries)
  BY FedInOrder
<1>2. mood' = Moods(mood, entries) /\ fed' = fed \o entries
  BY <1>1 DEF Ingest
<1>3. fed \in Seq(Entries) /\ Means(mood, fed, Len(fed))
  BY MoodMeans
<1>4. Means(Moods(mood, entries), fed \o entries, Len(fed \o entries))
  BY <1>1, <1>3, AllMentions
<1>5. fed' \in Seq(Entries) /\ Means(mood', fed', Len(fed'))
  BY <1>1, <1>2, <1>3, <1>4
<1>6. (MoodIsOfThePosts <=> fed \in Seq(Entries) /\ Means(mood, fed, Len(fed)))'
  BY MoodMeans, PTL
<1> QED
  BY <1>5, <1>6

\* Before the first post there is nothing to be told of.
LEMMA NothingYet ==
  fed = <<>> /\ mood = [s \in Symbols |-> NoMood] => MoodIsOfThePosts
<1> SUFFICES ASSUME fed = <<>>, mood = [s \in Symbols |-> NoMood]
             PROVE  MoodIsOfThePosts
  OBVIOUS
<1>1. fed \in Seq(Entries) /\ Len(fed) = 0
  OBVIOUS
<1>2. NoMood \in Moments /\ ~NoMood.known /\ NoMood.q = 0 /\ NoMood.b = 0 /\ NoMood.a = 0
  BY DEF NoMood, Moments
<1>3. ASSUME NEW s \in Symbols
      PROVE  MeansAt(mood[s], fed, PlacesOf(fed, 0, s))
  <2>1. mood[s] = NoMood
    OBVIOUS
  <2>2. PlacesOf(fed, 0, s) = {}
    BY DEF PlacesOf
  <2>3. ClockOf(NoMood, fed, {}) /\ VoicesOf(NoMood, {})
    BY <1>2, FS_EmptySet DEF ClockOf, VoicesOf
  <2>4. ASSUME NEW now
        PROVE  SumsOf(NoMood, fed, {}, now)
    BY <1>2, NothingHeard DEF SumsOf, SumsIn, SumAt
  <2> QED
    BY <2>1, <2>2, <2>3, <2>4 DEF MeansAt
<1>4. mood \in [Symbols -> Moments]
  BY <1>2
<1>5. Means(mood, fed, Len(fed))
  BY <1>1, <1>3, <1>4 DEF Means
<1> QED
  BY <1>1, <1>5, MoodMeans

\* A step that does not feed the Analyzer leaves it, or starts it again.
LEMMA NextMood ==
  ASSUME ReadingInv, AllFinite, MoodIsOfThePosts, [Next]_vars
  PROVE  MoodIsOfThePosts'
<1>1. CASE UNCHANGED <<mood, fed>>
  <2>1. fed \in Seq(Entries) /\ Means(mood, fed, Len(fed))
    BY MoodMeans
  <2>2. fed' \in Seq(Entries) /\ Means(mood', fed', Len(fed'))
    BY <1>1, <2>1
  <2>3. (MoodIsOfThePosts <=> fed \in Seq(Entries) /\ Means(mood, fed, Len(fed)))'
    BY MoodMeans, PTL
  <2> QED
    BY <2>2, <2>3
<1>2. CASE Crash
  <2>1. (fed = <<>> /\ mood = [s \in Symbols |-> NoMood])'
    BY <1>2 DEF Crash, Forget
  <2>2. (fed = <<>> /\ mood = [s \in Symbols |-> NoMood])' => MoodIsOfThePosts'
    BY NothingYet, PTL
  <2> QED
    BY <2>1, <2>2
<1>3. ASSUME NEW t \in Tasks, Continue(t)
      PROVE  UNCHANGED <<mood, fed>> \/ Feed(t)
  BY <1>3 DEF Continue, Relevance, Infer, CacheHit, OverVision, LookAt, Answer, Refused,
     LookFails, Stance, SaveConviction, Alert, memory
<1>4. ASSUME NEW t \in Tasks, NEW p \in Posts, Take(t, p)
      PROVE  UNCHANGED <<mood, fed>>
  BY <1>4 DEF Take, memory
<1> QED
  BY <1>1, <1>2, <1>3, <1>4, FeedKeepsMood DEF Next, ScanAsks, Midnight, vars, memory

\* What the Analyzer says of a symbol is what the posts said, in whatever order
\* they came: exactly if in the order they were written, and never more than that;
\* and a consensus rests on one voice at least, and on no more than were heard.
THEOREM MoodStays == Spec => []MoodIsOfThePosts
<1> DEFINE Core == ReadingInv /\ TextIsKept /\ BudgetIsExact /\ ConvictionIsOwn
           More == AllFinite /\ MoodIsOfThePosts
<1>1. Init => More
  <2> SUFFICES ASSUME Init
               PROVE  More
    OBVIOUS
  <2>1. AllFinite
    <3>1. DOMAIN cache = {} /\ \A t \in Tasks : task[t].found = {}
      BY DEF Init, NoTask
    <3> QED
      BY <3>1, FS_EmptySet DEF AllFinite
  <2>2. MoodIsOfThePosts
    BY NothingYet DEF Init, AnalyzerInit
  <2> QED
    BY <2>1, <2>2
<1>2. Core /\ More /\ [Next]_vars => More'
  BY NextAllFinite, NextMood
<1>3. Spec => []Core
  BY ReadingCore
<1>4. More => MoodIsOfThePosts
  OBVIOUS
<1> HIDE DEF Core, More
<1> QED
  BY <1>1, <1>2, <1>3, <1>4, PTL DEF Spec

-----------------------------------------------------------------------------
(* The contributors                                                        *)

\* What the list of a symbol is to hold, whose mentions are those of seq at the
\* places S.
Said == {Voice(m) : m \in Entries}
After(S, i) == {j \in S : i < j}
Recent(list, seq, S) ==
  /\ list \in Seq(Said)
  /\ Len(list) = Least(Cardinality(S), MaxContributors)
  /\ \A i \in S : Cardinality(After(S, i)) < MaxContributors =>
       list[Len(list) - Cardinality(After(S, i))] = Voice(seq[i])
Lists(lists, seq, n) ==
  \A s \in Symbols : Recent(lists[s], seq, PlacesOf(seq, n, s))

\* A list of contributors with one more.
Longer(list, e) == LastOf(Append(list, e), MaxContributors)

\* The last of it is new, and the others have moved back by one, those that are left.
LEMMA OneAtTheEnd ==
  ASSUME NEW list \in Seq(Said), NEW e \in Said, Len(list) <= MaxContributors
  PROVE  /\ Longer(list, e) \in Seq(Said)
         /\ Len(Longer(list, e)) = Least(Len(list) + 1, MaxContributors)
         /\ Longer(list, e)[Len(Longer(list, e))] = e
         /\ \A k \in Nat : k < Len(list) /\ k + 1 < MaxContributors =>
              Longer(list, e)[Len(Longer(list, e)) - (k + 1)] = list[Len(list) - k]
<1> DEFINE app == Append(list, e)
           L == Len(list)
           n == MaxContributors
           cut == Longer(list, e)
<1>0. n \in Nat \ {0}
  BY AnalyzerAssumption
<1>1. /\ L \in Nat /\ app \in Seq(Said) /\ Len(app) = L + 1 /\ app[L + 1] = e
      /\ \A i \in 1 .. L : app[i] = list[i]
  OBVIOUS
<1>2. CASE L = n
  <2>1. cut = SubSeq(app, 2, n + 1)
    BY <1>0, <1>1, <1>2 DEF LastOf, Longer
  <2> HIDE DEF app
  <2>2. SubSeq(app, 2, n + 1) \in Seq(Said) /\ Len(SubSeq(app, 2, n + 1)) = n
        /\ \A i \in 1 .. n : SubSeq(app, 2, n + 1)[i] = app[i + 1]
    BY <1>0, <1>1, <1>2
  <2>3. cut \in Seq(Said) /\ Len(cut) = n /\ \A i \in 1 .. n : cut[i] = app[i + 1]
    BY <2>1, <2>2
  <2>4. ASSUME NEW k \in Nat, k < L, k + 1 < n
        PROVE  cut[n - (k + 1)] = list[L - k]
    <3>1. n - (k + 1) \in 1 .. n /\ (n - (k + 1)) + 1 = L - k /\ L - k \in 1 .. L
      BY <1>0, <1>1, <1>2, <2>4
    <3> QED
      BY <1>1, <2>3, <3>1
  <2>5. cut[n] = e
    BY <1>0, <1>1, <1>2, <2>3
  <2> QED
    BY <1>0, <1>2, <2>3, <2>4, <2>5 DEF Least
<1>3. CASE L # n
  <2>1. cut = app
    BY <1>0, <1>1, <1>3 DEF LastOf, Longer
  <2> HIDE DEF app
  <2>2. ASSUME NEW k \in Nat, k < L
        PROVE  cut[(L + 1) - (k + 1)] = list[L - k]
    <3>1. (L + 1) - (k + 1) = L - k /\ L - k \in 1 .. L
      BY <1>1, <2>2
    <3> QED
      BY <1>1, <2>1, <3>1
  <2> QED
    BY <1>0, <1>1, <1>3, <2>1, <2>2 DEF Least
<1> QED
  BY <1>2, <1>3

\* One mention more of the symbol.
LEMMA OneMoreSaid ==
  ASSUME NEW n \in Nat, NEW seq, NEW S, S \subseteq 1 .. n, seq[n + 1] \in Entries,
         NEW list, Recent(list, seq, S)
  PROVE  Recent(LastOf(Append(list, Voice(seq[n + 1])), MaxContributors), seq,
                S \cup {n + 1})
<1> DEFINE new == n + 1
           e == Voice(seq[new])
           L == Len(list)
           all == S \cup {new}
           cut == Longer(list, e)
<1>1. IsFiniteSet(S) /\ Cardinality(S) \in Nat /\ new \notin S
  <2>1. IsFiniteSet(1 .. n)
    BY FS_Interval
  <2>2. IsFiniteSet(S)
    BY <2>1, FS_Subset
  <2>3. \A j \in 1 .. n : j # n + 1
    OBVIOUS
  <2> QED
    BY <2>2, <2>3, FS_CardinalityType
<1>2. Cardinality(all) = Cardinality(S) + 1
  BY <1>1, FS_AddElement
<1>3. /\ MaxContributors \in Nat \ {0} /\ list \in Seq(Said) /\ e \in Said
      /\ L = Least(Cardinality(S), MaxContributors) /\ L \in Nat
      /\ \A i \in S : Cardinality(After(S, i)) < MaxContributors =>
           list[L - Cardinality(After(S, i))] = Voice(seq[i])
  BY AnalyzerAssumption DEF Recent, Said
<1> HIDE DEF e
<1>4. L <= MaxContributors
  BY <1>1, <1>3 DEF Least
<1>5. /\ cut \in Seq(Said)
      /\ Len(cut) = Least(L + 1, MaxContributors)
      /\ cut[Len(cut)] = e
      /\ \A k \in Nat : k < L /\ k + 1 < MaxContributors =>
           cut[Len(cut) - (k + 1)] = list[L - k]
  <2>1. list \in Seq(Said) /\ e \in Said /\ Len(list) <= MaxContributors
    BY <1>3, <1>4
  <2> QED
    BY <2>1, OneAtTheEnd
<1> HIDE DEF cut, L
<1>6. Len(cut) = Least(Cardinality(all), MaxContributors)
  BY <1>1, <1>2, <1>3, <1>4, <1>5 DEF Least
<1>7. ASSUME NEW i \in S, Cardinality(After(all, i)) < MaxContributors
      PROVE  cut[Len(cut) - Cardinality(After(all, i))] = Voice(seq[i])
  <2> DEFINE k == Cardinality(After(S, i))
  <2>1. After(S, i) \subseteq S \ {i} /\ After(all, i) = After(S, i) \cup {new}
        /\ new \notin After(S, i)
    BY <1>1 DEF After
  <2>2. IsFiniteSet(S \ {i}) /\ Cardinality(S \ {i}) = Cardinality(S) - 1
    BY <1>1, FS_RemoveElement
  <2>3. IsFiniteSet(After(S, i)) /\ k \in Nat /\ k <= Cardinality(S) - 1
    BY <2>1, <2>2, FS_Subset, FS_CardinalityType
  <2>4. Cardinality(After(all, i)) = k + 1
    BY <2>1, <2>3, FS_AddElement
  <2> HIDE DEF k
  <2>5. k + 1 < MaxContributors /\ k < L
    BY <1>1, <1>3, <1>7, <2>3, <2>4 DEF Least
  <2>6. list[L - k] = Voice(seq[i])
    BY <1>3, <2>3, <2>5 DEF k
  <2> QED
    BY <1>5, <2>3, <2>4, <2>5, <2>6
<1>8. cut[Len(cut) - Cardinality(After(all, new))] = Voice(seq[new])
  <2>1. \A j \in all : ~(new < j)
    <3>1. \A j \in 1 .. n : ~(n + 1 < j)
      OBVIOUS
    <3>2. ~(n + 1 < n + 1)
      OBVIOUS
    <3> QED
      BY <3>1, <3>2
  <2>2. After(all, new) = {}
    <3> HIDE DEF all, new
    <3> QED
      BY <2>1 DEF After
  <2>3. Cardinality(After(all, new)) = 0 /\ Len(cut) - 0 = Len(cut)
    <3>1. Cardinality(After(all, new)) = 0
      BY <2>2, FS_EmptySet
    <3>2. Len(cut) \in Nat
      BY <1>3, <1>5
    <3> QED
      BY <3>1, <3>2
  <2> QED
    BY <1>5, <2>3 DEF e
<1>9. Recent(cut, seq, all)
  BY <1>5, <1>6, <1>7, <1>8 DEF Recent
<1> QED
  BY <1>9 DEF cut, e, Longer

\* The lists after each of some mentions, as Voices goes through them.
Tells(f, before, ms, k) ==
  f = [n \in 0 .. k |->
         IF n = 0 THEN before
         ELSE [f[n - 1] EXCEPT ![ms[n].symbol] =
                 LastOf(Append(@, Voice(ms[n])), MaxContributors)]]

\* There are such lists for every number of mentions.
LEMMA SomeTells ==
  ASSUME NEW before, NEW ms, NEW k \in Nat
  PROVE  \E f : Tells(f, before, ms, k)
<1> DEFINE S == {n \in Nat : \E f : Tells(f, before, ms, n)}
           Step(g, m) == [g[m - 1] EXCEPT ![ms[m].symbol] =
                            LastOf(Append(@, Voice(ms[m])), MaxContributors)]
<1>1. 0 \in S
  <2> DEFINE f == [n \in 0 .. 0 |-> before]
  <2>1. f = [n \in 0 .. 0 |-> IF n = 0 THEN before ELSE Step(f, n)]
    OBVIOUS
  <2> HIDE DEF f
  <2>2. Tells(f, before, ms, 0)
    BY <2>1 DEF Tells
  <2> QED
    BY <2>2
<1>2. ASSUME NEW n \in Nat, n \in S
      PROVE  n + 1 \in S
  <2>1. PICK f : Tells(f, before, ms, n)
    BY <1>2
  <2> DEFINE h == [m \in 0 .. n + 1 |-> IF m = n + 1 THEN Step(f, n + 1) ELSE f[m]]
  <2>2. \A m \in 0 .. n : h[m] = f[m]
    OBVIOUS
  <2>3. ASSUME NEW m \in 0 .. n + 1
        PROVE  h[m] = IF m = 0 THEN before ELSE Step(h, m)
    <3>1. CASE m = n + 1
      <4>1. h[m] = Step(f, m) /\ m # 0 /\ h[m - 1] = f[m - 1]
        BY <2>2, <3>1
      <4> HIDE DEF h
      <4> QED
        BY <4>1
    <3>2. CASE m # n + 1
      <4>1. m \in 0 .. n /\ h[m] = f[m] /\ (m # 0 => h[m - 1] = f[m - 1])
        BY <2>2, <3>2
      <4>2. f[m] = IF m = 0 THEN before ELSE Step(f, m)
        BY <2>1, <4>1 DEF Tells
      <4> HIDE DEF h
      <4> QED
        BY <4>1, <4>2
    <3> QED
      BY <3>1, <3>2
  <2>4. h = [m \in 0 .. n + 1 |-> h[m]]
    OBVIOUS
  <2> HIDE DEF h
  <2>5. Tells(h, before, ms, n + 1)
    BY <2>3, <2>4 DEF Tells
  <2> QED
    BY <2>5
<1> HIDE DEF S
<1>3. Nat \subseteq S
  BY <1>1, <1>2, AllNumbers
<1> QED
  BY <1>3 DEF S

\* With one mention more the lists of all symbols hold the last of the mentions.
LEMMA OneMoreTold ==
  ASSUME NEW lists, NEW n \in Nat, NEW seq, seq[n + 1] \in Entries,
         DOMAIN lists = Symbols, lists = [s \in Symbols |-> lists[s]], Lists(lists, seq, n)
  PROVE  LET told == [lists EXCEPT ![seq[n + 1].symbol] =
                        LastOf(Append(@, Voice(seq[n + 1])), MaxContributors)] IN
         /\ DOMAIN told = Symbols /\ told = [s \in Symbols |-> told[s]]
         /\ Lists(told, seq, n + 1)
<1> DEFINE x == seq[n + 1]
           longer == LastOf(Append(lists[x.symbol], Voice(x)), MaxContributors)
           told == [lists EXCEPT ![x.symbol] = longer]
<1>1. x.symbol \in Symbols
  BY WeightIs
<1> HIDE DEF longer
<1>2. /\ DOMAIN told = Symbols /\ told = [s \in Symbols |-> told[s]]
      /\ told[x.symbol] = longer
      /\ \A s \in Symbols : s # x.symbol => told[s] = lists[s]
  BY <1>1
<1>3. \A s \in Symbols : PlacesOf(seq, n + 1, s) =
        IF s = x.symbol THEN PlacesOf(seq, n, s) \cup {n + 1} ELSE PlacesOf(seq, n, s)
  BY DEF PlacesOf
<1> HIDE DEF told
<1>4. ASSUME NEW s \in Symbols
      PROVE  Recent(told[s], seq, PlacesOf(seq, n + 1, s))
  <2>1. Recent(lists[s], seq, PlacesOf(seq, n, s)) /\ PlacesOf(seq, n, s) \subseteq 1 .. n
    BY DEF Lists, PlacesOf
  <2>2. CASE s = x.symbol
    <3>1. Recent(longer, seq, PlacesOf(seq, n, s) \cup {n + 1})
      BY <2>1, <2>2, OneMoreSaid DEF longer
    <3> QED
      BY <1>2, <1>3, <2>2, <3>1
  <2>3. CASE s # x.symbol
    BY <1>2, <1>3, <2>1, <2>3
  <2> QED
    BY <2>2, <2>3
<1>5. Lists(told, seq, n + 1)
  BY <1>4 DEF Lists
<1> QED
  BY <1>2, <1>5 DEF told, longer

\* The lists after some mentions hold the last of all mentions so far.
LEMMA AllTold ==
  ASSUME NEW before, NEW seq \in Seq(Entries), NEW ms \in Seq(Entries),
         DOMAIN before = Symbols, before = [s \in Symbols |-> before[s]],
         Lists(before, seq, Len(seq))
  PROVE  LET told == Voices(before, ms) IN
         /\ DOMAIN told = Symbols /\ told = [s \in Symbols |-> told[s]]
         /\ Lists(told, seq \o ms, Len(seq \o ms))
<1> DEFINE all == seq \o ms
           L == Len(seq)
           after == CHOOSE f : Tells(f, before, ms, Len(ms))
           Right(g, n) == /\ DOMAIN g = Symbols /\ g = [s \in Symbols |-> g[s]]
                          /\ Lists(g, all, n)
<1>1. /\ L \in Nat /\ Len(ms) \in Nat /\ Len(all) = L + Len(ms)
      /\ \A i \in 1 .. L + Len(ms) : all[i] \in Entries
      /\ \A i \in 1 .. L : all[i] = seq[i]
      /\ \A k \in 1 .. Len(ms) : all[L + k] = ms[k]
  OBVIOUS
<1>2. Tells(after, before, ms, Len(ms))
  BY <1>1, SomeTells
<1>3. Voices(before, ms) = after[Len(ms)]
  BY DEF Voices, Tells
<1>4. Right(before, L)
  <2>1. ASSUME NEW s \in Symbols
        PROVE  Recent(before[s], all, PlacesOf(all, L, s))
    <3>1. PlacesOf(all, L, s) = PlacesOf(seq, L, s)
      BY <1>1 DEF PlacesOf
    <3>2. \A i \in PlacesOf(seq, L, s) : all[i] = seq[i]
      BY <1>1 DEF PlacesOf
    <3>3. Recent(before[s], seq, PlacesOf(seq, L, s))
      BY DEF Lists
    <3> HIDE DEF all
    <3> QED
      BY <3>1, <3>2, <3>3 DEF Recent
  <2> QED
    BY <2>1 DEF Lists
<1> HIDE DEF after, Right
<1> DEFINE S == {k \in Nat : k <= Len(ms) => Right(after[k], L + k)}
<1>5. 0 \in S
  <2>1. after[0] = before /\ L + 0 = L
    BY <1>1, <1>2 DEF Tells
  <2>2. Right(after[0], L + 0)
    BY <1>4, <2>1
  <2> QED
    BY <2>2
<1>6. ASSUME NEW k \in Nat, k \in S
      PROVE  k + 1 \in S
  <2> SUFFICES ASSUME k + 1 <= Len(ms)
               PROVE  Right(after[k + 1], L + (k + 1))
    OBVIOUS
  <2> DEFINE n == L + k
  <2>1. Right(after[k], n)
    BY <1>1, <1>6
  <2>2. n \in Nat /\ n + 1 = L + (k + 1) /\ all[n + 1] \in Entries /\ all[n + 1] = ms[k + 1]
    BY <1>1
  <2>3. after[k + 1] = [after[k] EXCEPT ![ms[k + 1].symbol] =
                          LastOf(Append(@, Voice(ms[k + 1])), MaxContributors)]
    <3>1. k + 1 \in 0 .. Len(ms) /\ k + 1 # 0 /\ (k + 1) - 1 = k
      BY <1>1
    <3> QED
      BY <1>2, <3>1 DEF Tells
  <2> HIDE DEF n, all
  <2>4. Right([after[k] EXCEPT ![all[n + 1].symbol] =
                 LastOf(Append(@, Voice(all[n + 1])), MaxContributors)], n + 1)
    BY <2>1, <2>2, OneMoreTold DEF Right
  <2> QED
    BY <2>2, <2>3, <2>4
<1> HIDE DEF S
<1>7. Len(ms) \in S
  BY <1>1, <1>5, <1>6, AllNumbers
<1>8. Right(after[Len(ms)], L + Len(ms))
  BY <1>1, <1>7 DEF S
<1> QED
  BY <1>1, <1>3, <1>8 DEF Right

\* The lists, with what they are about.
ContributorsAre ==
  /\ fed \in Seq(Entries)
  /\ DOMAIN contributors = Symbols /\ contributors = [s \in Symbols |-> contributors[s]]
  /\ Lists(contributors, fed, Len(fed))

\* They are what the property is about.
LEMMA ListsMean == ContributorsAre => ContributorsAreTheLast
<1> SUFFICES ASSUME ContributorsAre, NEW s \in Symbols
             PROVE  LET kept == contributors[s] IN
                    /\ Len(kept) = Least(Cardinality(Heard(s)), MaxContributors)
                    /\ \A i \in Heard(s) : HeardAfter(s, i) < MaxContributors =>
                         kept[Len(kept) - HeardAfter(s, i)] = Voice(fed[i])
  BY DEF ContributorsAreTheLast
<1>1. Heard(s) = PlacesOf(fed, Len(fed), s)
  BY DEF ContributorsAre, Heard, PlacesOf
<1>2. \A i : HeardAfter(s, i) = Cardinality(After(Heard(s), i))
  BY DEF HeardAfter, After
<1>3. Recent(contributors[s], fed, Heard(s))
  BY <1>1 DEF ContributorsAre, Lists
<1> QED
  BY <1>2, <1>3 DEF Recent

\* Before the first mention the lists are empty.
LEMMA NobodyYet ==
  fed = <<>> /\ contributors = [s \in Symbols |-> <<>>] => ContributorsAre
<1> SUFFICES ASSUME fed = <<>>, contributors = [s \in Symbols |-> <<>>]
             PROVE  ContributorsAre
  OBVIOUS
<1>1. fed \in Seq(Entries) /\ Len(fed) = 0
  OBVIOUS
<1>2. Recent(<<>>, fed, {})
  <2>1. Cardinality({}) = 0 /\ Len(<<>>) = 0 /\ <<>> \in Seq(Said)
    BY FS_EmptySet
  <2> QED
    BY <2>1, AnalyzerAssumption DEF Recent, Least
<1>3. ASSUME NEW s \in Symbols
      PROVE  Recent(contributors[s], fed, PlacesOf(fed, Len(fed), s))
  <2>1. PlacesOf(fed, Len(fed), s) = {} /\ contributors[s] = <<>>
    BY <1>1 DEF PlacesOf
  <2> QED
    BY <1>2, <2>1
<1> QED
  BY <1>1, <1>3 DEF ContributorsAre, Lists

\* Every step keeps them.
LEMMA NextContributors ==
  ASSUME ReadingInv, AllFinite, ContributorsAre, [Next]_vars
  PROVE  ContributorsAre'
<1>1. CASE UNCHANGED <<contributors, fed>>
  BY <1>1 DEF ContributorsAre
<1>2. CASE Crash
  <2>1. (fed = <<>> /\ contributors = [s \in Symbols |-> <<>>])'
    BY <1>2 DEF Crash, Forget
  <2>2. (fed = <<>> /\ contributors = [s \in Symbols |-> <<>>])' => ContributorsAre'
    BY NobodyYet, PTL
  <2> QED
    BY <2>1, <2>2
<1>3. ASSUME NEW t \in Tasks, Feed(t)
      PROVE  ContributorsAre'
  <2>1. PICK entries \in Seq(Entries) : Ingest(entries)
    BY <1>3, FedInOrder
  <2>2. contributors' = Voices(contributors, entries) /\ fed' = fed \o entries
    BY <2>1 DEF Ingest
  <2>3. /\ DOMAIN Voices(contributors, entries) = Symbols
        /\ Voices(contributors, entries)
             = [s \in Symbols |-> Voices(contributors, entries)[s]]
        /\ Lists(Voices(contributors, entries), fed \o entries, Len(fed \o entries))
    BY AllTold DEF ContributorsAre
  <2>4. fed' \in Seq(Entries)
    BY <2>2 DEF ContributorsAre
  <2> QED
    BY <2>2, <2>3, <2>4 DEF ContributorsAre
<1>4. ASSUME NEW t \in Tasks, Continue(t)
      PROVE  UNCHANGED <<contributors, fed>> \/ Feed(t)
  BY <1>4 DEF Continue, Relevance, Infer, CacheHit, OverVision, LookAt, Answer, Refused,
     LookFails, Stance, SaveConviction, Alert, memory
<1>5. ASSUME NEW t \in Tasks, NEW p \in Posts, Take(t, p)
      PROVE  UNCHANGED <<contributors, fed>>
  BY <1>5 DEF Take, memory
<1> QED
  BY <1>1, <1>2, <1>3, <1>4, <1>5 DEF Next, ScanAsks, Midnight, vars, memory

\* The contributors of a symbol, among whom the result of a call is shared, are those
\* that came last, as many as the list may hold, in the order they came.
THEOREM VoicesStay == Spec => []ContributorsAreTheLast
<1> DEFINE Core == ReadingInv /\ TextIsKept /\ BudgetIsExact /\ ConvictionIsOwn
           More == AllFinite /\ ContributorsAre
<1>1. Init => More
  <2> SUFFICES ASSUME Init
               PROVE  More
    OBVIOUS
  <2>1. AllFinite
    <3>1. DOMAIN cache = {} /\ \A t \in Tasks : task[t].found = {}
      BY DEF Init, NoTask
    <3> QED
      BY <3>1, FS_EmptySet DEF AllFinite
  <2>2. ContributorsAre
    BY NobodyYet DEF Init, AnalyzerInit
  <2> QED
    BY <2>1, <2>2
<1>2. Core /\ More /\ [Next]_vars => More'
  BY NextAllFinite, NextContributors
<1>3. More => ContributorsAreTheLast
  BY ListsMean
<1> HIDE DEF Core, More
<1> QED
  BY <1>1, <1>2, <1>3, ReadingCore, PTL DEF Spec, Core
=============================================================================
