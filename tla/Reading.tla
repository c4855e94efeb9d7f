------------------------------ MODULE Reading ------------------------------
(***************************************************************************)
(* What a post says: the stages of ExtractionPipeline.extract, the budgets *)
(* and the image cache they share, and what process_post makes of the      *)
(* mentions of a new post: the alert's look at the conviction, the feed of *)
(* the Analyzer, the stored conviction.                                    *)
(*                                                                         *)
(* Tasks are the coroutines that run process_post (see Spine, where what   *)
(* extract returns is a constant): the process loop, which alone has the   *)
(* images of a post, and the channel-post listener, whose posts have none. *)
(* A mention read off the text belongs to its reading alone; those of an   *)
(* image live in the cache, and every post with that image gets the same   *)
(* objects, labels of the post before included.  Confidences are in        *)
(* hundredths.                                                             *)
(***************************************************************************)
EXTENDS Analyzer

CONSTANTS
  Tasks,
  Loop,            \* the task that is the process loop
  Posts, NoPost,
  Text,            \* Text[p]: what the deterministic stages look at in p
  Collisions,      \* symbols that are English words
  CryptoSymbols, AlwaysEquity,
  InferAnswers,    \* what the LLM may infer of a text: lists of items
  ImageAnswers,    \* what it may read off an image
  StanceAnswers,   \* the stance labels it may give
  DailyLimit,      \* llm_daily_call_cap; 0 for no cap
  VisionLimit,     \* CountBudget's limit (500)
  MaxDays, MaxSightings, MaxCrashes    \* bounds

\* The classes and labels of schemas/mention.py, and what the stages may find.
Classes == {"equity", "etf", "option", "crypto", "index", "fx", "unknown"}
Stances == {"bullish", "bearish", "neutral", "unclear"}
Items == [symbol : Symbols, class : Classes, wellFormed : BOOLEAN,
          confidence : Nat, stance : Stances]
Labels == [stance : Stances, confidence : Nat, conviction : 0 .. 100]
Names == [symbol : Symbols, class : Classes, indirect : BOOLEAN]
ImagesOf(p) == ToSet(Text[p].media)
Images == UNION {ImagesOf(p) : p \in Posts}
ContractsIn(p) == {o.contract : o \in Text[p].options}
Contracts == {"none"} \cup UNION {ContractsIn(p) : p \in Posts}

ASSUME LoopAssumption == Loop \in Tasks
ASSUME BudgetAssumption ==
  DailyLimit \in Nat /\ VisionLimit \in Nat /\ MaxDays \in Nat

\* Texts and answers are what the stages can make something of: the pydantic
\* schemas of the answers, the symbols a model looks at.
ASSUME ReadingAssumption ==
  /\ NoPost \notin Posts
  /\ InferAnswers \cup ImageAnswers \subseteq Seq(Items)
  /\ StanceAnswers \subseteq Labels
  /\ \A p \in Posts :
       /\ {o.root : o \in Text[p].options} \cup Text[p].tags \subseteq Symbols
       /\ Text[p].aliases \in Seq(Names)
       /\ Text[p].media \in Seq(ImagesOf(p))
       /\ IsFiniteSet(Text[p].options) /\ IsFiniteSet(Text[p].tags)
       /\ {Text[p].bull, Text[p].bear, Text[p].committed, Text[p].hedged} \subseteq Nat
       /\ Text[p].ts \in Int /\ Text[p].credibility \in Nat
       /\ Text[p].lean \in {"bullish", "bearish", "none"}

VARIABLES
  today,           \* the UTC date
  llm,             \* the DailyCallBudget: the date it counts for, and its count
  visionUsed,      \* the CountBudget of the image reader
  cache,           \* the image cache: url -> the mentions read off it
  conviction,      \* of the mention objects of the images read
  task,            \* where each task is, and what it has found
  inserted,        \* the posts with a row
  saved,           \* saved[p]: its conviction row, NoRow while there is none
  sightings, crashes,
  \* history
  calls,           \* LLM calls granted today in this process
  labels           \* labels[p]: the convictions the stance stage gave to p

shared == <<llm, visionUsed, cache, conviction, calls>>
bounds == <<sightings, crashes>>
vars == <<today, shared, task, inserted, saved, bounds, labels, memory>>

NoRow == -1
NoTask == [pc |-> "idle", post |-> NoPost, new |-> FALSE, found |-> {},
           dropped |-> {}, media |-> <<>>, own |-> 0]

Init ==
  /\ AnalyzerInit
  /\ today = 0
  /\ llm = [day |-> 0, used |-> 0]
  /\ visionUsed = 0
  /\ cache = << >> /\ conviction = << >>
  /\ task = [t \in Tasks |-> NoTask]
  /\ inserted = {} /\ saved = [p \in Posts |-> NoRow]
  /\ sightings = 0 /\ crashes = 0
  /\ calls = 0
  /\ labels = [p \in Posts |-> {}]

-----------------------------------------------------------------------------
(* The deterministic stages                                                *)

SymbolsOf(ms) == {m.symbol : m \in ms}

Plain(symbol, class, how, confidence) ==
  [symbol |-> symbol, class |-> class, contract |-> "none", how |-> how,
   confidence |-> confidence, object |-> <<>>, stance |-> "neutral",
   stanceConfidence |-> 0]

\* S1a: a contract of an option, under its root.
Options(x) ==
  {[Plain(o.root, "option", "exact", 90) EXCEPT !.contract = o.contract] :
     o \in x.options}

\* is_real_ticker: FALSE for the English word, "maybe" when nothing tells.
IsRealTicker(symbol, x) ==
  IF symbol \notin Collisions THEN [real |-> "yes", confidence |-> 97]
  ELSE IF x.finance \/ Cardinality(x.tags) > 1
       THEN [real |-> "yes", confidence |-> 85]
  ELSE IF symbol \in x.words THEN [real |-> "no", confidence |-> 60]
  ELSE [real |-> "maybe", confidence |-> 50]

ClassifySymbol(symbol, x) ==
  IF symbol \in AlwaysEquity THEN "equity"
  ELSE IF symbol \in CryptoSymbols THEN (IF x.etf THEN "etf" ELSE "crypto")
  ELSE IF x.onchain THEN "crypto" ELSE "equity"

\* S1b: cashtags that are no options and no English words.
Cashtags(x) ==
  {Plain(s, ClassifySymbol(s, x),
         IF IsRealTicker(s, x).confidence >= 90 THEN "exact" ELSE "disambig",
         IsRealTicker(s, x).confidence) :
     s \in {c \in x.tags : /\ c \notin {o.root : o \in x.options}
                           /\ IsRealTicker(c, x).real # "no"}}

\* The first mention of a symbol stays; later ones of it are left out.  A list is
\* a function on some numbers, in their order.
AddUnseen(ms, list) ==
  ms \cup {list[k] : k \in {k \in DOMAIN list :
              /\ list[k].symbol \notin SymbolsOf(ms)
              /\ \A j \in DOMAIN list : j < k => list[j].symbol # list[k].symbol}}

\* S2: names of companies, products and people, the longest first.
Aliases(x) ==
  [i \in DOMAIN x.aliases |->
     Plain(x.aliases[i].symbol, x.aliases[i].class, "alias",
           IF x.aliases[i].indirect THEN 80 ELSE 90)]

\* Mutant of Found: names are linked whether their symbol was tagged or not.
FoundWithAllNames(x) == Options(x) \cup Cashtags(x) \cup ToSet(Aliases(x))

Found(x) == AddUnseen(Options(x) \cup Cashtags(x), Aliases(x))

\* _option_signature and _dedupe: of the mentions of one signature the surest.
Signature(m) == <<m.symbol, m.class, m.contract>>
Dedupe(ms) ==
  {m \in ms : \A n \in ms : Signature(n) = Signature(m) =>
                              n.confidence <= m.confidence}

-----------------------------------------------------------------------------
(* The budgets                                                             *)

\* Mutant of Rolled: the date moves on, the count is not reset.
RolledLate == IF llm.day = today THEN llm ELSE [llm EXCEPT !.day = today]

\* _roll: the count starts again with the first call of a UTC date.
Rolled == IF llm.day = today THEN llm ELSE [day |-> today, used |-> 0]

Permits(b) == DailyLimit = 0 \/ b.used < DailyLimit

\* consume_or_raise.  An uncapped budget does not count.
Consume ==
  /\ Permits(Rolled)
  /\ llm' = IF DailyLimit = 0 THEN llm ELSE [Rolled EXCEPT !.used = @ + 1]
  /\ calls' = calls + 1

Denied ==
  /\ ~Permits(Rolled)
  /\ llm' = Rolled
  /\ UNCHANGED calls

\* A call that is not answered: refused by the budget, or failed.
NoAnswer == Denied \/ Consume

-----------------------------------------------------------------------------
(* The stages that ask the LLM                                             *)

At(t, pc) == task[t].pc = pc
The(t) == Text[task[t].post]

\* The stages are for what the ones before have not found: the inference if
\* there are four words, the images if there are any.
AfterInference(media, ms) == IF ms = {} /\ media # <<>> THEN "image" ELSE "stance"
AfterText(x, media, ms) ==
  IF ms = {} /\ x.long THEN "infer" ELSE AfterInference(media, ms)

\* The images a task has of p: only the process loop passes media_urls on.
MediaFor(t, p) == IF t = Loop THEN Text[p].media ELSE <<>>

\* process_post takes up a post; S1 and S2 need no await.
Take(t, p) ==
  LET ms == Found(Text[p])
      media == MediaFor(t, p) IN
  /\ At(t, "idle")
  /\ sightings < MaxSightings
  /\ sightings' = sightings + 1
  /\ inserted' = inserted \cup {p}
  /\ task' = [task EXCEPT ![t] =
                [pc |-> IF ms # {} THEN "relevance" ELSE AfterText(Text[p], media, ms),
                 post |-> p, new |-> p \notin inserted, found |-> ms,
                 dropped |-> {}, media |-> media, own |-> 0]]
  /\ UNCHANGED <<today, shared, saved, crashes, labels, memory>>

\* Mutant of Relevance: a gate that fails drops what it was asked about.
RelevanceClosed(t) ==
  /\ At(t, "relevance")
  /\ \/ /\ Consume
        /\ \E out \in SUBSET SymbolsOf(task[t].found) :
             LET kept == {m \in task[t].found : m.symbol \notin out} IN
             task' = [task EXCEPT ![t].found = kept, ![t].dropped = out,
                                  ![t].pc = AfterText(The(t), task[t].media, kept)]
     \/ /\ NoAnswer
        /\ task' = [task EXCEPT ![t].found = {},
                                ![t].pc = AfterText(The(t), task[t].media, {})]
  /\ UNCHANGED <<today, visionUsed, cache, conviction, inserted, saved, bounds,
                 labels, memory>>

\* S2b: one call for all symbols; those it is confident are no assets go.
\* Without an answer all stay.
Relevance(t) ==
  /\ At(t, "relevance")
  /\ \/ /\ Consume
        /\ \E out \in SUBSET SymbolsOf(task[t].found) :
             LET kept == {m \in task[t].found : m.symbol \notin out} IN
             task' = [task EXCEPT ![t].found = kept, ![t].dropped = out,
                                  ![t].pc = AfterText(The(t), task[t].media, kept)]
     \/ /\ NoAnswer
        /\ task' = [task EXCEPT ![t].pc = "stance"]
  /\ UNCHANGED <<today, visionUsed, cache, conviction, inserted, saved, bounds,
                 labels, memory>>

\* to_mentions of an inference: no malformed symbols, 65 or more, capped at 85, and
\* what is not said to be a coin is a share.
Inferred(items) ==
  [k \in {k \in DOMAIN items : items[k].wellFormed /\ items[k].confidence >= 65} |->
     Plain(items[k].symbol,
           IF items[k].class = "crypto" THEN "crypto" ELSE "equity", "inferred",
           Least(85, items[k].confidence))]

\* S2c: also when the gate has just dropped everything the text named.
Infer(t) ==
  LET settled(ms) == task' = [task EXCEPT ![t].found = ms,
                                          ![t].pc = AfterInference(task[t].media, ms)] IN
  /\ At(t, "infer")
  /\ \/ Consume /\ \E items \in InferAnswers :
                     settled(AddUnseen({}, Inferred(items)))
     \/ NoAnswer /\ settled({})
  /\ UNCHANGED <<today, visionUsed, cache, conviction, inserted, saved, bounds,
                 labels, memory>>

\* The task is done with the image at the head of its list, which shows ms.
Seen(t, ms) ==
  task' = [task EXCEPT ![t].found = AddUnseen(@, ms),
                       ![t].media = Tail(@),
                       ![t].pc = IF Len(task[t].media) = 1 THEN "stance" ELSE "image"]

InCache(url) == url \in DOMAIN cache

\* CachingBudgetedVision.extract, as far as the call of the inner reader: the
\* image is in the cache, or the process has had its share of images, or it is
\* looked at.
CacheHit(t) ==
  /\ At(t, "image")
  /\ InCache(Head(task[t].media))
  /\ Seen(t, cache[Head(task[t].media)])
  /\ UNCHANGED <<today, shared, inserted, saved, bounds, labels, memory>>

OverVision(t) ==
  /\ At(t, "image")
  /\ ~InCache(Head(task[t].media)) /\ visionUsed = VisionLimit
  /\ Seen(t, << >>)
  /\ UNCHANGED <<today, shared, inserted, saved, bounds, labels, memory>>

LookAt(t) ==
  /\ At(t, "image")
  /\ ~InCache(Head(task[t].media)) /\ visionUsed < VisionLimit
  /\ visionUsed' = visionUsed + 1
  /\ Consume
  /\ task' = [task EXCEPT ![t].pc = "looking"]
  /\ UNCHANGED <<today, cache, conviction, inserted, saved, bounds, labels, memory>>

\* _to_mentions of an image: as objects, which are called after the image and the
\* place in the answer (an image is read once, see CacheInv).
OffImage(url, items) ==
  LET good == {k \in DOMAIN items : items[k].wellFormed /\ items[k].confidence >= 60}
      mention(i, k) ==
        [symbol |-> i.symbol,
         class |-> ClassifySymbol(i.symbol, [etf |-> FALSE, onchain |-> FALSE]),
         contract |-> "none", how |-> "image", confidence |-> Least(90, i.confidence),
         object |-> <<url, k>>, stance |-> i.stance,
         stanceConfidence |-> IF i.stance = "neutral" THEN 50
                              ELSE (i.confidence * 85) \div 100] IN
  [k \in good |-> mention(items[k], k)]

Put(f, x, v) == [y \in DOMAIN f \cup {x} |-> IF y = x THEN v ELSE f[y]]

\* The inner reader answers, and the result goes into the cache.
Answer(t) ==
  LET url == Head(task[t].media) IN
  /\ At(t, "looking")
  /\ \E items \in ImageAnswers :
       LET ms == OffImage(url, items)
           objects == {ms[k].object : k \in DOMAIN ms} IN
       /\ cache' = Put(cache, url, ms)
       /\ conviction' = [o \in DOMAIN conviction \cup objects |->
                           IF o \in objects THEN 50 ELSE conviction[o]]
       /\ Seen(t, ms)
  /\ UNCHANGED <<today, llm, visionUsed, calls, inserted, saved, bounds, labels, memory>>

\* The inner reader raises, over the daily budget at once, or later: there is
\* no handler, and process_post raises with it.
Refused(t) ==
  /\ At(t, "image")
  /\ ~InCache(Head(task[t].media)) /\ visionUsed < VisionLimit
  /\ visionUsed' = visionUsed + 1
  /\ Denied
  /\ task' = [task EXCEPT ![t] = NoTask]
  /\ UNCHANGED <<today, cache, conviction, inserted, saved, bounds, labels, memory>>

LookFails(t) ==
  /\ At(t, "looking")
  /\ task' = [task EXCEPT ![t] = NoTask]
  /\ UNCHANGED <<today, shared, inserted, saved, bounds, labels, memory>>

-----------------------------------------------------------------------------
(* Stance, and what process_post does with the mentions                    *)

Cut(x, lo, hi) == IF x < lo THEN lo ELSE IF x > hi THEN hi ELSE x
Flip(stance) ==
  CASE stance = "bullish" -> "bearish" [] stance = "bearish" -> "bullish"
    [] OTHER -> stance

\* RuleBasedStanceClassifier: bull and bear count the words of each kind, and
\* lean is what is left to go by when there are none.
RuleStance(x) ==
  LET conviction_ == Cut(50 + 15 * x.committed - 15 * x.hedged, 20, 90)
      label(stance, sure, conv) ==
        [stance |-> stance, confidence |-> sure, conviction |-> conv]
      margin == IF x.bull > x.bear THEN x.bull - x.bear ELSE x.bear - x.bull
      base == IF x.bull > x.bear THEN "bullish"
              ELSE IF x.bear > x.bull THEN "bearish" ELSE x.lean
      strength == IF margin = 0 THEN 50 ELSE Cut(55 + 15 * margin, 0, 100)
      negated == IF x.negated THEN Flip(base) ELSE base IN
  IF x.question THEN label("neutral", 80, 25)
  ELSE IF x.bull = x.bear /\ x.bull > 0 THEN label("unclear", 40, conviction_)
  ELSE IF base = "none"
       THEN IF x.sarcasm THEN label("unclear", 40, conviction_)
                         ELSE label("neutral", 55, conviction_)
  ELSE IF x.sarcasm
       THEN label(Flip(negated), Cut(strength, 0, 65), conviction_)
       ELSE label(negated, strength, conviction_)

\* The mentions of an image keep the stance they came with.
Labelled(ms, label) ==
  {IF m.how = "image" THEN m
   ELSE [m EXCEPT !.stance = label.stance, !.stanceConfidence = label.confidence] :
     m \in ms}

\* Mutant of Judge: the mentions of an image are passed over before they get
\* the conviction.
JudgeText(t, label) ==
  /\ task' = [task EXCEPT ![t].found = Dedupe(Labelled(@, label)), ![t].own = label.conviction,
                          ![t].pc = IF task[t].new THEN "feed" ELSE "alert"]
  /\ labels' = [labels EXCEPT ![task[t].post] = @ \cup {label.conviction}]
  /\ UNCHANGED conviction

\* S3: one label for the post.  Every mention gets its conviction, the shared
\* ones too.
Judge(t, label) ==
  LET objects == {m.object : m \in task[t].found} IN
  /\ conviction' = [o \in DOMAIN conviction |->
                      IF o \in objects THEN label.conviction ELSE conviction[o]]
  /\ task' = [task EXCEPT ![t].found = Dedupe(Labelled(@, label)), ![t].own = label.conviction,
                          ![t].pc = IF task[t].new THEN "feed" ELSE "alert"]
  /\ labels' = [labels EXCEPT ![task[t].post] = @ \cup {label.conviction}]

\* FallbackStanceClassifier: the LLM's label, or that of the rules.
Stance(t) ==
  /\ At(t, "stance")
  /\ \/ Consume /\ \E label \in StanceAnswers : Judge(t, label)
     \/ NoAnswer /\ Judge(t, RuleStance(The(t)))
  /\ UNCHANGED <<today, visionUsed, cache, inserted, saved, bounds, memory>>

\* add_mentions, set_post_state and get_credibility (see Spine), then the
\* mentions go to the Analyzer without an await in between.
Feed(t) ==
  LET x == The(t)
      ms == SetToSeq(task[t].found)
      entry(m) == [symbol |-> m.symbol, stance |-> m.stance, author |-> x.author,
                   confidence |-> m.stanceConfidence, ts |-> x.ts,
                   credibility |-> x.credibility] IN
  /\ At(t, "feed")
  /\ Ingest([i \in DOMAIN ms |-> entry(ms[i])])
  /\ task' = [task EXCEPT ![t].pc = IF task[t].found = {} THEN "alert" ELSE "save"]
  /\ UNCHANGED <<today, shared, inserted, saved, bounds, labels>>

\* The conviction a mention has by now.
ConvictionOf(t, m) == IF m.how = "image" THEN conviction[m.object] ELSE task[t].own

\* save_post_conviction, of the first mention; their order is left open.  A row
\* that is there stays.
SaveConviction(t) ==
  /\ At(t, "save")
  /\ \E m \in task[t].found :
       saved' = [saved EXCEPT ![task[t].post] = IF @ = NoRow THEN ConvictionOf(t, m) ELSE @]
  /\ task' = [task EXCEPT ![t].pc = "alert"]
  /\ UNCHANGED <<today, shared, inserted, bounds, labels, memory>>

\* send_alert, which drops or mutes a mention by its conviction (see Spine).
Alert(t) ==
  /\ At(t, "alert")
  /\ task' = [task EXCEPT ![t] = NoTask]
  /\ UNCHANGED <<today, shared, inserted, saved, bounds, labels, memory>>

-----------------------------------------------------------------------------
\* The call scan shares the daily budget.
ScanAsks ==
  /\ Consume
  /\ UNCHANGED <<today, visionUsed, cache, conviction, task, inserted,
                 saved, bounds, labels, memory>>

Midnight ==
  /\ today < MaxDays
  /\ today' = today + 1
  /\ calls' = 0
  /\ UNCHANGED <<llm, visionUsed, cache, conviction, task, inserted,
                 saved, bounds, labels, memory>>

\* Budgets, cache and Analyzer live in the process.
Crash ==
  /\ crashes < MaxCrashes
  /\ crashes' = crashes + 1
  /\ llm' = [day |-> 0, used |-> 0] /\ visionUsed' = 0 /\ calls' = 0
  /\ cache' = << >> /\ conviction' = << >>
  /\ task' = [t \in Tasks |-> NoTask]
  /\ Forget
  /\ UNCHANGED <<today, inserted, saved, sightings, labels>>

Continue(t) ==
  \/ Relevance(t) \/ Infer(t)
  \/ CacheHit(t) \/ OverVision(t) \/ LookAt(t) \/ Answer(t)
  \/ Refused(t) \/ LookFails(t)
  \/ Stance(t) \/ Feed(t) \/ SaveConviction(t) \/ Alert(t)

Next ==
  \/ \E t \in Tasks, p \in Posts : Take(t, p)
  \/ \E t \in Tasks : Continue(t)
  \/ ScanAsks
  \/ Midnight \/ Crash

Spec == Init /\ [][Next]_vars

-----------------------------------------------------------------------------
\* A mention of the text is nobody else's; one of an image is an object of the
\* reading of that image.
Objects == Images \X Nat
Mentions ==
  [symbol : Symbols, class : Classes, contract : Contracts,
   how : {"exact", "disambig", "alias", "inferred", "image"}, confidence : Nat,
   object : Objects \cup {<<>>}, stance : Stances, stanceConfidence : Nat]

TaskStates ==
  [pc : {"idle", "relevance", "infer", "image", "looking", "stance", "feed", "save",
         "alert"},
   post : Posts \cup {NoPost}, new : BOOLEAN, found : SUBSET Mentions,
   dropped : SUBSET Symbols, media : Seq(Images), own : 0 .. 100]

TypeOK ==
  /\ today \in 0 .. MaxDays
  /\ llm \in [day : 0 .. today, used : Nat] /\ calls \in Nat
  /\ visionUsed \in 0 .. VisionLimit
  /\ DOMAIN cache \subseteq Images
  /\ \A url \in DOMAIN cache :
       /\ DOMAIN cache[url] \subseteq Nat
       /\ \A k \in DOMAIN cache[url] : cache[url][k] \in Mentions
  /\ DOMAIN conviction \subseteq Objects
  /\ \A o \in DOMAIN conviction : conviction[o] \in 0 .. 100
  /\ task \in [Tasks -> TaskStates]
  /\ inserted \subseteq Posts /\ saved \in [Posts -> 0 .. 100 \cup {NoRow}]
  /\ labels \in [Posts -> SUBSET (0 .. 100)]

\* Each stage starts from what the ones before it left.
StageInv ==
  \A t \in Tasks :
    /\ At(t, "idle") \/ task[t].post \in Posts
    /\ At(t, "relevance") => task[t].dropped = {}
    /\ t # Loop => task[t].media = <<>>
    /\ At(t, "infer") => task[t].found = {}
    /\ At(t, "image") \/ At(t, "looking") => task[t].media # <<>>
    /\ ~At(t, "idle") => ToSet(task[t].media) \subseteq ImagesOf(task[t].post)

\* An image is read only while it is not in the cache, so once in a process
\* (vision.py:8); its objects are in the cache, and with the process loop.
CacheInv ==
  /\ \A url \in DOMAIN cache : \A k \in DOMAIN cache[url] :
       LET m == cache[url][k]
       IN m.how = "image" /\ m.object \in DOMAIN conviction /\ m.object[1] = url
  /\ \A o \in DOMAIN conviction : o[1] \in DOMAIN cache
  /\ \A t \in Tasks :
       /\ At(t, "looking") => Head(task[t].media) \notin DOMAIN cache
       /\ \A m \in task[t].found :
            IF m.how = "image"
            THEN t = Loop /\ m.object \in DOMAIN conviction /\ m.object[1] \in ImagesOf(task[t].post)
            ELSE m.object = <<>>

\* The mentions ms have one for each symbol, or several options on it.
OneEach(ms) ==
  \A m, n \in ms :
    m # n /\ m.symbol = n.symbol =>
      /\ m.class = "option" /\ n.class = "option"
      /\ m.contract # n.contract

\* A symbol is mentioned once in a post, or as several options on it: whatever
\* stages named it and whatever class each took it for, it is alerted, stored
\* and counted once.
OneMentionPerContract == \A t \in Tasks : OneEach(task[t].found)

\* Tasks, budgets, cache and rows are well-typed, an image is read once, and a symbol
\* is mentioned once.
ReadingInv == TypeOK /\ StageInv /\ CacheInv /\ OneMentionPerContract

\* An LLM that is down, or over its budget, silences nothing the text names
\* (relevance.py:10-12): at every stage it is still there, unless the gate was
\* confident that it is no asset.  So the one stage that raises, the images,
\* raises only where the text had nothing.
TextIsKept ==
  \A t \in Tasks : task[t].pc # "idle" =>
    \A m \in Found(The(t)) :
      \/ m.symbol \in task[t].dropped
      \/ \E n \in task[t].found : Signature(n) = Signature(m) /\ n.how = m.how

\* The daily cap holds over all that ask the budget, whoever asks first after
\* midnight; and nobody is refused before the process has been granted as many calls
\* that day.  The writer of the pulse does not ask, and a call that is granted may
\* try its request again: of requests in all this says nothing.
BudgetIsExact ==
  DailyLimit > 0 =>
    /\ calls <= DailyLimit
    /\ Rolled.used = calls

\* A post is stored, and alerted, with the conviction its own reading gave it,
\* also where its mentions are those of an image that an earlier post showed and
\* that still have the conviction of that post when the cache hands them out.
ConvictionIsOwn ==
  /\ \A p \in Posts : saved[p] \in {NoRow} \cup labels[p]
  /\ \A t \in Tasks : task[t].pc \in {"feed", "save", "alert"} =>
       /\ task[t].own \in labels[task[t].post]
       /\ \A m \in task[t].found : ConvictionOf(t, m) = task[t].own

\* What the Analyzer is fed with.
Entries ==
  [symbol : Symbols, stance : Stances, author : {Text[p].author : p \in Posts},
   confidence : Nat, ts : {Text[p].ts : p \in Posts},
   credibility : {Text[p].credibility : p \in Posts}]
Moments == [known : BOOLEAN, a : Int, b : Nat, q : Nat, halved : Nat, last : Int]

\* See Analyzer: whatever was fed, and in which order, at any time around the posts.
MoodIsOfThePosts ==
  /\ fed \in Seq(Entries) /\ mood \in [Symbols -> Moments]
  /\ ClockIsOfTheLast /\ VoicesAreCounted
  /\ \A p \in Posts : \A now \in {Text[p].ts, Text[p].ts + 1} : MoodIsOfThePostsAt(now)
=============================================================================
