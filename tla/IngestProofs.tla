---------------------------- MODULE IngestProofs ----------------------------
(***************************************************************************)
(* Proofs about Ingest, for any sources, feeds, pages, buffer and number   *)
(* of commands and faults.                                                 *)
(*                                                                         *)
(* That nothing falls through is a promise about since.  A handle's poll   *)
(* moves since at its end, over posts it has long handed on, so the        *)
(* promise must cover what the poll under way will do (PollIsCovered); a   *)
(* channel's poll moves since first, so all of a channel's posts in the    *)
(* pipes are behind it (PollersAreInOrder), which also keeps their order.  *)
(* Of a restart it matters that nothing survives the process but its       *)
(* tables (DownIsEmpty).                                                   *)
(***************************************************************************)
EXTENDS Ingest, SequenceTheorems, TLAPS

-----------------------------------------------------------------------------
(* Sequences                                                               *)

\* The elements of a sequence.
LEMMA ElementsOfSeq ==
  ASSUME NEW S, NEW s \in Seq(S)
  PROVE  ToSet(s) \subseteq S
  BY LenProperties, ElementOfSeq DEF ToSet

\* The first element of a sequence, and what the rest of it holds.
LEMMA HeadAndTail ==
  ASSUME NEW S, NEW s \in Seq(S), s # <<>>
  PROVE  /\ Head(s) \in S
         /\ Tail(s) \in Seq(S)
         /\ ToSet(s) = {Head(s)} \cup ToSet(Tail(s))
<1>1. PICK h \in S, t \in Seq(S) : h = Head(s) /\ t = Tail(s)
  BY HeadTailProperties
<1>2. <<h>> \in Seq(S) /\ Len(<<h>>) = 1 /\ <<h>>[1] = h /\ Range(<<h>>) = {h}
  BY DEF Range
<1>3. PICK one \in Seq(S) : one = <<h>>
  BY <1>2
<1>4. s = one \o t
  <2>1. one \o t \in Seq(S) /\ Len(one \o t) = Len(s)
    BY <1>1, <1>2, <1>3, HeadTailProperties, ConcatProperties, LenProperties
  <2>2. \A i \in 1 .. Len(s) : s[i] = (one \o t)[i]
    BY <1>1, <1>2, <1>3, HeadTailProperties, ConcatProperties, LenProperties
  <2> QED
    BY <2>1, <2>2, SeqEqual
<1>5. Range(s) = {h} \cup Range(t)
  <2>1. Range(one \o t) = Range(one) \cup Range(t)
    BY RangeConcatenation
  <2> QED
    BY <1>2, <1>3, <1>4, <2>1
<1> QED
  BY <1>1, <1>5 DEF ToSet, Range

\* An element more at the end of a sequence.
LEMMA AppendOne ==
  ASSUME NEW S, NEW s \in Seq(S), NEW x \in S
  PROVE  /\ Append(s, x) \in Seq(S)
         /\ Len(s) \in Nat
         /\ DOMAIN s = 1 .. Len(s)
         /\ DOMAIN Append(s, x) = 1 .. Len(s) + 1
         /\ \A i \in DOMAIN s : Append(s, x)[i] = s[i]
         /\ Append(s, x)[Len(s) + 1] = x
         /\ ToSet(Append(s, x)) = ToSet(s) \cup {x}
<1>1. <<x>> \in Seq(S) /\ Append(s, x) = s \o <<x>> /\ Range(<<x>>) = {x}
  BY AppendIsConcat DEF Range
<1>2. ToSet(Append(s, x)) = ToSet(s) \cup {x}
  BY <1>1, RangeConcatenation DEF ToSet, Range
<1> QED
  BY <1>2, AppendProperties, LenProperties

-----------------------------------------------------------------------------

\* The larger of two numbers.
LEMMA LaterOfTwo ==
  ASSUME NEW i \in Int, NEW j \in Int
  PROVE  /\ Later(i, j) \in {i, j}
         /\ i <= Later(i, j) /\ j <= Later(i, j)
  BY DEF Later

\* A post and its parts.
LEMMA PartsOfPost ==
  ASSUME NEW p \in Posts
  PROVE  /\ p[1] \in Sources /\ p[2] \in 1 .. MaxPosts
         /\ p = <<p[1], p[2]>> /\ p # NoPost /\ p # Ended
  BY NoPostAssumption DEF Posts

\* The window of a poll: not before since, and what lies in it.
LEMMA WindowOfPoll ==
  ASSUME StreamInv, NEW s \in Sources
  PROVE  /\ published[s] \in 0 .. MaxPosts /\ since[s] \in -1 .. MaxPosts
         /\ Begin(s) \in 0 .. published[s] /\ since[s] <= Begin(s)
         /\ Beyond(s) \in Begin(s) .. published[s]
<1>1. /\ published[s] \in 0 .. MaxPosts /\ since[s] \in -1 .. MaxPosts
      /\ since[s] <= published[s]
  BY DEF StreamInv, TypeOK, PollersAreInOrder
<1>2. Lookback[s] \in Nat /\ Reach[s] \in Nat \ {0}
  BY ReachAssumption
<1>3. Begin(s) \in 0 .. published[s] /\ since[s] <= Begin(s)
  BY <1>1, <1>2, BoundsAssumption DEF Begin, Later, Unpolled
<1>4. Beyond(s) \in Begin(s) .. published[s]
  BY <1>1, <1>2, <1>3, BoundsAssumption DEF Beyond, Later
<1> QED
  BY <1>1, <1>3, <1>4

\* The posts of a poll, in the order they were written.
LEMMA FreshPosts ==
  ASSUME StreamInv, NEW s \in Sources
  PROVE  /\ Fresh(s) \in Seq(Posts)
         /\ DOMAIN Fresh(s) = 1 .. published[s] - Beyond(s)
         /\ Len(Fresh(s)) = published[s] - Beyond(s)
         /\ \A i \in DOMAIN Fresh(s) : Fresh(s)[i] = <<s, Beyond(s) + i>>
         /\ ToSet(Fresh(s)) =
              {p \in Posts : p[1] = s /\ Beyond(s) < p[2] /\ p[2] <= published[s]}
<1> DEFINE n == published[s] - Beyond(s)
<1>1. /\ n \in Nat /\ Beyond(s) \in 0 .. published[s]
      /\ published[s] \in 0 .. MaxPosts
  BY WindowOfPoll, BoundsAssumption
<1>2. \A i \in 1 .. n : <<s, Beyond(s) + i>> \in Posts
  BY <1>1, BoundsAssumption DEF Posts
<1>3. Fresh(s) = [i \in 1 .. n |-> <<s, Beyond(s) + i>>]
  BY DEF Fresh
<1> HIDE DEF n
<1>4. /\ Fresh(s) \in Seq(Posts) /\ DOMAIN Fresh(s) = 1 .. n
      /\ \A i \in DOMAIN Fresh(s) : Fresh(s)[i] = <<s, Beyond(s) + i>>
  BY <1>1, <1>2, <1>3, IsASeq
<1>5. Len(Fresh(s)) = n
  BY <1>1, <1>4, LenProperties
<1>6. ASSUME NEW p \in ToSet(Fresh(s))
      PROVE  p \in Posts /\ p[1] = s /\ Beyond(s) < p[2] /\ p[2] <= published[s]
  <2>1. PICK i \in 1 .. n : p = <<s, Beyond(s) + i>>
    BY <1>4, <1>6 DEF ToSet
  <2> QED
    BY <1>1, <1>2, <2>1 DEF n
<1>7. ASSUME NEW p \in Posts, p[1] = s, Beyond(s) < p[2], p[2] <= published[s]
      PROVE  p \in ToSet(Fresh(s))
  <2>1. p[2] - Beyond(s) \in 1 .. n /\ p = <<s, Beyond(s) + (p[2] - Beyond(s))>>
    BY <1>1, <1>7, PartsOfPost, BoundsAssumption DEF n
  <2> QED
    BY <1>4, <2>1 DEF ToSet
<1> QED
  BY <1>4, <1>5, <1>6, <1>7 DEF n

\* A sequence turned around holds the same.
LEMMA ReverseHoldsSame ==
  ASSUME NEW S, NEW q \in Seq(S)
  PROVE  Reverse(q) \in Seq(S) /\ ToSet(Reverse(q)) = ToSet(q)
<1>1. /\ Len(q) \in Nat /\ DOMAIN q = 1 .. Len(q)
      /\ \A i \in 1 .. Len(q) : q[i] \in S /\ Len(q) - i + 1 \in 1 .. Len(q)
  BY LenProperties, ElementOfSeq
<1>2. Reverse(q) = [i \in 1 .. Len(q) |-> q[(Len(q) - i) + 1]]
  BY DEF Reverse
<1>3. Reverse(q) \in Seq(S)
  BY <1>1, <1>2, IsASeq
<1>4. ASSUME NEW x \in ToSet(q)
      PROVE  x \in ToSet(Reverse(q))
  <2>1. PICK i \in 1 .. Len(q) : x = q[i]
    BY <1>1, <1>4 DEF ToSet
  <2>2. /\ Len(q) - i + 1 \in 1 .. Len(q)
        /\ Reverse(q)[Len(q) - i + 1] = q[i]
    BY <1>1, <1>2
  <2> QED
    BY <1>2, <2>1, <2>2 DEF ToSet
<1>5. ASSUME NEW x \in ToSet(Reverse(q))
      PROVE  x \in ToSet(q)
  BY <1>1, <1>2, <1>5 DEF ToSet
<1> QED
  BY <1>3, <1>4, <1>5

\* Where a post may be, place by place.
LEMMA PlacesOfPost ==
  ASSUME NEW p \in Posts
  PROVE  /\ OnItsWay(p) <=>
              \/ p = working \/ p = held \/ p \in ToSet(buffer)
              \/ p \in ToSet(queue) \/ p \in ToSet(batch[p[1]])
         /\ OnItsWay(p)' <=>
              \/ p = working' \/ p = held' \/ p \in ToSet(buffer')
              \/ p \in ToSet(queue') \/ p \in ToSet(batch'[p[1]])
<1>1. \A s : DOMAIN Stages(s) = 1 .. 5 /\ DOMAIN Stages(s)' = 1 .. 5
  BY DEF Stages
<1>2. \A s : /\ Stages(s)[1] = {working} /\ Stages(s)[2] = ToSet(buffer)
             /\ Stages(s)[3] = {held} /\ Stages(s)[4] = ToSet(queue)
             /\ Stages(s)[5] = ToSet(batch[s])
  BY DEF Stages
<1>3. \A s : /\ Stages(s)'[1] = {working'} /\ Stages(s)'[2] = ToSet(buffer')
             /\ Stages(s)'[3] = {held'} /\ Stages(s)'[4] = ToSet(queue')
             /\ Stages(s)'[5] = ToSet(batch'[s])
  BY DEF Stages
<1> QED
  BY <1>1, <1>2, <1>3 DEF OnItsWay

\* The first post of a poll under way, and the rest.
LEMMA HeadOfBatch ==
  ASSUME StreamInv, NEW s \in Sources, batch[s] # <<>>
  PROVE  /\ Head(batch[s]) \in Posts /\ Head(batch[s])[1] = s
         /\ Head(batch[s])[2] \in 1 .. published[s]
         /\ Tail(batch[s]) \in Seq(Posts)
         /\ ToSet(batch[s]) = {Head(batch[s])} \cup ToSet(Tail(batch[s]))
         /\ Len(batch[s]) = 1 => Tail(batch[s]) = <<>>
<1>1. batch[s] \in Seq(Posts)
  BY DEF StreamInv, TypeOK
<1>2. /\ Head(batch[s]) \in Posts /\ Tail(batch[s]) \in Seq(Posts)
      /\ ToSet(batch[s]) = {Head(batch[s])} \cup ToSet(Tail(batch[s]))
  BY <1>1, HeadAndTail
<1>3. Head(batch[s])[1] = s /\ Head(batch[s])[2] <= published[s]
  BY <1>2 DEF StreamInv, PollersAreInOrder
<1>4. Len(batch[s]) = 1 => Tail(batch[s]) = <<>>
  <2>1. Len(Tail(batch[s])) = Len(batch[s]) - 1
    BY <1>1, EmptySeq, HeadTailProperties
  <2>2. Len(batch[s]) = 1 => Len(Tail(batch[s])) = 0
    BY <2>1
  <2> QED
    BY <1>2, <2>2, EmptySeq
<1>5. published[s] \in 0 .. MaxPosts
  BY DEF StreamInv, TypeOK
<1> QED
  BY <1>2, <1>3, <1>4, <1>5, PartsOfPost, BoundsAssumption

\* The process begins with empty pipes, and has polled nobody.
LEMMA InitStreamInv == Init => StreamInv
<1> SUFFICES ASSUME Init
             PROVE  StreamInv
  OBVIOUS
<1>1. TypeOK
  <2>1. account \in [Sources -> {"none", "active", "inactive"}]
    BY DEF Init, GetOrCreate
  <2>2. /\ published \in [Sources -> 0 .. MaxPosts]
        /\ since \in [Sources -> -1 .. MaxPosts]
        /\ seen \in [Sources -> 0 .. MaxPosts]
        /\ commands \in 0 .. MaxCommands /\ faults \in 0 .. MaxFaults
    BY BoundsAssumption DEF Init, Unpolled
  <2>3. /\ batch \in [Sources -> Seq(Posts)] /\ queue \in Seq(Posts)
        /\ buffer \in Seq(Posts) /\ Len(buffer) <= MaxBuffer
        /\ handled \in Seq(Posts)
    BY EmptySeq, BoundsAssumption DEF Init
  <2> QED
    BY <2>1, <2>2, <2>3 DEF Init, TypeOK
<1>2. \A p \in Posts : /\ ~(p[2] <= since[p[1]]) /\ ~(p[2] <= seen[p[1]])
                       /\ ToSet(batch[p[1]]) = {}
  <2> SUFFICES ASSUME NEW p \in Posts
               PROVE  /\ ~(p[2] <= since[p[1]]) /\ ~(p[2] <= seen[p[1]])
                      /\ ToSet(batch[p[1]]) = {}
    OBVIOUS
  <2>1. since[p[1]] = -1 /\ seen[p[1]] = 0 /\ batch[p[1]] = <<>>
    BY PartsOfPost DEF Init, Unpolled
  <2> QED
    BY <2>1, PartsOfPost DEF ToSet
<1>3. PollersAreInOrder
  <2> SUFFICES ASSUME NEW s \in Sources
               PROVE  /\ since[s] <= published[s] /\ seen[s] <= published[s]
                      /\ ToSet(batch[s]) = {}
                      /\ \A i \in 1 .. 4, p \in Posts : p \notin Stages(s)[i]
    BY DEF PollersAreInOrder
  <2>1. /\ Stages(s)[1] = {NoPost} /\ Stages(s)[2] = {}
        /\ Stages(s)[3] = {NoPost} /\ Stages(s)[4] = {}
    BY DEF Init, Stages, ToSet
  <2>2. \A i \in 1 .. 4, p \in Posts : p \notin Stages(s)[i]
    BY <2>1, NoPostAssumption
  <2> QED
    BY <2>2 DEF Init, Unpolled, ToSet
<1>4. HandledIsPast
  BY DEF Init, HandledIsPast, ToSet
<1> QED
  BY <1>1, <1>2, <1>3, <1>4
  DEF Init, StreamInv, NothingFallsThrough, PollIsCovered, DownIsEmpty,
      DismissedIsInactive

\* Commands and faults are counted up to their bounds.
LEMMA CommandsStep ==
  ASSUME StreamInv, [Next]_vars
  PROVE  commands' \in 0 .. MaxCommands /\ faults' \in 0 .. MaxFaults
<1>1. commands \in 0 .. MaxCommands /\ faults \in 0 .. MaxFaults
  BY DEF StreamInv, TypeOK
<1>2. commands' = commands \/ (commands < MaxCommands /\ commands' = commands + 1)
  BY DEF Next, vars, watchlist, Command, AddSource, RemoveSource, Publish, PollX,
         PollTg, Polls, Yield, PollFails, Listen, ReadWatchlist, ProviderDies,
         Loops, TakeFromStream, PutInBuffer, GetFromBuffer, Process,
         ProcessFails, RequestStop, Shutdown, Crash, Gone, Restart
<1>3. faults' = faults \/ (faults < MaxFaults /\ faults' = faults + 1)
  BY DEF Next, vars, Fault, Command, AddSource, RemoveSource, Publish, PollX,
         PollTg, Polls, Yield, PollFails, Listen, ReadWatchlist, ProviderDies,
         Loops, TakeFromStream, PutInBuffer, GetFromBuffer, Process,
         ProcessFails, RequestStop, Shutdown, Crash, Gone, Restart
<1> QED
  BY <1>1, <1>2, <1>3, BoundsAssumption

\* The watchlist is well-typed, and no row of a source that is removed is made
\* active but by the operator.
LEMMA WatchlistStep ==
  ASSUME StreamInv, [Next]_vars
  PROVE  /\ account' \in [Sources -> {"none", "active", "inactive"}]
         /\ dismissed' \subseteq Sources
         /\ commands' \in 0 .. MaxCommands
         /\ DismissedIsInactive'
<1>1. /\ account \in [Sources -> {"none", "active", "inactive"}]
      /\ dismissed \subseteq Sources /\ commands \in 0 .. MaxCommands
      /\ \A s \in dismissed : account[s] = "inactive"
  BY DEF StreamInv, TypeOK, DismissedIsInactive
<1>2. ASSUME NEW wanted, account' = GetOrCreate(account, wanted),
             dismissed' \subseteq dismissed
      PROVE  /\ account' \in [Sources -> {"none", "active", "inactive"}]
             /\ dismissed' \subseteq Sources /\ DismissedIsInactive'
  BY <1>1, <1>2 DEF GetOrCreate, DismissedIsInactive
<1>3. ASSUME NEW s \in Sources, RemoveSource(s)
      PROVE  /\ account' \in [Sources -> {"none", "active", "inactive"}]
             /\ dismissed' \subseteq Sources /\ DismissedIsInactive'
  BY <1>1, <1>3 DEF RemoveSource, DismissedIsInactive
<1>4. CASE account' = account /\ dismissed' = dismissed
  BY <1>1, <1>4, CommandsStep DEF DismissedIsInactive
<1>5. ASSUME NEW s \in Sources, AddSource(s) \/ Listen(s)
      PROVE  /\ \E wanted : account' = GetOrCreate(account, wanted)
             /\ dismissed' \subseteq dismissed
  BY <1>5 DEF AddSource, Listen
<1>6. ASSUME Process \/ Restart
      PROVE  /\ \E wanted : account' = GetOrCreate(account, wanted)
             /\ dismissed' \subseteq dismissed
  BY <1>6 DEF Process, Restart
<1>7. commands' \in 0 .. MaxCommands
  BY CommandsStep
<1> QED
  BY <1>2, <1>3, <1>4, <1>5, <1>6, <1>7
  DEF Next, vars, watchlist, Publish, PollX, PollTg, Polls, Yield, PollFails,
      ReadWatchlist, ProviderDies, Loops, TakeFromStream, PutInBuffer,
      GetFromBuffer, ProcessFails, RequestStop, Shutdown, Crash, Gone

\* Everything the pollers and the loops hold is well-typed.
LEMMA NextTypeOK ==
  ASSUME StreamInv, [Next]_vars
  PROVE  TypeOK'
<1>1. TypeOK
  BY DEF StreamInv
<1>2. /\ account' \in [Sources -> {"none", "active", "inactive"}]
      /\ dismissed' \subseteq Sources
      /\ commands' \in 0 .. MaxCommands /\ faults' \in 0 .. MaxFaults
  BY WatchlistStep, CommandsStep
<1>3. MaxPosts \in Nat /\ MaxBuffer \in Nat \ {0}
  BY BoundsAssumption
<1>4. ASSUME NEW s \in Sources, Publish(s)
      PROVE  TypeOK'
  <2>1. published[s] \in 0 .. MaxPosts /\ published[s] < MaxPosts
    BY <1>1, <1>4 DEF Publish, TypeOK
  <2>2. published' \in [Sources -> 0 .. MaxPosts]
    BY <1>1, <1>3, <1>4, <2>1 DEF Publish, TypeOK
  <2> QED
    BY <1>1, <1>2, <1>4, <2>2 DEF Publish, TypeOK, pollers, pipes, past
<1>5. ASSUME NEW s \in Sources, PollX(s) \/ PollTg(s)
      PROVE  TypeOK'
  <2>1. /\ Fresh(s) \in Seq(Posts) /\ Reverse(Fresh(s)) \in Seq(Posts)
        /\ Begin(s) \in 0 .. MaxPosts /\ published[s] \in 0 .. MaxPosts
    BY <1>3, FreshPosts, ReverseHoldsSame, WindowOfPoll
  <2>2. batch' \in [Sources -> Seq(Posts)]
    <3>1. PICK next \in Seq(Posts) : batch' = [batch EXCEPT ![s] = next]
      BY <1>5, <2>1 DEF PollX, PollTg
    <3> QED
      BY <1>1, <3>1 DEF TypeOK
  <2>3. since' \in [Sources -> -1 .. MaxPosts] /\ seen' \in [Sources -> 0 .. MaxPosts]
    <3>1. Begin(s) \in -1 .. MaxPosts /\ published[s] \in -1 .. MaxPosts
      BY <1>3, <2>1
    <3>2. \/ since' = since
          \/ \E next \in -1 .. MaxPosts : since' = [since EXCEPT ![s] = next]
      BY <1>5, <3>1 DEF PollX, PollTg
    <3>3. \/ seen' = seen
          \/ \E next \in 0 .. MaxPosts : seen' = [seen EXCEPT ![s] = next]
      BY <1>5, <2>1 DEF PollX, PollTg
    <3> QED
      BY <1>1, <3>2, <3>3 DEF TypeOK
  <2>4. Polls(s)
    BY <1>5 DEF PollX, PollTg
  <2>5. cycle' \in [Providers -> SUBSET Sources] /\ missed' \subseteq Posts
    BY <1>1, <2>4 DEF TypeOK, Polls, PassedOver
  <2> QED
    BY <1>1, <1>2, <1>5, <2>2, <2>3, <2>5 DEF TypeOK, PollX, PollTg, Polls, pipes
<1>6. ASSUME NEW s \in Sources, Yield(s)
      PROVE  TypeOK'
  <2> DEFINE post == Head(batch[s])
             highest == Later(post[2], seen[s])
  <2>1. /\ post \in Posts /\ post[2] \in 1 .. published[s] /\ Tail(batch[s]) \in Seq(Posts)
    BY <1>6, HeadOfBatch DEF Yield
  <2>2. published[s] \in 0 .. MaxPosts /\ seen[s] \in 0 .. MaxPosts
    BY <1>1 DEF TypeOK
  <2>3. highest \in 0 .. MaxPosts
    BY <1>3, <2>1, <2>2 DEF Later
  <2>4. Append(queue, post) \in Seq(Posts)
    BY <1>1, <2>1, AppendOne DEF TypeOK
  <2>5. /\ batch' \in [Sources -> Seq(Posts)] /\ queue' \in Seq(Posts)
    BY <1>1, <1>6, <2>1, <2>4 DEF TypeOK, Yield
  <2>6. /\ since' \in [Sources -> -1 .. MaxPosts]
        /\ seen' \in [Sources -> 0 .. MaxPosts]
    <3>1. highest \in -1 .. MaxPosts /\ 0 \in 0 .. MaxPosts
      BY <1>3, <2>3
    <3>2. \/ since' = since
          \/ \E next \in -1 .. MaxPosts : since' = [since EXCEPT ![s] = next]
      BY <1>6, <3>1 DEF Yield
    <3>3. \/ seen' = seen
          \/ \E next \in 0 .. MaxPosts : seen' = [seen EXCEPT ![s] = next]
      BY <1>6, <2>3, <3>1 DEF Yield
    <3> QED
      BY <1>1, <3>2, <3>3 DEF TypeOK
  <2> QED
    BY <1>1, <1>2, <1>6, <2>5, <2>6 DEF TypeOK, Yield, past
<1>7. ASSUME NEW s \in Sources, PollFails(s)
      PROVE  TypeOK'
  <2>1. <<>> \in Seq(Posts) /\ 0 \in 0 .. MaxPosts
    BY <1>3, EmptySeq
  <2>2. /\ batch' \in [Sources -> Seq(Posts)] /\ seen' \in [Sources -> 0 .. MaxPosts]
        /\ cycle' \in [Providers -> SUBSET Sources]
    BY <1>1, <1>7, <2>1 DEF TypeOK, PollFails
  <2> QED
    BY <1>1, <1>2, <1>7, <2>2 DEF TypeOK, PollFails, pipes, past
<1>8. ASSUME NEW provider \in Providers, ReadWatchlist(provider) \/ ProviderDies(provider)
      PROVE  TypeOK'
  <2>1. /\ cycle' \in [Providers -> SUBSET Sources] /\ alive' \subseteq Providers
    BY <1>1, <1>8 DEF TypeOK, ReadWatchlist, ProviderDies, Watched, SourcesOf
  <2> QED
    BY <1>1, <1>2, <1>8, <2>1 DEF TypeOK, ReadWatchlist, ProviderDies, pipes, past
<1>9. CASE TakeFromStream
  <2>1. Head(queue) \in Posts /\ Tail(queue) \in Seq(Posts)
    BY <1>1, <1>9, HeadAndTail DEF TypeOK, TakeFromStream
  <2> QED
    BY <1>1, <1>2, <1>9, <2>1 DEF TypeOK, TakeFromStream, pollers, past
<1>10. CASE PutInBuffer
  <2>1. Append(buffer, held) \in Seq(Posts) /\ Len(Append(buffer, held)) = Len(buffer) + 1
    BY <1>1, <1>10, AppendProperties DEF TypeOK, PutInBuffer
  <2>2. Len(buffer) \in Nat /\ Len(buffer) < MaxBuffer
    BY <1>1, <1>10, LenProperties DEF TypeOK, PutInBuffer, HasSlot
  <2>3. Len(buffer') <= MaxBuffer
    BY <1>3, <1>10, <2>1, <2>2 DEF PutInBuffer
  <2> QED
    BY <1>1, <1>2, <1>10, <2>1, <2>3 DEF TypeOK, PutInBuffer, pollers, past
<1>11. CASE GetFromBuffer
  <2>1. Head(buffer) \in Posts /\ Tail(buffer) \in Seq(Posts)
    BY <1>1, <1>11, HeadAndTail DEF TypeOK, GetFromBuffer
  <2>2. Len(Tail(buffer)) = Len(buffer) - 1 /\ Len(buffer) \in Nat
    BY <1>1, <1>11, HeadTailProperties, LenProperties, EmptySeq DEF TypeOK, GetFromBuffer
  <2>3. Len(buffer') <= MaxBuffer
    BY <1>1, <1>3, <1>11, <2>2 DEF TypeOK, GetFromBuffer
  <2>4. handled' \in Seq(Posts)
    BY <1>1, <1>11, <2>1, AppendOne DEF TypeOK, GetFromBuffer
  <2> QED
    BY <1>1, <1>2, <1>11, <2>1, <2>3, <2>4 DEF TypeOK, GetFromBuffer, pollers, past
<1>12. CASE Process \/ ProcessFails
  BY <1>1, <1>2, <1>12 DEF TypeOK, Process, ProcessFails, pollers
<1>13. ASSUME NEW s \in Sources, Listen(s)
       PROVE  TypeOK'
  <2>1. PICK i \in 1 .. published[s] : done' = done \cup {<<s, i>>}
    BY <1>13 DEF Listen
  <2>2. <<s, i>> \in Posts
    <3>1. published[s] \in 0 .. MaxPosts
      BY <1>1 DEF TypeOK
    <3> QED
      BY <1>3, <2>1, <3>1 DEF Posts
  <2> QED
    BY <1>1, <1>2, <1>13, <2>1, <2>2 DEF TypeOK, Listen, pollers, pipes
<1>14. CASE Shutdown \/ Crash
  <2>1. /\ batch' \in [Sources -> Seq(Posts)] /\ queue' \in Seq(Posts)
        /\ buffer' \in Seq(Posts) /\ Len(buffer') <= MaxBuffer
        /\ handled' \in Seq(Posts)
    <3>1. <<>> \in Seq(Posts) /\ Len(<<>>) = 0
      BY EmptySeq
    <3>2. Gone
      BY <1>14 DEF Shutdown, Crash
    <3>3. /\ queue' \in Seq(Posts) /\ buffer' \in Seq(Posts)
          /\ Len(buffer') <= MaxBuffer /\ handled' \in Seq(Posts)
      BY <1>3, <3>1, <3>2 DEF Gone
    <3>4. batch' \in [Sources -> Seq(Posts)]
      BY <3>1, <3>2 DEF Gone
    <3> QED
      BY <3>3, <3>4
  <2>2. /\ since' \in [Sources -> -1 .. MaxPosts] /\ seen' \in [Sources -> 0 .. MaxPosts]
    BY <1>3, <1>14 DEF Shutdown, Crash, Gone, Unpolled
  <2>3. cycle' \in [Providers -> SUBSET Sources]
    BY <1>14 DEF Shutdown, Crash, Gone
  <2> QED
    BY <1>1, <1>2, <1>14, <2>1, <2>2, <2>3 DEF TypeOK, Shutdown, Crash, Gone, past
<1>15. CASE RequestStop \/ Restart
  BY <1>1, <1>2, <1>15 DEF TypeOK, RequestStop, Restart, pollers, pipes, past
<1>16. ASSUME NEW s \in Sources, AddSource(s) \/ RemoveSource(s)
       PROVE  TypeOK'
  BY <1>1, <1>2, <1>16 DEF TypeOK, AddSource, RemoveSource, Command, pollers, pipes, past
<1>17. CASE UNCHANGED vars
  BY <1>1, <1>17 DEF TypeOK, vars, watchlist, pollers, pipes, past
<1> QED
  BY <1>4, <1>5, <1>6, <1>7, <1>8, <1>9, <1>10, <1>11, <1>12, <1>13, <1>14, <1>15,
     <1>16, <1>17
  DEF Next, Loops

\* What the pollers are past, or will move since to, once the polls under way
\* are over.
Asked(p) ==
  \/ p[2] <= since[p[1]] \/ p[2] <= seen[p[1]]
  \/ \E q \in ToSet(batch[p[1]]) : p[2] <= q[2]

\* All that is asked for is safe: both halves of the promise in one.
LEMMA AskedIsSafe ==
  /\ NothingFallsThrough /\ PollIsCovered
       <=> (up /\ ~stop => \A p \in Posts : Asked(p) => Safe(p))
  /\ (NothingFallsThrough /\ PollIsCovered)'
       <=> (up' /\ ~stop' => \A p \in Posts : Asked(p)' => Safe(p)')
  BY DEF NothingFallsThrough, PollIsCovered, Asked

\* No step of the loops loses a post that is safe: each takes it from one place
\* to the next.  Only a page that fails takes a poll's posts away with it.
LEMMA SafeStays ==
  ASSUME StreamInv, [Next]_vars, up, ~stop, up', ~stop', NEW p \in Posts, Safe(p)
  PROVE  Safe(p)' \/ (PollFails(p[1]) /\ p \in ToSet(batch[p[1]]))
<1>1. TypeOK /\ p # NoPost /\ p # Ended /\ p[1] \in Sources
  BY PartsOfPost DEF StreamInv
<1>0. queue \in Seq(Posts) /\ buffer \in Seq(Posts)
  BY <1>1 DEF TypeOK
<1>2. CASE p \in done \cup failed \cup missed
  <2>1. p \in done' \cup failed' \cup missed'
    BY <1>2 DEF Next, vars, past, Command, AddSource, RemoveSource, Publish, PollX,
       PollTg, Polls, Yield, PollFails, Listen, ReadWatchlist, ProviderDies,
       Loops, TakeFromStream, PutInBuffer, GetFromBuffer, Process,
       ProcessFails, RequestStop, Shutdown, Crash, Gone, Restart
  <2> QED
    BY <2>1 DEF Safe
<1>3. CASE OnItsWay(p) /\ UNCHANGED <<working, held, buffer, queue, batch>>
  BY <1>3, PlacesOfPost DEF Safe
<1>4. ASSUME OnItsWay(p), NEW s \in Sources, PollX(s) \/ PollTg(s)
      PROVE  Safe(p)'
  <2>1. /\ batch[s] = <<>> /\ UNCHANGED pipes
        /\ \E next : batch' = [batch EXCEPT ![s] = next]
    BY <1>4 DEF PollX, PollTg, Polls, Between, SourcesOf
  <2>2. p \notin ToSet(batch[s])
    BY <2>1 DEF ToSet
  <2>3. p[1] # s => batch'[p[1]] = batch[p[1]]
    BY <1>1, <2>1 DEF TypeOK
  <2> QED
    BY <1>4, <2>1, <2>2, <2>3, PlacesOfPost DEF Safe, pipes
<1>5. ASSUME OnItsWay(p), NEW s \in Sources, Yield(s)
      PROVE  Safe(p)'
  <2>1. /\ batch[s] # <<>> /\ batch' = [batch EXCEPT ![s] = Tail(@)]
        /\ queue' = Append(queue, Head(batch[s]))
        /\ UNCHANGED <<working, held, buffer>>
    BY <1>5 DEF Yield
  <2>2. /\ Head(batch[s]) \in Posts
        /\ ToSet(batch[s]) = {Head(batch[s])} \cup ToSet(Tail(batch[s]))
    BY <2>1, HeadOfBatch
  <2>3. ToSet(queue') = ToSet(queue) \cup {Head(batch[s])}
    BY <1>0, <2>1, <2>2, AppendOne
  <2>4. /\ p[1] # s => batch'[p[1]] = batch[p[1]]
        /\ p[1] = s => batch'[p[1]] = Tail(batch[s])
    BY <1>1, <2>1 DEF TypeOK
  <2> QED
    BY <1>5, <2>1, <2>2, <2>3, <2>4, PlacesOfPost DEF Safe
<1>6. ASSUME OnItsWay(p), NEW s \in Sources, PollFails(s)
      PROVE  Safe(p)' \/ (PollFails(p[1]) /\ p \in ToSet(batch[p[1]]))
  <2>1. UNCHANGED pipes /\ batch' = [batch EXCEPT ![s] = <<>>]
    BY <1>6 DEF PollFails
  <2>2. p[1] # s => batch'[p[1]] = batch[p[1]]
    BY <1>1, <2>1 DEF TypeOK
  <2> QED
    BY <1>6, <2>1, <2>2, PlacesOfPost DEF Safe, pipes
<1>7. CASE OnItsWay(p) /\ TakeFromStream
  <2>1. /\ queue # <<>> /\ held = NoPost /\ held' = Head(queue) /\ queue' = Tail(queue)
        /\ UNCHANGED <<working, buffer, batch>>
    BY <1>7 DEF TakeFromStream, pollers
  <2>2. ToSet(queue) = {Head(queue)} \cup ToSet(Tail(queue))
    BY <1>0, <2>1, HeadAndTail
  <2> QED
    BY <1>1, <1>7, <2>1, <2>2, PlacesOfPost DEF Safe
<1>8. CASE OnItsWay(p) /\ PutInBuffer
  <2>1. /\ held \in Posts /\ held' = NoPost /\ buffer' = Append(buffer, held)
        /\ UNCHANGED <<working, queue, batch>>
    BY <1>8 DEF PutInBuffer, pollers
  <2>2. ToSet(buffer') = ToSet(buffer) \cup {held}
    BY <1>0, <2>1, AppendOne
  <2> QED
    BY <1>8, <2>1, <2>2, PlacesOfPost DEF Safe
<1>9. CASE OnItsWay(p) /\ GetFromBuffer
  <2>1. /\ buffer # <<>> /\ working = NoPost /\ working' = Head(buffer)
        /\ buffer' = Tail(buffer) /\ UNCHANGED <<held, queue, batch>>
    BY <1>9 DEF GetFromBuffer, pollers
  <2>2. ToSet(buffer) = {Head(buffer)} \cup ToSet(Tail(buffer))
    BY <1>0, <2>1, HeadAndTail
  <2> QED
    BY <1>1, <1>9, <2>1, <2>2, PlacesOfPost DEF Safe
<1>10. CASE OnItsWay(p) /\ (Process \/ ProcessFails)
  <2>1. /\ p = working => p \in done' \cup failed'
        /\ UNCHANGED <<held, buffer, queue, batch>>
    BY <1>10 DEF Process, ProcessFails, pollers
  <2> QED
    BY <1>10, <2>1, PlacesOfPost DEF Safe
<1>11. ~Restart /\ ~Shutdown /\ ~Crash
  BY DEF Restart, Shutdown, Crash, Gone
<1>12. OnItsWay(p) \/ p \in done \cup failed \cup missed
  BY DEF Safe
<1> QED
  BY <1>2, <1>3, <1>4, <1>5, <1>6, <1>7, <1>8, <1>9, <1>10, <1>11, <1>12
  DEF Next, Loops, vars, pollers, pipes, Command, Publish, AddSource, RemoveSource,
      Listen, ReadWatchlist, ProviderDies, RequestStop

\* A poll leaves no gap: of its source, all it was not past and there is to read
\* is now on its way, or counted as out of reach.
LEMMA PollLeavesNoGap ==
  ASSUME StreamInv, NEW s \in Sources, PollX(s) \/ PollTg(s),
         NEW p \in Posts, p[1] = s, since[s] < p[2], p[2] <= published[s]
  PROVE  Safe(p)'
<1>1. Beyond(s) \in Int /\ p[2] \in Int
  BY WindowOfPoll, PartsOfPost, BoundsAssumption
<1>2. CASE p[2] <= Beyond(s)
  <2>1. missed' = missed \cup (PassedOver(s) \ (done \cup failed))
        /\ done' = done /\ failed' = failed
    BY DEF PollX, PollTg, Polls
  <2>2. p \in PassedOver(s)
    BY <1>2 DEF PassedOver
  <2>3. p \in done' \cup failed' \cup missed'
    BY <2>1, <2>2
  <2> QED
    BY <2>3 DEF Safe
<1>3. CASE Beyond(s) < p[2]
  <2>1. /\ Fresh(s) \in Seq(Posts) /\ p \in ToSet(Fresh(s))
    BY <1>3, FreshPosts
  <2>2. p \in ToSet(Reverse(Fresh(s)))
    BY <2>1, ReverseHoldsSame
  <2>3. batch \in [Sources -> Seq(Posts)]
    BY DEF StreamInv, TypeOK
  <2>4. p \in ToSet(batch'[s])
    BY <2>1, <2>2, <2>3 DEF PollX, PollTg
  <2> QED
    BY <2>4, PlacesOfPost DEF Safe
<1> QED
  BY <1>1, <1>2, <1>3

\* Only a poll asks for posts that were not asked for, and for none that the
\* source does not have.
LEMMA PollsAsk ==
  ASSUME StreamInv, [Next]_vars, up', NEW p \in Posts, Asked(p)'
  PROVE  \/ up /\ Asked(p)
         \/ (PollX(p[1]) \/ PollTg(p[1])) /\ since[p[1]] < p[2] /\ p[2] <= published[p[1]]
<1>1. /\ TypeOK /\ p[1] \in Sources /\ p[2] \in 1 .. MaxPosts
      /\ MaxPosts \in Nat
  BY PartsOfPost, BoundsAssumption DEF StreamInv
<1>2. /\ published[p[1]] \in 0 .. MaxPosts /\ since[p[1]] \in -1 .. MaxPosts
      /\ seen[p[1]] \in 0 .. MaxPosts /\ batch[p[1]] \in Seq(Posts)
      /\ since[p[1]] <= published[p[1]] /\ seen[p[1]] <= published[p[1]]
  BY <1>1 DEF TypeOK, StreamInv, PollersAreInOrder
<1>3. Asked(p)' <=> \/ p[2] <= since'[p[1]] \/ p[2] <= seen'[p[1]]
                    \/ \E q \in ToSet(batch'[p[1]]) : p[2] <= q[2]
  BY DEF Asked
<1>4. CASE UNCHANGED <<since, seen, batch>>
  <2>1. Asked(p)
    BY <1>3, <1>4 DEF Asked
  <2>2. ~up => since[p[1]] = -1 /\ seen[p[1]] = 0 /\ batch[p[1]] = <<>>
    BY <1>1 DEF StreamInv, DownIsEmpty, Unpolled
  <2>3. ~up => ~Asked(p)
    BY <1>1, <2>2 DEF Asked, ToSet
  <2> QED
    BY <2>1, <2>3
<1>5. ASSUME NEW s \in Sources, PollX(s) \/ PollTg(s)
      PROVE  \/ up /\ Asked(p)
             \/ /\ PollX(p[1]) \/ PollTg(p[1])
                /\ since[p[1]] < p[2] /\ p[2] <= published[p[1]]
  <2>1. up
    BY <1>5 DEF PollX, PollTg, Polls, Running
  <2>2. CASE p[1] # s
    <3>1. /\ since'[p[1]] = since[p[1]] /\ seen'[p[1]] = seen[p[1]]
          /\ batch'[p[1]] = batch[p[1]]
      BY <1>1, <1>5, <2>2 DEF PollX, PollTg, TypeOK
    <3> QED
      BY <1>3, <2>1, <3>1 DEF Asked
  <2>3. CASE p[1] = s
    <3>1. Begin(s) \in 0 .. published[s] /\ Beyond(s) \in Begin(s) .. published[s]
      BY WindowOfPoll
    <3>2. /\ since'[s] \in {since[s], Begin(s), published[s]}
          /\ seen'[s] \in {seen[s], Begin(s)}
      BY <1>1, <1>5 DEF PollX, PollTg, TypeOK
    <3>3. batch'[s] = Fresh(s) \/ batch'[s] = Reverse(Fresh(s))
      BY <1>1, <1>5 DEF PollX, PollTg, TypeOK
    <3>4. ToSet(batch'[s]) = ToSet(Fresh(s))
      BY <3>3, FreshPosts, ReverseHoldsSame
    <3>5. \A q \in ToSet(batch'[s]) : q[2] \in Int /\ q[2] <= published[s]
      BY <3>4, FreshPosts, PartsOfPost
    <3>6. p[2] <= published[s]
      <4>1. since'[s] <= published[s] /\ since'[s] \in Int
        BY <1>2, <2>3, <3>1, <3>2
      <4>2. seen'[s] <= published[s] /\ seen'[s] \in Int
        BY <1>2, <2>3, <3>1, <3>2
      <4>3. published[s] \in Int /\ p[2] \in Int
        BY <1>1, <1>2, <2>3
      <4>4. CASE p[2] <= since'[s] \/ p[2] <= seen'[s]
        BY <4>1, <4>2, <4>3, <4>4
      <4>5. ASSUME NEW q \in ToSet(batch'[s]), p[2] <= q[2]
            PROVE  p[2] <= published[s]
        BY <3>5, <4>3, <4>5
      <4> QED
        BY <1>3, <2>3, <4>4, <4>5
    <3>7. p[2] <= since[s] => Asked(p)
      BY <2>3 DEF Asked
    <3> QED
      BY <1>1, <1>2, <1>5, <2>1, <2>3, <3>6, <3>7
  <2> QED
    BY <2>2, <2>3
<1>6. ASSUME NEW s \in Sources, Yield(s)
      PROVE  up /\ Asked(p)
  <2> DEFINE post == Head(batch[s])
             highest == Later(post[2], seen[s])
  <2>1. up /\ batch[s] # <<>> /\ batch' = [batch EXCEPT ![s] = Tail(@)]
    BY <1>6 DEF Yield, Running
  <2>2. CASE p[1] # s
    <3>1. /\ since'[p[1]] = since[p[1]] /\ seen'[p[1]] = seen[p[1]]
          /\ batch'[p[1]] = batch[p[1]]
      BY <1>1, <1>6, <2>2 DEF Yield, TypeOK
    <3> QED
      BY <1>3, <2>1, <3>1 DEF Asked
  <2>3. CASE p[1] = s
    <3>1. /\ post \in ToSet(batch[s]) /\ post \in Posts
          /\ ToSet(Tail(batch[s])) \subseteq ToSet(batch[s])
      BY <2>1, HeadOfBatch
    <3>2. post[2] \in Int /\ seen[s] \in Int /\ highest \in {post[2], seen[s]}
      BY <1>2, <2>3, <3>1, PartsOfPost, LaterOfTwo
    <3>3. /\ since'[s] \in {since[s], highest} /\ seen'[s] \in {seen[s], highest, 0}
      BY <1>1, <1>6 DEF Yield, TypeOK
    <3>4. batch'[s] = Tail(batch[s])
      BY <1>1, <2>1 DEF TypeOK
    <3>5. /\ p[2] <= since'[s] => Asked(p)
          /\ p[2] <= seen'[s] => Asked(p)
      BY <1>1, <2>3, <3>1, <3>2, <3>3 DEF Asked
    <3>6. (\E q \in ToSet(batch'[s]) : p[2] <= q[2]) => Asked(p)
      BY <2>3, <3>1, <3>4 DEF Asked
    <3> QED
      BY <1>3, <2>1, <2>3, <3>5, <3>6
  <2> QED
    BY <2>2, <2>3
<1>7. ASSUME NEW s \in Sources, PollFails(s)
      PROVE  up /\ Asked(p)
  <2>1. up /\ since' = since
    BY <1>7 DEF PollFails, Running
  <2>2. /\ seen'[p[1]] \in {seen[p[1]], 0}
        /\ batch'[p[1]] = batch[p[1]] \/ batch'[p[1]] = <<>>
    BY <1>1, <1>7 DEF PollFails, TypeOK
  <2>3. ToSet(batch'[p[1]]) \subseteq ToSet(batch[p[1]])
    BY <2>2 DEF ToSet
  <2> QED
    BY <1>1, <1>3, <2>1, <2>2, <2>3 DEF Asked
<1>8. ~Shutdown /\ ~Crash
  BY DEF Shutdown, Crash, Gone
<1> QED
  BY <1>4, <1>5, <1>6, <1>7, <1>8
  DEF Next, Loops, vars, pollers, Command, Publish, AddSource, RemoveSource,
      Listen, ReadWatchlist, ProviderDies, RequestStop, Restart, TakeFromStream,
      PutInBuffer, GetFromBuffer, Process, ProcessFails

\* What is asked for stays safe.
LEMMA NextAskedIsSafe ==
  ASSUME StreamInv, [Next]_vars
  PROVE  NothingFallsThrough' /\ PollIsCovered'
<1> SUFFICES ASSUME up', ~stop', NEW p \in Posts, Asked(p)'
             PROVE  Safe(p)'
  BY AskedIsSafe
<1>1. CASE (PollX(p[1]) \/ PollTg(p[1])) /\ since[p[1]] < p[2] /\ p[2] <= published[p[1]]
  BY <1>1, PollLeavesNoGap, PartsOfPost
<1>2. CASE up /\ Asked(p)
  <2>1. ~stop
    BY <1>2 DEF Next, Loops, vars, Command, Publish, AddSource, RemoveSource, PollX,
       PollTg, Yield, PollFails, Listen, ReadWatchlist, ProviderDies, RequestStop,
       Shutdown, Crash, Gone, Restart, TakeFromStream, PutInBuffer, GetFromBuffer,
       Process, ProcessFails
  <2>2. Safe(p)
    BY <1>2, <2>1, AskedIsSafe DEF StreamInv
  <2>3. CASE PollFails(p[1]) /\ p \in ToSet(batch[p[1]])
    \* Of a handle the poller is not past the post; a channel has no batch then.
    <3>1. TypeOK /\ p[1] \in Sources /\ p[2] \in 1 .. MaxPosts
      BY PartsOfPost DEF StreamInv
    <3>2. p[1] \in XSources
      <4>1. batch[p[1]] # <<>>
        BY <2>3 DEF ToSet
      <4> QED
        BY <2>3, <3>1, <4>1 DEF PollFails, UnderPoll, Between, SourcesOf
    <3>3. since[p[1]] < p[2]
      BY <2>3, <3>1, <3>2 DEF StreamInv, PollersAreInOrder
    <3>4. since'[p[1]] = since[p[1]] /\ seen'[p[1]] = 0 /\ batch'[p[1]] = <<>>
      BY <2>3, <3>1 DEF PollFails, TypeOK
    <3>5. since[p[1]] \in -1 .. MaxPosts
      BY <3>1 DEF TypeOK
    <3>6. ~(p[2] <= since'[p[1]]) /\ ~(p[2] <= seen'[p[1]]) /\ ToSet(batch'[p[1]]) = {}
      BY <3>1, <3>3, <3>4, <3>5, BoundsAssumption DEF ToSet
    <3> QED
      BY <3>6 DEF Asked
  <2> QED
    BY <1>2, <2>1, <2>2, <2>3, SafeStays
<1> QED
  BY <1>1, <1>2, PollsAsk

\* A post its poller has handed on.
Handed(p) == p = working \/ p = held \/ p \in ToSet(buffer) \/ p \in ToSet(queue)

\* The order of the pollers, source by source.
PollerIsInOrder(s) ==
  /\ since[s] <= published[s] /\ seen[s] <= published[s]
  /\ \A p \in ToSet(batch[s]) :
       /\ p[1] = s /\ p[2] <= published[s]
       /\ s \in XSources <=> since[s] < p[2]
  /\ s \in TgSources => \A p \in Posts : p[1] = s /\ Handed(p) => p[2] <= since[s]

\* The first four stages are those of the posts that are handed on.
LEMMA StagesHanded ==
  /\ \A p, s : /\ Handed(p) <=> \E i \in 1 .. 4 : p \in Stages(s)[i]
               /\ Handed(p)' <=> \E i \in 1 .. 4 : p \in Stages(s)'[i]
  /\ PollersAreInOrder <=> \A s \in Sources : PollerIsInOrder(s)
  /\ PollersAreInOrder' <=> \A s \in Sources : PollerIsInOrder(s)'
<1>1. \A s : /\ Stages(s)[1] = {working} /\ Stages(s)[2] = ToSet(buffer)
             /\ Stages(s)[3] = {held} /\ Stages(s)[4] = ToSet(queue)
  BY DEF Stages
<1>2. \A s : /\ Stages(s)'[1] = {working'} /\ Stages(s)'[2] = ToSet(buffer')
             /\ Stages(s)'[3] = {held'} /\ Stages(s)'[4] = ToSet(queue')
  BY DEF Stages
<1>3. \A p, s : Handed(p) <=> \E i \in 1 .. 4 : p \in Stages(s)[i]
  BY <1>1 DEF Handed
<1>4. \A p, s : Handed(p)' <=> \E i \in 1 .. 4 : p \in Stages(s)'[i]
  BY <1>2 DEF Handed
<1>5. PollersAreInOrder <=> \A s \in Sources : PollerIsInOrder(s)
  BY <1>3 DEF PollersAreInOrder, PollerIsInOrder
<1>6. PollersAreInOrder' <=> \A s \in Sources : PollerIsInOrder(s)'
  BY <1>4 DEF PollersAreInOrder, PollerIsInOrder
<1> QED
  BY <1>3, <1>4, <1>5, <1>6

\* Only the pump hands a post on, and it takes the first of its poll.
LEMMA OnlyPumpsHandOn ==
  ASSUME StreamInv, [Next]_vars, NEW p \in Posts, Handed(p)'
  PROVE  Handed(p) \/ (Yield(p[1]) /\ p = Head(batch[p[1]]))
<1>1. /\ TypeOK /\ p # NoPost /\ p # Ended
      /\ Handed(p)' <=> \/ p = working' \/ p = held'
                        \/ p \in ToSet(buffer') \/ p \in ToSet(queue')
  BY PartsOfPost DEF StreamInv, Handed
<1>0. queue \in Seq(Posts) /\ buffer \in Seq(Posts)
  BY <1>1 DEF TypeOK
<1>2. CASE UNCHANGED pipes
  BY <1>1, <1>2 DEF Handed, pipes
<1>3. ASSUME NEW s \in Sources, Yield(s)
      PROVE  Handed(p) \/ (Yield(p[1]) /\ p = Head(batch[p[1]]))
  <2>1. /\ batch[s] # <<>> /\ queue' = Append(queue, Head(batch[s]))
        /\ UNCHANGED <<working, held, buffer>>
    BY <1>3 DEF Yield
  <2>2. Head(batch[s]) \in Posts /\ Head(batch[s])[1] = s
    BY <2>1, HeadOfBatch
  <2>3. ToSet(queue') = ToSet(queue) \cup {Head(batch[s])}
    BY <1>0, <2>1, <2>2, AppendOne
  <2> QED
    BY <1>1, <1>3, <2>1, <2>2, <2>3 DEF Handed
<1>4. CASE TakeFromStream
  <2>1. /\ queue # <<>> /\ held' \in {Head(queue), Ended} /\ queue' = Tail(queue)
        /\ UNCHANGED <<working, buffer>>
    BY <1>4 DEF TakeFromStream
  <2>2. ToSet(queue) = {Head(queue)} \cup ToSet(Tail(queue))
    BY <1>0, <2>1, HeadAndTail
  <2> QED
    BY <1>1, <2>1, <2>2 DEF Handed
<1>5. CASE PutInBuffer
  <2>1. /\ held \in Posts /\ held' = NoPost /\ buffer' = Append(buffer, held)
        /\ UNCHANGED <<working, queue>>
    BY <1>5 DEF PutInBuffer
  <2>2. ToSet(buffer') = ToSet(buffer) \cup {held}
    BY <1>0, <2>1, AppendOne
  <2> QED
    BY <1>1, <2>1, <2>2 DEF Handed
<1>6. CASE GetFromBuffer
  <2>1. /\ buffer # <<>> /\ working' = Head(buffer)
        /\ buffer' = Tail(buffer) /\ UNCHANGED <<held, queue>>
    BY <1>6 DEF GetFromBuffer
  <2>2. ToSet(buffer) = {Head(buffer)} \cup ToSet(Tail(buffer))
    BY <1>0, <2>1, HeadAndTail
  <2> QED
    BY <1>1, <2>1, <2>2 DEF Handed
<1>7. CASE Process \/ ProcessFails
  BY <1>1, <1>7 DEF Process, ProcessFails, Handed
<1>8. ~Shutdown /\ ~Crash
  <2>1. ASSUME Gone
        PROVE  ~Handed(p)'
    BY <1>1, <2>1 DEF Gone, ToSet
  <2> QED
    BY <2>1 DEF Shutdown, Crash
<1> QED
  BY <1>2, <1>3, <1>4, <1>5, <1>6, <1>7, <1>8
  DEF Next, Loops, vars, Command, Publish, AddSource, RemoveSource, PollX, PollTg,
      PollFails, Listen, ReadWatchlist, ProviderDies, RequestStop, Restart

\* Of its own source, a poller that is not polling it stays in order.
LEMMA OtherPollerStays ==
  ASSUME StreamInv, [Next]_vars, NEW s \in Sources, ~Yield(s),
         UNCHANGED <<since[s], seen[s], batch[s]>>,
         published'[s] \in Int, published[s] <= published'[s]
  PROVE  PollerIsInOrder(s)'
<1>1. PollerIsInOrder(s)
  BY StagesHanded DEF StreamInv
<1>2. /\ published[s] \in Int /\ since[s] \in Int /\ seen[s] \in Int
      /\ batch[s] \in Seq(Posts)
  BY BoundsAssumption DEF StreamInv, TypeOK
<1>3. ASSUME NEW p \in ToSet(batch[s])
      PROVE  p[1] = s /\ p[2] <= published'[s] /\ (s \in XSources <=> since[s] < p[2])
  <2>1. p[2] \in Int /\ p[1] = s /\ p[2] <= published[s]
    BY <1>1, <1>2, <1>3, ElementsOfSeq, PartsOfPost DEF PollerIsInOrder
  <2> QED
    BY <1>1, <1>2, <1>3, <2>1 DEF PollerIsInOrder
<1>4. ASSUME s \in TgSources, NEW p \in Posts, p[1] = s, Handed(p)'
      PROVE  p[2] <= since[s]
  <2>1. Handed(p)
    BY <1>4, OnlyPumpsHandOn
  <2> QED
    BY <1>1, <1>4, <2>1 DEF PollerIsInOrder
<1>5. since[s] <= published'[s] /\ seen[s] <= published'[s]
  BY <1>1, <1>2 DEF PollerIsInOrder
<1> QED
  BY <1>3, <1>4, <1>5 DEF PollerIsInOrder

\* A poll puts since and what it has still to yield in order.
LEMMA PollKeepsOrder ==
  ASSUME StreamInv, [Next]_vars, NEW s \in Sources, PollX(s) \/ PollTg(s)
  PROVE  PollerIsInOrder(s)'
<1>1. /\ PollerIsInOrder(s) /\ TypeOK
  BY StagesHanded DEF StreamInv
<1>2. /\ published[s] \in 0 .. MaxPosts /\ since[s] \in -1 .. MaxPosts
      /\ Begin(s) \in 0 .. published[s] /\ since[s] <= Begin(s)
      /\ Beyond(s) \in Begin(s) .. published[s] /\ MaxPosts \in Nat
      /\ seen[s] \in 0 .. MaxPosts
  BY <1>1, WindowOfPoll, BoundsAssumption DEF TypeOK
<1>3. /\ published' = published
      /\ \A p \in Posts : Handed(p)' => Handed(p)
  <2>1. published' = published /\ UNCHANGED pipes
    BY DEF PollX, PollTg, Polls
  <2> QED
    BY <2>1 DEF Handed, pipes
<1>4. ASSUME NEW p, p \in ToSet(Fresh(s)) \/ p \in ToSet(Reverse(Fresh(s)))
      PROVE  /\ p \in Posts /\ p[1] = s /\ p[2] \in Int
             /\ Beyond(s) < p[2] /\ p[2] <= published[s]
  BY <1>4, FreshPosts, ReverseHoldsSame, PartsOfPost
<1>5. CASE PollX(s)
  <2>1. /\ s \in XSources /\ s \notin TgSources
    BY <1>5, SourceAssumption DEF PollX
  <2>2. batch'[s] = Reverse(Fresh(s))
    BY <1>1, <1>5 DEF PollX, TypeOK
  <2>3. /\ since'[s] \in {since[s], Begin(s)} /\ seen'[s] \in {seen[s], Begin(s)}
    BY <1>1, <1>5 DEF PollX, TypeOK
  <2>4. since'[s] <= published[s] /\ seen'[s] <= published[s] /\ since'[s] <= Beyond(s)
    BY <1>1, <1>2, <2>3 DEF PollerIsInOrder
  <2>5. \A p \in ToSet(batch'[s]) :
          p[1] = s /\ p[2] <= published'[s] /\ since'[s] < p[2]
    BY <1>2, <1>3, <1>4, <2>2, <2>3, <2>4
  <2> QED
    BY <1>3, <2>1, <2>4, <2>5 DEF PollerIsInOrder
<1>6. CASE PollTg(s)
  <2>1. /\ s \in TgSources /\ s \notin XSources
    BY <1>6, SourceAssumption DEF PollTg
  <2>2. batch'[s] = Fresh(s) /\ seen'[s] = seen[s]
    BY <1>1, <1>6 DEF PollTg, TypeOK
  <2>3. since'[s] = IF published[s] = 0 THEN since[s] ELSE published[s]
    BY <1>1, <1>6 DEF PollTg, TypeOK
  <2>4. since[s] <= since'[s] /\ since'[s] <= published[s] /\ since'[s] \in Int
    BY <1>1, <1>2, <2>3 DEF PollerIsInOrder
  <2>5. \A p \in ToSet(batch'[s]) :
          p[1] = s /\ p[2] <= published'[s] /\ ~(since'[s] < p[2])
    BY <1>2, <1>3, <1>4, <2>2, <2>3
  <2>6. ASSUME NEW p \in Posts, p[1] = s, Handed(p)'
        PROVE  p[2] <= since'[s]
    <3>1. p[2] <= since[s] /\ p[2] \in Int
      BY <1>1, <1>3, <2>1, <2>6, PartsOfPost DEF PollerIsInOrder
    <3> QED
      BY <1>2, <2>4, <3>1
  <2>7. seen'[s] <= published'[s] /\ since'[s] <= published'[s]
    BY <1>1, <1>3, <2>2, <2>4 DEF PollerIsInOrder
  <2> QED
    BY <2>1, <2>5, <2>6, <2>7 DEF PollerIsInOrder
<1> QED
  BY <1>5, <1>6

\* The pump moves since behind the posts of a handle, and takes from those of a
\* channel, which since is ahead of.
LEMMA YieldKeepsOrder ==
  ASSUME StreamInv, [Next]_vars, NEW s \in Sources, Yield(s)
  PROVE  PollerIsInOrder(s)'
<1> DEFINE post == Head(batch[s])
           highest == Later(post[2], seen[s])
<1>1. PollerIsInOrder(s) /\ TypeOK
  BY StagesHanded DEF StreamInv
<1>2. /\ batch[s] # <<>> /\ published' = published
      /\ batch' = [batch EXCEPT ![s] = Tail(@)]
  BY DEF Yield
<1>3. /\ post \in Posts /\ post[1] = s /\ post[2] \in 1 .. published[s]
      /\ ToSet(batch[s]) = {post} \cup ToSet(Tail(batch[s]))
      /\ Len(batch[s]) = 1 => Tail(batch[s]) = <<>>
  BY <1>2, HeadOfBatch
<1>4. /\ published[s] \in 0 .. MaxPosts /\ since[s] \in -1 .. MaxPosts
      /\ seen[s] \in 0 .. MaxPosts /\ MaxPosts \in Nat
      /\ since[s] <= published[s] /\ seen[s] <= published[s]
  BY <1>1, BoundsAssumption DEF TypeOK, PollerIsInOrder
<1>5. highest \in 0 .. published[s]
  <2>1. post[2] \in 0 .. published[s] /\ seen[s] \in 0 .. published[s]
    BY <1>3, <1>4
  <2>2. highest \in {post[2], seen[s]}
    BY <2>1, LaterOfTwo
  <2> QED
    BY <2>1, <2>2
<1>6. batch'[s] = Tail(batch[s])
  BY <1>1, <1>2 DEF TypeOK
<1>7. \/ /\ since'[s] = since[s] /\ seen'[s] \in {seen[s], highest}
      \/ /\ since'[s] = highest /\ seen'[s] = 0 /\ s \in XSources /\ Len(batch[s]) = 1
  BY <1>1 DEF Yield, TypeOK
<1>8. \A p \in ToSet(batch'[s]) :
        p[1] = s /\ p[2] <= published[s] /\ (s \in XSources <=> since'[s] < p[2])
  <2>1. CASE Len(batch[s]) = 1
    BY <1>3, <1>6, <2>1 DEF ToSet
  <2>2. CASE Len(batch[s]) # 1
    BY <1>1, <1>3, <1>6, <1>7, <2>2 DEF PollerIsInOrder
  <2> QED
    BY <2>1, <2>2
<1>9. ASSUME s \in TgSources, NEW p \in Posts, p[1] = s, Handed(p)'
      PROVE  p[2] <= since'[s]
  <2>1. s \notin XSources /\ since'[s] = since[s]
    BY <1>7, <1>9, SourceAssumption
  <2>2. Handed(p) \/ p = post
    BY <1>9, OnlyPumpsHandOn
  <2>3. p = post => ~(since[s] < p[2])
    BY <1>1, <1>3, <2>1 DEF PollerIsInOrder
  <2> QED
    BY <1>1, <1>3, <1>4, <1>9, <2>1, <2>2, <2>3 DEF PollerIsInOrder
<1>10. since'[s] <= published'[s] /\ seen'[s] <= published'[s]
  BY <1>2, <1>4, <1>5, <1>7
<1> QED
  BY <1>2, <1>8, <1>9, <1>10 DEF PollerIsInOrder

\* Every step keeps every poller in order.
LEMMA NextPollersAreInOrder ==
  ASSUME StreamInv, [Next]_vars
  PROVE  PollersAreInOrder'
<1> SUFFICES ASSUME NEW s \in Sources
             PROVE  PollerIsInOrder(s)'
  BY StagesHanded
<1>1. /\ TypeOK /\ MaxPosts \in Nat
      /\ published[s] \in 0 .. MaxPosts
  BY BoundsAssumption DEF StreamInv, TypeOK
<1>2. CASE UNCHANGED <<published, since, seen, batch>>
  <2>1. /\ UNCHANGED <<since[s], seen[s], batch[s]>>
        /\ published'[s] \in Int /\ published[s] <= published'[s]
    BY <1>1, <1>2
  <2>2. CASE Yield(s)
    BY <2>2, YieldKeepsOrder
  <2> QED
    BY <2>1, <2>2, OtherPollerStays
<1>3. ASSUME NEW t \in Sources, Publish(t)
      PROVE  PollerIsInOrder(s)'
  <2>1. /\ published'[s] \in {published[s], published[s] + 1}
        /\ UNCHANGED <<since, seen, batch>>
    BY <1>1, <1>3 DEF Publish, pollers, TypeOK
  <2>2. ~Yield(s)
    BY <1>1, <2>1, HeadOfBatch, <1>3 DEF Publish, Yield, TypeOK
  <2>3. /\ UNCHANGED <<since[s], seen[s], batch[s]>>
        /\ published'[s] \in Int /\ published[s] <= published'[s]
    BY <1>1, <2>1
  <2> QED
    BY <2>2, <2>3, OtherPollerStays
<1>4. ASSUME NEW t \in Sources, PollX(t) \/ PollTg(t) \/ Yield(t)
      PROVE  PollerIsInOrder(s)'
  <2>1. CASE t = s
    BY <1>4, <2>1, PollKeepsOrder, YieldKeepsOrder
  <2>2. CASE t # s
    <3>1. /\ UNCHANGED <<since[s], seen[s], batch[s]>> /\ published' = published
      <4>1. CASE PollX(t) \/ PollTg(t)
        BY <1>1, <2>2, <4>1 DEF PollX, PollTg, TypeOK
      <4>2. CASE Yield(t)
        BY <1>1, <2>2, <4>2 DEF Yield, TypeOK
      <4> QED
        BY <1>4, <4>1, <4>2
    <3>2. published'[s] \in Int /\ published[s] <= published'[s]
      BY <1>1, <3>1
    <3> QED
      BY <3>1, <3>2, OtherPollerStays, YieldKeepsOrder
  <2> QED
    BY <2>1, <2>2
<1>5. ASSUME NEW t \in Sources, PollFails(t)
      PROVE  PollerIsInOrder(s)'
  <2>1. published' = published /\ since' = since /\ UNCHANGED pipes
    BY <1>5 DEF PollFails
  <2>2. CASE t = s
    <3>1. PollerIsInOrder(s)
      BY StagesHanded DEF StreamInv
    <3>2. batch'[s] = <<>> /\ seen'[s] = 0
      BY <1>1, <1>5, <2>2 DEF PollFails, TypeOK
    <3>3. \A p : Handed(p)' <=> Handed(p)
      BY <2>1 DEF Handed, pipes
    <3> QED
      BY <1>1, <2>1, <3>1, <3>2, <3>3 DEF PollerIsInOrder, ToSet
  <2>3. CASE t # s
    <3>1. UNCHANGED <<since[s], seen[s], batch[s]>>
      BY <1>1, <1>5, <2>1, <2>3 DEF PollFails, TypeOK
    <3>2. published'[s] \in Int /\ published[s] <= published'[s]
      BY <1>1, <2>1
    <3> QED
      BY <3>1, <3>2, OtherPollerStays, YieldKeepsOrder
  <2> QED
    BY <2>2, <2>3
<1>6. CASE Shutdown \/ Crash
  <2>1. Gone
    BY <1>6 DEF Shutdown, Crash
  <2>2. ASSUME NEW p \in Posts
        PROVE  ~Handed(p)'
    BY <2>1, PartsOfPost DEF Gone, Handed, ToSet
  <2>3. since'[s] = -1 /\ seen'[s] = 0 /\ batch'[s] = <<>> /\ published' = published
    BY <2>1 DEF Gone, Unpolled
  <2> QED
    BY <1>1, <2>2, <2>3 DEF PollerIsInOrder, ToSet
<1> QED
  BY <1>2, <1>3, <1>4, <1>5, <1>6
  DEF Next, Loops, vars, pollers, Command, AddSource, RemoveSource, Listen,
      ReadWatchlist, ProviderDies, RequestStop, Restart, TakeFromStream,
      PutInBuffer, GetFromBuffer, Process, ProcessFails

\* What a process leaves behind is nothing but its tables, and nothing comes to
\* it while it is down.
LEMMA NextDownIsEmpty ==
  ASSUME StreamInv, [Next]_vars
  PROVE  DownIsEmpty'
<1> SUFFICES ASSUME ~up'
             PROVE  /\ ~stop' /\ queue' = <<>> /\ held' = NoPost /\ buffer' = <<>>
                    /\ working' = NoPost /\ handled' = <<>>
                    /\ \A s \in Sources :
                         since'[s] = Unpolled /\ seen'[s] = 0 /\ batch'[s] = <<>>
  BY DEF DownIsEmpty
<1>1. CASE Shutdown \/ Crash
  BY <1>1 DEF Shutdown, Crash, Gone
<1>2. CASE ~up /\ UNCHANGED <<stop, pipes, since, seen, batch>>
  BY <1>2 DEF StreamInv, DownIsEmpty, pipes
<1>3. ASSUME NEW s \in Sources, Publish(s)
      PROVE  ~up /\ UNCHANGED <<stop, pipes, since, seen, batch>>
  BY <1>3 DEF Publish, pollers, pipes
<1>4. ASSUME NEW s \in Sources, \/ AddSource(s) \/ RemoveSource(s) \/ PollX(s)
                                \/ PollTg(s) \/ Yield(s) \/ PollFails(s) \/ Listen(s)
      PROVE  FALSE
  <2>1. CASE AddSource(s) \/ RemoveSource(s) \/ Listen(s)
    <3>1. (up /\ up' = up) \/ Listen(s)
      BY <2>1 DEF AddSource, RemoveSource, Command
    <3>2. Listen(s) => up /\ up' = up
      BY DEF Listen
    <3> QED
      BY <3>1, <3>2
  <2>2. CASE PollX(s) \/ PollTg(s)
    BY <2>2 DEF PollX, PollTg, Polls, Running
  <2>3. CASE Yield(s) \/ PollFails(s)
    BY <2>3 DEF Yield, PollFails, Running
  <2> QED
    BY <1>4, <2>1, <2>2, <2>3
<1>5. ASSUME NEW provider \in Providers, ReadWatchlist(provider) \/ ProviderDies(provider)
      PROVE  FALSE
  BY <1>5 DEF ReadWatchlist, ProviderDies
<1>6. ~Loops /\ ~RequestStop /\ ~Restart
  BY DEF Loops, TakeFromStream, PutInBuffer, GetFromBuffer, Process, ProcessFails,
         RequestStop, Restart
<1>7. CASE UNCHANGED vars
  BY <1>2, <1>7 DEF vars, pollers, pipes
<1> QED
  BY <1>1, <1>2, <1>3, <1>4, <1>5, <1>6, <1>7 DEF Next

\* Only the process loop takes posts, which their poller is past, and since of a
\* channel never goes back while the process lives.
LEMMA NextHandledIsPast ==
  ASSUME StreamInv, [Next]_vars
  PROVE  HandledIsPast'
<1>1. /\ TypeOK /\ HandledIsPast
      /\ queue \in Seq(Posts) /\ buffer \in Seq(Posts) /\ handled \in Seq(Posts)
  BY DEF StreamInv, TypeOK
<1>2. \A p \in ToSet(handled) :
        /\ p[1] \in TgSources /\ p[1] \in Sources /\ p[2] \in Int /\ p[2] <= since[p[1]]
  BY <1>1, ElementsOfSeq, PartsOfPost DEF HandledIsPast
<1>3. CASE GetFromBuffer
  <2> DEFINE post == Head(buffer)
  <2>1. /\ buffer # <<>> /\ since' = since
        /\ handled' = IF post[1] \in TgSources THEN Append(handled, post) ELSE handled
    BY <1>3 DEF GetFromBuffer, pollers
  <2>2. post \in Posts /\ post \in ToSet(buffer)
    BY <1>1, <2>1, HeadAndTail
  <2>3. post[1] \in TgSources => post[2] <= since[post[1]]
    BY <2>2, StagesHanded, PartsOfPost DEF StreamInv, PollerIsInOrder, Handed
  <2>4. ToSet(Append(handled, post)) = ToSet(handled) \cup {post}
    BY <1>1, <2>2, AppendOne
  <2> QED
    BY <1>2, <2>1, <2>3, <2>4 DEF HandledIsPast
<1>4. ASSUME NEW s \in Sources, PollX(s) \/ PollTg(s) \/ Yield(s)
      PROVE  HandledIsPast'
  <2>1. handled' = handled
    BY <1>4 DEF PollX, PollTg, Yield, pipes
  <2>2. ASSUME NEW t \in TgSources, t \in Sources
        PROVE  since'[t] \in Int /\ since[t] \in Int /\ since[t] <= since'[t]
    <3>1. /\ since \in [Sources -> -1 .. MaxPosts] /\ published[t] \in 0 .. MaxPosts
          /\ MaxPosts \in Nat /\ since[t] <= published[t] /\ t \notin XSources
      BY <1>1, <2>2, BoundsAssumption, SourceAssumption
      DEF TypeOK, StreamInv, PollersAreInOrder
    <3>2. since'[t] \in {since[t], published[t]}
      <4>1. CASE s = t
        BY <1>4, <3>1, <4>1 DEF PollX, PollTg, Yield
      <4>2. CASE s # t
        <5>1. \/ since' = since \/ \E next : since' = [since EXCEPT ![s] = next]
          BY <1>4 DEF PollX, PollTg, Yield
        <5> QED
          BY <2>2, <3>1, <4>2, <5>1
      <4> QED
        BY <4>1, <4>2
    <3> QED
      BY <2>2, <3>1, <3>2
  <2> QED
    BY <1>2, <2>1, <2>2 DEF HandledIsPast
<1>5. CASE Shutdown \/ Crash
  BY <1>5 DEF Shutdown, Crash, Gone, HandledIsPast, ToSet
<1>6. CASE UNCHANGED <<handled, since>>
  BY <1>1, <1>6 DEF HandledIsPast
<1> QED
  BY <1>3, <1>4, <1>5, <1>6
  DEF Next, Loops, vars, pollers, pipes, Command, Publish, AddSource, RemoveSource,
      PollFails, Listen, ReadWatchlist, ProviderDies, RequestStop, Restart,
      TakeFromStream, PutInBuffer, Process, ProcessFails

\* StreamInv is inductive.
LEMMA NextStreamInv == StreamInv /\ [Next]_vars => StreamInv'
  BY NextTypeOK, NextAskedIsSafe, NextPollersAreInOrder, NextHandledIsPast,
     NextDownIsEmpty, WatchlistStep
  DEF StreamInv

\* No hand-over between a poller and process_post drops a post: one the poller is
\* past is in the pipeline or through, or was never within its reach; the buffer
\* holds at most what it may, and a process that is down holds nothing.
THEOREM StreamIsSound == Spec => []StreamInv
<1> QED
  BY InitStreamInv, NextStreamInv, PTL DEF Spec

\* A source that is removed enters no further cycle: what makes a row of a source
\* by itself leaves the row that is there alone.
THEOREM RemovalIsHeld == Spec => RemovalHolds
<1>1. ASSUME StreamInv, [Next]_vars
      PROVE  [\A s \in dismissed \cap dismissed' :
                s \in cycle'[Provider(s)] => s \in cycle[Provider(s)]]_vars
  <2>1. /\ cycle \in [Providers -> SUBSET Sources] /\ dismissed \subseteq Sources
        /\ \A s \in dismissed : account[s] # "active"
    BY <1>1 DEF StreamInv, TypeOK, DismissedIsInactive
  <2>2. ASSUME NEW s \in dismissed, s \in cycle'[Provider(s)]
        PROVE  s \in cycle[Provider(s)]
    <3>1. Provider(s) \in Providers
      BY DEF Provider, Providers
    <3>2. CASE cycle' = cycle
      BY <2>2, <3>2
    <3>3. ASSUME NEW provider \in Providers, ReadWatchlist(provider)
          PROVE  s \in cycle[Provider(s)]
      BY <2>1, <2>2, <3>1, <3>3 DEF ReadWatchlist, Watched
    <3>4. ASSUME NEW t \in Sources, PollX(t) \/ PollTg(t) \/ PollFails(t)
          PROVE  s \in cycle[Provider(s)]
      <4>1. cycle' = [cycle EXCEPT ![Provider(t)] = @ \ {t}]
        BY <3>4 DEF PollX, PollTg, Polls, PollFails
      <4> QED
        BY <2>1, <2>2, <3>1, <4>1
    <3>5. CASE Shutdown \/ Crash
      BY <2>2, <3>1, <3>5 DEF Shutdown, Crash, Gone
    <3> QED
      BY <1>1, <3>2, <3>3, <3>4, <3>5
      DEF Next, Loops, vars, pollers, Command, Publish, AddSource, RemoveSource,
          Yield, Listen, ProviderDies, RequestStop, Restart, TakeFromStream,
          PutInBuffer, GetFromBuffer, Process, ProcessFails
  <2> QED
    BY <2>2
<1> QED
  BY <1>1, StreamIsSound, PTL DEF Spec, RemovalHolds

-----------------------------------------------------------------------------
\* The order of a channel's posts.  All of the posts in front are before those
\* behind.
Follows(front, back) == \A p \in front \cap Posts, q \in back \cap Posts : Before(p, q)

\* ChannelOrderKept, stage by stage.
StagesAreInOrder(s) ==
  /\ Ascends(batch[s])
  /\ Follows(ToSet(handled), ToSet(buffer)) /\ Follows(ToSet(handled), {held})
  /\ Follows(ToSet(handled), ToSet(queue)) /\ Follows(ToSet(handled), ToSet(batch[s]))
  /\ Follows(ToSet(buffer), {held}) /\ Follows(ToSet(buffer), ToSet(queue))
  /\ Follows(ToSet(buffer), ToSet(batch[s]))
  /\ Follows({held}, ToSet(queue)) /\ Follows({held}, ToSet(batch[s]))
  /\ Follows(ToSet(queue), ToSet(batch[s]))

LEMMA OrderByStage ==
  /\ ChannelOrderKept <=> /\ Ascends(handled) /\ Ascends(buffer) /\ Ascends(queue)
                          /\ \A s \in TgSources : StagesAreInOrder(s)
  /\ ChannelOrderKept' <=> /\ Ascends(handled') /\ Ascends(buffer') /\ Ascends(queue')
                           /\ \A s \in TgSources : StagesAreInOrder(s)'
<1> DEFINE Ordered(stages) ==
             \A i, j \in 1 .. 5 : i < j => \A p, q \in Posts :
               p \in stages[i] /\ q \in stages[j] => Before(p, q)
<1>1. ASSUME NEW a, NEW b, NEW c, NEW d, NEW e
      PROVE  Ordered(<<a, b, c, d, e>>) <=>
               /\ Follows(a, b) /\ Follows(a, c) /\ Follows(a, d) /\ Follows(a, e)
               /\ Follows(b, c) /\ Follows(b, d) /\ Follows(b, e)
               /\ Follows(c, d) /\ Follows(c, e) /\ Follows(d, e)
  <2> DEFINE st == <<a, b, c, d, e>>
  <2>1. /\ st[1] = a /\ st[2] = b /\ st[3] = c /\ st[4] = d /\ st[5] = e
    OBVIOUS
  <2>2. Ordered(st) <=> \A i, j \in 1 .. 5 : i < j => Follows(st[i], st[j])
    BY DEF Follows
  <2> HIDE DEF st, Ordered
  <2>3. (\A i, j \in 1 .. 5 : i < j => Follows(st[i], st[j])) <=>
          /\ Follows(a, b) /\ Follows(a, c) /\ Follows(a, d) /\ Follows(a, e)
          /\ Follows(b, c) /\ Follows(b, d) /\ Follows(b, e)
          /\ Follows(c, d) /\ Follows(c, e) /\ Follows(d, e)
    BY <2>1
  <2> QED
    BY <2>2, <2>3 DEF st
<1> HIDE DEF Ordered
<1>0. \A s :
        /\ Line(s) = <<ToSet(handled), ToSet(buffer), {held}, ToSet(queue), ToSet(batch[s])>>
        /\ Line(s)' = <<ToSet(handled'), ToSet(buffer'), {held'}, ToSet(queue'),
                        ToSet(batch'[s])>>
  BY DEF Line, Stages
<1>2. \A s : /\ Ordered(Line(s)) /\ Ascends(batch[s]) <=> StagesAreInOrder(s)
             /\ Ordered(Line(s)') /\ Ascends(batch'[s]) <=> StagesAreInOrder(s)'
  BY <1>0, <1>1 DEF StagesAreInOrder
<1>3. /\ ChannelOrderKept <=>
           /\ Ascends(handled) /\ Ascends(buffer) /\ Ascends(queue)
           /\ \A s \in TgSources : Ordered(Line(s)) /\ Ascends(batch[s])
      /\ ChannelOrderKept' <=>
           /\ Ascends(handled') /\ Ascends(buffer') /\ Ascends(queue')
           /\ \A s \in TgSources : Ordered(Line(s)') /\ Ascends(batch'[s])
  BY DEF ChannelOrderKept, Ordered
<1> QED
  BY <1>2, <1>3

\* In a line that ascends the first is before the rest, which ascends.
LEMMA HeadIsBeforeTail ==
  ASSUME NEW line \in Seq(Posts), line # <<>>, Ascends(line)
  PROVE  Ascends(Tail(line)) /\ Follows({Head(line)}, ToSet(Tail(line)))
<1>1. /\ Len(line) \in Nat /\ Head(line) = line[1] /\ Len(line) # 0
      /\ DOMAIN line = 1 .. Len(line)
  BY LenProperties, EmptySeq
<1>2. /\ Tail(line) \in Seq(Posts) /\ Len(Tail(line)) = Len(line) - 1
      /\ \A i \in 1 .. Len(Tail(line)) : Tail(line)[i] = line[i + 1]
  BY HeadTailProperties
<1>3. DOMAIN Tail(line) = 1 .. Len(line) - 1
  BY <1>2, LenProperties
<1>4. \A i \in DOMAIN Tail(line) :
        i + 1 \in DOMAIN line /\ Tail(line)[i] = line[i + 1] /\ 1 < i + 1
  BY <1>1, <1>2, <1>3
<1>5. Ascends(Tail(line))
  <2> SUFFICES ASSUME NEW i \in DOMAIN Tail(line), NEW j \in DOMAIN Tail(line), i < j
               PROVE  Before(Tail(line)[i], Tail(line)[j])
    BY DEF Ascends
  <2>1. i + 1 < j + 1
    BY <1>1, <1>3
  <2> QED
    BY <1>4, <2>1 DEF Ascends
<1>6. ASSUME NEW q \in ToSet(Tail(line))
      PROVE  Before(Head(line), q)
  <2>1. PICK j \in DOMAIN Tail(line) : q = Tail(line)[j]
    BY <1>6 DEF ToSet
  <2>2. 1 \in DOMAIN line
    BY <1>1
  <2> QED
    BY <1>1, <1>4, <2>1, <2>2 DEF Ascends
<1> QED
  BY <1>5, <1>6 DEF Follows

\* A line goes on ascending with a post at its end that is behind all of it.
LEMMA AppendAscends ==
  ASSUME NEW line \in Seq(Posts), Ascends(line), NEW x \in Posts,
         Follows(ToSet(line), {x})
  PROVE  Ascends(Append(line, x))
<1>1. /\ Len(line) \in Nat /\ DOMAIN line = 1 .. Len(line)
      /\ DOMAIN Append(line, x) = 1 .. Len(line) + 1
      /\ \A i \in DOMAIN line : Append(line, x)[i] = line[i]
      /\ Append(line, x)[Len(line) + 1] = x
  BY AppendOne
<1>2. \A i \in DOMAIN line : line[i] \in Posts /\ Before(line[i], x)
  BY <1>1, ElementOfSeq DEF Follows, ToSet
<1> SUFFICES ASSUME NEW i \in DOMAIN Append(line, x), NEW j \in DOMAIN Append(line, x),
                    i < j
             PROVE  Before(Append(line, x)[i], Append(line, x)[j])
  BY DEF Ascends
<1>3. i \in DOMAIN line /\ (j \in DOMAIN line \/ j = Len(line) + 1)
  BY <1>1
<1> QED
  BY <1>1, <1>2, <1>3 DEF Ascends

\* What is taken away disturbs no order, nor does what is no post.
LEMMA FewerFollow ==
  ASSUME NEW front, NEW back, NEW frontNow, NEW backNow, Follows(front, back),
         frontNow \cap Posts \subseteq front, backNow \cap Posts \subseteq back
  PROVE  Follows(frontNow, backNow)
  BY DEF Follows

\* The ingest loop takes the first post of the queue, or ends.
LEMMA TakeKeepsOrder ==
  ASSUME StreamInv, ChannelOrderKept, TakeFromStream
  PROVE  ChannelOrderKept'
<1>1. /\ queue \in Seq(Posts) /\ queue # <<>> /\ queue' = Tail(queue)
      /\ {held'} \cap Posts \subseteq {Head(queue)}
      /\ UNCHANGED <<handled, buffer, batch>>
  BY NoPostAssumption DEF StreamInv, TypeOK, TakeFromStream, pollers
<1>2. /\ ToSet(queue) = {Head(queue)} \cup ToSet(queue')
      /\ Ascends(queue') /\ Follows({Head(queue)}, ToSet(queue'))
  BY <1>1, HeadAndTail, HeadIsBeforeTail, OrderByStage
<1>3. Follows({held'}, ToSet(queue'))
  BY <1>1, <1>2, FewerFollow
<1>4. \A s \in TgSources : StagesAreInOrder(s)'
  <2> SUFFICES ASSUME NEW s \in TgSources
               PROVE  StagesAreInOrder(s)'
    OBVIOUS
  <2>1. StagesAreInOrder(s)
    BY OrderByStage
  <2>2. {held'} \cap Posts \subseteq ToSet(queue) /\ ToSet(queue') \subseteq ToSet(queue)
    BY <1>1, <1>2
  <2> QED
    BY <1>1, <1>3, <2>1, <2>2, FewerFollow DEF StagesAreInOrder
<1> QED
  BY <1>1, <1>2, <1>4, OrderByStage

\* The ingest loop puts its post behind those of the buffer.
LEMMA PutKeepsOrder ==
  ASSUME StreamInv, ChannelOrderKept, PutInBuffer
  PROVE  ChannelOrderKept'
<1>1. /\ buffer \in Seq(Posts) /\ held \in Posts /\ buffer' = Append(buffer, held)
      /\ held' = NoPost /\ UNCHANGED <<handled, queue, batch>>
  BY DEF StreamInv, TypeOK, PutInBuffer, pollers
<1>2. ToSet(buffer') = ToSet(buffer) \cup {held} /\ {held'} \cap Posts = {}
  BY <1>1, AppendOne, NoPostAssumption
<1>3. ASSUME NEW s \in TgSources
      PROVE  Ascends(buffer') /\ StagesAreInOrder(s)'
  <2>1. StagesAreInOrder(s) /\ Ascends(buffer)
    BY OrderByStage
  <2>2. Ascends(buffer')
    BY <1>1, <2>1, AppendAscends DEF StagesAreInOrder
  <2>3. /\ Follows(ToSet(handled), ToSet(buffer'))
        /\ Follows(ToSet(buffer'), ToSet(queue)) /\ Follows(ToSet(buffer'), ToSet(batch[s]))
    BY <1>2, <2>1 DEF StagesAreInOrder, Follows
  <2>4. \A front : Follows(front, {held'}) /\ Follows({held'}, front)
    BY <1>2 DEF Follows
  <2> QED
    BY <1>1, <2>1, <2>2, <2>3, <2>4 DEF StagesAreInOrder
<1>4. TgSources = {} => Ascends(buffer')
  BY DEF Ascends, Before
<1> QED
  BY <1>1, <1>3, <1>4, OrderByStage

\* The process loop gets the first post of the buffer, and takes it next.
LEMMA GetKeepsOrder ==
  ASSUME StreamInv, ChannelOrderKept, GetFromBuffer
  PROVE  ChannelOrderKept'
<1> DEFINE post == Head(buffer)
<1>1. /\ buffer \in Seq(Posts) /\ buffer # <<>> /\ buffer' = Tail(buffer)
      /\ handled' = IF post[1] \in TgSources THEN Append(handled, post) ELSE handled
      /\ handled \in Seq(Posts) /\ UNCHANGED <<held, queue, batch>>
  BY DEF StreamInv, TypeOK, GetFromBuffer, pollers
<1>2. /\ post \in Posts /\ ToSet(buffer) = {post} \cup ToSet(buffer')
      /\ Ascends(buffer') /\ Follows({post}, ToSet(buffer'))
  BY <1>1, HeadAndTail, HeadIsBeforeTail, OrderByStage
<1>3. ToSet(handled') \subseteq ToSet(handled) \cup {post}
  BY <1>1, <1>2, AppendOne
<1>4. ASSUME NEW s \in TgSources
      PROVE  StagesAreInOrder(s)'
  <2>1. StagesAreInOrder(s)
    BY OrderByStage
  <2>2. /\ Follows(ToSet(handled), ToSet(buffer')) /\ Follows({post}, {held})
        /\ Follows({post}, ToSet(queue)) /\ Follows({post}, ToSet(batch[s]))
    BY <1>2, <2>1, FewerFollow DEF StagesAreInOrder
  <2>3. /\ Follows(ToSet(handled'), ToSet(buffer')) /\ Follows(ToSet(handled'), {held})
        /\ Follows(ToSet(handled'), ToSet(queue)) /\ Follows(ToSet(handled'), ToSet(batch[s]))
    BY <1>2, <1>3, <2>1, <2>2 DEF StagesAreInOrder, Follows
  <2>4. ToSet(buffer') \subseteq ToSet(buffer)
    BY <1>2
  <2> QED
    BY <1>1, <2>1, <2>3, <2>4, FewerFollow DEF StagesAreInOrder
<1>5. Ascends(handled')
  <2>1. Ascends(handled)
    BY OrderByStage
  <2>2. ASSUME post[1] \in TgSources
        PROVE  Follows(ToSet(handled), {post})
    <3>1. Follows(ToSet(handled), ToSet(buffer))
      BY <2>2, OrderByStage DEF StagesAreInOrder
    <3> QED
      BY <1>2, <3>1, FewerFollow
  <2> QED
    BY <1>1, <1>2, <2>1, <2>2, AppendAscends
<1> QED
  BY <1>1, <1>2, <1>4, <1>5, OrderByStage

\* The pump takes the first post of a poll: of a channel it is behind all that
\* were handed on, of a handle it has no order to keep.
LEMMA YieldKeepsStages ==
  ASSUME StreamInv, ChannelOrderKept, NEW t \in Sources, Yield(t)
  PROVE  ChannelOrderKept'
<1> DEFINE post == Head(batch[t])
<1>1. /\ batch[t] # <<>> /\ batch' = [batch EXCEPT ![t] = Tail(@)]
      /\ queue' = Append(queue, post) /\ UNCHANGED <<handled, held, buffer>>
  BY DEF Yield
<1>2. /\ post \in Posts /\ post[1] = t /\ batch[t] \in Seq(Posts)
      /\ ToSet(batch[t]) = {post} \cup ToSet(Tail(batch[t]))
      /\ queue \in Seq(Posts) /\ batch \in [Sources -> Seq(Posts)]
  BY <1>1, HeadOfBatch DEF StreamInv, TypeOK
<1>3. ToSet(queue') = ToSet(queue) \cup {post}
  BY <1>1, <1>2, AppendOne
<1>4. /\ Follows(ToSet(handled), {post}) /\ Follows(ToSet(buffer), {post})
      /\ Follows({held}, {post}) /\ Follows(ToSet(queue), {post})
  <2>1. CASE t \in TgSources
    <3>1. StagesAreInOrder(t) /\ {post} \cap Posts \subseteq ToSet(batch[t])
      BY <1>2, <2>1, OrderByStage
    <3> QED
      BY <3>1, FewerFollow DEF StagesAreInOrder
  <2>2. CASE t \notin TgSources
    <3>1. \A p : Before(p, post)
      BY <1>2, <2>2 DEF Before
    <3> QED
      BY <3>1 DEF Follows
  <2> QED
    BY <2>1, <2>2
<1>5. Ascends(queue')
  BY <1>1, <1>2, <1>4, AppendAscends, OrderByStage
<1>6. \A s \in TgSources : StagesAreInOrder(s)'
  <2> SUFFICES ASSUME NEW s \in TgSources
               PROVE  StagesAreInOrder(s)'
    OBVIOUS
  <2>1. StagesAreInOrder(s) /\ s \in Sources
    BY OrderByStage DEF Sources
  <2>2. /\ Ascends(batch'[s]) /\ ToSet(batch'[s]) \subseteq ToSet(batch[s])
        /\ Follows({post}, ToSet(batch'[s]))
    <3>1. CASE s = t
      <4>1. batch'[s] = Tail(batch[t])
        BY <1>1, <1>2, <2>1, <3>1
      <4> QED
        BY <1>1, <1>2, <2>1, <3>1, <4>1, HeadIsBeforeTail DEF StagesAreInOrder
    <3>2. CASE s # t
      <4>1. batch'[s] = batch[s]
        BY <1>1, <1>2, <2>1, <3>2
      <4>2. \A q \in ToSet(batch[s]) : q[1] = s
        BY <2>1 DEF StreamInv, PollersAreInOrder
      <4> QED
        BY <1>2, <2>1, <3>2, <4>1, <4>2 DEF StagesAreInOrder, Follows, Before
    <3> QED
      BY <3>1, <3>2
  <2>3. /\ Follows(ToSet(handled), ToSet(queue')) /\ Follows(ToSet(buffer), ToSet(queue'))
        /\ Follows({held}, ToSet(queue')) /\ Follows(ToSet(queue'), ToSet(batch'[s]))
    <3>1. Follows(ToSet(queue), ToSet(batch'[s]))
      BY <2>1, <2>2, FewerFollow DEF StagesAreInOrder
    <3> QED
      BY <1>3, <1>4, <2>1, <2>2, <3>1 DEF StagesAreInOrder, Follows
  <2>4. /\ Follows(ToSet(handled), ToSet(batch'[s])) /\ Follows(ToSet(buffer), ToSet(batch'[s]))
        /\ Follows({held}, ToSet(batch'[s]))
    BY <2>1, <2>2, FewerFollow DEF StagesAreInOrder
  <2> QED
    BY <1>1, <2>1, <2>2, <2>3, <2>4 DEF StagesAreInOrder
<1> QED
  BY <1>1, <1>5, <1>6, OrderByStage

\* A channel's poll gets posts behind all it has handed on, in their order.
LEMMA PollKeepsStages ==
  ASSUME StreamInv, ChannelOrderKept, NEW t \in Sources, PollX(t) \/ PollTg(t)
  PROVE  ChannelOrderKept'
<1>1. /\ UNCHANGED pipes /\ batch \in [Sources -> Seq(Posts)]
      /\ \E next : batch' = [batch EXCEPT ![t] = next]
  BY DEF PollX, PollTg, Polls, StreamInv, TypeOK
<1>2. ASSUME NEW s \in TgSources, s # t
      PROVE  StagesAreInOrder(s)'
  <2>1. batch'[s] = batch[s] /\ StagesAreInOrder(s)
    BY <1>1, <1>2, OrderByStage DEF Sources
  <2> QED
    BY <1>1, <2>1 DEF StagesAreInOrder, pipes
<1>3. ASSUME t \in TgSources
      PROVE  StagesAreInOrder(t)'
  <2>1. batch'[t] = Fresh(t)
    BY <1>1, <1>3, SourceAssumption DEF PollX, PollTg
  <2>2. /\ DOMAIN Fresh(t) = 1 .. published[t] - Beyond(t)
        /\ \A i \in DOMAIN Fresh(t) : Fresh(t)[i] = <<t, Beyond(t) + i>>
        /\ \A q \in ToSet(Fresh(t)) : q[1] = t /\ Beyond(t) < q[2] /\ q \in Posts
    BY FreshPosts
  <2>3. /\ since[t] \in Int /\ Beyond(t) \in Int /\ published[t] \in Int
        /\ since[t] <= Beyond(t)
    BY WindowOfPoll, BoundsAssumption
  <2>4. Ascends(batch'[t])
    <3> SUFFICES ASSUME NEW i \in DOMAIN Fresh(t), NEW j \in DOMAIN Fresh(t), i < j
                 PROVE  Before(Fresh(t)[i], Fresh(t)[j])
      BY <2>1 DEF Ascends
    <3>1. Beyond(t) + i < Beyond(t) + j
      BY <2>2, <2>3
    <3> QED
      BY <2>2, <3>1 DEF Before
  <2>5. ASSUME NEW p \in Posts, Handed(p), NEW q \in ToSet(batch'[t])
        PROVE  Before(p, q)
    <3> SUFFICES ASSUME p[1] = t
                 PROVE  p[2] < q[2]
      BY <2>1, <2>2 DEF Before
    <3>1. p[2] <= since[t] /\ p[2] \in Int /\ q[2] \in Int
      BY <1>3, <2>1, <2>2, <2>5, StagesHanded, PartsOfPost
      DEF StreamInv, PollerIsInOrder
    <3> QED
      BY <2>1, <2>2, <2>3, <3>1
  <2>6. \A front : (\A p \in front \cap Posts : Handed(p)) => Follows(front, ToSet(batch'[t]))
    BY <2>5 DEF Follows
  <2>7. ASSUME NEW p \in Posts, p \in ToSet(handled), NEW q \in ToSet(batch'[t])
        PROVE  Before(p, q)
    <3> SUFFICES ASSUME p[1] = t
                 PROVE  p[2] < q[2]
      BY <2>1, <2>2 DEF Before
    <3>1. p[2] <= since[t] /\ p[2] \in Int /\ q[2] \in Int
      BY <2>1, <2>2, <2>7, PartsOfPost DEF StreamInv, HandledIsPast
    <3> QED
      BY <2>1, <2>2, <2>3, <3>1
  <2>8. /\ Follows(ToSet(handled), ToSet(batch'[t])) /\ Follows(ToSet(buffer), ToSet(batch'[t]))
        /\ Follows({held}, ToSet(batch'[t])) /\ Follows(ToSet(queue), ToSet(batch'[t]))
    BY <2>6, <2>7 DEF Handed, Follows
  <2>9. StagesAreInOrder(t)
    BY <1>3, OrderByStage
  <2> QED
    BY <1>1, <2>4, <2>8, <2>9 DEF StagesAreInOrder, pipes
<1>4. Ascends(handled') /\ Ascends(buffer') /\ Ascends(queue')
  BY <1>1, OrderByStage DEF pipes
<1> QED
  BY <1>2, <1>3, <1>4, OrderByStage

\* Where all is empty there is nothing out of order.
LEMMA EmptyIsInOrder ==
  /\ Ascends(<<>>)
  /\ \A front : Follows(front, ToSet(<<>>)) /\ Follows(ToSet(<<>>), front)
  /\ \A front : Follows(front, {NoPost}) /\ Follows({NoPost}, front)
  BY NoPostAssumption DEF Ascends, Follows, ToSet

\* The order of a channel's posts is kept by every step.
LEMMA NextChannelOrderKept ==
  StreamInv /\ ChannelOrderKept /\ [Next]_vars => ChannelOrderKept'
<1> SUFFICES ASSUME StreamInv, ChannelOrderKept, [Next]_vars
             PROVE  ChannelOrderKept'
  OBVIOUS
<1>1. CASE UNCHANGED <<pipes, batch>>
  BY <1>1, OrderByStage DEF pipes, StagesAreInOrder
<1>2. ASSUME NEW t \in Sources, PollFails(t)
      PROVE  ChannelOrderKept'
  <2>1. /\ UNCHANGED pipes /\ batch \in [Sources -> Seq(Posts)]
        /\ batch' = [batch EXCEPT ![t] = <<>>]
    BY <1>2 DEF PollFails, StreamInv, TypeOK
  <2>2. ASSUME NEW s \in TgSources
        PROVE  StagesAreInOrder(s)'
    <3>1. batch'[s] = batch[s] \/ batch'[s] = <<>>
      BY <2>1 DEF Sources
    <3>2. StagesAreInOrder(s)
      BY OrderByStage
    <3> QED
      BY <2>1, <3>1, <3>2, EmptyIsInOrder DEF StagesAreInOrder, pipes
  <2> QED
    BY <2>1, <2>2, OrderByStage DEF pipes
<1>3. CASE Process \/ ProcessFails
  <2>1. UNCHANGED <<handled, held, buffer, queue, batch>>
    BY <1>3 DEF Process, ProcessFails, pollers
  <2>2. \A s \in TgSources : StagesAreInOrder(s)'
    BY <2>1, OrderByStage DEF StagesAreInOrder
  <2> QED
    BY <2>1, <2>2, OrderByStage
<1>4. CASE Shutdown \/ Crash
  <2>1. /\ handled' = <<>> /\ held' = NoPost /\ buffer' = <<>> /\ queue' = <<>>
        /\ \A s \in TgSources : batch'[s] = <<>>
    BY <1>4 DEF Shutdown, Crash, Gone, Sources
  <2>2. \A s \in TgSources : StagesAreInOrder(s)'
    BY <2>1, EmptyIsInOrder DEF StagesAreInOrder
  <2> QED
    BY <2>1, <2>2, OrderByStage, EmptyIsInOrder
<1> QED
  BY <1>1, <1>2, <1>3, <1>4, TakeKeepsOrder, PutKeepsOrder, GetKeepsOrder,
     YieldKeepsStages, PollKeepsStages
  DEF Next, Loops, vars, pollers, pipes, Command, Publish, AddSource, RemoveSource,
      Listen, ReadWatchlist, ProviderDies, RequestStop, Restart

\* The process loop takes a channel's posts in the order they were written, and
\* each at most once in a process.
THEOREM ChannelsKeepOrder == Spec => []ChannelOrderKept
<1>1. Init => ChannelOrderKept
  <2> SUFFICES ASSUME Init
               PROVE  ChannelOrderKept
    OBVIOUS
  <2>1. /\ handled = <<>> /\ held = NoPost /\ buffer = <<>> /\ queue = <<>>
        /\ \A s \in TgSources : batch[s] = <<>>
    BY DEF Init, Sources
  <2>2. \A s \in TgSources : StagesAreInOrder(s)
    BY <2>1, EmptyIsInOrder DEF StagesAreInOrder
  <2> QED
    BY <2>1, <2>2, OrderByStage, EmptyIsInOrder
<1> QED
  BY <1>1, NextChannelOrderKept, StreamIsSound, PTL DEF Spec
=============================================================================
