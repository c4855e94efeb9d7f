------------------------------- MODULE Ingest -------------------------------
(***************************************************************************)
(* From the watchlist to process_post: the operator's /addsource and       *)
(* /rmsource, the pollers that read the watchlist once per cycle, the      *)
(* pumps of CompositeProvider, its queue, the worker's ingest loop, the    *)
(* bounded IngestBuffer and the process loop; the channel-post listener    *)
(* beside them; stopping, dying and starting again.                        *)
(*                                                                         *)
(* A source is a feed of posts numbered in the order they appear.  What a  *)
(* poller remembers (since) is the number of the last post it is done      *)
(* with: seconds and message ids are abstracted to that, pages to how many *)
(* posts one poll can reach.  Everything here but the posts themselves,    *)
(* the accounts and what has been processed is lost when the process ends. *)
(***************************************************************************)
EXTENDS Integers, FiniteSets, SequencesExt

CONSTANTS
  XSources, TgSources,    \* handles, and public channels
  Seeded,                 \* NT_WATCHLIST
  Administered,           \* the channels where the bot is an admin
  MaxPosts,               \* bound: posts of a source
  Reach,                  \* Reach[s]: the posts one poll can get (ten pages, or one)
  Lookback,               \* Lookback[s]: the posts a fresh poller looks back
  MaxBuffer,              \* IngestBuffer's maxsize (1000)
  MaxCommands,            \* bound: /addsource and /rmsource
  MaxFaults,              \* bound: failures, stops and crashes
  NoPost,
  Ended                   \* in place of a post: the ingest loop is over

Sources == XSources \cup TgSources
Posts == Sources \X (1 .. MaxPosts)

\* One provider, and one pump, for all handles, another for all channels.
Providers == {"x", "tg"}
Provider(s) == IF s \in XSources THEN "x" ELSE "tg"
SourcesOf(provider) == {s \in Sources : Provider(s) = provider}

ASSUME BoundsAssumption ==
  /\ MaxPosts \in Nat /\ MaxBuffer \in Nat \ {0}
  /\ MaxCommands \in Nat /\ MaxFaults \in Nat
ASSUME ReachAssumption ==
  Reach \in [Sources -> Nat \ {0}] /\ Lookback \in [Sources -> Nat]
ASSUME SourceAssumption ==
  /\ Administered \subseteq TgSources /\ Seeded \subseteq Sources
  /\ XSources \cap TgSources = {}
ASSUME NoPostAssumption == NoPost \notin Posts /\ Ended \notin Posts

VARIABLES
  published,    \* published[s]: how many posts s has
  account,      \* account[s]: its row: none, active, or no longer active
  cycle,        \* cycle[p]: what the provider has still to poll of the list it read
  since,        \* since[s]: the poller is done with the posts up to this one
  batch,        \* batch[s]: what the poll under way has still to yield
  seen,         \* seen[s]: max_seen of the poll under way, 0 between polls
  alive,        \* the pumps that still run
  queue,        \* CompositeProvider's queue, unbounded
  held,         \* the post the ingest loop is putting into the buffer
  buffer,       \* the IngestBuffer
  working,      \* the post in process_post
  up, stop,     \* the process runs; request_stop has been called
  commands, faults,
  \* history
  dismissed,    \* sources the operator removed, and has not added again
  done,         \* posts process_post returned for
  failed,       \* posts process_post raised for
  missed,       \* posts no poll asked for before the poller was past them
  handled       \* the channels' posts the process loop took, since the start

pollers == <<cycle, since, batch, seen, alive>>
pipes == <<queue, held, buffer, working, handled>>
watchlist == <<account, dismissed, commands>>
past == <<done, failed, missed>>
vars == <<published, watchlist, pollers, pipes, up, stop, faults, past>>

Unpolled == -1      \* since of a source this process has not polled yet

TypeOK ==
  /\ published \in [Sources -> 0 .. MaxPosts]
  /\ account \in [Sources -> {"none", "active", "inactive"}]
  /\ cycle \in [Providers -> SUBSET Sources]
  /\ since \in [Sources -> -1 .. MaxPosts]
  /\ seen \in [Sources -> 0 .. MaxPosts]
  /\ batch \in [Sources -> Seq(Posts)]
  /\ alive \subseteq Providers
  /\ queue \in Seq(Posts) /\ buffer \in Seq(Posts) /\ Len(buffer) <= MaxBuffer
  /\ held \in Posts \cup {NoPost, Ended} /\ working \in Posts \cup {NoPost}
  /\ up \in BOOLEAN /\ stop \in BOOLEAN
  /\ commands \in 0 .. MaxCommands /\ faults \in 0 .. MaxFaults
  /\ dismissed \subseteq Sources
  /\ done \cup failed \cup missed \subseteq Posts
  /\ handled \in Seq(Posts)

\* Mutant of GetOrCreate: a row that is there is made active again.
GetOrActivate(rows, wanted) ==
  [s \in Sources |-> IF s \in wanted THEN "active" ELSE rows[s]]

\* get_or_create_account: a row that is there is left as it is.
GetOrCreate(rows, wanted) ==
  [s \in Sources |->
    IF s \in wanted /\ rows[s] = "none" THEN "active" ELSE rows[s]]

Init ==
  /\ published = [s \in Sources |-> 0]
  /\ account = GetOrCreate([s \in Sources |-> "none"], Seeded)
  /\ cycle = [provider \in Providers |-> {}]
  /\ since = [s \in Sources |-> Unpolled]
  /\ seen = published
  /\ batch = [s \in Sources |-> <<>>]
  /\ alive = Providers
  /\ queue = <<>> /\ held = NoPost /\ buffer = <<>> /\ working = NoPost
  /\ up = TRUE /\ stop = FALSE
  /\ commands = 0 /\ faults = 0
  /\ dismissed = {} /\ done = {} /\ failed = {} /\ missed = {} /\ handled = <<>>

-----------------------------------------------------------------------------
Publish(s) ==
  /\ published[s] < MaxPosts
  /\ published' = [published EXCEPT ![s] = @ + 1]
  /\ UNCHANGED <<watchlist, pollers, pipes, up, stop, faults, past>>

Command ==
  /\ up /\ commands < MaxCommands
  /\ commands' = commands + 1
  /\ UNCHANGED <<published, pollers, pipes, up, stop, faults, past>>

\* add_source: the operator is told that s is watched, whatever its row says.
AddSource(s) ==
  /\ Command
  /\ account' = GetOrCreate(account, {s})
  /\ dismissed' = dismissed \ {s}

\* remove_source: nothing but the row changes.
RemoveSource(s) ==
  /\ account[s] # "none"
  /\ Command
  /\ account' = [account EXCEPT ![s] = "inactive"]
  /\ dismissed' = dismissed \cup {s}

Running(s) == up /\ Provider(s) \in alive

\* A provider polls one source after the other.
Between(provider) == \A s \in SourcesOf(provider) : batch[s] = <<>>

\* active_handles
Watched(provider) == {s \in SourcesOf(provider) : account[s] = "active"}

\* stream: the list is read once per cycle, and gone through.
ReadWatchlist(provider) ==
  /\ up /\ provider \in alive /\ Between(provider) /\ cycle[provider] = {}
  /\ cycle' = [cycle EXCEPT ![provider] = Watched(provider)]
  /\ UNCHANGED <<published, watchlist, since, batch, seen, alive, pipes, up, stop,
                 faults, past>>

Later(i, j) == IF i > j THEN i ELSE j

\* Where the window of a poll begins: behind since, or by the lookback.
Begin(s) == IF since[s] = Unpolled THEN Later(published[s] - Lookback[s], 0) ELSE since[s]

\* The newest posts of the window, and the last post it does not reach.
Beyond(s) == Later(Begin(s), published[s] - Reach[s])
Fresh(s) == [i \in 1 .. published[s] - Beyond(s) |-> <<s, Beyond(s) + i>>]

\* Posts older than those of this poll were asked for now, or never will be.
PassedOver(s) == {p \in Posts : p[1] = s /\ since[s] < p[2] /\ p[2] <= Beyond(s)}

Polls(s) ==
  /\ Running(s) /\ Between(Provider(s)) /\ s \in cycle[Provider(s)]
  /\ cycle' = [cycle EXCEPT ![Provider(s)] = @ \ {s}]
  /\ missed' = missed \cup (PassedOver(s) \ (done \cup failed))

\* _poll_handle: the search answers newest first, and since moves only after
\* the last post of the poll has been taken.
PollX(s) ==
  /\ s \in XSources
  /\ Polls(s)
  /\ batch' = [batch EXCEPT ![s] = Reverse(Fresh(s))]
  /\ IF Fresh(s) = <<>>
     THEN since' = [since EXCEPT ![s] = Begin(s)] /\ UNCHANGED seen
     ELSE seen' = [seen EXCEPT ![s] = Begin(s)] /\ UNCHANGED since
  /\ UNCHANGED <<published, watchlist, alive, pipes, up, stop, faults, done, failed>>

\* Mutant of PollTg: the page is taken as it comes, newest first.
PollTgUnsorted(s) ==
  /\ s \in TgSources
  /\ Polls(s)
  /\ batch' = [batch EXCEPT ![s] = Reverse(Fresh(s))]
  /\ since' = IF published[s] = 0 THEN since ELSE [since EXCEPT ![s] = published[s]]
  /\ UNCHANGED <<published, watchlist, seen, alive, pipes, up, stop, faults, done, failed>>

\* _poll_channel: the page is sorted by message id, and since moves before the
\* first of its posts is taken.
PollTg(s) ==
  /\ s \in TgSources
  /\ Polls(s)
  /\ batch' = [batch EXCEPT ![s] = Fresh(s)]
  /\ since' = IF published[s] = 0 THEN since ELSE [since EXCEPT ![s] = published[s]]
  /\ UNCHANGED <<published, watchlist, seen, alive, pipes, up, stop, faults, done, failed>>

\* pump: the queue is unbounded, so a poller never waits for the worker.
Yield(s) ==
  LET post == Head(batch[s])
      highest == Later(post[2], seen[s]) IN
  /\ Running(s) /\ batch[s] # <<>>
  /\ queue' = Append(queue, post)
  /\ batch' = [batch EXCEPT ![s] = Tail(@)]
  /\ IF s \in XSources /\ Len(batch[s]) = 1
     THEN since' = [since EXCEPT ![s] = highest] /\ seen' = [seen EXCEPT ![s] = 0]
     ELSE /\ seen' = IF s \in XSources THEN [seen EXCEPT ![s] = highest] ELSE seen
          /\ UNCHANGED since
  /\ UNCHANGED <<published, watchlist, cycle, alive, held, buffer, working, handled,
                 up, stop, faults, past>>

Fault == faults < MaxFaults /\ faults' = faults + 1

\* A channel has one page; a handle's further pages may fail too.
UnderPoll(s) ==
  \/ s \in cycle[Provider(s)] /\ Between(Provider(s))
  \/ s \in XSources /\ batch[s] # <<>>

\* Mutant of PollFails: the failed poll counts as done.
PollFailsForward(s) ==
  /\ Running(s) /\ UnderPoll(s)
  /\ Fault
  /\ cycle' = [cycle EXCEPT ![Provider(s)] = @ \ {s}]
  /\ batch' = [batch EXCEPT ![s] = <<>>]
  /\ since' = [since EXCEPT ![s] = published[s]]
  /\ seen' = [seen EXCEPT ![s] = 0]
  /\ UNCHANGED <<published, watchlist, alive, pipes, up, stop, past>>

\* The fetch of a page raises: the poll is over, since has not moved, and the
\* next source of the cycle has its turn.
PollFails(s) ==
  /\ Running(s) /\ UnderPoll(s)
  /\ Fault
  /\ cycle' = [cycle EXCEPT ![Provider(s)] = @ \ {s}]
  /\ batch' = [batch EXCEPT ![s] = <<>>]
  /\ seen' = [seen EXCEPT ![s] = 0]
  /\ UNCHANGED <<published, watchlist, since, alive, pipes, up, stop, past>>

\* The read of the watchlist raises outside the poller's own try: its pump logs
\* that the provider died, and nothing starts it again.
ProviderDies(provider) ==
  /\ up /\ provider \in alive /\ Between(provider) /\ cycle[provider] = {}
  /\ Fault
  /\ alive' = alive \ {provider}
  /\ UNCHANGED <<published, watchlist, cycle, since, batch, seen, pipes, up, stop, past>>

-----------------------------------------------------------------------------
\* _ingest_loop: one post at a time from the queue to the buffer; it waits for
\* a slot when the buffer is full.  Once stopped, it drops the post and ends.
TakeFromStream ==
  /\ up
  /\ held = NoPost /\ queue # <<>>
  /\ held' = IF stop THEN Ended ELSE Head(queue)
  /\ queue' = Tail(queue)
  /\ UNCHANGED <<published, watchlist, pollers, buffer, working, handled, up, stop,
                 faults, past>>

HasSlot == Len(buffer) < MaxBuffer

\* Mutant of PutInBuffer: a full buffer drops the post instead of making the loop
\* wait.
PutOrDrop ==
  /\ up
  /\ held \in Posts
  /\ buffer' = IF HasSlot THEN Append(buffer, held) ELSE buffer
  /\ held' = NoPost
  /\ UNCHANGED <<published, watchlist, pollers, queue, working, handled, up, stop,
                 faults, past>>

PutInBuffer ==
  /\ up
  /\ held \in Posts /\ HasSlot
  /\ buffer' = Append(buffer, held) /\ held' = NoPost
  /\ UNCHANGED <<published, watchlist, pollers, queue, working, handled, up, stop,
                 faults, past>>

\* _process_loop: one post at a time.  It may be inside get() when the stop
\* comes, and get a post still.
GetFromBuffer ==
  /\ up
  /\ working = NoPost /\ buffer # <<>>
  /\ working' = Head(buffer) /\ buffer' = Tail(buffer)
  /\ handled' = IF Head(buffer)[1] \in TgSources THEN Append(handled, Head(buffer))
                 ELSE handled
  /\ UNCHANGED <<published, watchlist, pollers, queue, held, up, stop, faults, past>>

\* process_post makes a row for an author it does not know.
Process ==
  /\ up /\ working # NoPost
  /\ account' = GetOrCreate(account, {working[1]})
  /\ done' = done \cup {working}
  /\ working' = NoPost
  /\ UNCHANGED <<published, dismissed, commands, pollers, queue, held, buffer, handled,
                 up, stop, faults, failed, missed>>

\* process_post raises: logged, and the loop goes on with the next post.
ProcessFails ==
  /\ up /\ working # NoPost
  /\ Fault
  /\ failed' = failed \cup {working}
  /\ working' = NoPost
  /\ UNCHANGED <<published, watchlist, pollers, queue, held, buffer, handled, up, stop,
                 done, missed>>

\* The channel-post listener: straight to process_post, past the watchlist, the
\* queue and the buffer.  From its first post on the channel is polled as well.
Listen(s) ==
  \E i \in 1 .. published[s] :
    /\ up /\ s \in Administered /\ <<s, i>> \notin done
    /\ account' = GetOrCreate(account, {s})
    /\ done' = done \cup {<<s, i>>}
    /\ UNCHANGED <<published, dismissed, commands, pollers, pipes, up, stop, faults,
                   failed, missed>>

-----------------------------------------------------------------------------
\* SIGTERM, or request_stop.
RequestStop ==
  /\ up /\ ~stop
  /\ Fault
  /\ stop' = TRUE
  /\ UNCHANGED <<published, watchlist, pollers, pipes, up, past>>

Gone ==
  /\ up' = FALSE /\ stop' = FALSE
  /\ queue' = <<>> /\ held' = NoPost /\ buffer' = <<>> /\ working' = NoPost
  /\ handled' = <<>>
  /\ batch' = [s \in Sources |-> <<>>]
  /\ cycle' = [provider \in Providers |-> {}]
  /\ since' = [s \in Sources |-> Unpolled]
  /\ seen' = [s \in Sources |-> 0]
  /\ UNCHANGED <<published, watchlist, alive, past>>

\* run() wakes up and cancels every task wherever it is.
MayExit == stop

Shutdown ==
  /\ up /\ MayExit
  /\ Gone
  /\ UNCHANGED faults

Crash ==
  /\ up
  /\ Fault
  /\ Gone

\* main: NT_WATCHLIST is seeded, and everything but the tables starts afresh.
Restart ==
  /\ ~up
  /\ up' = TRUE
  /\ alive' = Providers
  /\ account' = GetOrCreate(account, Seeded)
  /\ UNCHANGED <<published, dismissed, commands, cycle, since, batch, seen, pipes,
                 stop, faults, past>>

Loops ==
  TakeFromStream \/ PutInBuffer \/ GetFromBuffer \/ Process \/ ProcessFails

Next ==
  \/ \E s \in Sources :
       \/ Publish(s) \/ AddSource(s) \/ RemoveSource(s)
       \/ PollX(s) \/ PollTg(s) \/ Yield(s)
       \/ PollFails(s)
       \/ Listen(s)
  \/ \E provider \in Providers : ReadWatchlist(provider) \/ ProviderDies(provider)
  \/ Loops
  \/ RequestStop \/ Shutdown \/ Crash \/ Restart

Spec == Init /\ [][Next]_vars

\* The event loop runs every coroutine that can run: each pump, which goes round
\* its list without end, and each of the worker's loops.  The platform starts a
\* process that is down again.  Nobody promises posts, commands or the listener.
FairSpec ==
  /\ Spec
  /\ \A provider \in Providers :
       /\ WF_vars(ReadWatchlist(provider))
       /\ WF_vars(\E s \in SourcesOf(provider) : PollX(s) \/ PollTg(s))
       /\ WF_vars(\E s \in SourcesOf(provider) : Yield(s))
  /\ WF_vars(TakeFromStream) /\ WF_vars(PutInBuffer)
  /\ WF_vars(GetFromBuffer) /\ WF_vars(Process)
  /\ WF_vars(Shutdown) /\ WF_vars(Restart)

-----------------------------------------------------------------------------
\* Where a post may be on its way, from the process loop back to its poller.
Stages(s) == <<{working}, ToSet(buffer), {held}, ToSet(queue), ToSet(batch[s])>>

OnItsWay(p) == \E i \in DOMAIN Stages(p[1]) : p \in Stages(p[1])[i]

\* Nobody has to ask for p again.
Safe(p) == OnItsWay(p) \/ p \in done \cup failed \cup missed

\* A poller is past a post only once it is safe in the pipeline or through, or
\* was out of the poll's reach: no hand-over between the loops drops a post.
NothingFallsThrough ==
  up /\ ~stop => \A p \in Posts : p[2] <= since[p[1]] => Safe(p)

\* What a poll under way will move since to, it has asked for: all up to the
\* highest number it has seen, and up to every post it has still to yield.
PollIsCovered ==
  up /\ ~stop => \A p \in Posts :
    p[2] <= seen[p[1]] \/ (\E q \in ToSet(batch[p[1]]) : p[2] <= q[2]) => Safe(p)

\* A poller knows of what is published, and of its own source; since moves behind
\* the last post of a handle's poll, and ahead of the first of a channel's.
PollersAreInOrder ==
  \A s \in Sources :
    /\ since[s] <= published[s] /\ seen[s] <= published[s]
    /\ \A p \in ToSet(batch[s]) :
         /\ p[1] = s /\ p[2] <= published[s]
         /\ s \in XSources <=> since[s] < p[2]
    /\ s \in TgSources => \A i \in 1 .. 4, p \in Posts :
         p[1] = s /\ p \in Stages(s)[i] => p[2] <= since[s]

\* What the process loop took of a channel, the channel's poller is past.
HandledIsPast ==
  \A p \in ToSet(handled) : p[1] \in TgSources /\ p[2] <= since[p[1]]

\* A process that is down has forgotten all but its tables.
DownIsEmpty ==
  ~up => /\ ~stop /\ queue = <<>> /\ held = NoPost /\ buffer = <<>> /\ working = NoPost
         /\ handled = <<>>
         /\ \A s \in Sources : since[s] = Unpolled /\ seen[s] = 0 /\ batch[s] = <<>>

\* Only the operator makes a removed source active again.
DismissedIsInactive == \A s \in dismissed : account[s] = "inactive"

\* The pipes are well-typed, the buffer within its limit, and nothing falls
\* through; the rest of it is what that rests on.
StreamInv ==
  /\ TypeOK
  /\ NothingFallsThrough /\ PollIsCovered /\ PollersAreInOrder /\ HandledIsPast
  /\ DownIsEmpty /\ DismissedIsInactive

\* Of one channel, p was written before q.
Before(p, q) == p[1] = q[1] /\ p[1] \in TgSources => p[2] < q[2]

Ascends(line) == \A i, j \in DOMAIN line : i < j => Before(line[i], line[j])

\* The way of a channel's posts, from what the process loop has taken, the post
\* it is at included, back to the poller.
Line(s) == [Stages(s) EXCEPT ![1] = ToSet(handled)]

\* The process loop calls process_post with a channel's posts in the order they
\* were written, with each at most once in the life of the process, and what is
\* still in the pipes lines up behind: reversal detection takes the stance it
\* compares with from the post before.  Of a channel that is not administered,
\* these are all the calls there are.  The posts of an administered one come by
\* the listener as well (Listen), past the loop, in any order and a second time:
\* of those calls this says nothing.
ChannelOrderKept ==
  /\ Ascends(handled) /\ Ascends(buffer) /\ Ascends(queue)
  /\ \A s \in TgSources :
       /\ Ascends(batch[s])
       /\ \A i, j \in 1 .. 5 : i < j => \A p, q \in Posts :
            p \in Line(s)[i] /\ q \in Line(s)[j] => Before(p, q)

\* Once the cycle under way is over, a source the operator removed is not polled
\* before it is added again, whatever its posts still in the pipeline, the
\* listener or the seeds of the next start do to its row.
RemovalHolds ==
  [][\A s \in dismissed \cap dismissed' :
       s \in cycle'[Provider(s)] => s \in cycle[Provider(s)]]_vars

\* Again and again all the posts of the watched sources are through, whatever
\* failed polls, dead providers of the other kind, stops and crashes there are -
\* unless process_post failed on one, or it was out of reach, its provider died,
\* or its source is not watched any more.
Settled(p) ==
  \/ p \in done \cup failed \cup missed
  \/ Provider(p[1]) \notin alive \/ account[p[1]] # "active"

PostsComeThrough == []<>(\A p \in Posts : p[2] <= published[p[1]] => Settled(p))
=============================================================================
