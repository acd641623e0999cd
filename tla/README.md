# Synchestra in TLA+

A verification development for the Go implementation of Synchestra (`src/`). It models the
part of the program whose correctness depends on the order in which things happen: the
replicated event journal with its group commit, promotion, outbox delivery, durability barrier,
checkpoints and Git transport; the agent records, leases and worktree claims that are kept in
it; and the older task board in a Git repository. TLC checks the models on small instances;
TLAPS proves every safety property the runs check, and the two refinements, for every value of the
constants; those of the task board, for agents that do not share a clone, and two of them until a
board is salvaged (sections 2 and 4).

Paths below are relative to `src/pkg/state` unless they start with `src/`.

## 1. The system

Synchestra coordinates agents that work on one project. Its state is a journal of events per
project. Everything an agent does (start a run, claim a branch, send a message) is an event
appended to that journal, and everything it reads is a fold over the events. The journal has
one *active* endpoint that accepts commands and any number of *replicas* that receive its
events. An older store keeps tasks as files in a Git repository.

| Component | Source | State it keeps | Operations |
|---|---|---|---|
| Event chain | `replication/types.go`, `journal.go`, `dal_journal.go` | the log: cursors `(epoch, sequence)`, checksums chained over the previous one, event IDs, idempotency keys | validate the next event, deduplicate, `Head`, `After` |
| Append path | `replication/journal.go`, `dal_journal.go`, `batch.go` | role and authority epoch (process memory, under a read/write lock), the batch window, its generation, timer and closed flag | `Append`, `enqueue`, `flush`, `commitBatch`, `Close`, `FenceAsReplica` |
| Promotion | `replication/promotion.go` | none of its own: the checkpoint event in the logs is the record | `Promote` = fence, catch up, verify, promote, fan out; `PromoteToActive` |
| Outbox, replication | `replication/outbox.go`, `journal.go` | one row per event and replica | `PendingOutbox`, `AckOutbox`, `DrainOutbox`, `Replicate` |
| Barrier | `replication/barrier.go` | none | `Wait` for a replica to reach a cursor |
| Checkpoint | `replication/checkpoint.go` | exported event lists and artifacts | `NewCheckpoint`, `Verify`, `Restore`, `VerifyConvergence` |
| Git push journal | `replication/git_push_journal.go` | a local journal, a Git branch, intent and receipt files, a file lock | intent, commit, receipt, compare-and-set push, read-back, `ResumeOperation`, fence and promotion |
| Fallback inbox | `replication/fallback_inbox.go` | content-addressed envelopes, delivered like journal events | `AppendFallbackAndPush`, `ResumeOperation` |
| Lease store | `agentstore/lease.go`, `store.go` | none but the journal: leases are a projection | `Acquire`, `Renew`, `Release`, `Transfer`, `Get` |
| Worktree claims | `agentstore/worktree.go` | the same, of its own events | `Claim`, `Renew`, `Release`, `Handoff`, `Get`, `List` |
| Runs, efforts, messages, cursors | `agentstore/{run,effort,lifecycle,message,cursor,activity,health}.go` | projections | `Start`, `Finish`, `Correct`, `Transition`, `Acknowledge`, `Advance` |
| Task store and board | `gitstore/task.go`, `board.go`, `src/pkg/cli/gitops` | status files and a board in a Git repository | `Create`, `Claim`, `Start`, `Complete`, ... with pull, commit and push |
| Agent wiring | `gitstore/agent.go`, `closeafter.go` | one lazily built agent store | `Agent()`, `Close`, `CloseAfter` |
| Commands | `src/pkg/cli/...` | none | flags and formatting over the stores |
| Runner and dispatch contract | `src/pkg/cli/runner`, `src/pkg/dispatch-contract` | none here; the server is in another repository | an HTTP client and its types |

How they interact:

- An agent store reads the journal (`Head`, then `After`), folds the events into a projection,
  decides, and calls `Append` with an event *pinned* to the head it read. The journal refuses
  an event that does not follow its head; the store then starts over, eight times at most.
- `Append` checks the role and epoch under a lock and hands the event to the batcher; a
  batch is committed by whichever goroutine triggered the flush (a filled window, the timer,
  `Close`, the fence), in one transaction, and each caller waits for its own result.
- `Promote` calls the former active's `FenceAsReplica`, which flushes the batcher inside the
  lock that all appends need, then delivers events to the candidate (`IngestReplica`), and
  makes it active (`PromoteToActive`).
- A worktree operation is a lease operation followed by a second append.
- Replicas learn of events from outbox rows that are committed with the event
  (`DrainOutbox`), by comparing heads (`Replicate`), or from a checkpoint (`Restore`); all three
  end in `ingestEvents`, and a replica has rows for replicas of its own.
- A journal may be a clone of a Git repository. Then every append is a local commit that has to
  reach the remote branch, and the fallback inbox uses the same protocol on the same branch.
- The task store has neither: agents edit a board file in a clone, commit and push; the push is
  where two clones meet, and what a pull that cannot be merged leaves in the clone goes into
  whatever is committed there next.

The behaviours that are hard to test, with the line where each one bites, are the `hazards`
of `PROJECT.json`. In short: batches that travel outside the lock under which their items
were accepted; callers that stop waiting and retry; fences and closes that race flights;
promotions that fail half way, are retried by several operators and survive restarts that
forget the role; decisions taken on a stale projection; pairs of appends that are not atomic;
acknowledgements that are lost or repeated; heads compared while they move; a process that ends
between a commit, the file that explains it and the push; agents that push one board.

What makes each modelled component correct:

- *Append path*: nil means durable, an error means absent, a command is recorded at most once,
  a fence or a close leaves nothing stranded, every append is answered.
- *Promotion*: never two writers, never two diverging logs, a writer has every event anybody
  acknowledged, an interrupted promotion can be completed.
- *Leases*: one unexpired holder per resource under the holders' own view of their deadlines;
  an expired lease does not keep its resource.
- *Claims*: a released claim is over.
- *Delivery*: a replica is a copy of the beginning of the authority's chain; no delivery is lost;
  a satisfied barrier, a successful restore and a verification mean what they say.
- *Git transport*: durable means in the remote, once; a commit that is not there is explained by a
  file somebody can resume from, and resuming publishes that operation only.
- *Agent records*: the journal reads as one legal history of every record, and a successful
  answer is that of the committed position.
- *Task board*: a claim that returns nil was decided on the remote's last board and is what the
  remote then says; one claim of a task wins; what the remote says of a task only moves along the
  transitions; conflict markers are never committed.

## 2. The modules

| Module | Models | Role |
|---|---|---|
| `JournalChain` | the event chain as pure operators | used by all replication modules |
| `GroupCommit` | one endpoint: append path, batcher, fence, close | detailed, safety and liveness |
| `Authority` | one chain with one movable write authority | abstract specification |
| `Promotion` | all endpoints of a project, replication, `Promote` | implements `Authority` |
| `LeaseStore` | the lease store over one journal | compare-and-swap, time, grants |
| `WorktreeClaims` | the worktree store | extends `LeaseStore` |
| `MirroredChain` | a chain that grows and copies of its beginning | abstract specification |
| `Replicas` | outbox, `DrainOutbox`, `Replicate`, `Wait`, checkpoints, over a cascade of endpoints | implements `MirroredChain` |
| `GitDelivery` | `GitPushJournal`, the fallback inbox and their durability protocol, in racing clones | detailed, with crashes |
| `AgentRecords` | efforts, runs, messages, activities, cursors over one journal | three plans of reads and an append |
| `TaskBoard` | the task store, its board, the task commands and the sync of the state | clones of one repository |
| `JournalChain_proof`, `GroupCommit_proof`, `Promotion_proof`, `Replicas_proof`, `LeaseStore_proof` (which has `WorktreeClaims` too), `GitDelivery_proof`, `AgentRecords_proof`, `TaskBoard_proof` | | lemmas and theorems |
| `MCGroupCommit`, `MCPromotion`, `MCWorktreeClaims`, `MCReplicas`, `MCGitDelivery`, `MCAgentRecords`, `MCTaskBoard` | | instances for TLC |

### JournalChain

An event is a record `id, key, epoch, seq, prev`. A checksum covers every field of the event
it names, the previous checksum included; hash collisions aside two checksums are equal
exactly when the events are, so the checksum of an event *is* that event and `prev` holds
it. `Verdict(log, e)` is the answer of one append, in the order of the code's checks: the same
event again ("duplicate", a success), an ID reused for another event, the chain checks of
`validateNextEvent` (first event, epoch fence, contiguity, previous hash), an idempotency key
that is taken. `Contiguous` and `ValidateNext` are the whole of the epoch rule: a
new epoch starts at sequence 1 and only right after its predecessor.

### GroupCommit

State and code: `role`, `epoch` are the journal's fields under its lock `mu`; `window`,
`generation`, `timers`, `closed` are the batcher's; a *flight* is a batch that has been drained
and whose commit has not ended; `committing`, `txLog`, `txLeft`, `txVerdict` are the open
transaction; `pc`, `event`, `sub`, `joined`, `reply` belong to the goroutine that calls
`Append`; `fence`, `fenceHead` to the one in `FenceAsReplica`; `closer`, `closeFlight` to the
callers of `Close`.

Locks are part of the control. Precheck and `enqueue` run under the read lock and are one
action (`Enqueue`, enabled only while no fence holds the lock); the flush that follows is
another action, because `enqueue` has released the batcher's mutex by then: another trigger
may drain the window first, which is what the generation is for. A flight's commit
needs no lock of the journal, only the transaction (`TxBegin`, one at a time). The transaction
itself is one action per item, in cursor order, so that everything else may happen
in its middle. `TxAbort` is a failed or panicking commit. A `timers` entry whose window is
gone is a callback that `Stop` came too late for. The timer's `Stop` succeeds or not,
nondeterministically.

The callers: an event is built on the journal's head or on an event another caller has staged
(a pipeline), a caller whose context ends gets `ctx.Err` and may submit the same event again
or build a new one under the same idempotency key, and a caller that lost a race starts over.

The two journals differ in what they lock and not in what they do; where they differ the
model follows `DALJournal`, the one production uses (`gitstore/agent.go`): the fence reads the head
in one step and appends in another.

### Authority and Promotion

`Promotion` has a log, a role and an epoch per endpoint and a record per operator for its call
of `Promote`: the two endpoints, the key, the checkpoint it holds, the events it has yet to
deliver. Each action is one read or one write of the other side's state: `PromoteBegin` (the
preconditions of a fresh attempt), `FenceFresh` / `FenceResumed` (`ensureFenced`), `CatchUp`
(read the candidate's head, collect what is missing), `CatchUpOne` (one `IngestReplica`),
`PromoteCandidate` (`evaluateConvergence` and `PromoteToActive`, which decides under
the candidate's lock). A call may fail after any step (`PromoteFails`: an error, a timeout, a
crash of the caller). `Deliver` is everything else that moves events: `Replicate`,
`DrainOutbox`, the fan-out at the end of `Promote`; since logs are never cut, any event of any
log may arrive, late, twice or out of order. `Restart` gives an endpoint the role and epoch of
its configuration again while its log stays: role and epoch are fields of the process.

An append is atomic here; what its parts may do to each other is `GroupCommit`'s subject.

`Authority` is what the package comment promises: one chain, at most one holder that may extend
it, authority moves by a checkpoint that names the next holder. The refinement mapping takes
the longest log for the chain and the one endpoint whose append would succeed for the holder.
It only makes sense because no two logs diverge and no two endpoints can write, which the
same run checks.

### LeaseStore

A caller is a run and one of its threads. A call is `ReadHead`, then the read of the events with
the decision (`AcquireDecides`, `AcquireConflict`, `FenceRefuses`, `ReleasedAlready`,
`HolderDecides`), then the append (`Commit`, or `Raced` with at most `MaxAttempts`). The journal
is abstracted to the projection of its lease events, and the head a call has read to the one
question that is asked of it, whether it still is the head (`fresh`): every append by anybody,
lease or not (`OtherAppend`), empties `fresh`. An append whose caller stopped waiting may still
land (`ghosts`, `GhostLands`). `Fails` is an error, a fenced endpoint or the death of the caller.

Time is what remains of each deadline; `Tick` counts every deadline down at once. The model has
one clock, as `lease.go` presumes when it compares a recorded deadline with its own; skew
between machines would be outside of what the code claims. A TTL of zero never expires.

`grant` is not in the code: it is what the holder of a lease was last told, and it ends at the
deadline it was told, or when the holder asks to release or transfer the lease. One writer per
resource is stated over grants and not over the projection, because a holder does not read
the journal before each of its own writes.

### WorktreeClaims

Each worktree operation is the lease store's, followed by the append of a claim event
that repeats its outcome. `followUp` holds the claim event a caller has yet to append;
`FollowUp` appends it (unconditionally, at whatever head), `FollowUpLost` is a failed append or
the end of the process between the two. Paths, SHAs and the List filters are left out.

### Replicas and MirroredChain

One endpoint is active throughout; the others are replicas, each fed by any endpoint and with a
fan-out of its own. `Commit` is the transaction of one event: the log and a row per configured
replica (`commitOneLocked`). `call[w]` is one call of a worker; each read of a head, of the rows
or of a log, each `IngestReplica`, and the acknowledgement is a step of its own, so calls
interleave at every point where the code holds no lock. `ingestEvents` (`IngestOne`,
`IngestStops`, `IngestFails`) is shared by `DrainOutbox`, `Replicate` and `Restore`: it stops at
the first event that is refused, and a drain acknowledges what it applied before it reports the
error. `AckOutbox` may fail; an answer that is lost is the step followed by the end of the caller.
`Poll`, `RemoteReceipt` and `Expire` are the barrier. For a git mirror, `pushed` is what its
remote holds, and lags behind at will (`PushMirror`): `GitDelivery` is the detail. `DamageFile` is
a checkpoint that loses its first or last event where it is kept: the code exists to notice that.

`NewCheckpoint` reads the head, then the events. A checkpoint is `[events, at]`. `VerifyConvergence`
reads two heads, takes the lower, and compares the checksums two later reads find there.

`MirroredChain` says what replication is for: the authority's chain only grows, and a copy grows
by one event at a time, the next one of the chain. The mapping is the active log for the chain and
the others for the copies.

### GitDelivery

A commit identifies the history behind it, so a head is the sequence of commits that lead to it;
the journal and the inbox are read off it (`JournalOf`, a fold over the commits). `receipts[c]` is the receipt directory of a clone, with
files of the phases *intent* and *pending*, and `call[c]` is the operation whose process holds the
file lock. `WriteIntent`, `Apply`, `Finalise`, `Check`, `Push`, `ReadBack`, `Synchronize`,
`ClearReceipt`, `ClearIntent` are the steps of `runOperationLocked` and `pushPendingLocked`;
`PickUp` is their beginning when files are found, for a repeated call and for `ResumeOperation`
alike. `Fence`, `PromoteToActive` and `Latest` take the same lock, but keep no intent. `Fail` is
any git command or file operation that fails, `Restart` the end of a process: the lock goes, files
and branches stay, role and epoch are the configured ones. `Pull` is another process of the clone
(the state store) that fast-forwards the branch without the lock. A clone outside `Endpoint` only
appends to the inbox of the same branch, which is how two clones race although one project has one
active endpoint.

### AgentRecords

The journal is the only state. A call follows one of three plans: *blind* (head, append), *looked*
(events, then head, append), *pinned* (head, events, append); a refused append goes back to the
head, so pinned calls decide again and the others do not. The event a transition appends carries
the state it was decided on; `foldEfforts` and `foldRuns` (both `foldRecord`, of the events about
one ID), `loadMessages` and `foldCursor` are the projections. An append whose caller gave up may still commit (`ghosts`) until another event takes
its place. Names, reasons, models and times are left out.

### TaskBoard

A *content* of the repository is the rows of the board, whether conflict markers stand between them,
and which tasks have a file. `remote` is the content of the remote branch. A clone has its last
commit, its working tree, its index (`staged`), the content it last shared with the remote, whether
it is ahead and behind, and the other side of a merge that is not concluded. A task may have several
rows, since `Create` appends one without looking; `findRow` takes the first.

A command is a sequence of steps, each a read or a write of the code: a pull, the guard of `task
status`, the read with the decision (`Read`, `Reread`), the board (`Write`), `git add` and commit,
the push; `task new` writes the task file first (`WriteTaskFile`) and may enqueue afterwards,
`Board.Rebuild` lists the task files first (`List`). So an interrupted `task new` leaves a file
without a row or, once another command commits the board, a row whose file is not in any commit; a
rebuild in another clone drops that row (`Rebuilt`). `Commit` records the whole board, whoever wrote
it, and the index.

Git is modelled by what it does to rows and files. A divergent pull may be refused or merged: that is
a configuration of git, and the repository sets none (its own test of `Sync` sets `pull.rebase` to
false). A merge keeps what one side changed. Where it cannot, and wherever else the layout of the
table may make git see a conflict, both sides stay in the working tree with markers and the merge
stays open (`PullConflicts`); nothing in the code takes it back. A further pull is refused, and the
next commit, of a command that does not pull or of the next step of one that has, concludes it. A
push needs every commit of the remote; it may be refused, fail, or land without its answer
(`PushUnanswered`).

`Readings` is what `ParseBoard` may make of a board with markers in it. The parser is in another
repository (specscore), so it may answer with an error or with any part of the rows.

Two places of the code may lose what a board said, and the model has both. A command that reads past
markers writes back the rows it saw. And `Board.Rebuild` keeps the rows of the tasks whose file it
finds, and nothing of a board it cannot parse: when `task new` dies between the board and the commit,
the next transition publishes the row without its file, and a rebuild in another clone drops it. The
task can then be created, and claimed, once more without a release. No comment promises otherwise.
`salvaged` remembers that a command has gone on after either: with rows it read past markers, or with
a rebuild that drops or replaces a row of the board (`Keeps`). `OneClaimWins` and
`RemoteStepsAreLegal` are stated until then, the other properties without it. A rebuild that adds
rows, or keeps those there are, does not set it.

A release counts when it is written to the board, which is when its caller gives the task up: a
release whose process ends before its commit is picked up by whatever commits the clone's working
tree next, so a second claim may follow a release that never returned. Claims carry a stamp (branch,
model and minute), and two claims may carry the same: git then takes their rows for one change.
`fresh` is history like `salvaged`, and read by no step: the agents whose claim was decided on a board that still
has every commit of the remote. `CallPush` and `CallSync` are `gitStateSync`'s `Push` and `Sync`; the
commands `state pull`, `push` and `sync` do not call them yet, they report that they are not
implemented.

## 3. What TLC checks

Twelve runs. "Bounds" are those of the `.cfg`; the comment at its top says what it is for.

| Run | Configuration | Checks | Shows |
|---|---|---|---|
| `commit` | `GroupCommit_commit` | `TypeOK`, `NilMeansDurable`, `ErrorMeansAbsent`, `CommandAtMostOnce`, `NothingPendingBehindFence`, `CountFlushesFullWindow`, `FencedLogIsFrozen` | what a nil and an error mean, with a batcher and without, while batches fail in part or as a whole, callers time out and retry, stale timers fire and a fence comes in between |
| `liveness` | `GroupCommit_liveness` | `NothingPendingAfterClose`, `AppendIsAnswered`, `FenceEnds` | with two concurrent calls of `Close` and a fence, every append that joined a window is answered, and the fence does not wait for itself |
| `promotion` | `Promotion_safety` | `TypeOK`, `AtMostOneWriter`, `NoDivergence`, `WriterHasEverything`, `ImplementsAuthority` | two operators promoting against each other, failing, resuming, with a restart: never two writers, never a fork; the endpoints implement `Authority` |
| `resume` | `Promotion_resume` | `PromotionCompletes` | an operator that retries completes every interrupted promotion, if no endpoint restarts |
| `restart` | `Promotion_restart` | `PromotionCompletes` (violated) | and cannot after a restart of the fenced endpoint with its configured role |
| `worktree` | `WorktreeClaims_records` | `ClaimsTypeOK`, `OneLeasePerResource`, `PinnedDecisionHolds`, `OneWriterPerResource`, `ReleasedClaimIsOver` | the leases' compare-and-swap and exclusivity hold through reclaims, renewals, handoffs, abandoned appends and deadlines, and what the claim records can be trusted for although they are written late or not at all |
| `reclaim` | `WorktreeClaims_reclaim` | `ExpiredIsReclaimed` | an abandoned lease does not keep its branch from a run that keeps asking |
| `replicas` | `Replicas_cascade` | `TypeOK`, `NothingIsLost`, `SatisfiedMeansDurable`, `RestoredMeansReplayed`, `NoFalseDivergence`, `ImplementsMirroredChain` | two callers drain, replicate, wait, checkpoint, restore and verify over an active endpoint, its git mirror and a replica of the mirror |
| `delivery` | `GitDelivery_race` | `DurableMeansRemote`, `RecordedOnce`, `UnpushedIsExplained`, `ReceiptNamesItsCommit` | what a receipt is worth, and what an interruption leaves behind, when two clones push events, envelopes, fences and promotions to one branch |
| `taskboard` | `TaskBoard_clones` | `MarkersStayLocal`, `OneClaimWins`, `ClaimsAreSerial`, `NilClaimIsPublished`, `RemoteStepsAreLegal` | agents of two clones race through the task life cycle, with merges, open merges, boards read past markers, rebuilt boards, tasks created twice, and one failure of a git command, of an answer or of a process: a nil claim was decided on the last board of the remote and is published; until a board is salvaged one claim wins, and the remote's board only makes legal steps |
| `records` | `AgentRecords_races` | `HistoryIsLegal`, `AnswersAreCurrent`, `AttemptsAreOvertaken` | two callers lose races, retry and abandon appends on efforts, runs, messages and cursors |
| `finish` | `AgentRecords_finish` | `FinishedOnce` (violated) | see section 5 |

The type invariants of `GitDelivery`, `TaskBoard` and `AgentRecords` are in no run's list: they are
the theorems `TypeCorrect` of section 4, and conjuncts of the invariants proved there.

### Bounds, and why they are enough

- **GroupCommit.** Two commands, `MaxItems = 2`. With two callers there can be a full window, two
  flights at once (one drained by the timer, one later), a stale timer beside a new window, and a
  batch of which one item is refused. One retry (`MaxRetries`) lets a command be in two flights at
  once. A fence that fails may be tried again; one that succeeds is the last of its process, and
  so is `Close`. The theorems of section 4 remove these bounds for all safety properties of this
  module.
- **Promotion.** Three endpoints are needed for a promotion that races one to another candidate.
  `MaxEpoch = 3` (at least 1, the epoch the first endpoint starts in) allows two completed promotions, so a call that was slow in the first meets the
  outcome of the second. Two domain events make a candidate lag, one restart is enough to bring the
  configured role back, the explicit key beside the default one lets two calls have the same
  endpoints and different keys, or different endpoints and the same key.
- **LeaseStore and WorktreeClaims.** Two runs, one resource (resources share only the journal
  head, which `OtherAppend` changes), two lease IDs (one reclaim), one transfer, deadlines of one
  tick (deadlines of zero, which never pass, are left to the theorem); `MaxAttempts = 2` so that a
  call both retries and gives up. The code's value is eight.
- **Replicas.** A cascade of three is the smallest in which a replica has a replica of its own, so
  that a delivered event must be delivered on. Two events, in one epoch or two, are enough for a
  drain that takes the second first, a replica that is behind by one, and a checkpoint that is cut
  short; three calls by two workers let a restore or drain race another and a third observe the
  result. One failure. The theorems of section 4 remove all these bounds.
- **GitDelivery.** One endpoint and one clone that only appends envelopes: two endpoints would
  need two authorities of one project. One event of its own, one replica event, one envelope, and
  a fence are the operations; two failures let a takeover be interrupted again.
- **AgentRecords.** Two callers, two IDs, four events: a record, two steps of it, and one event in
  between. `MaxAttempts = 2` so that a call both retries and gives up (the code's value is eight).
- **TaskBoard.** A clone for each of two agents, two stamps (with one, two claims are one change to
  git; with two, they conflict), one task. Three calls are a claim, the rival's claim, and one that
  publishes what a failed call left behind; one failure, of a git command, of the answer of a push,
  or of a process. The task starts queued or is created in the run; every status is reached. Merges
  of rows of different tasks need a second one: three calls over two tasks, and four calls over one,
  both without a failure, were checked by hand. The theorems of section 4 remove the
  bounds.

Deadlock is checked except where bounded work runs out (`CHECK_DEADLOCK FALSE` in the
`GroupCommit`, `Promotion`, `Replicas`, `GitDelivery`, `AgentRecords` and `TaskBoard`
configurations). Symmetry is used on appenders, closers, operators, runs and callers, none of
which is named in a constant, on agents together with their clones, and on tasks, and only in runs
without liveness.

### Fairness, and why the code justifies it

- `GroupCommit!FairSpec`: a timer whose time has come runs its callback, a goroutine that is not
  blocked goes on, a transaction that was begun ends, a `Close` that was begun goes on. Nobody has
  to call `Append`, stop waiting, fence or close. Commits may still fail any number of
  times: a failed batch is answered too. With `MaxDelayMS = 0` and `MaxItems > 1` a
  lone append waits for ever by design; the liveness run has the timer on.
- `Promotion!PersistentSpec`: the promise is that an interrupted promotion *can* be resumed, so an
  operator calls `Promote` again and again with the arguments of the interrupted call, no call
  hangs, and a step that is tried infinitely often does not fail every time (strong fairness of
  each step of such a call). Endpoints and other operators owe nothing.
- `WorktreeClaims!PersistentSpec`: time passes; one caller keeps asking for the resource, its
  calls do not hang, and it does not lose every race (strong fairness of an acquisition that reads
  a head nobody moves before its append). The store itself has no queue and promises no more.

## 4. What TLAPS proves

`JournalChain_proof` has the lemmas about appending: a log stays a sequence, loses nothing, keeps
its keys unique; `EpochFence`: behind an event of a higher epoch no event of a lower one is ever
accepted.

`GroupCommit_proof` proves, for every set of appenders and closers, every `MaxItems`, with and
without a timer, and any number of retries:

| Theorem | States |
|---|---|
| `Safety` | `Spec => []IInv` |
| `TypeCorrect` | `Spec => []TypeOK` |
| `Durability` | `Spec => []NilMeansDurable` |
| `AtMostOnce` | `Spec => []CommandAtMostOnce` |
| `FlushThenFence` | `Spec => []NothingPendingBehindFence` |
| `CloseSweeps` | `Spec => []NothingPendingAfterClose` |
| `FencedLog` | `Spec => FencedLogIsFrozen` |
| `FullWindows` | `Spec => []CountFlushesFullWindow` |
| `ErrorsAreTrue` | `Spec => []ErrorMeansAbsent` |

The only assumption is `BatchAssumption`: the knobs are naturals, and the promoter is not one of the
appenders (its checkpoint's ID and key are its own).

The argument. None of the properties is inductive. That a nil is durable needs to know that the
open transaction's "nil" results are true of its tentative log and that this log extends the
durable one (`TxExtends`), and that the item a caller waits for carries the caller's own event
(`ItemsMatch`: an item of a window or a flight is the caller's current submission or an older
one). That a replica's log is frozen needs that nothing on its way was built for a later epoch
than the first (`OldEpochOnly`) and that the head of a fenced log is of the second (`FenceState`);
`EpochFence` then refuses every such item, so the open transaction's log equals the durable one.
That the window behind a fence and behind a `Close` is empty needs the converse, that a fence
which has drained holds the lock every append needs (`FenceState`), and that a `Close` which has
begun has shut the door (`CloseState`). `IInv` is the conjunction; the proof has one step per
action and one below it per part.

Two properties have an invariant of their own on top of `IInv`. `FullWindows`: the generation an
appender has seen is never ahead of the batcher's, and while it is the batcher's the window that
appender filled is still there, and full (`CountState`). `ErrorsAreTrue` (`TryInv`): what a caller
has submitted once is at one place at most, in the window or in one flight (`OneItem`), so only
that item can have recorded it; if the open transaction has, it will answer that item nil
(`TxKnows`). An error therefore came from a transaction that did not record it, or from none. Of a
command submitted twice this cannot be said: the abandoned first submission may land after the
second has failed.

`LeaseStore_proof` proves, for every set of runs, threads, resources and TTLs, any number of leases
and handoffs, and every retry limit:

| Theorem | States |
|---|---|
| `Safety` | `Spec => []IInv` |
| `TypeCorrect` | `Spec => []TypeOK` |
| `OneLease` | `Spec => []OneLeasePerResource` |
| `PinnedDecision` | `Spec => []PinnedDecisionHolds` |
| `OneWriter` | `Spec => []OneWriterPerResource` |
| `ClaimsAreLeases` | `ClaimsSpec => Spec` |
| `ClaimsSafety` | `ClaimsSpec => [](IInv /\ ClaimsInv)` |
| `ClaimsTypeCorrect` | `ClaimsSpec => []ClaimsTypeOK` |
| `ReleasedIsOver` | `ClaimsSpec => []ReleasedClaimIsOver` |

It assumes `LeaseAssumption`: TTLs and bounds are naturals, at least one attempt is made.

The argument. `OneWriterPerResource` is about what holders were told, the code decides from what
is recorded, and between the two lie the pinned appends. `GrantsCovered` ties them: whoever relies
on a grant holds the recorded lease, and its deadline is not after the recorded one, so a lease
the store takes for expired is relied on by nobody. For that to survive an append it must be known
of every event that may still land (`PinnedSound`) that it ends no lease somebody relies on: a
reclaim pins an expired lease, and a release or handoff is the holder's own, who let go when it
asked. That last step needs the fence: the call that passes the comparison is the present holder's
(`CallsKnow`). With `Indexed`, which says that the index and the held leases name each other, two
relied-on leases of one resource are the same. `Tick` is the delicate step: recorded, pending and
remembered deadlines shrink together, which is where one clock is needed.

A step of the worktree store is a step of the lease store or changes no lease (`ClaimsAreLeases`),
so all of this holds of claims. A claim event says what its lease event has done, and is appended
at any later time: what it says has to stay true meanwhile (`FollowOK`), and does, since a lease
never becomes unused again and one that is over stays over (`LeasesStay`).

`Replicas_proof` proves, for every set of endpoints and workers, every fan-out, any choice of git
mirrors and all bounds:

| Theorem | States |
|---|---|
| `Invariance` | `Spec => []Inv` |
| `TypeCorrect` | `Spec => []TypeOK` |
| `NothingLost` | `Spec => []NothingIsLost` |
| `BarrierSound` | `Spec => []SatisfiedMeansDurable` |
| `NoFalseAlarm` | `Spec => []NoFalseDivergence` |
| `RestoreSound` | `Spec => []RestoredMeansReplayed` |
| `Refinement` | `Spec => ImplementsMirroredChain` |

It assumes `ReplicasAssumption`: the active endpoint, mirrors and replicas are endpoints, the
bounds are naturals.

The argument. The log of the active endpoint is a chain whose cursors increase (`ChainAppend`:
what `Verdict` accepts extends it), and every other log is a copy of its beginning. The one event
of the chain that a copy accepts is the next one (`NextOfCopy`): its `prev` is the copy's head,
and no two events of a chain have the same predecessor. So whichever call delivers whichever
event, a copy stays a copy, which is the refinement. Where an endpoint stands then says which
events it holds (`Standing`): a poll that finds the head at or beyond a cursor of the chain has
found its event, which is `BarrierSound`, and two endpoints that have reached a cursor have the
same checksum there (`HashOfEvent`), which is `NoFalseAlarm`. `CallOK` is what a call has
established so far, about logs and remotes that only grow (`CallOKGrows`). Nothing is lost because
rows are committed with the event and an acknowledgement deletes only rows of events the replica
holds (`applied`). Most steps of a worker change its call only; `Quiet` is their common shape, so
the invariant is shown once for all of them (`QuietKeepsInv`).

`RestoreSound` adds how far a restore has come (`Restoring`): the first events of its file are at
their places in the target's log, the others are those it has still to ingest. `Verify` has
replayed the file on an empty log, so the file is a copy of the chain's beginning
(`VerifiedIsCopy`, by induction over its length) and an event that the target accepts, be it new
or known, is at its place there (`IngestRestores`).

`Promotion_proof` proves, for every set of endpoints, operators and keys and all bounds:

| Theorem | States |
|---|---|
| `Invariance` | `Spec => []IInv` |
| `TypeCorrect` | `Spec => []TypeOK` |
| `OneWriter` | `Spec => []AtMostOneWriter` |
| `NoFork` | `Spec => []NoDivergence` |
| `WriterIsComplete` | `Spec => []WriterHasEverything` |
| `Refinement` | `Spec => ImplementsAuthority` |

It assumes `TopologyAssumption`: the first endpoint is an endpoint, `Nobody` is none, the bounds are
naturals and `MaxEpoch` is at least the epoch the first endpoint starts in.

The argument. Roles and epochs are lost with their process, so they cannot carry it; the logs do.
Who may append the next event is written in the last one: the endpoint a checkpoint names, and
otherwise whoever appended last (`Author`, `Authors`). All logs are copies of beginnings of one chain
(`OneChain`), a log holds what its own endpoint has appended (`OwnEventsKept`), and an endpoint that
can write is the one its head names (`WriterIsNamed`). Then an endpoint that its own head names has
the longest log (`NamedHasAll`): if the chain went on behind that head, the next event would be the
endpoint's own, and it would have it. Two writers are both longest, hence the same author; that is
`OneWriter`, and `WriterIsComplete` with it. An append of a writer extends the chain at its end,
every other event that an endpoint accepts is the next of the chain, so no log leaves it
(`NoFork`). The refinement reads the holder off the same fact, with one step per action: an
append and a checkpoint are `Authority`'s two actions, whatever else happens is a stutter or gives
the holder back its write authority or takes it.

`AgentRecords_proof` proves, for every set of callers, operations and requests and all bounds:

| Theorem | States |
|---|---|
| `Invariance` | `Spec => []IInv` |
| `TypeCorrect` | `Spec => []TypeOK` |
| `LegalHistories` | `Spec => []HistoryIsLegal` |
| `CurrentAnswers` | `Spec => []AnswersAreCurrent` |
| `OvertakenAttempts` | `Spec => []AttemptsAreOvertaken` |

It assumes `RecordsAssumption`: at least one attempt is made, the bounds are naturals, cursors are
pairs of naturals.

The argument. A pinned call reads its events after its head. If the journal still ends at that
head when the call appends, then the events it decided on were exactly the journal's, so its decision
holds where its event lands (`PinnedDecided`), and that of an abandoned append as long as it can land
(`EventOK`). A looked call appends wherever the journal has got to, which is only safe because what
it looked for, that a run or a message exists, stays (`LookedKnow`). The answers are
computed by the caller and not read back: they are right because one more event does to a
projection what the caller did to its record (`FoldStep`).

`GitDelivery_proof` proves, for every set of clones, endpoints and envelopes and all bounds but one:

| Theorem | States |
|---|---|
| `Invariance` | `Spec => []IInv` |
| `TypeCorrect` | `Spec => []TypeOK` |
| `DurableRemote` | `Spec => []DurableMeansRemote` |
| `OnceRecorded` | `Spec => []RecordedOnce` |
| `Explanation` | `Spec => []UnpushedIsExplained` |
| `ReceiptSound` | `Spec => []ReceiptNamesItsCommit` |

It assumes `DeliveryAssumption`: endpoints are clones, envelopes have an ID and a key and nothing
else (which is what tells them from events), and the events that arrive from an authority elsewhere
(`Source`) are two at most.

The argument. A branch only grows: a commit, a push and a pull replace a head by one of which it is
a prefix. So a commit that has once been on the remote is there for good, and what was found of it
stays found. No head records a body twice (`HeadOK`), because `Apply` looks for the body in the
history it commits to; a body therefore names one index of its branch, and a takeover by another
process finds the commit of the interrupted one. `ReceiptOK` says what a file is worth between two
processes, `CallOK` the same for the one that works on it, up to the read-back, which is where
durable is said. `Explained` is kept by every step: a commit leaves its intent behind, an intent goes
only when the receipt is there, a receipt only when its commit is on the remote. What a branch holds
is a fold over it (`JournalOf`), so that a longer branch has a longer journal is an induction.

`TaskBoard_proof` proves, for every set of agents, clones, tasks and stamps and all bounds:

| Theorem | States |
|---|---|
| `TypeCorrect` | `Spec => []TypeOK` |
| `MarkersLocal` | `OwnClones` implies `Spec => []MarkersStayLocal` |
| `ClaimsSerial` | `OwnClones` implies `Spec => ClaimsAreSerial` |
| `ClaimPublished` | `OwnClones` implies `Spec => NilClaimIsPublished` |
| `Invariance` | `OwnClones` implies `Spec => []IInv` |
| `ClaimsExclude` | `OwnClones` implies `Spec => []OneClaimWins` |
| `RemoteIsLegal` | `OwnClones` implies `Spec => RemoteStepsAreLegal` |

It assumes `TaskBoardAssumption`, `StartAssumption` and `RowAssumption`: every agent has a clone,
bounds are naturals, no task is in somebody's hands at the start, "no row" is not a row. All but
`TypeCorrect` assume `OwnClones` as well: no two agents share a clone. The code does not enforce it,
and with a shared clone one claim too many wins (`TaskBoard_shared`, section 5). The last two
properties are conditional themselves: they hold until a board is salvaged (section 2).

The argument comes in three layers. The types hold of anything (`TypeInv`). `Alone` is what a clone
with one agent gives on its own, whatever its merges leave behind: a command at its commit has
rendered the board since, so no markers are in it; a claim on its way to the remote has its row in
memory, then in the working tree, then in the commit; and it is fresh unless the remote has moved,
which is exactly when its push is refused. `Own` speaks of what is not pushed, and holds until a board
is salvaged, which is for good (`StaysSalvaged`). A path of legal steps
leads from the content a clone last shared to its commit and on to its working tree, or, when a
merge is open, from the other side of the merge to the tree (`CloneOK`), and legal steps compose
(`RowsLegal`), merges included: of each row a merge takes one side. A command writes the edit of the
board that is still there, or a rebuild that keeps its rows (`Writes`). A push replaces the remote by
what was reached from it, which is `RemoteIsLegal`. For the claims, count: a clone *owes* when the
board it last shared has the task taken and its own has not, or only by a claim under way. Then the
claims that won and the clones that owe are at most the releases, and one more if the remote has
the task taken (`Accounted`). A clone that pushes a claim either takes the task on the remote, or
pays what it owed; and it begins to owe by a release. A push whose answer is lost is paid for and
wins nothing.

Only model-checked: liveness (`AppendIsAnswered`, `FenceEnds`, `PromotionCompletes`,
`ExpiredIsReclaimed`), which needs fairness and `ENABLED`, beyond the proof system. The inductions
over data that the arguments above mention are stated for a set of numbers (`SetInduction` of
`JournalChain_proof`, and its copy in `AgentRecords_proof`, whose module shares names with
`JournalChain`): the installed provers cannot instantiate the library's theorems, which take an
operator.

## 5. Where the code and its comments disagree

Two are listed runs that TLC ends with a counterexample; the quotations are in `PROJECT.json`.

1. **A promotion that cannot be resumed** (`restart`). Role and epoch are not durable. If the fenced
   endpoint restarts with its configured active role before the promotion is resumed, `Promote`
   takes the path of a fresh attempt, whose checkpoint reuses the event ID already in the log; it is
   refused on every retry and no endpoint can write. The safety properties hold:
   the restarted endpoint believes it is active, and its log refuses what it writes.
2. **A run that finishes twice** (`finish`). `Finish` looks at the run and then appends blindly;
   two callers that both saw it open both succeed, and the second reason replaces the first. The
   store's own rule for preconditions (`snapshot` and `tryAppendAt`, as in `Transition`) is not
   followed.
Four more configurations are in this directory, to be run by hand; each ends in a
violation of the property it names.

| Configuration | Module | Violated | What it shows |
|---|---|---|---|
| `GroupCommit_racefence` | `MCGroupCommit` | `NeverRawEpochFenced` | A batch drained by its timer or a full window commits without a lock. If the fence's checkpoint is first, the batch's callers see a raw `ErrEpochFenced`, which `batch.go:126-131` and `journal.go:31-36` exclude. Nothing is lost: `NilMeansDurable` and `FencedLogIsFrozen` hold in that race. |
| `WorktreeClaims_twolive` | `MCWorktreeClaims` | `OneLiveClaimPerBranch` | The lease event and the claim event are two appends. When a claim is reclaimed before its own claim event is recorded, the late event shows as live beside the new one, contrary to `agentstore/worktree.go:72-76`. The leases stay exclusive. |
| `TaskBoard_loser` | `MCTaskBoard` | `LoserReceivesErrConflict` | `state/task.go:22-24` promises `ErrConflict` to the other of two concurrent claims. Both have changed the same row, so the pull after the refused push is refused or stops in a conflict (`gitstore/task.go:324-326`), and the loser gets "push failed and pull failed" and a clone that needs attention. `ErrConflict` comes to others: to a claim that lost to an unrelated change, or whose push landed without its answer, and that finds its own row in the board it reads again. |
| `TaskBoard_shared` | `MCTaskBoard` | `OneClaimWins` | `resolveStore` (`src/pkg/cli/task/resolve.go:20-50`) gives all agents of a machine one state repository and its working tree: both read the task queued, both write and commit their own stamp, and both are told nil. `state/task.go:22-24` promises that exactly one succeeds, and `src/spec/features/state-store/backends/git/README.md:190` rests that on a branch per agent, which the store does not make. |

Read in the code and not made a run: an endpoint that is active in role while its log already
holds a later epoch (after a restart) refuses replicated events, since `IngestReplica` accepts
them from a replica only; it can write nothing (`AtMostOneWriter`), and needs an operator.
`Replicate` reads the source's head before the replica's and may therefore answer
`ErrReplicaAhead` of a replica that has just caught up; a retry clears it. In `TaskStore.Claim` the
branch that claims again is reached only if what was pulled has taken the claim back (a release by
somebody who saw it). A
receipt that the remote's compare-and-set refused because another clone pushed first stays pending
until somebody brings the clone's history together by hand: no operation of the journal merges,
and `UnpushedIsExplained` says that the file is there. A `Pull` of another process may move a
clone's head between an intent and its commit; `Finalise` then refuses to bind a commit and the
intent stays.

## 6. What is left out

Left out of the modelled components: payloads, project IDs and their mismatch errors, clock skew,
hash collisions, `ctx` ending before an append is enqueued (nothing has happened then), panics
(contained in `commitBatch` and equal to an abort), the health reports of `Replicate` and
`DrainOutbox`, artifacts of checkpoints, texts of tasks and what their files hold beside their
being there, read-only queries whose result no property is about; pulls that rebase and a `git merge
--abort` by hand (both outside of the code); an explicit cursor given to `state wait` or to
`VerifyConvergence`, which take the source's head and the lower of two heads otherwise.

Not modelled, with the reason:

- *Topology validation, health report*: pure functions of their input.
- *CloseAfter*: keeps no state; its goroutine and its timer are an appender and a closer of
  `GroupCommit`, which has all their schedules.
- *Runner client, dispatch contract*: one HTTP request per command and the types of its messages;
  the server that has the state and orders the operations is in another repository.
- *Other commands, installer, upgrade*: flags, formatting, files of one process.
- *Chats, the commands `state pull`, `push`, `sync`, `RequestAbort`*: not implemented in the code.

What is left to a continuation. Of the properties the runs check, only the four of liveness have no
theorem. Three hazards have no property; `PROJECT.json` says why. `MaxSource` could be unbounded if
the authority elsewhere were a chain that grows, as in `Replicas`, and not two fixed events.

## 7. Running

In this directory: `tlc -workers 2 -config Promotion_safety.cfg MCPromotion` (the module of each
run is in `PROJECT.json`), `tlapm Replicas_proof.tla`. The longest runs take about two minutes
on two cores, each proof module between one and four.

Every property has a mutant of the model that violates it: an operator such as `TxAbortCommits`
beside the action `TxAbort`, marked "Mutant" in its comment, that changes the action the way a
plausible bug would. `PROJECT.json` pairs them. They are not part of any specification.
