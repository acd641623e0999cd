----------------------------- MODULE GroupCommit -----------------------------
(***************************************************************************)
(* One journal endpoint and the group-commit batcher in front of it: the   *)
(* append path of DALJournal and MemoryJournal with concurrent appenders,  *)
(* the window timer, Close and the fence of a promotion.                   *)
(*                                                                         *)
(* The goroutines and their locks:                                         *)
(*  - an appender stages an event on a head it read, then under the read   *)
(*    lock of the role/epoch mutex checks role and epoch and joins the     *)
(*    window; what happens to the window afterwards needs only the         *)
(*    batcher's own mutex and the database;                                *)
(*  - a flush takes the whole window out under the batcher's mutex and     *)
(*    commits it with no lock held: until its transaction ends the batch   *)
(*    is a "flight";                                                       *)
(*  - the fence holds the role/epoch mutex exclusively from its role check *)
(*    to its role flip (fence \in Fencing).                                *)
(* Transactions are serialised (a database transaction, or dataMu).        *)
(***************************************************************************)
EXTENDS JournalChain, FiniteSets

CONSTANTS
    Appender,        \* the goroutines that call Append, one command each
    Promoter,        \* the author of the promotion checkpoint
    Closer,          \* the goroutines that call Close
    Settings,        \* the BatchSettings a journal may be opened with:
                     \* items (0 disables the count trigger) and whether
                     \* MaxDelayMS > 0
    MaxRetries       \* bound: how often callers of Append try again, in total

ASSUME BatchAssumption ==
    /\ Settings \subseteq [items : Nat, delay : BOOLEAN]
    /\ MaxRetries \in Nat
    /\ Promoter \notin Appender

VARIABLES
    settings,        \* the journal's BatchSettings, for good
    role, epoch,     \* the endpoint's role and authority epoch (mu)
    fence,           \* progress of FenceAsReplica; it holds mu while Fencing
    fenceHead,       \* the head the fence read before building its checkpoint
    log,             \* durable events
    window,          \* appendBatcher.pending
    generation,      \* appendBatcher.generation
    timers,          \* generations whose timer callback may still run
    closed,          \* appendBatcher.closed
    flights,         \* drained batches whose commit has not ended
    committing,      \* the flight that holds the transaction (at most one)
    txLog, txLeft, txVerdict,  \* the transaction: tentative log, items left, results
    pc, event, sub, joined, reply,  \* per appender
    retries,         \* submissions beyond the first, over all appenders
    closer, closeFlight             \* per closer

endpointVars == <<role, epoch, fence, fenceHead>>
windowVars   == <<window, generation, timers, closed>>
txVars       == <<committing, txLog, txLeft, txVerdict>>
appenderVars == <<pc, event, sub, joined, reply, retries>>
closerVars   == <<closer, closeFlight>>
vars == <<endpointVars, log, windowVars, flights, txVars, appenderVars, closerVars>>

\* With both knobs zero the journal has no batcher at all.
Batched == settings.items > 0 \/ settings.delay

Fencing == {"drained", "read"}

\* Errors a caller of Append can see, besides nil.
Refusals == {"ErrEpochFenced", "ErrSequenceGap", "ErrChecksumChain", "ErrIDReused", "ErrKeyTaken"}
Replies  == Refusals \cup {"none", "nil", "RoleFenceError", "ErrJournalClosed", "ctx.Err", "infra"}

Init ==
    /\ settings \in Settings
    /\ role = "active" /\ epoch = 1
    /\ fence = "idle" /\ fenceHead = Genesis
    /\ log = <<>>
    /\ window = <<>> /\ generation = 0 /\ timers = {} /\ closed = FALSE
    /\ flights = {}
    /\ committing = {} /\ txLog = <<>> /\ txLeft = {} /\ txVerdict = <<>>
    /\ pc = [a \in Appender |-> "idle"]
    /\ event = [a \in Appender |-> Genesis]
    /\ sub = [a \in Appender |-> 0]
    /\ joined = [a \in Appender |-> 0]
    /\ reply = [a \in Appender |-> "none"]
    /\ retries = 0
    /\ closer = [c \in Closer |-> "open"]
    /\ closeFlight = [c \in Closer |-> {}]

-----------------------------------------------------------------------------
(***************************************************************************)
(* Staging.  A caller builds its event on a head: the journal's, or the    *)
(* last event of a chain other callers have built and not yet committed    *)
(* (a pipeline of appends).  It writes at the epoch it was configured      *)
(* with, which is 1 here, and each command keeps one idempotency key over  *)
(* its submissions.                                                        *)
(***************************************************************************)
NextSequence(head) == IF head.epoch = 1 THEN head.seq + 1 ELSE 1

EventOn(a, head) ==
    [id |-> <<a, sub[a] + 1>>, key |-> a, epoch |-> 1,
     seq |-> NextSequence(head), prev |-> head]

Staged == {event[b] : b \in {x \in Appender : pc[x] # "idle"}}

Stage(a) ==
    /\ pc[a] = "idle"
    /\ \E head \in {HeadOf(log)} \cup {e \in Staged : e.key # a} :
          event' = [event EXCEPT ![a] = EventOn(a, head)]
    /\ sub' = [sub EXCEPT ![a] = @ + 1]
    /\ pc' = [pc EXCEPT ![a] = "staged"]
    /\ reply' = [reply EXCEPT ![a] = "none"]
    /\ UNCHANGED <<endpointVars, log, windowVars, flights, txVars, joined, retries, closerVars>>

Retry == retries < MaxRetries /\ retries' = retries + 1

\* A caller that stopped waiting submits the very same event again.
Resubmit(a) ==
    /\ pc[a] = "returned" /\ reply[a] = "ctx.Err"
    /\ Retry
    /\ sub' = [sub EXCEPT ![a] = @ + 1]
    /\ pc' = [pc EXCEPT ![a] = "staged"]
    /\ reply' = [reply EXCEPT ![a] = "none"]
    /\ UNCHANGED <<endpointVars, log, windowVars, flights, txVars, event, joined, closerVars>>

\* A caller that gave up or lost a race starts over from a fresh head.
Restage(a) ==
    /\ pc[a] = "returned"
    /\ reply[a] \in {"ctx.Err", "ErrSequenceGap", "ErrChecksumChain"}
    /\ Retry
    /\ pc' = [pc EXCEPT ![a] = "idle"]
    /\ UNCHANGED <<endpointVars, log, windowVars, flights, txVars, event, sub, joined, reply, closerVars>>

-----------------------------------------------------------------------------
(* Append *)

MuFree == fence \notin Fencing

RoleAllows(a) == role = "active" /\ event[a].epoch = epoch

Return(a, answer) ==
    /\ pc' = [pc EXCEPT ![a] = "returned"]
    /\ reply' = [reply EXCEPT ![a] = answer]

\* The role/epoch precondition fails, the batcher is closed or, without a
\* batcher, the transaction of this one event fails: nothing is written.
AppendRefused(a) ==
    /\ pc[a] = "staged" /\ MuFree
    /\ \/ ~RoleAllows(a) /\ Return(a, "RoleFenceError")
       \/ RoleAllows(a) /\ Batched /\ closed /\ Return(a, "ErrJournalClosed")
       \/ RoleAllows(a) /\ ~Batched /\ Return(a, "infra")
    /\ UNCHANGED <<endpointVars, log, windowVars, flights, txVars, event, sub, joined, retries, closerVars>>

\* Without a batcher the whole transaction runs under the read lock.
AppendUnbatched(a) ==
    /\ pc[a] = "staged" /\ MuFree /\ RoleAllows(a) /\ ~Batched
    /\ log' = AppendData(log, event[a])
    /\ Return(a, IF Succeeds(log, event[a]) THEN "nil" ELSE Verdict(log, event[a]))
    /\ UNCHANGED <<endpointVars, windowVars, flights, txVars, event, sub, joined, retries, closerVars>>

\* Mutant: a timer that still runs is taken for the new window's.
ArmTimerOnce == IF window = <<>> /\ settings.delay /\ timers = {} THEN {generation} ELSE timers

\* The first item of a window arms its one timer.
ArmTimer == IF window = <<>> /\ settings.delay THEN timers \cup {generation} ELSE timers

\* Mutant: the lock is released between the precondition check and enqueue.
EnqueueUnlocked(a) ==
    /\ pc[a] = "staged" /\ RoleAllows(a) /\ Batched /\ ~closed
    /\ window' = Append(window, [by |-> a, sub |-> sub[a], event |-> event[a]])
    /\ timers' = ArmTimer
    /\ pc' = [pc EXCEPT ![a] = "waiting"]
    /\ UNCHANGED <<endpointVars, log, generation, closed, flights, txVars, event, sub, joined, reply, retries, closerVars>>

\* Mutant: a closed batcher still takes items.
EnqueueClosed(a) ==
    /\ pc[a] = "staged" /\ MuFree /\ RoleAllows(a) /\ Batched
    /\ window' = Append(window, [by |-> a, sub |-> sub[a], event |-> event[a]])
    /\ timers' = ArmTimer
    /\ pc' = [pc EXCEPT ![a] = "waiting"]
    /\ UNCHANGED <<endpointVars, log, generation, closed, flights, txVars, event, sub, joined, reply, retries, closerVars>>

\* enqueue, under the read lock: the item joins the window and the caller
\* learns whether it filled it.
Enqueue(a) ==
    /\ pc[a] = "staged" /\ MuFree /\ RoleAllows(a) /\ Batched /\ ~closed
    /\ window' = Append(window, [by |-> a, sub |-> sub[a], event |-> event[a]])
    /\ timers' = ArmTimer
    /\ IF settings.items > 0 /\ Len(window) + 1 >= settings.items
         THEN pc' = [pc EXCEPT ![a] = "flushing"] /\ joined' = [joined EXCEPT ![a] = generation]
         ELSE pc' = [pc EXCEPT ![a] = "waiting"] /\ UNCHANGED joined
    /\ UNCHANGED <<endpointVars, log, generation, closed, flights, txVars, event, sub, reply, retries, closerVars>>

(***************************************************************************)
(* flush: a drained window becomes a flight.  A trigger that belongs to a  *)
(* window (count, timer) drains only that window; Close and the fence      *)
(* drain whatever is pending.  Stopping the timer may come too late for a  *)
(* callback that has already started.                                      *)
(***************************************************************************)
\* Mutant: the generation is not compared again at drain time.
MayDrainAny(g) == window # <<>>

MayDrain(g) == window # <<>> /\ g = generation

Flight(trigger) == [gen |-> generation, trigger |-> trigger, items |-> window]

DrainBody(trigger, stillRunning) ==
    /\ flights' = flights \cup {Flight(trigger)}
    /\ window' = <<>>
    /\ generation' = generation + 1
    /\ timers' \in {stillRunning, stillRunning \ {generation}}

\* The appender that filled the window flushes it.
FlushFull(a) ==
    /\ pc[a] = "flushing"
    /\ IF MayDrain(joined[a])
         THEN DrainBody("count", timers) /\ pc' = [pc EXCEPT ![a] = "committing"]
         ELSE UNCHANGED <<flights, window, generation, timers>>
              /\ pc' = [pc EXCEPT ![a] = "waiting"]
    /\ joined' = [joined EXCEPT ![a] = 0]
    /\ UNCHANGED <<endpointVars, log, closed, txVars, event, sub, reply, retries, closerVars>>

\* The timer callback of window g.
TimerFires(g) ==
    /\ g \in timers
    /\ IF MayDrain(g)
         THEN DrainBody("timer", timers \ {g})
         ELSE timers' = timers \ {g} /\ UNCHANGED <<flights, window, generation>>
    /\ UNCHANGED <<endpointVars, log, closed, txVars, appenderVars, closerVars>>

-----------------------------------------------------------------------------
(***************************************************************************)
(* commitBatch.  One transaction at a time validates the flight's items in *)
(* cursor order against a running head; a refused item does not abort the  *)
(* others.  The tentative log becomes the journal's when it commits.       *)
(***************************************************************************)
\* Mutant: two batches validate against the same head at once.
TxBeginUnserialised(f) ==
    /\ f \in flights \ committing
    /\ committing' = committing \cup {f}
    /\ txLog' = log
    /\ txLeft' = DOMAIN f.items
    /\ txVerdict' = [i \in DOMAIN f.items |-> "none"]
    /\ UNCHANGED <<endpointVars, log, windowVars, flights, appenderVars, closerVars>>

\* Mutant: the commit takes the role/epoch lock its flusher already holds.
TxBeginLocked(f) ==
    /\ committing = {} /\ f \in flights /\ MuFree
    /\ committing' = {f}
    /\ txLog' = log
    /\ txLeft' = DOMAIN f.items
    /\ txVerdict' = [i \in DOMAIN f.items |-> "none"]
    /\ UNCHANGED <<endpointVars, log, windowVars, flights, appenderVars, closerVars>>

TxBegin(f) ==
    /\ committing = {} /\ f \in flights
    /\ committing' = {f}
    /\ txLog' = log
    /\ txLeft' = DOMAIN f.items
    /\ txVerdict' = [i \in DOMAIN f.items |-> "none"]
    /\ UNCHANGED <<endpointVars, log, windowVars, flights, appenderVars, closerVars>>

\* The stable sort by cursor: ties keep their order of arrival.
ComesFirst(f, i) ==
    \A j \in txLeft \ {i} :
        \/ Before(f.items[i].event, f.items[j].event)
        \/ i < j /\ ~Before(f.items[j].event, f.items[i].event)

Answer(l, e) == IF Succeeds(l, e) THEN "nil" ELSE Verdict(l, e)

TxApply(f, i) ==
    /\ f \in committing /\ i \in txLeft /\ ComesFirst(f, i)
    /\ txLog' = AppendData(txLog, f.items[i].event)
    /\ txVerdict' = [txVerdict EXCEPT ![i] = Answer(txLog, f.items[i].event)]
    /\ txLeft' = txLeft \ {i}
    /\ UNCHANGED <<endpointVars, log, windowVars, flights, committing, appenderVars, closerVars>>

\* Each item's result goes to the call that is waiting for it; a call that
\* stopped waiting, or was made again, never reads it.
Awaits(a, item) == item.by = a /\ item.sub = sub[a] /\ pc[a] \in {"waiting", "flushing", "committing"}

Notify(f, answers) ==
    reply' = [a \in Appender |->
                IF \E i \in DOMAIN f.items : Awaits(a, f.items[i])
                  THEN answers[CHOOSE i \in DOMAIN f.items : Awaits(a, f.items[i])]
                  ELSE reply[a]]

EndTx(f) ==
    /\ flights' = flights \ {f}
    /\ committing' = {} /\ txLog' = <<>> /\ txLeft' = {} /\ txVerdict' = <<>>
    /\ UNCHANGED <<endpointVars, windowVars, pc, event, sub, joined, retries, closerVars>>

TxCommit(f) ==
    /\ f \in committing /\ txLeft = {}
    /\ log' = txLog
    /\ Notify(f, txVerdict)
    /\ EndTx(f)

\* Mutant: a rolled-back batch delivers the results it had collected.
TxAbortKeepsResults(f) ==
    /\ f \in committing
    /\ Notify(f, [i \in DOMAIN f.items |-> IF txVerdict[i] = "none" THEN "infra" ELSE txVerdict[i]])
    /\ UNCHANGED log
    /\ EndTx(f)

\* Mutant: what was written before the failure is committed.
TxAbortCommits(f) ==
    /\ f \in committing
    /\ Notify(f, [i \in DOMAIN f.items |-> "infra"])
    /\ log' = txLog
    /\ EndTx(f)

\* An infrastructure failure (or a contained panic) aborts the whole batch.
TxAbort(f) ==
    /\ f \in committing
    /\ Notify(f, [i \in DOMAIN f.items |-> "infra"])
    /\ UNCHANGED log
    /\ EndTx(f)

-----------------------------------------------------------------------------
(* The end of a call of Append. *)

Receive(a) ==
    /\ pc[a] \in {"waiting", "committing"} /\ reply[a] # "none"
    /\ pc' = [pc EXCEPT ![a] = "returned"]
    /\ UNCHANGED <<endpointVars, log, windowVars, flights, txVars, event, sub, joined, reply, retries, closerVars>>

\* The caller's context has ended: the wait may return that instead, even if
\* the result is there.  The event stays where it is.
Cancel(a) ==
    /\ pc[a] = "waiting" \/ (pc[a] = "committing" /\ reply[a] # "none")
    /\ Return(a, "ctx.Err")
    /\ UNCHANGED <<endpointVars, log, windowVars, flights, txVars, event, sub, joined, retries, closerVars>>

-----------------------------------------------------------------------------
(***************************************************************************)
(* FenceAsReplica: take mu, flush, read the head, append the checkpoint,   *)
(* flip the role.  The flush runs inside; the fence waits for the flight   *)
(* it drained itself, and for no other.                                    *)
(***************************************************************************)
FenceFlight == {f \in flights : f.trigger = "fence"}

FenceBegin ==
    /\ fence = "idle" /\ role = "active"
    /\ fence' = "drained"
    /\ IF window # <<>>
         THEN DrainBody("fence", timers)
         ELSE UNCHANGED <<flights, window, generation, timers>>
    /\ UNCHANGED <<role, epoch, fenceHead, log, closed, txVars, appenderVars, closerVars>>

\* The head is read outside the checkpoint's own transaction.
FenceReadHead ==
    /\ fence = "drained" /\ FenceFlight = {}
    /\ fenceHead' = HeadOf(log)
    /\ fence' = "read"
    /\ UNCHANGED <<role, epoch, log, windowVars, flights, txVars, appenderVars, closerVars>>

Checkpoint ==
    [id |-> <<Promoter, 1>>, key |-> Promoter, epoch |-> epoch + 1, seq |-> 1, prev |-> fenceHead]

\* Mutant: the role flips although the checkpoint was refused.
FenceAppendAnyway ==
    /\ fence = "read" /\ committing = {}
    /\ log' = AppendData(log, Checkpoint)
    /\ role' = "replica" /\ epoch' = Checkpoint.epoch /\ fence' = "done"
    /\ fenceHead' = Genesis
    /\ UNCHANGED <<windowVars, flights, txVars, appenderVars, closerVars>>

FenceAppend ==
    /\ fence = "read" /\ committing = {}
    /\ log' = AppendData(log, Checkpoint)
    /\ IF Succeeds(log, Checkpoint)
         THEN role' = "replica" /\ epoch' = Checkpoint.epoch /\ fence' = "done"
         ELSE UNCHANGED <<role, epoch>> /\ fence' = "idle"
    /\ fenceHead' = Genesis
    /\ UNCHANGED <<windowVars, flights, txVars, appenderVars, closerVars>>

\* The checkpoint's transaction fails: the lock is released, nothing changed.
FenceFails ==
    /\ fence \in Fencing /\ FenceFlight = {}
    /\ fence' = "idle" /\ fenceHead' = Genesis
    /\ UNCHANGED <<role, epoch, log, windowVars, flights, txVars, appenderVars, closerVars>>

-----------------------------------------------------------------------------
(***************************************************************************)
(* Close.  The first call shuts the door and stops the timer, then flushes *)
(* what is pending and waits for the flight it drained.  Every later call  *)
(* returns at once.                                                        *)
(***************************************************************************)
CloseBegin(c) ==
    /\ closer[c] = "open" /\ Batched /\ ~closed
    /\ closed' = TRUE
    /\ timers' \in {timers, timers \ {generation}}
    /\ closer' = [closer EXCEPT ![c] = "closing"]
    /\ UNCHANGED <<endpointVars, log, window, generation, flights, txVars, appenderVars, closeFlight>>

CloseFlush(c) ==
    /\ closer[c] = "closing"
    /\ IF window # <<>>
         THEN DrainBody("close", timers) /\ closeFlight' = [closeFlight EXCEPT ![c] = {Flight("close")}]
         ELSE UNCHANGED <<flights, window, generation, timers, closeFlight>>
    /\ closer' = [closer EXCEPT ![c] = "flushing"]
    /\ UNCHANGED <<endpointVars, log, closed, txVars, appenderVars>>

CloseReturns(c) ==
    /\ closer[c] = "flushing" /\ closeFlight[c] \cap flights = {}
    /\ closer' = [closer EXCEPT ![c] = "returned"]
    /\ closeFlight' = [closeFlight EXCEPT ![c] = {}]
    /\ UNCHANGED <<endpointVars, log, windowVars, flights, txVars, appenderVars>>

CloseAgain(c) ==
    /\ closer[c] = "open" /\ (closed \/ ~Batched)
    /\ closer' = [closer EXCEPT ![c] = "returned"]
    /\ UNCHANGED <<endpointVars, log, windowVars, flights, txVars, appenderVars, closeFlight>>

-----------------------------------------------------------------------------
AppenderStep(a) ==
    \/ Stage(a) \/ Resubmit(a) \/ Restage(a)
    \/ AppendRefused(a) \/ AppendUnbatched(a) \/ Enqueue(a)
    \/ FlushFull(a) \/ Receive(a) \/ Cancel(a)

TxStep == \E f \in flights :
    \/ TxBegin(f) \/ TxCommit(f) \/ TxAbort(f)
    \/ \E i \in txLeft : TxApply(f, i)

FenceStep == FenceBegin \/ FenceReadHead \/ FenceAppend \/ FenceFails

CloseStep == \E c \in Closer : CloseBegin(c) \/ CloseFlush(c) \/ CloseReturns(c) \/ CloseAgain(c)

Next ==
    \/ \E a \in Appender : AppenderStep(a)
    \/ \E g \in timers : TimerFires(g)
    \/ TxStep
    \/ FenceStep
    \/ CloseStep

Spec == Init /\ [][Next /\ UNCHANGED settings]_<<vars, settings>>

(***************************************************************************)
(* Fairness.  The runtime runs a due timer callback, a goroutine that is   *)
(* not blocked and a started transaction; nobody has to call Append, to    *)
(* give up waiting, to fence or to close; a Close that has begun goes on.  *)
(***************************************************************************)
TxProgress == \E f \in flights :
    TxBegin(f) \/ TxCommit(f) \/ \E i \in txLeft : TxApply(f, i)

Fairness ==
    /\ \A a \in Appender : WF_vars(FlushFull(a)) /\ WF_vars(Receive(a))
    /\ WF_vars(\E g \in timers : TimerFires(g))
    /\ WF_vars(TxProgress)
    /\ WF_vars(FenceReadHead) /\ WF_vars(FenceAppend)
    /\ \A c \in Closer : WF_vars(CloseFlush(c))

FairSpec == Spec /\ Fairness
-----------------------------------------------------------------------------
(* Properties *)

Ids == (Appender \cup {Promoter}) \X Nat

EventOK(e) == e.id \in Ids /\ e.epoch \in {1, 2} /\ e.seq \in Nat

TypeOK ==
    /\ settings \in Settings
    /\ role \in {"active", "replica"} /\ epoch \in {1, 2}
    /\ fence \in Fencing \cup {"idle", "done"}
    /\ \A e \in Events(log) : EventOK(e)
    /\ generation \in Nat /\ timers \subseteq 0..generation /\ closed \in BOOLEAN
    /\ committing \subseteq flights /\ \A f, g \in committing : f = g
    /\ pc \in [Appender -> {"idle", "staged", "flushing", "committing", "waiting", "returned"}]
    /\ sub \in [Appender -> 0..MaxRetries + 1] /\ retries \in 0..MaxRetries
    /\ reply \in [Appender -> Replies]
    /\ closer \in [Closer -> {"open", "closing", "flushing", "returned"}]

(* Append acknowledges only durable commits (batch.go "Durability"): an     *)
(* appender that was told nil finds its event in the log, whatever became  *)
(* of the batch it travelled in.                                           *)
NilMeansDurable ==
    \A a \in Appender : reply[a] = "nil" => event[a] \in Events(log)

(* The converse a caller relies on before it tries again: the only         *)
(* submission of a command that ended in an error left nothing in the log, *)
(* although the other items of the same batch may have committed.          *)
ErrorMeansAbsent ==
    \A a \in Appender :
        (sub[a] = 1 /\ reply[a] \notin {"none", "nil", "ctx.Err"})
            => event[a] \notin Events(log)

(* A caller whose context ended cannot know whether its event committed;   *)
(* submitting the same event again, or a new one under the same            *)
(* idempotency key, still records the command at most once.                *)
CommandAtMostOnce ==
    \A i, j \in DOMAIN log : log[i].key = log[j].key => i = j

(* After the fence has flipped the role, a batch still in flight changes   *)
(* nothing: the former active's log stays as its checkpoint left it.       *)
FencedLogIsFrozen == [][role = "replica" => UNCHANGED log]_vars

(* Flush-then-fence: precheck and enqueue share the read lock, so no item  *)
(* is left behind in the window of an endpoint that is already a replica.  *)
NothingPendingBehindFence == role = "replica" => window = <<>>

(* A stale trigger never cuts a later window short: what a full window's   *)
(* own appender flushes is a full window.                                  *)
CountFlushesFullWindow ==
    \A f \in flights : f.trigger = "count" => Len(f.items) >= settings.items

(* Close shuts the door before it sweeps: once it has swept, no append can *)
(* be stranded in a window that no trigger will ever flush.                *)
NothingPendingAfterClose ==
    (\E c \in Closer : closer[c] = "flushing") => window = <<>>

(* Every append that joined a window is answered: by the count, the timer, *)
(* the fence or Close, however late a stale timer callback runs.           *)
AppendIsAnswered ==
    \A a \in Appender :
        (pc[a] \in {"flushing", "waiting", "committing"}) ~> (pc[a] = "returned")

(* The fence flushes while it holds the lock every append needs; that must *)
(* not wait for anything the lock blocks.                                  *)
FenceEnds == (fence \in Fencing) ~> (fence \notin Fencing)

-----------------------------------------------------------------------------
(* What the comments of the code say and TLC refutes.                      *)

(* journal.go RoleFenceError, batch.go "Promotion interplay": an append    *)
(* that races a fence commits before it or gets a RoleFenceError, never a  *)
(* raw ErrEpochFenced.                                                     *)
NeverRawEpochFenced == \A a \in Appender : reply[a] # "ErrEpochFenced"
=============================================================================
