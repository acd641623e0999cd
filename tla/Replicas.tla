------------------------------ MODULE Replicas -------------------------------
(***************************************************************************)
(* The calls that move a journal's events to other endpoints and tell how  *)
(* far they came: Replicate, DrainOutbox over the durable outbox, the      *)
(* mirror barrier Wait, NewCheckpoint, Restore and VerifyConvergence, any  *)
(* number of them at once over the same endpoints.                         *)
(*                                                                         *)
(* One endpoint is active throughout (Promotion models the change); every  *)
(* other is a replica.  A journal commits an event together with one       *)
(* outbox row for each of its configured replica IDs; rows and logs are    *)
(* durable.  Each read and each write of a call is a step of its own.      *)
(* Events are those of JournalChain, so an event stands for its cursor and *)
(* its checksum.                                                           *)
(***************************************************************************)
EXTENDS JournalChain, SequencesExt, FiniteSets

CONSTANTS
    Endpoint,
    Active,         \* the endpoint constructed as active
    ReplicaIDs,     \* per endpoint: the replicas it fans out to
    RemoteBacked,   \* the replicas that are git mirrors: RemoteDurable
    Worker,         \* callers, each making one call at a time
    MaxEvents,      \* bound: events of the active endpoint
    MaxEpoch,       \* bound: epochs of its chain
    MaxCalls,       \* bound: calls
    MaxFailures     \* bound: failed operations, lost answers, processes that end

ASSUME ReplicasAssumption ==
    /\ Active \in Endpoint /\ RemoteBacked \subseteq Endpoint
    /\ ReplicaIDs \in [Endpoint -> SUBSET Endpoint]
    /\ MaxEvents \in Nat /\ MaxEpoch \in Nat /\ MaxCalls \in Nat /\ MaxFailures \in Nat

VARIABLES
    log,            \* per endpoint: its events
    outbox,         \* per endpoint and replica: the rows not acknowledged
    pushed,         \* per git mirror: the log its remote branch holds
    files,          \* checkpoints taken
    call,           \* per worker
    calls, failures

boundVars == <<calls, failures>>
vars == <<log, outbox, pushed, files, call, boundVars>>

Replica == Endpoint \ {Active}
NoFile == [events |-> <<>>, at |-> Genesis]

\* A call of op that moves or compares events of `from` at `to`; when it has
\* returned, its result and what it was about.
Call(pc, op, from, to, at, file) ==
    [pc |-> pc, op |-> op, from |-> from, to |-> to, at |-> at, file |-> file,
     events |-> <<>>, applied |-> {}, result |-> "none"]
Idle == Call("done", "none", Active, Active, Genesis, NoFile)

Init ==
    /\ log = [n \in Endpoint |-> <<>>]
    /\ outbox = [n \in Endpoint |-> [r \in Endpoint |-> {}]]
    /\ pushed = [n \in Endpoint |-> <<>>]
    /\ files = {}
    /\ call = [w \in Worker |-> Idle]
    /\ calls = 0 /\ failures = 0

-----------------------------------------------------------------------------
(* The journals *)

\* What SortEvents may make of the rows of a collection.
Sortings(rows) ==
    {s \in [1..Cardinality(rows) -> rows] :
        Events(s) = rows /\ \A i, j \in DOMAIN s : i < j => ~Before(s[j], s[i])}

\* The transaction of one event: the log, and a row for each replica.
Commit(n, e) ==
    /\ log' = [log EXCEPT ![n] = Append(@, e)]
    /\ outbox' = [outbox EXCEPT ![n] =
          [r \in Endpoint |-> IF r \in ReplicaIDs[n] THEN @[r] \cup {e} ELSE @[r]]]

\* The next event of the active endpoint, in its epoch or the first of a new one.
NextEvent(epoch) ==
    LET head == HeadOf(log[Active])
        i == Len(log[Active]) + 1
    IN  [id |-> i, key |-> i, epoch |-> epoch, prev |-> head,
         seq |-> IF epoch = head.epoch THEN head.seq + 1 ELSE 1]

\* Mutant: the role of the endpoint is not checked.
AppendEventAnyRole ==
    /\ \E n \in Endpoint, epoch \in 1..MaxEpoch :
         /\ Len(log[n]) < MaxEvents
         /\ Verdict(log[n], [NextEvent(epoch) EXCEPT !.prev = HeadOf(log[n])]) = "ok"
         /\ Commit(n, [NextEvent(epoch) EXCEPT !.prev = HeadOf(log[n])])
    /\ UNCHANGED <<pushed, files, call, boundVars>>

AppendEvent ==
    /\ Len(log[Active]) < MaxEvents
    /\ \E epoch \in 1..MaxEpoch :
         /\ Verdict(log[Active], NextEvent(epoch)) = "ok"
         /\ Commit(Active, NextEvent(epoch))
    /\ UNCHANGED <<pushed, files, call, boundVars>>

\* Mutant: a redelivered event is committed again.
IngestReplicaTwice(n, e) == Commit(n, e)

\* IngestReplica at n accepts e: a new event is committed, a known one is not.
IngestReplica(n, e) ==
    IF Verdict(log[n], e) = "ok" THEN Commit(n, e) ELSE UNCHANGED <<log, outbox>>
Accepts(n, e) == n # Active /\ Succeeds(log[n], e)

\* GitPushJournal brings the remote branch of a mirror up to its local head.
PushMirror(n) ==
    /\ n \in RemoteBacked
    /\ pushed' = [pushed EXCEPT ![n] = log[n]]
    /\ UNCHANGED <<log, outbox, files, call, boundVars>>

-----------------------------------------------------------------------------
(* Calls *)

Begin(w, c) ==
    /\ call[w].pc = "done" /\ calls < MaxCalls
    /\ calls' = calls + 1
    /\ call' = [call EXCEPT ![w] = c]
    /\ UNCHANGED <<log, outbox, pushed, files, failures>>

CallDrain(w) ==
    \E n \in Endpoint : \E r \in ReplicaIDs[n] :
        Begin(w, Call("pending", "drain", n, r, Genesis, NoFile))
CallReplicate(w) ==
    \E n \in Endpoint, r \in Replica : n # r /\
        Begin(w, Call("source head", "replicate", n, r, Genesis, NoFile))
\* The target cursor is one the source has: state wait --source-dir.
CallWait(w) ==
    \E r \in Replica : log[Active] # <<>> /\
        Begin(w, Call("poll", "wait", Active, r, HeadOf(log[Active]), NoFile))
CallCheckpoint(w) ==
    \E n \in Endpoint : \E at \in Events(log[Active]) \cup {Genesis} :
        Begin(w, Call("head", "checkpoint", n, n, at, NoFile))
CallRestore(w) ==
    \E f \in files, n \in Endpoint :
        Begin(w, Call("verify", "restore", n, n, Genesis, f))
CallVerify(w) ==
    \E n \in Endpoint, r \in Replica : n # r /\
        Begin(w, Call("source head", "verify", n, r, Genesis, NoFile))

Goto(w, pc) == call' = [call EXCEPT ![w].pc = pc]
Return(w, result) ==
    LET c == call[w] IN
    call' = [call EXCEPT ![w] = IF result \in {"none", "error"} THEN Idle
        ELSE [Call("done", c.op, c.from, c.to, c.at, c.file) EXCEPT !.result = result]]

Reads(w) == UNCHANGED <<log, outbox, pushed, files, boundVars>>

\* ingestEvents is about to apply these events.
Ingest(w, events) == call' = [call EXCEPT ![w].pc = "ingest", ![w].events = events]

-----------------------------------------------------------------------------
(* ingestEvents, shared by Replicate, DrainOutbox and Restore *)

IngestOne(w) ==
    LET c == call[w] IN
    /\ c.pc = "ingest" /\ c.events # <<>>
    /\ Accepts(c.to, Head(c.events))
    /\ IngestReplica(c.to, Head(c.events))
    /\ call' = [call EXCEPT ![w].events = Tail(@), ![w].applied = @ \cup {Head(c.events)}]
    /\ UNCHANGED <<pushed, files, boundVars>>

\* After the loop, and after its first failure: what was applied is acknowledged.
AfterIngest(w, result) ==
    IF call[w].op = "drain" /\ call[w].applied # {} THEN Goto(w, "ack") ELSE Return(w, result)

IngestStops(w) ==
    LET c == call[w] IN
    /\ c.pc = "ingest"
    /\ c.events # <<>> => ~Accepts(c.to, Head(c.events))
    /\ AfterIngest(w, IF c.events # <<>> THEN "error" ELSE IF c.op = "restore" THEN "restored" ELSE "none")
    /\ Reads(w)

IngestFails(w) ==
    /\ call[w].pc = "ingest" /\ call[w].events # <<>>
    /\ failures < MaxFailures /\ failures' = failures + 1
    /\ AfterIngest(w, "error")
    /\ UNCHANGED <<log, outbox, pushed, files, calls>>

-----------------------------------------------------------------------------
(* DrainOutbox *)

ReadPending(w) ==
    LET c == call[w] IN
    /\ c.pc = "pending"
    /\ \E events \in Sortings(outbox[c.from][c.to]) : Ingest(w, events)
    /\ Reads(w)

\* Mutant: the outbox is emptied, not only the rows that were applied.
AckEverything(w) ==
    LET c == call[w] IN
    /\ c.pc = "ack"
    /\ outbox' = [outbox EXCEPT ![c.from][c.to] = {}]
    /\ Return(w, "none")
    /\ UNCHANGED <<log, pushed, files, boundVars>>

\* One transaction deletes the rows that were applied.  Rows that are already
\* gone are no error; a lost answer looks like this step, too.
AckOutbox(w) ==
    LET c == call[w] IN
    /\ c.pc = "ack"
    /\ outbox' = [outbox EXCEPT ![c.from][c.to] = @ \ c.applied]
    /\ Return(w, "none")
    /\ UNCHANGED <<log, pushed, files, boundVars>>

AckFails(w) ==
    /\ call[w].pc = "ack"
    /\ failures < MaxFailures /\ failures' = failures + 1
    /\ Return(w, "error")
    /\ UNCHANGED <<log, outbox, pushed, files, calls>>

-----------------------------------------------------------------------------
(* Replicate *)

ReadSourceHead(w) ==
    LET c == call[w] IN
    /\ c.pc = "source head"
    /\ call' = [call EXCEPT ![w].pc = "replica head", ![w].at = HeadOf(log[c.from])]
    /\ Reads(w)

\* aheadOrDivergedError on the two heads that were read.
HeadsVerdict(downstream, source) ==
    IF Before(source, downstream) THEN "ErrReplicaAhead"
    ELSE IF ~Before(downstream, source) /\ downstream # Genesis /\ downstream # source THEN "ErrDiverged"
    ELSE "ok"

ReadReplicaHead(w) ==
    LET c == call[w]
        cursor == HeadOf(log[c.to])
    IN  /\ c.pc = "replica head" /\ c.op = "replicate"
        /\ IF HeadsVerdict(cursor, c.at) # "ok" THEN Return(w, HeadsVerdict(cursor, c.at))
           ELSE call' = [call EXCEPT ![w].pc = "after", ![w].at = cursor]
        /\ Reads(w)

ReadAfter(w) ==
    LET c == call[w] IN
    /\ c.pc = "after"
    /\ \E events \in Sortings(After(log[c.from], c.at)) : Ingest(w, events)
    /\ Reads(w)

-----------------------------------------------------------------------------
(* Wait, the mirror barrier *)

\* checkBarrier: the head first, then the remote proof of a git mirror.  A
\* probe that fails while there is time left is one more poll.
Poll(w) ==
    LET c == call[w] IN
    /\ c.pc = "poll"
    /\ ~Before(HeadOf(log[c.to]), c.at)
    /\ IF c.to \in RemoteBacked THEN Goto(w, "receipt") ELSE Return(w, "satisfied")
    /\ Reads(w)

\* Mutant: a commit in the local clone counts as proof.
ReceiptLocal(w) ==
    /\ call[w].pc = "receipt"
    /\ Return(w, "satisfied")
    /\ Reads(w)

\* RemoteReceipt: the local head is on the remote now.
RemoteReceipt(w) ==
    LET c == call[w] IN
    /\ c.pc = "receipt"
    /\ IF pushed[c.to] = log[c.to] THEN Return(w, "satisfied") ELSE Goto(w, "poll")
    /\ Reads(w)

\* The deadline, or the end of the caller's context: classifyDeadline.
Expire(w) ==
    /\ call[w].op = "wait" /\ call[w].pc \in {"poll", "receipt"}
    /\ \E result \in {"BarrierTimeoutError", "canceled"} : Return(w, result)
    /\ Reads(w)

-----------------------------------------------------------------------------
(* NewCheckpoint, Restore, VerifyConvergence *)

ReadCheckpointHead(w) ==
    LET c == call[w]
        head == HeadOf(log[c.from])
    IN  /\ c.pc = "head"
        /\ IF head = Genesis \/ Before(head, c.at) THEN Return(w, "error")
           ELSE call' = [call EXCEPT ![w].pc = "snapshot", ![w].at = IF @ = Genesis THEN head ELSE @]
        /\ Reads(w)

\* The events up to the one at the target cursor.
NewCheckpoint(w) ==
    LET c == call[w] IN
    /\ c.pc = "snapshot"
    /\ \E n \in DOMAIN log[c.from] :
         /\ log[c.from][n] = c.at
         /\ files' = files \cup {[events |-> SubSeq(log[c.from], 1, n), at |-> c.at]}
    /\ Return(w, "none")
    /\ UNCHANGED <<log, outbox, pushed, boundVars>>

\* A checkpoint file loses its first or its last event where it is kept.
DamageFile ==
    /\ failures < MaxFailures /\ failures' = failures + 1
    /\ \E f \in files : f.events # <<>> /\
         \E events \in {Front(f.events), Tail(f.events)} : files' = files \cup {[f EXCEPT !.events = events]}
    /\ UNCHANGED <<log, outbox, pushed, call, calls>>

\* Checkpoint.Verify replays the events into an empty replica.
Replays(events) == \A i \in DOMAIN events : Verdict(SubSeq(events, 1, i - 1), events[i]) = "ok"

\* Mutant: the declared cursor is not compared.
VerifiedChain(f) == f.events # <<>> /\ Replays(f.events)

Verified(f) == f.events # <<>> /\ Replays(f.events) /\ Last(f.events) = f.at

VerifyFile(w) ==
    /\ call[w].pc = "verify"
    /\ IF Verified(call[w].file) THEN Goto(w, "target") ELSE Return(w, "error")
    /\ Reads(w)

\* The target must be empty; it is not fenced while the events are replayed.
ReadTarget(w) ==
    /\ call[w].pc = "target"
    /\ IF log[call[w].to] = <<>> THEN Ingest(w, call[w].file.events) ELSE Return(w, "error")
    /\ Reads(w)

\* VerifyConvergence compares at the lower of the two heads it read.
LowerHead(w) ==
    LET c == call[w]
        head == HeadOf(log[c.to])
        at == IF Before(head, c.at) THEN head ELSE c.at
    IN  /\ c.pc = "replica head" /\ c.op = "verify"
        /\ IF at = Genesis THEN Return(w, "error")
           ELSE call' = [call EXCEPT ![w].pc = "hashes", ![w].at = at]
        /\ Reads(w)

\* Mutant: the checksum of the head, whatever the cursor.
HashOfHead(n, at) == HeadOf(log[n])

\* The checksum a log has at a cursor; Genesis when it has no event there.
HashAt(n, at) ==
    LET found == {e \in Events(log[n]) : ~Before(e, at) /\ ~Before(at, e)}
    IN  IF found = {} THEN Genesis ELSE CHOOSE e \in found : TRUE

CompareHashes(w) ==
    LET c == call[w] IN
    /\ c.pc = "hashes"
    /\ Return(w, IF Before(HeadOf(log[c.from]), c.at) \/ Before(HeadOf(log[c.to]), c.at)
                   THEN "ErrReplicaAhead"
                 ELSE IF HashAt(c.from, c.at) = HashAt(c.to, c.at) THEN "equivalent" ELSE "different")
    /\ Reads(w)

-----------------------------------------------------------------------------
\* The process of a caller ends at any step.
Ends(w) ==
    /\ call[w].pc # "done"
    /\ failures < MaxFailures /\ failures' = failures + 1
    /\ call' = [call EXCEPT ![w] = Idle]
    /\ UNCHANGED <<log, outbox, pushed, files, calls>>

Next ==
    \/ AppendEvent \/ DamageFile
    \/ \E n \in Endpoint : PushMirror(n)
    \/ \E w \in Worker :
         \/ CallDrain(w) \/ CallReplicate(w) \/ CallWait(w)
         \/ CallCheckpoint(w) \/ CallRestore(w) \/ CallVerify(w)
         \/ IngestOne(w) \/ IngestStops(w) \/ IngestFails(w)
         \/ ReadPending(w) \/ AckOutbox(w) \/ AckFails(w)
         \/ ReadSourceHead(w) \/ ReadReplicaHead(w) \/ ReadAfter(w)
         \/ Poll(w) \/ RemoteReceipt(w) \/ Expire(w)
         \/ ReadCheckpointHead(w) \/ NewCheckpoint(w)
         \/ VerifyFile(w) \/ ReadTarget(w) \/ LowerHead(w) \/ CompareHashes(w)
         \/ Ends(w)

Spec == Init /\ [][Next]_vars

-----------------------------------------------------------------------------
(* Properties *)

\* What the logs, the outboxes and the calls are made of.
File(chain) == [events : Seq(chain), at : chain \cup {Genesis}]
Pcs == {"done", "pending", "ingest", "ack", "source head", "replica head", "after", "poll",
        "receipt", "head", "snapshot", "verify", "target", "hashes"}
Ops == {"none", "drain", "replicate", "wait", "checkpoint", "restore", "verify"}
Results == {"none", "satisfied", "BarrierTimeoutError", "canceled", "ErrReplicaAhead",
            "ErrDiverged", "restored", "equivalent", "different"}
Calls(chain) ==
    [pc : Pcs, op : Ops, result : Results, from : Endpoint, to : Endpoint,
     at : chain \cup {Genesis}, file : File(chain),
     events : Seq(chain), applied : SUBSET chain]

TypeOK ==
    LET chain == Events(log[Active]) IN
    /\ log \in [Endpoint -> Seq(chain)] /\ pushed \in [Endpoint -> Seq(chain)]
    /\ outbox \in [Endpoint -> [Endpoint -> SUBSET chain]]
    /\ files \subseteq File(chain)
    /\ call \in [Worker -> Calls(chain)]
    /\ calls \in 0..MaxCalls /\ failures \in 0..MaxFailures

\* The delivery seams implement a mirrored chain: whatever workers race, redeliver
\* or restore, a replica is always a copy of the first events of the authority.
Mirrored == INSTANCE MirroredChain WITH chain <- log[Active], copy <- [r \in Replica |-> log[r]]
ImplementsMirroredChain == Mirrored!Spec

\* No delivery is lost: an event that an endpoint holds and a replica it fans
\* out to does not is still a row of the outbox, after any crash, duplicate
\* drain or lost acknowledgement.
NothingIsLost ==
    \A n \in Endpoint : \A r \in ReplicaIDs[n] :
        Events(log[n]) \ Events(log[r]) \subseteq outbox[n][r]

\* The barrier: "satisfied" means that the replica has the event the caller
\* wrote, not only a cursor as high, and a git mirror has it on its remote.
SatisfiedMeansDurable ==
    \A w \in Worker : call[w].result = "satisfied" =>
        /\ call[w].at \in Events(log[call[w].to])
        /\ call[w].to \in RemoteBacked => call[w].at \in Events(pushed[call[w].to])

\* Restore returned success: the whole checkpoint, which verified, is the
\* beginning of the target, and the target is not the active endpoint.
RestoredMeansReplayed ==
    \A w \in Worker : call[w].result = "restored" =>
        /\ call[w].to # Active
        /\ IsPrefix(call[w].file.events, log[call[w].to])
        /\ call[w].file.at \in Events(log[call[w].to])

\* VerifyConvergence raises no false alarm while replicas catch up: it never
\* answers that two endpoints of one authority differ, or that one is ahead.
NoFalseDivergence ==
    \A w \in Worker : call[w].op = "verify" => call[w].result \in {"none", "equivalent"}

=============================================================================
