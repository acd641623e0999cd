----------------------------- MODULE GitDelivery -----------------------------
(***************************************************************************)
(* GitPushJournal, GitFallbackInboxPush and the GitRemoteDurability they   *)
(* share: an operation on a clone is a local commit that must reach the    *)
(* branch of the remote, through an intent file, a finalised receipt file, *)
(* a compare-and-set push, a read-back and the removal of both files.      *)
(*                                                                         *)
(* A commit identifies the history behind it, so a head is the sequence of *)
(* the commits that lead to it: <<>> is an unborn branch, ancestry is      *)
(* IsPrefix, the parent is Front.  A commit is [op, by]: what it records   *)
(* and the clone that made it.  The journal and the inbox are the files of *)
(* the local head.  An operation is [kind, body], the body an event (as in *)
(* JournalChain) or an envelope [id, key]; its operation ID is the pair.   *)
(*                                                                         *)
(* The flock makes the calls of one clone take turns; the clones race.     *)
(***************************************************************************)
EXTENDS JournalChain, SequencesExt

CONSTANTS
    Clone,
    Endpoint,       \* the clones that hold a journal; the others only an inbox
    Envelope,       \* the fallback envelopes agents append, [id, key]
    FenceKey,       \* idempotency keys of promotions
    Nobody,
    MaxSource,      \* bound: events of the authority elsewhere, at most two
    MaxEvents,      \* bound: events built by callers of Append
    MaxFailures     \* bound: failed git commands, process ends

ASSUME DeliveryAssumption ==
    /\ Endpoint \subseteq Clone /\ Nobody \notin FenceKey
    /\ \A x \in Envelope : DOMAIN x = {"id", "key"}
    /\ MaxSource \in 0..2
    /\ MaxEvents \in Nat /\ MaxFailures \in Nat

VARIABLES
    configured,     \* per clone: the role its journal is constructed with
    remote,         \* the head of the remote branch
    local,          \* per clone: its local head
    receipts,       \* per clone: the files of the receipt directory
    role, epoch,    \* per clone: in the memory of the process
    call,           \* per clone: the operation that holds the lock
    issued, failures

memory == <<role, epoch>>
boundVars == <<issued, failures>>
vars == <<configured, remote, local, receipts, memory, call, boundVars>>

Idle == [pc |-> "idle", receipt |-> Nobody, target |-> <<>>]

Receipt(phase, op, base, commit) ==
    [phase |-> phase, op |-> op, base |-> base, commit |-> commit]

(***************************************************************************)
(* The replica events an authority elsewhere has: one, and the checkpoint  *)
(* of the promotion it hands this project over with.                       *)
(***************************************************************************)
Source ==
    LET first == [id |-> <<"s">>, key |-> <<"s">>, epoch |-> 1, seq |-> 1, prev |-> Genesis]
    IN  <<first, [id |-> <<"handover">>, key |-> <<"handover">>, epoch |-> 2, seq |-> 1, prev |-> first]>>

IsCheckpoint(e) == e.id \in FenceKey \cup {<<"handover">>}

Init ==
    /\ configured \in [Clone -> {"active", "replica"}]
    /\ \A c \in Clone \ Endpoint : configured[c] = "replica"
    /\ remote = <<>>
    /\ local = [c \in Clone |-> <<>>]
    /\ receipts = [c \in Clone |-> {}]
    /\ role = configured
    /\ epoch = [c \in Clone |-> 1]
    /\ call = [c \in Clone |-> Idle]
    /\ issued = 0 /\ failures = 0

-----------------------------------------------------------------------------
(* What a head holds *)

Operations(head) == {head[i].op : i \in DOMAIN head}

\* The journal and the fallback inbox of a head.
JournalOf(head) ==
    LET upTo[n \in 0..Len(head)] ==
            IF n = 0 THEN <<>>
            ELSE IF head[n].op.kind = "fallback" THEN upTo[n - 1]
            ELSE Append(upTo[n - 1], head[n].op.body)
    IN  upTo[Len(head)]
InboxOf(head) == {op.body : op \in {o \in Operations(head) : o.kind = "fallback"}}

\* The read-back that proves an operation is in the head it was committed to.
Recorded(head, op) ==
    IF op.kind = "fallback" THEN op.body \in InboxOf(head)
                            ELSE op.body \in Events(JournalOf(head))

\* What appending an envelope to the inbox answers.
InboxVerdict(inbox, x) ==
    IF x \in inbox THEN "duplicate"
    ELSE IF \E y \in inbox : y.id = x.id \/ y.key = x.key THEN "ErrReused"
    ELSE "ok"

\* What the inner append of an operation answers at a clone.
AppendVerdict(c, op) ==
    CASE op.kind = "fallback" -> InboxVerdict(InboxOf(local[c]), op.body)
      [] op.kind = "journal" ->
           IF role[c] # "active" \/ op.body.epoch # epoch[c] THEN "RoleFenceError"
           ELSE Verdict(JournalOf(local[c]), op.body)
      [] op.kind = "replica" ->
           IF role[c] # "replica" THEN "RoleFenceError"
           ELSE Verdict(JournalOf(local[c]), op.body)
      [] OTHER -> "duplicate"

Commit(c, op) == local' = [local EXCEPT ![c] = Append(@, [op |-> op, by |-> c])]

-----------------------------------------------------------------------------
(* The steps of one operation, all under the lock of the clone *)

Goto(c, step) == call' = [call EXCEPT ![c].pc = step]
Return(c) == call' = [call EXCEPT ![c] = Idle]

FilesOf(c, op) == {f \in receipts[c] : f.op = op}
Phase(c, op, phase) == {f \in FilesOf(c, op) : f.phase = phase}

\* ExpectedBase: an operation starts from a local head equal to the remote.
Synced(c) == local[c] = remote

proveLocalAncestor(ancestor, descendant) == IsPrefix(ancestor, descendant)
commitCount(base, head) == Len(head) - Len(base)

\* The live answer of the remote about a commit, fetched back.
remoteContains(commit) == IsPrefix(commit, remote)

NoOtherPending(c, op) == \A f \in receipts[c] : f.op = op

\* runOperationLocked on an operation without files: write the intent.
WriteIntent(c, op) ==
    /\ FilesOf(c, op) = {}
    /\ NoOtherPending(c, op) /\ Synced(c)
    /\ LET intent == Receipt("intent", op, local[c], <<>>) IN
       /\ receipts' = [receipts EXCEPT ![c] = @ \cup {intent}]
       /\ call' = [call EXCEPT ![c] = [pc |-> "intent", receipt |-> intent, target |-> <<>>]]

\* ... and on one with files: the receipt comes before the intent.
PickUp(c, op) ==
    LET pending == Phase(c, op, "pending")
        found == IF pending # {} THEN pending ELSE Phase(c, op, "intent")
    IN  /\ \E f \in found :
             call' = [call EXCEPT ![c] =
                [pc |-> IF pending # {} THEN "check" ELSE "intent", receipt |-> f, target |-> <<>>]]
        /\ UNCHANGED receipts

\* Append, IngestReplica and AppendFallback: a first call, or a repeated one.
Run(c, op) ==
    /\ call[c] = Idle
    /\ WriteIntent(c, op) \/ PickUp(c, op)
    /\ UNCHANGED <<configured, remote, local, memory>>

\* An event is built on a head the caller read before it took the lock.
RunJournal(c) ==
    /\ issued < MaxEvents
    /\ \E n \in 0..Len(JournalOf(local[c])) :
         LET head == HeadOf(SubSeq(JournalOf(local[c]), 1, n))
             e == [id |-> <<"e", issued>>, key |-> <<"e", issued>>, epoch |-> epoch[c],
                   seq |-> IF head.epoch = epoch[c] THEN head.seq + 1 ELSE 1, prev |-> head]
         IN  Run(c, [kind |-> "journal", body |-> e])
    /\ issued' = issued + 1
    /\ UNCHANGED failures

RunReplica(c) ==
    /\ configured[c] = "replica"
    /\ \E i \in 1..MaxSource : Run(c, [kind |-> "replica", body |-> Source[i]])
    /\ UNCHANGED boundVars

RunFallback(c) ==
    /\ \E x \in Envelope : Run(c, [kind |-> "fallback", body |-> x])
    /\ UNCHANGED boundVars

\* ResumeOperation, from the files alone; each transport takes its own kinds.
Resume(c, kinds) ==
    /\ call[c] = Idle
    /\ \E f \in receipts[c] : f.op.kind \in kinds /\ PickUp(c, f.op)
    /\ UNCHANGED <<configured, remote, local, memory, boundVars>>

ResumeJournal(c) == c \in Endpoint /\ Resume(c, {"journal", "replica", "fence", "promote"})
ResumeFallback(c) == Resume(c, {"fallback"})

\* Mutant: an interrupted append is not recognised by the moved head.
ApplyAgain(c) ==
    LET r == call[c].receipt IN
    /\ call[c].pc = "intent"
    /\ Commit(c, r.op) /\ Goto(c, "applied")
    /\ UNCHANGED <<configured, remote, receipts, memory, boundVars>>

(***************************************************************************)
(* The append proper, unless the head has moved since the intent.  An      *)
(* append that is refused without a commit takes its intent back.          *)
(***************************************************************************)
Apply(c) ==
    LET r == call[c].receipt
        verdict == AppendVerdict(c, r.op)
    IN
    /\ call[c].pc = "intent"
    /\ \/ /\ local[c] # r.base \/ verdict = "duplicate"
          /\ Goto(c, "applied")
          /\ UNCHANGED <<local, receipts>>
       \/ /\ local[c] = r.base /\ verdict = "ok"
          /\ Commit(c, r.op) /\ Goto(c, "applied")
          /\ UNCHANGED receipts
       \/ /\ local[c] = r.base /\ verdict \notin {"ok", "duplicate"}
          /\ receipts' = [receipts EXCEPT ![c] = @ \ FilesOf(c, r.op)]
          /\ Return(c)
          /\ UNCHANGED local
    /\ UNCHANGED <<configured, remote, memory, boundVars>>

\* Mutant: whatever was committed on top of the base is bound to the operation.
BindableAny(c, r) == Recorded(local[c], r.op)

\* The commit that can be bound to an operation: it holds it, descends from
\* the base, and is the only one after it.
Bindable(c, r) ==
    /\ local[c] # <<>>
    /\ Recorded(local[c], r.op)
    /\ r.base # <<>> => proveLocalAncestor(r.base, local[c]) /\ commitCount(r.base, local[c]) <= 1

\* activateReceipt: a file of that name with another content is an error.
Activate(c, receipt) ==
    IF Phase(c, receipt.op, "pending") \subseteq {receipt}
      THEN /\ receipts' = [receipts EXCEPT ![c] = @ \cup {receipt}]
           /\ call' = [call EXCEPT ![c] = [pc |-> "check", receipt |-> receipt, target |-> <<>>]]
      ELSE Return(c) /\ UNCHANGED receipts

Finalise(c) ==
    LET r == call[c].receipt IN
    /\ call[c].pc = "applied"
    /\ IF Bindable(c, r) THEN Activate(c, Receipt("pending", r.op, r.base, local[c]))
                         ELSE Return(c) /\ UNCHANGED receipts
    /\ UNCHANGED <<configured, remote, local, memory, boundVars>>

\* remoteContains before the push.
Check(c) ==
    /\ call[c].pc = "check"
    /\ IF remoteContains(call[c].receipt.commit)
         THEN call' = [call EXCEPT ![c].pc = "sync", ![c].target = remote]
         ELSE Goto(c, "push")
    /\ UNCHANGED <<configured, remote, local, receipts, memory, boundVars>>

\* The remote could not be read, or moved meanwhile: the push is tried anyway.
CheckFails(c) ==
    /\ call[c].pc = "check" /\ failures < MaxFailures
    /\ failures' = failures + 1
    /\ Goto(c, "push")
    /\ UNCHANGED <<configured, remote, local, receipts, memory, issued>>

\* Mutant: an operation whose push is rejected is dropped.
PushForgets(c) ==
    LET r == call[c].receipt IN
    /\ call[c].pc = "push"
    /\ IF IsPrefix(r.base, r.commit) /\ remote \in {r.base, r.commit}
         THEN remote' = r.commit /\ Goto(c, "pushed") /\ UNCHANGED receipts
         ELSE /\ receipts' = [receipts EXCEPT ![c] = @ \ FilesOf(c, r.op)]
              /\ Return(c) /\ UNCHANGED remote
    /\ UNCHANGED <<configured, local, memory, boundVars>>

\* The compare-and-set push; a remote that is at the commit is up to date.
Push(c) ==
    LET r == call[c].receipt IN
    /\ call[c].pc = "push"
    /\ IF proveLocalAncestor(r.base, r.commit) /\ remote \in {r.base, r.commit}
         THEN remote' = r.commit /\ Goto(c, "pushed")
         ELSE Return(c) /\ UNCHANGED remote
    /\ UNCHANGED <<configured, local, receipts, memory, boundVars>>

\* The read-back after the push.
ReadBack(c) ==
    /\ call[c].pc = "pushed"
    /\ IF remoteContains(call[c].receipt.commit)
         THEN call' = [call EXCEPT ![c].pc = "sync", ![c].target = remote]
         ELSE Return(c)
    /\ UNCHANGED <<configured, remote, local, receipts, memory, boundVars>>

\* synchronizeLocalToRemote: only ever a fast-forward.
Synchronize(c) ==
    /\ call[c].pc = "sync"
    /\ IF proveLocalAncestor(local[c], call[c].target)
         THEN local' = [local EXCEPT ![c] = call[c].target] /\ Goto(c, "clear")
         ELSE Return(c) /\ UNCHANGED local
    /\ UNCHANGED <<configured, remote, receipts, memory, boundVars>>

\* removeOperation: the receipt goes first, then the intent.
ClearReceipt(c) ==
    /\ call[c].pc = "clear"
    /\ receipts' = [receipts EXCEPT ![c] = @ \ Phase(c, call[c].receipt.op, "pending")]
    /\ Goto(c, "clearIntent")
    /\ UNCHANGED <<configured, remote, local, memory, boundVars>>

ClearIntent(c) ==
    /\ call[c].pc = "clearIntent"
    /\ receipts' = [receipts EXCEPT ![c] = @ \ Phase(c, call[c].receipt.op, "intent")]
    /\ Return(c)
    /\ UNCHANGED <<configured, remote, local, memory, boundVars>>

-----------------------------------------------------------------------------
(* Fence and promotion through the same lock, without an intent *)

\* The inner FenceAsReplica: the checkpoint is built on the head it finds.
Fence(c) ==
    /\ call[c] = Idle /\ Synced(c) /\ role[c] = "active"
    /\ \E k \in FenceKey :
         LET e == [id |-> k, key |-> k, epoch |-> epoch[c] + 1, seq |-> 1,
                   prev |-> HeadOf(JournalOf(local[c]))]
             op == [kind |-> "fence", body |-> e]
         IN  /\ Verdict(JournalOf(local[c]), e) = "ok"
             /\ Commit(c, op)
             /\ role' = [role EXCEPT ![c] = "replica"]
             /\ epoch' = [epoch EXCEPT ![c] = e.epoch]
             /\ call' = [call EXCEPT ![c] =
                  [pc |-> "latest", receipt |-> Receipt("pending", op, <<>>, <<>>), target |-> <<>>]]
    /\ UNCHANGED <<configured, remote, receipts, boundVars>>

\* The inner PromoteToActive: the checkpoint is the head, or was before.
PromoteToActive(c) ==
    /\ call[c] = Idle /\ Synced(c)
    /\ \E e \in {x \in Events(JournalOf(local[c])) : IsCheckpoint(x)} :
         /\ \/ role[c] = "replica" /\ HeadOf(JournalOf(local[c])) = e
            \/ role[c] = "active" /\ epoch[c] = e.epoch
         /\ role' = [role EXCEPT ![c] = "active"]
         /\ epoch' = [epoch EXCEPT ![c] = e.epoch]
         /\ call' = [call EXCEPT ![c] =
              [pc |-> "latest", target |-> <<>>,
               receipt |-> Receipt("pending", [kind |-> "promote", body |-> e], <<>>, <<>>)]]
    /\ UNCHANGED <<configured, remote, local, receipts, boundVars>>

\* pushLatestCommit: a receipt for the commit at the local head.
Latest(c) ==
    /\ call[c].pc = "latest"
    /\ IF local[c] = <<>> THEN Return(c) /\ UNCHANGED receipts
       ELSE Activate(c, Receipt("pending", call[c].receipt.op, Front(local[c]), local[c]))
    /\ UNCHANGED <<configured, remote, local, memory, boundVars>>

\* The local head, whatever it holds, is fetched back from the remote.
VerifyLocalHeadDurable(c) == local[c] # <<>> /\ remoteContains(local[c])

\* Mutant: a receipt is given for whatever the local head holds.
LocalReceipt(c, at) == ~Before(HeadOf(JournalOf(local[c])), at)

\* RemoteReceipt at a cursor: the local journal has reached it.
RemoteReceipt(c, at) ==
    /\ ~Before(HeadOf(JournalOf(local[c])), at)
    /\ VerifyLocalHeadDurable(c)

\* Another process of the clone (the state store's own gitops.Pull) fetches
\* and fast-forwards, without this lock.
Pull(c) ==
    /\ local[c] # remote /\ IsPrefix(local[c], remote)
    /\ local' = [local EXCEPT ![c] = remote]
    /\ UNCHANGED <<configured, remote, receipts, memory, call, boundVars>>

-----------------------------------------------------------------------------
(* Failures *)

\* A git command or a file operation fails: the call returns an error.
Fail(c) ==
    /\ call[c] # Idle /\ failures < MaxFailures
    /\ failures' = failures + 1
    /\ Return(c)
    /\ UNCHANGED <<configured, remote, local, receipts, memory, issued>>

\* The process ends and is started again: the flock goes with it, the files
\* and the branches stay, role and epoch are the configured ones.  (One that
\* would find everything as it is does not count.)
Restart(c) ==
    /\ failures < MaxFailures
    /\ call[c] # Idle \/ role[c] # configured[c] \/ epoch[c] # 1
    /\ failures' = failures + 1
    /\ Return(c)
    /\ role' = [role EXCEPT ![c] = configured[c]]
    /\ epoch' = [epoch EXCEPT ![c] = 1]
    /\ UNCHANGED <<configured, remote, local, receipts, issued>>

Step(c) ==
    \/ Apply(c) \/ Finalise(c) \/ Check(c) \/ Push(c) \/ ReadBack(c)
    \/ Synchronize(c) \/ ClearReceipt(c) \/ ClearIntent(c) \/ Latest(c)

Next ==
    \/ \E c \in Endpoint :
         RunJournal(c) \/ RunReplica(c) \/ Fence(c) \/ PromoteToActive(c)
    \/ \E c \in Clone :
         RunFallback(c) \/ ResumeJournal(c) \/ ResumeFallback(c) \/ Pull(c) \/ Step(c) \/ CheckFails(c) \/ Fail(c) \/ Restart(c)

Spec == Init /\ [][Next]_vars

-----------------------------------------------------------------------------
(* Properties *)

Bodies ==
    [kind : {"fallback"}, body : Envelope]
    \cup UNION {Operations(local[c]) : c \in Clone}
    \cup {f.op : f \in UNION {receipts[c] : c \in Clone}}

\* Type invariant.
TypeOK ==
    /\ remote \in Seq([op : Bodies, by : Clone])
    /\ \A c \in Clone :
         /\ local[c] \in Seq([op : Bodies, by : Clone])
         /\ role[c] \in {"active", "replica"} /\ epoch[c] \in Nat \ {0}
         /\ \A f \in receipts[c] : f.phase \in {"intent", "pending"}

\* A call about to return without an error has its operation in the history
\* of the remote, whatever process ended in between and whatever the other
\* clones pushed; and a RemoteReceipt at a cursor means the remote has every
\* event of the journal up to it.
DurableMeansRemote ==
    /\ \A c \in Clone : call[c].pc \in {"clear", "clearIntent"} => Recorded(remote, call[c].receipt.op)
    /\ \A c \in Endpoint : \A e \in Events(JournalOf(local[c])) :
         RemoteReceipt(c, e) => e \in Events(JournalOf(remote))

\* However often an operation is repeated, resumed or taken over after a
\* crash, no branch records it twice.
RecordedOnce ==
    \A c \in Clone : \A head \in {remote, local[c]} : \A i, j \in DOMAIN head :
        head[i].op.body = head[j].op.body => i = j

\* A commit that is not on the remote is never left without an explanation:
\* the call that made it still runs, or one of the files left behind names
\* the operation, so that a later process can finish it.  (The exception the
\* code discloses: a fence or its process that failed before its receipt.)
UnpushedIsExplained ==
    \A c \in Clone : call[c] = Idle =>
        \A i \in DOMAIN local[c] :
            \/ IsPrefix(SubSeq(local[c], 1, i), remote)
            \/ FilesOf(c, local[c][i].op) # {}
            \/ local[c][i].op.kind = "fence"

\* A receipt that another process finds names a commit of the local branch
\* that holds the operation and adds at most one commit to the base the push
\* expects: finishing it publishes that operation and nothing else.
ReceiptNamesItsCommit ==
    \A c \in Clone : \A f \in receipts[c] : f.phase = "pending" =>
        /\ IsPrefix(f.commit, local[c])
        /\ Recorded(f.commit, f.op)
        /\ f.base # <<>> => IsPrefix(f.base, f.commit) /\ Len(f.commit) <= Len(f.base) + 1
=============================================================================
