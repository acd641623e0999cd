---------------------------- MODULE AgentRecords ----------------------------
(***************************************************************************)
(* agentstore's records that are facts of one journal: efforts and runs    *)
(* with their shared lifecycle, messages and their acknowledgements,       *)
(* activities, and the consumers' cursors.                                 *)
(*                                                                         *)
(* There is no state but the journal: every answer is a fold over its      *)
(* events.  A call is one of three plans over two journal reads and one    *)
(* append that the journal refuses when any event was appended since the   *)
(* head was read:                                                          *)
(*                                                                         *)
(*   blind    head, append            Create, Start, Send, Record          *)
(*   looked   events, head, append    Finish, Correct, Acknowledge         *)
(*   pinned   head, events, append    Transition, Advance                  *)
(*                                                                         *)
(* A refused append goes back to the head, MaxAttempts times in all: blind *)
(* and looked calls never look at the events again, pinned calls always do.*)
(***************************************************************************)
EXTENDS Naturals, Sequences, FiniteSets, FiniteSetsExt, Functions

CONSTANTS
    Caller,          \* the goroutines and processes that use the store
    Consumer,        \* the named readers that keep a cursor
    Cursors,         \* the cursors they report: <<epoch, sequence>>
    Requests,        \* the transitions asked for: <<target, disposition>>
    Ops,             \* the operations that are called
    MaxAttempts,     \* maxAppendRetries
    MaxIds,          \* bound: record IDs ever minted
    MaxEvents,       \* bound: the journal's length
    MaxGhosts        \* bound: abandoned appends that may still commit

ASSUME RecordsAssumption ==
    /\ MaxAttempts \in Nat \ {0}
    /\ MaxIds \in Nat /\ MaxEvents \in Nat /\ MaxGhosts \in Nat
    /\ Cursors \subseteq Nat \X Nat

VARIABLES
    log,             \* the journal's events, in order
    minted,          \* IDs handed out; an ID is also the stamp of its record
    call,            \* per caller: its call, or the answer of its last one
    ghosts           \* appends whose caller has gone and that may still commit

vars == <<log, minted, call, ghosts>>

-----------------------------------------------------------------------------
(* The shared lifecycle of efforts and runs.                               *)

Status == {"planning", "active", "handoff_pending", "awaiting_merge",
           "awaiting_push", "awaiting_cleanup", "completed", "aborted",
           "failed", "superseded", "archived"}

terminalLifecycleStatuses == {"completed", "aborted", "failed", "superseded"}

lifecycleTransitions ==
    [planning |-> {"active", "aborted"},
     active |-> {"handoff_pending", "awaiting_merge", "awaiting_push",
                 "awaiting_cleanup", "aborted", "failed"},
     handoff_pending |-> {"superseded", "active", "aborted"},
     awaiting_merge |-> {"awaiting_push", "awaiting_cleanup", "aborted", "failed"},
     awaiting_push |-> {"awaiting_cleanup", "aborted", "failed"},
     awaiting_cleanup |-> {"completed", "aborted", "failed"},
     completed |-> {"archived"}, aborted |-> {"archived"},
     failed |-> {"archived"}, superseded |-> {"archived"}, archived |-> {}]

\* A disposition is given exactly when the target ends the work.
validateLifecycleTransition(from, to, disposition) ==
    /\ to \in lifecycleTransitions[from]
    /\ to \in terminalLifecycleStatuses <=> disposition # "none"

\* An accepted decision cites evidence; no other kind has to.
validateMessageKind(kind, cites) ==
    \/ kind = "note"
    \/ kind = "decision" /\ cites

cursorLess(a, b) == a[1] < b[1] \/ (a[1] = b[1] /\ a[2] < b[2])

-----------------------------------------------------------------------------
(* The projections.                                                        *)

NoRecord == [what |-> "none", status |-> "none", disp |-> "none",
             ended |-> FALSE, corrected |-> FALSE]

\* A transition sets the state; the disposition of an earlier end stays.
Moved(rec, to, disp) ==
    [rec EXCEPT !.status = to, !.disp = IF disp # "none" THEN disp ELSE @]

\* An event about a record the fold has not met is skipped, silently.
FoldEffort(rec, e) ==
    CASE e.kind = "effort.created" ->
           [NoRecord EXCEPT !.what = "effort", !.status = "planning"]
      [] e.kind = "effort.transitioned" /\ rec.what = "effort" ->
           Moved(rec, e.to, e.disp)
      [] OTHER -> rec

FoldRun(rec, e) ==
    CASE e.kind = "run.started" ->
           [NoRecord EXCEPT !.what = "run", !.status = "active"]
      [] e.kind = "run.finished" /\ rec.what = "run" -> [rec EXCEPT !.ended = TRUE]
      [] e.kind = "run.corrected" /\ rec.what = "run" -> [rec EXCEPT !.corrected = TRUE]
      [] e.kind = "run.transitioned" /\ rec.what = "run" -> Moved(rec, e.to, e.disp)
      [] OTHER -> rec

Folded(what, rec, e) == IF what = "effort" THEN FoldEffort(rec, e) ELSE FoldRun(rec, e)

\* The record of an ID, event by event; what is about another ID is passed over.
foldRecord(what, h, id) ==
    LET after[n \in 0..Len(h)] ==
            IF n = 0 THEN NoRecord
            ELSE IF h[n].id # id THEN after[n - 1]
            ELSE Folded(what, after[n - 1], h[n])
    IN  after[Len(h)]

foldEfforts(h, id) == foldRecord("effort", h, id)
foldRuns(h, id) == foldRecord("run", h, id)

\* The messages of a journal.
loadMessages(h) ==
    {h[n].id : n \in {m \in 1..Len(h) : h[m].kind = "message.sent"}}

ZeroCursor == <<0, 0>>

foldCursor(h, consumer) ==
    LET own == {n \in 1..Len(h) : h[n].kind = "cursor.advanced" /\ h[n].consumer = consumer}
    IN  IF own = {} THEN ZeroCursor ELSE h[Max(own)].cursor

Before(n) == SubSeq(log, 1, n)

-----------------------------------------------------------------------------
(* Calls.                                                                  *)

Blind  == {"create", "start", "send", "record"}
Looked == {"finish", "correct", "ack"}
Moves  == {"move_effort", "move_run"}
Pinned == Moves \cup {"advance"}

NoArg == [id |-> 0, to |-> "none", disp |-> "none", consumer |-> "none",
          cursor |-> ZeroCursor]

Idle == [pc |-> "idle", op |-> "none", arg |-> NoArg, head |-> 0, seen |-> 0,
         attempt |-> 0, result |-> "none", record |-> NoRecord,
         at |-> 0]

Init ==
    /\ log = <<>>
    /\ minted = 0
    /\ call = [c \in Caller |-> Idle]
    /\ ghosts = {}

EventKind ==
    [create |-> "effort.created", start |-> "run.started", send |-> "message.sent",
     record |-> "activity.recorded", finish |-> "run.finished",
     correct |-> "run.corrected", ack |-> "message.acknowledged",
     move_effort |-> "effort.transitioned", move_run |-> "run.transitioned",
     advance |-> "cursor.advanced"]

\* The record a transition is about, in a journal.
Subject(k, h) ==
    IF k.op = "move_effort" THEN foldEfforts(h, k.arg.id) ELSE foldRuns(h, k.arg.id)

\* The event a call appends, decided on the events it has seen.
EventOf(k) ==
    [kind |-> EventKind[k.op], id |-> k.arg.id,
     from |-> IF k.op \in Moves THEN Subject(k, Before(k.seen)).status ELSE "none",
     to |-> k.arg.to, disp |-> k.arg.disp, consumer |-> k.arg.consumer,
     cursor |-> k.arg.cursor]

\* Mutant: the answer takes the disposition of the request, even when it has none.
AnswerOfRequest(k) ==
    [Subject(k, Before(k.seen)) EXCEPT !.status = k.arg.to, !.disp = k.arg.disp]

\* The record a transition returns: what it had seen, and its own change.
Answer(k) == Moved(Subject(k, Before(k.seen)), k.arg.to, k.arg.disp)

\* What is kept of a call that ended: a successful transition's answer, and
\* that a call ran out of attempts.
Done(k, result) ==
    IF k.op \in Moves /\ result = "ok"
    THEN [Idle EXCEPT !.op = k.op, !.arg.id = k.arg.id, !.result = "ok",
                      !.record = Answer(k), !.at = Len(log) + 1]
    ELSE IF result = "exhausted"
    THEN [Idle EXCEPT !.result = result]
    ELSE Idle

Return(c, result) == call' = [call EXCEPT ![c] = Done(@, result)]

\* Mutant: a snapshot reads the events before the head.
PlanReadsEventsFirst(op) ==
    IF op \in Blind THEN <<"head", "append">> ELSE <<"events", "head", "append">>

\* The order in which a call goes to the journal.
Plan(op) ==
    IF op \in Blind THEN <<"head", "append">>
    ELSE IF op \in Looked THEN <<"events", "head", "append">>
    ELSE <<"head", "events", "append">>

After(op, pc) ==
    CHOOSE next \in Range(Plan(op)) :
        \E n \in 1..Len(Plan(op)) - 1 : Plan(op)[n] = pc /\ Plan(op)[n + 1] = next

\* Bound: a call begins while the journal has room for it and for the calls
\* and the abandoned appends under way.
Room(c) ==
    /\ call[c].pc = "idle"
    /\ Len(log) + Cardinality({d \in Caller : call[d].pc # "idle"})
         + Cardinality(ghosts) < MaxEvents

Begin(c, op, arg) ==
    call' = [call EXCEPT ![c] = [Idle EXCEPT !.pc = Plan(op)[1], !.op = op,
                                             !.arg = arg]]

\* A call whose record gets a new ID.
CallNew(c, op) ==
    /\ Room(c) /\ op \in Ops /\ minted < MaxIds
    /\ minted' = minted + 1
    /\ Begin(c, op, [NoArg EXCEPT !.id = minted + 1])
    /\ UNCHANGED <<log, ghosts>>

CallCreate(c) == CallNew(c, "create")
CallStart(c)  == CallNew(c, "start")
CallRecord(c) == CallNew(c, "record")

\* Send checks the message's kind before it reads anything.
CallSend(c, kind, cites) ==
    IF validateMessageKind(kind, cites) THEN CallNew(c, "send")
    ELSE /\ Room(c) /\ "send" \in Ops
         /\ Return(c, "invalid")
         /\ UNCHANGED <<log, minted, ghosts>>

\* A call about what there is.
CallWith(c, op, arg) ==
    /\ Room(c) /\ op \in Ops
    /\ Begin(c, op, arg)
    /\ UNCHANGED <<log, minted, ghosts>>

CallFinish(c, id)      == CallWith(c, "finish", [NoArg EXCEPT !.id = id])
CallCorrect(c, id)     == CallWith(c, "correct", [NoArg EXCEPT !.id = id])
CallAcknowledge(c, id) == CallWith(c, "ack", [NoArg EXCEPT !.id = id])

TransitionEffort(c, id, to, disp) ==
    CallWith(c, "move_effort", [NoArg EXCEPT !.id = id, !.to = to, !.disp = disp])
TransitionRun(c, id, to, disp) ==
    CallWith(c, "move_run", [NoArg EXCEPT !.id = id, !.to = to, !.disp = disp])

CallAdvance(c, consumer, cursor) ==
    CallWith(c, "advance", [NoArg EXCEPT !.consumer = consumer, !.cursor = cursor])

\* tryAppend and snapshot read the head.
ReadHead(c) ==
    /\ call[c].pc = "head"
    /\ call' = [call EXCEPT ![c].head = Len(log), ![c].pc = After(call[c].op, "head")]
    /\ UNCHANGED <<log, minted, ghosts>>

\* What the events say of a call: "ok" lets it append.
FinishVerdict(run) ==
    IF run.what # "run" THEN "not found" ELSE IF run.ended THEN "invalid" ELSE "ok"

TransitionVerdict(rec, to, disp) ==
    IF rec.what = "none" THEN "not found"
    ELSE IF validateLifecycleTransition(rec.status, to, disp) THEN "ok" ELSE "invalid"

AdvanceVerdict(consumer, cursor) ==
    IF cursorLess(cursor, foldCursor(log, consumer)) THEN "conflict" ELSE "ok"

Verdict(k) ==
    CASE k.op = "ack" -> IF k.arg.id \in loadMessages(log) THEN "ok" ELSE "not found"
      [] k.op = "finish" -> FinishVerdict(foldRuns(log, k.arg.id))
      [] k.op = "correct" ->
           IF foldRuns(log, k.arg.id).what = "run" THEN "ok" ELSE "not found"
      [] k.op \in Moves -> TransitionVerdict(Subject(k, log), k.arg.to, k.arg.disp)
      [] k.op = "advance" -> AdvanceVerdict(k.arg.consumer, k.arg.cursor)

ReadEvents(c) ==
    /\ call[c].pc = "events"
    /\ IF Verdict(call[c]) = "ok"
       THEN call' = [call EXCEPT ![c].pc = After(call[c].op, "events"),
                                 ![c].seen = IF call[c].op \in Moves
                                             THEN Len(log) ELSE 0]
       ELSE Return(c, Verdict(call[c]))
    /\ UNCHANGED <<log, minted, ghosts>>

\* An event commits at the head its builder read; nothing else pinned to
\* that head can commit any more.
Commit(e) == log' = Append(log, e) /\ ghosts' = {}

AppendCommits(c) ==
    LET k == call[c] IN
    /\ k.pc = "append" /\ k.head = Len(log)
    /\ Commit(EventOf(k))
    /\ Return(c, "ok")
    /\ UNCHANGED minted

\* errSequenceRace: the caller starts over, or has run out of attempts.
GivesUp(k) == k.attempt + 1 >= MaxAttempts

\* Mutant: a retry that appends again at the head it had read.
RetryAtSameHead(k) == [k EXCEPT !.attempt = @ + 1]

AfterRace(k) == [k EXCEPT !.pc = "head", !.attempt = @ + 1, !.head = 0]

AppendRaces(c) ==
    LET k == call[c] IN
    /\ k.pc = "append" /\ k.head # Len(log)
    /\ IF GivesUp(k) THEN Return(c, "exhausted")
       ELSE call' = [call EXCEPT ![c] = AfterRace(k)]
    /\ UNCHANGED <<log, minted, ghosts>>

\* The caller's context ends while the journal holds its event in a batch:
\* it is told an error, and the event may commit or not.
Abandon(c) ==
    /\ call[c].pc = "append" /\ call[c].head = Len(log)
    /\ Cardinality(ghosts) < MaxGhosts
    /\ ghosts' = ghosts \cup {EventOf(call[c])}
    /\ Return(c, "error")
    /\ UNCHANGED <<log, minted>>

CommitGhost(e) ==
    /\ Commit(e)
    /\ UNCHANGED <<minted, call>>

\* A journal read or an append fails: fenced after a promotion, or the
\* database or Git refuses.
JournalFails(c) ==
    /\ call[c].pc \in {"head", "events", "append"}
    /\ Return(c, "error")
    /\ UNCHANGED <<log, minted, ghosts>>

Next ==
    \/ \E c \in Caller :
        \/ CallCreate(c) \/ CallStart(c) \/ CallRecord(c)
        \/ \E kind \in {"note", "decision"}, cites \in BOOLEAN : CallSend(c, kind, cites)
        \/ \E id \in 1..minted : CallFinish(c, id) \/ CallCorrect(c, id) \/ CallAcknowledge(c, id)
        \/ \E id \in 1..minted, r \in Requests :
              TransitionEffort(c, id, r[1], r[2]) \/ TransitionRun(c, id, r[1], r[2])
        \/ \E consumer \in Consumer, cursor \in Cursors : CallAdvance(c, consumer, cursor)
        \/ ReadHead(c) \/ ReadEvents(c)
        \/ AppendCommits(c) \/ AppendRaces(c) \/ Abandon(c)
        \/ JournalFails(c)
    \/ \E e \in ghosts : CommitGhost(e)

Spec == Init /\ [][Next]_vars

-----------------------------------------------------------------------------
(* Properties.                                                             *)

\* Every call is one of the plans, within its attempts, and nothing it has
\* read is ahead of the journal.
TypeOK ==
    /\ Len(log) <= MaxEvents /\ minted \in 0..MaxIds
    /\ \A c \in Caller :
          /\ call[c].pc \in {"idle", "head", "events", "append"}
          /\ call[c].op \in Blind \cup Looked \cup Pinned \cup {"none"}
          /\ call[c].attempt \in 0..MaxAttempts - 1
          /\ {call[c].head, call[c].seen, call[c].at} \subseteq 0..Len(log)
          /\ call[c].record.status \in Status \cup {"none"}
    /\ \A e \in ghosts : e.id \in 0..minted

\* An event is legal where it stands when what came before it allows it: it
\* is about a record that exists, a transition leaves the state the record
\* is in along the table, and a cursor does not move back.
LegalMove(rec, e) ==
    /\ rec.what # "none" /\ e.from = rec.status
    /\ validateLifecycleTransition(e.from, e.to, e.disp)

LegalAt(n) ==
    LET e == log[n]
        past == Before(n - 1)
    IN  /\ e.kind = "effort.transitioned" => LegalMove(foldEfforts(past, e.id), e)
        /\ e.kind = "run.transitioned" => LegalMove(foldRuns(past, e.id), e)
        /\ e.kind \in {"run.finished", "run.corrected"} => foldRuns(past, e.id).what = "run"
        /\ e.kind = "message.acknowledged" => e.id \in loadMessages(past)
        /\ e.kind = "cursor.advanced" => ~cursorLess(e.cursor, foldCursor(past, e.consumer))

\* Whatever calls race, abandon their appends or retry, the journal reads as
\* one legal history of every record: no transition is validated against a
\* stale state, no cursor moves back, and no event is about a record that
\* was not there (effort.go:157, run.go:229, cursor.go:61).
HistoryIsLegal == \A n \in 1..Len(log) : LegalAt(n)

\* The record a successful Transition returns, built from its own snapshot,
\* is what anyone who reads the journal up to its event finds, the
\* disposition of an earlier end included (run.go:257, effort.go:191).
AnswersAreCurrent ==
    \A c \in Caller :
        call[c].op \in Moves /\ call[c].result = "ok" =>
            call[c].record = Subject(call[c], Before(call[c].at))

\* Every attempt that failed lost to an event somebody else appended while it
\* ran, so a call that gives up has been overtaken MaxAttempts times: its
\* retries read the head again (store.go:231).
AttemptsAreOvertaken ==
    \A c \in Caller :
        /\ call[c].attempt <= Len(log)
        /\ call[c].result = "exhausted" => MaxAttempts <= Len(log)

\* A run ends once: Finish refuses a run that "already finished".
FinishedOnce ==
    \A m, n \in 1..Len(log) :
        log[m].kind = "run.finished" /\ log[n].kind = "run.finished"
          /\ log[m].id = log[n].id => m = n
=============================================================================
