---------------------------- MODULE JournalChain ----------------------------
(***************************************************************************)
(* The event chain of package replication, as pure operators.              *)
(*                                                                         *)
(* An event is a record with at least                                      *)
(*   id     its EventID,                                                   *)
(*   key    its IdempotencyKey,                                            *)
(*   epoch, seq   its Cursor,                                              *)
(*   prev   its PreviousHash.                                              *)
(* A checksum covers every field of the event it names, the previous hash  *)
(* included, so it is modelled as that event itself: two checksums are     *)
(* equal exactly when the events are.  Genesis is the head of an empty     *)
(* journal (the zero Cursor and the empty hash).                           *)
(*                                                                         *)
(* A log is the sequence of events a journal has durably recorded.  Both   *)
(* journals derive their head from it: MemoryJournal keeps it beside the   *)
(* events, DALJournal stores a head record in the same transaction.        *)
(***************************************************************************)
EXTENDS Naturals, Sequences

Genesis == [epoch |-> 0, seq |-> 0]

\* The cursor and checksum that Head returns.
HeadOf(log) == IF log = <<>> THEN Genesis ELSE log[Len(log)]

\* The events of a log, in no order.
Events(log) == {log[i] : i \in DOMAIN log}

\* Cursor order: epoch first, then sequence.
Before(a, b) == a.epoch < b.epoch \/ (a.epoch = b.epoch /\ a.seq < b.seq)

\* What After(cursor) returns: the events beyond the cursor.  They are read
\* in cursor order, so the set says everything.
After(log, cursor) == {e \in Events(log) : Before(cursor, e)}

\* The first event of a journal is 1/1 and chains onto nothing.
IsFirst(e) == e.epoch = 1 /\ e.seq = 1 /\ e.prev = Genesis

\* The cursor is the next of its epoch, or opens the epoch after the head's.
Contiguous(head, e) ==
    \/ e.epoch = head.epoch /\ e.seq = head.seq + 1
    \/ e.epoch = head.epoch + 1 /\ e.seq = 1

\* The checks against the running head, in the order of the code.
ValidateNext(head, e) ==
    IF head = Genesis
      THEN IF IsFirst(e) THEN "ok" ELSE "ErrSequenceGap"
    ELSE IF e.epoch < head.epoch THEN "ErrEpochFenced"
    ELSE IF ~Contiguous(head, e) THEN "ErrSequenceGap"
    ELSE IF e.prev # head THEN "ErrChecksumChain"
    ELSE "ok"

\* Mutant: idempotency keys are not looked up.
VerdictIgnoresKeys(log, e) ==
    IF e \in Events(log) THEN "duplicate"
    ELSE IF \E f \in Events(log) : f.id = e.id THEN "ErrIDReused"
    ELSE ValidateNext(HeadOf(log), e)

(***************************************************************************)
(* What appending e to a log answers.  "duplicate" is the idempotent no-op *)
(* of an event the log already holds (the caller sees success); the        *)
(* refusals leave the log as it is.                                        *)
(***************************************************************************)
Verdict(log, e) ==
    IF e \in Events(log) THEN "duplicate"
    ELSE IF \E f \in Events(log) : f.id = e.id THEN "ErrIDReused"
    ELSE IF ValidateNext(HeadOf(log), e) # "ok" THEN ValidateNext(HeadOf(log), e)
    ELSE IF \E f \in Events(log) : f.key = e.key THEN "ErrKeyTaken"
    ELSE "ok"

\* The log after the attempt.
AppendData(log, e) == IF Verdict(log, e) = "ok" THEN Append(log, e) ELSE log

\* The caller's view: both "ok" and "duplicate" return a nil error.
Succeeds(log, e) == Verdict(log, e) \in {"ok", "duplicate"}

=============================================================================
