------------------------- MODULE AgentRecords_proof -------------------------
(***************************************************************************)
(* The legality of agentstore's histories and the freshness of its         *)
(* answers, for any callers, requests, cursors and bounds.                 *)
(*                                                                         *)
(* IInv is the inductive invariant.  Its parts, for the journal's events h: *)
(*   EventOK, LegalHistory  every event is legal where it stands, and an   *)
(*                    append that was abandoned is legal at the head, which *)
(*                    is all it can still commit at;                       *)
(*   CallOK           the types of a call, and nothing read ahead of h;    *)
(*   LookedKnow       what a looked call has found is still there;         *)
(*   PinnedDecided    what a pinned call decided is right for as long as   *)
(*                    the head it read is the head;                        *)
(*   Overtaken        a call's attempts are behind the head it has read;   *)
(*   Answered         an answer is what the journal says at its event;     *)
(*   Counted          the room the journal has for what is under way.      *)
(*                                                                         *)
(* A pinned call reads its events after its head, so an append at that     *)
(* very head means that they were the same events (head <= seen <= length):*)
(* no property of the projections is needed.  The looked calls, which      *)
(* append wherever the journal has got to, and the answers, which are      *)
(* computed and not read back, rest on what one more event does to a       *)
(* projection (FoldStep).                                                  *)
(***************************************************************************)
EXTENDS AgentRecords, FiniteSetTheorems, SequenceTheorems, WellFoundedInduction, TLAPS

Kinds == {"effort.created", "effort.transitioned", "run.started", "run.finished",
          "run.corrected", "run.transitioned", "message.sent", "message.acknowledged",
          "activity.recorded", "cursor.advanced"}
Transitions == {"effort.transitioned", "run.transitioned"}

Targets      == {r[1] : r \in Requests} \cup {"none"}
Dispositions == {r[2] : r \in Requests} \cup {"none"}

RecordSet ==
    [what : {"none", "effort", "run"}, status : Status \cup {"none"},
     disp : Dispositions, ended : BOOLEAN, corrected : BOOLEAN]

\* A record of what the fold is about, or none.
RecordOK(what, rec) ==
    /\ rec \in RecordSet
    /\ rec.what # "none" => rec.what = what /\ rec.status \in Status

EventSet ==
    {e \in [kind : Kinds, id : Nat, from : Status \cup {"none"}, to : Targets,
            disp : Dispositions, consumer : Consumer \cup {"none"}, cursor : Nat \X Nat] :
        e.kind \in Transitions => e.to \in Status}

ArgSet ==
    [id : Nat, to : Targets, disp : Dispositions, consumer : Consumer \cup {"none"},
     cursor : Nat \X Nat]

CallSet ==
    [pc : {"idle", "head", "events", "append"},
     op : Blind \cup Looked \cup Pinned \cup {"none"}, arg : ArgSet,
     head : Nat, seen : Nat, attempt : 0..MaxAttempts - 1,
     result : {"none", "ok", "error", "exhausted", "invalid", "not found", "conflict"},
     record : RecordSet, at : Nat]

\* The types of a call, and what it may have read of the journal h.
CallOK(k, h, m) ==
    /\ k \in CallSet
    /\ k.head <= Len(h) /\ k.seen <= Len(h) /\ k.at <= Len(h) /\ k.arg.id <= m
    /\ k.pc # "idle" => k.op # "none" /\ k.result = "none"
    /\ k.pc = "events" => k.op \notin Blind

\* What Finish, Correct and Acknowledge look for.
Known(k, h) ==
    /\ k.op \in {"finish", "correct"} => foldRuns(h, k.arg.id).what = "run"
    /\ k.op = "ack" => k.arg.id \in loadMessages(h)

LookedKnow(k, h) == k.op \in Looked /\ k.pc \in {"head", "append"} => Known(k, h)

\* What a pinned call decides on the journal h.
Decided(k, h) ==
    /\ k.op \in Moves => TransitionVerdict(Subject(k, h), k.arg.to, k.arg.disp) = "ok"
    /\ k.op = "advance" => ~cursorLess(k.arg.cursor, foldCursor(h, k.arg.consumer))

PinnedDecided(k, h) ==
    k.op \in Pinned /\ k.pc = "append" =>
        /\ k.op \in Moves => k.head <= k.seen
        /\ k.head = Len(h) => Decided(k, h)

\* The head of the present attempt has been read.
HasHead(k) == k.pc = "append" \/ (k.pc = "events" /\ k.op \in Pinned)

Overtaken(k, h) ==
    /\ k.attempt <= Len(h)
    /\ HasHead(k) => k.attempt <= k.head
    /\ k.result = "exhausted" => MaxAttempts <= Len(h)

Answered(k, h) ==
    k.op \in Moves /\ k.result = "ok" => k.record = Subject(k, SubSeq(h, 1, k.at))

CallInv(k, h, m) ==
    /\ CallOK(k, h, m) /\ LookedKnow(k, h) /\ PinnedDecided(k, h)
    /\ Overtaken(k, h) /\ Answered(k, h)

\* The event e is legal after the journal h.
LegalAfter(h, e) ==
    /\ e.kind = "effort.transitioned" => LegalMove(foldEfforts(h, e.id), e)
    /\ e.kind = "run.transitioned" => LegalMove(foldRuns(h, e.id), e)
    /\ e.kind \in {"run.finished", "run.corrected"} => foldRuns(h, e.id).what = "run"
    /\ e.kind = "message.acknowledged" => e.id \in loadMessages(h)
    /\ e.kind = "cursor.advanced" => ~cursorLess(e.cursor, foldCursor(h, e.consumer))

LegalHistory(h) == \A n \in 1..Len(h) : LegalAfter(SubSeq(h, 1, n - 1), h[n])

\* An event that may commit at the head of the journal h.
EventOK(e, h, m) == e \in EventSet /\ e.id <= m /\ LegalAfter(h, e)

Active == {d \in Caller : call[d].pc # "idle"}

Counted ==
    /\ IsFiniteSet(Active) /\ IsFiniteSet(ghosts)
    /\ Len(log) + Cardinality(Active) + Cardinality(ghosts) <= MaxEvents

IInv ==
    /\ log \in Seq(EventSet) /\ minted \in 0..MaxIds /\ call \in [Caller -> CallSet]
    /\ \A c \in Caller : CallInv(call[c], log, minted)
    /\ \A e \in ghosts : EventOK(e, log, minted)
    /\ LegalHistory(log)
    /\ Counted

-----------------------------------------------------------------------------
(* Induction over the numbers, for a set.                                  *)

LEMMA SetInduction ==
  ASSUME NEW S, 0 \in S, \A n \in Nat : n \in S => n + 1 \in S
  PROVE  \A n \in Nat : n \in S
<1> SUFFICES ASSUME NEW m \in Nat \ S PROVE FALSE
  OBVIOUS
<1>1. IsWellFoundedOn(OpToRel(<, Nat), Nat)
  BY NatLessThanWellFounded
<1>2. PICK n \in Nat \ S : \A k \in Nat \ S : ~(<<k, n>> \in OpToRel(<, Nat))
  BY <1>1, WFMin
<1>3. \A k \in Nat \ S : ~(k < n)
  BY <1>2 DEF OpToRel
<1>4. n \in Nat /\ n \notin S /\ n # 0
  BY <1>2
<1> HIDE <1>1, <1>2
<1>5. PICK k \in Nat : n = k + 1 /\ k < n
  <2>1. n - 1 \in Nat /\ n = (n - 1) + 1 /\ n - 1 < n
    BY <1>4
  <2> QED
    BY <2>1
<1>6. k \in S
  BY <1>3, <1>5
<1> QED
  BY <1>4, <1>5, <1>6

-----------------------------------------------------------------------------
(* The projections.                                                        *)

\* One event taken into the record of an ID.
Taken(what, id, rec, e) == IF e.id # id THEN rec ELSE Folded(what, rec, e)

\* f gives the record of an ID after each of the first N events of h.
Prefixes(what, h, id, N, f) ==
    f = [n \in 0..N |->
            IF n = 0 THEN NoRecord
            ELSE IF h[n].id # id THEN f[n - 1]
            ELSE Folded(what, f[n - 1], h[n])]

LEMMA PrefixesAre ==
  ASSUME NEW what, NEW h, NEW id, NEW N \in Nat, NEW f, Prefixes(what, h, id, N, f)
  PROVE  f[0] = NoRecord /\ \A n \in 1..N : f[n] = Taken(what, id, f[n - 1], h[n])
<1> DEFINE G(n) == IF n = 0 THEN NoRecord ELSE Taken(what, id, f[n - 1], h[n])
<1>1. f = [n \in 0..N |-> G(n)]
  BY DEF Prefixes, Taken
<1>2. \A n \in 0..N : f[n] = G(n)
  <2> HIDE DEF G
  <2> QED
    BY <1>1
<1> QED
  BY <1>2

LEMMA PrefixesMake ==
  ASSUME NEW what, NEW h, NEW id, NEW N \in Nat, NEW f,
         f = [n \in 0..N |-> f[n]],
         f[0] = NoRecord, \A n \in 1..N : f[n] = Taken(what, id, f[n - 1], h[n])
  PROVE  Prefixes(what, h, id, N, f)
<1> DEFINE G(n) == IF n = 0 THEN NoRecord ELSE Taken(what, id, f[n - 1], h[n])
<1>1. \A n \in 0..N : f[n] = G(n)
  <2>1. TAKE n \in 0..N
  <2>2. n = 0 \/ n \in 1..N
    OBVIOUS
  <2> QED
    BY <2>2
<1>2. f = [n \in 0..N |-> G(n)]
  <2> HIDE DEF G
  <2> QED
    BY <1>1
<1> QED
  BY <1>2 DEF Prefixes, Taken

LEMMA PrefixesExist ==
  ASSUME NEW what, NEW h, NEW id
  PROVE  \A N \in Nat : \E f : Prefixes(what, h, id, N, f)
<1> DEFINE S == {N \in Nat : \E f : Prefixes(what, h, id, N, f)}
<1>1. 0 \in S
  <2>1. PICK f : f = [n \in 0..0 |-> NoRecord]
    OBVIOUS
  <2>2. f[0] = NoRecord /\ f = [n \in 0..0 |-> f[n]]
    BY <2>1
  <2>3. \A n \in 1..0 : f[n] = Taken(what, id, f[n - 1], h[n])
    OBVIOUS
  <2>4. Prefixes(what, h, id, 0, f)
    BY <2>2, <2>3, PrefixesMake
  <2> QED
    BY <2>4
<1>2. ASSUME NEW N \in Nat, N \in S PROVE N + 1 \in S
  <2>1. PICK f : Prefixes(what, h, id, N, f)
    BY <1>2
  <2>2. PICK r : r = Taken(what, id, f[N], h[N + 1])
    OBVIOUS
  <2>3. PICK g : g = [n \in 0..N + 1 |-> IF n = N + 1 THEN r ELSE f[n]]
    OBVIOUS
  <2>4. g = [n \in 0..N + 1 |-> g[n]] /\ g[0] = f[0] /\ g[N + 1] = r
    BY <2>3
  <2>5. \A n \in 0..N : g[n] = f[n]
    BY <2>3
  <2>6. \A n \in 1..N + 1 : g[n] = Taken(what, id, g[n - 1], h[n])
    <3>1. TAKE n \in 1..N + 1
    <3>2. CASE n = N + 1
      <4>1. n - 1 = N /\ N \in 0..N
        BY <3>2
      <4>2. g[n - 1] = f[N]
        BY <2>5, <4>1
      <4>3. g[n] = r
        BY <2>4, <3>2
      <4> QED
        BY <2>2, <3>2, <4>2, <4>3
    <3>3. CASE n # N + 1
      <4>1. n \in 1..N /\ n - 1 \in 0..N /\ n \in 0..N
        BY <3>3
      <4>2. g[n] = f[n] /\ g[n - 1] = f[n - 1]
        BY <2>5, <4>1
      <4>3. f[n] = Taken(what, id, f[n - 1], h[n])
        BY <2>1, <4>1, PrefixesAre
      <4> QED
        BY <4>2, <4>3
    <3> QED
      BY <3>2, <3>3
  <2>7. f[0] = NoRecord
    BY <2>1, PrefixesAre
  <2>8. N + 1 \in Nat
    OBVIOUS
  <2>9. Prefixes(what, h, id, N + 1, g)
    BY <2>4, <2>6, <2>7, <2>8, PrefixesMake
  <2> QED
    BY <2>9
<1>3. \A N \in Nat : N \in S
  <2> HIDE DEF S
  <2> QED
    BY <1>1, <1>2, SetInduction
<1> QED
  BY <1>3

\* The function that foldRecord defines.
LEMMA FoldIs ==
  ASSUME NEW what, NEW h, NEW id, Len(h) \in Nat
  PROVE  \E f : Prefixes(what, h, id, Len(h), f) /\ foldRecord(what, h, id) = f[Len(h)]
<1>1. PICK f : f = CHOOSE g : Prefixes(what, h, id, Len(h), g)
  OBVIOUS
<1>2. \E g : Prefixes(what, h, id, Len(h), g)
  BY PrefixesExist
<1>3. Prefixes(what, h, id, Len(h), f)
  BY <1>1, <1>2
<1>4. foldRecord(what, h, id) = f[Len(h)]
  BY <1>1 DEF foldRecord, Prefixes
<1> QED
  BY <1>3, <1>4

(* Two journals that agree on their beginning give a record the same       *)
(* beginning.                                                              *)
LEMMA PrefixesAgree ==
  ASSUME NEW what, NEW h, NEW g, NEW id, NEW M \in Nat, NEW N \in Nat, M <= N,
         NEW p, Prefixes(what, h, id, M, p), NEW q, Prefixes(what, g, id, N, q),
         \A n \in 1..M : g[n] = h[n]
  PROVE  q[M] = p[M]
<1> DEFINE S == {n \in Nat : n <= M => q[n] = p[n]}
<1>1. 0 \in S
  BY PrefixesAre
<1>2. ASSUME NEW n \in Nat, n \in S PROVE n + 1 \in S
  <2> SUFFICES ASSUME n + 1 <= M PROVE q[n + 1] = p[n + 1]
    OBVIOUS
  <2>1. n + 1 \in 1..M /\ n + 1 \in 1..N /\ (n + 1) - 1 = n /\ q[n] = p[n]
    BY <1>2
  <2>2. p[n + 1] = Taken(what, id, p[n], h[n + 1]) /\ q[n + 1] = Taken(what, id, q[n], g[n + 1])
    BY <2>1, PrefixesAre
  <2> QED
    BY <2>1, <2>2
<1>3. \A n \in Nat : n \in S
  <2> HIDE DEF S
  <2> QED
    BY <1>1, <1>2, SetInduction
<1> QED
  BY <1>3

(* One more event.                                                         *)
LEMMA FoldStep ==
  ASSUME NEW h \in Seq(EventSet), NEW e \in EventSet, NEW what, NEW id
  PROVE  foldRecord(what, Append(h, e), id) = Taken(what, id, foldRecord(what, h, id), e)
<1>1. PICK N \in Nat : N = Len(h)
  OBVIOUS
<1>2. PICK M \in Nat : M = N + 1
  OBVIOUS
<1>3. PICK g : g = Append(h, e)
  OBVIOUS
<1>4. Len(g) = M /\ g[M] = e /\ \A n \in 1..N : g[n] = h[n]
  BY <1>1, <1>2, <1>3
<1>5. PICK p : Prefixes(what, h, id, N, p) /\ foldRecord(what, h, id) = p[N]
  BY <1>1, FoldIs
<1>6. PICK q : Prefixes(what, g, id, M, q) /\ foldRecord(what, g, id) = q[M]
  BY <1>4, FoldIs
<1>7. N <= M /\ M \in 1..M /\ M - 1 = N
  BY <1>2
<1>8. q[N] = p[N]
  BY <1>4, <1>5, <1>6, <1>7, PrefixesAgree
<1>9. \A n \in 1..M : q[n] = Taken(what, id, q[n - 1], g[n])
  BY <1>6, PrefixesAre
<1>10. q[M] = Taken(what, id, q[N], g[M])
  BY <1>7, <1>9
<1> QED
  BY <1>3, <1>4, <1>5, <1>6, <1>8, <1>10

LEMMA NoRecordOK == \A what : RecordOK(what, NoRecord)
  BY DEF RecordOK, NoRecord, RecordSet, Dispositions

LEMMA MovedOK ==
  ASSUME NEW what, NEW rec, RecordOK(what, rec), NEW to \in Status, NEW disp \in Dispositions
  PROVE  RecordOK(what, Moved(rec, to, disp)) /\ Moved(rec, to, disp).what = rec.what
  BY DEF RecordOK, RecordSet, Moved

(* An event leaves a record of its kind in being.                          *)
LEMMA FoldedOK ==
  ASSUME NEW what \in {"effort", "run"}, NEW rec, RecordOK(what, rec), NEW e \in EventSet
  PROVE  /\ RecordOK(what, Folded(what, rec, e))
         /\ rec.what # "none" => Folded(what, rec, e).what = rec.what
<1>1. CASE what = "effort"
  <2>1. Folded(what, rec, e) = FoldEffort(rec, e)
    BY <1>1 DEF Folded
  <2>2. CASE e.kind = "effort.created"
    BY <1>1, <2>1, <2>2 DEF FoldEffort, RecordOK, RecordSet, NoRecord, Status, Dispositions
  <2>3. CASE e.kind = "effort.transitioned" /\ rec.what = "effort"
    <3>1. Folded(what, rec, e) = Moved(rec, e.to, e.disp)
      BY <2>1, <2>3 DEF FoldEffort
    <3> QED
      BY <2>3, <3>1, MovedOK DEF EventSet, Transitions
  <2>4. CASE e.kind # "effort.created" /\ ~(e.kind = "effort.transitioned" /\ rec.what = "effort")
    BY <2>1, <2>4 DEF FoldEffort
  <2> QED
    BY <2>2, <2>3, <2>4
<1>2. CASE what = "run"
  <2>1. Folded(what, rec, e) = FoldRun(rec, e)
    BY <1>2 DEF Folded
  <2>2. CASE e.kind = "run.started"
    BY <1>2, <2>1, <2>2 DEF FoldRun, RecordOK, RecordSet, NoRecord, Status, Dispositions
  <2>3. CASE e.kind = "run.finished" /\ rec.what = "run"
    <3>1. Folded(what, rec, e) = [rec EXCEPT !.ended = TRUE]
      BY <2>1, <2>3 DEF FoldRun
    <3> QED
      BY <3>1 DEF RecordOK, RecordSet
  <2>4. CASE e.kind = "run.corrected" /\ rec.what = "run"
    <3>1. Folded(what, rec, e) = [rec EXCEPT !.corrected = TRUE]
      BY <2>1, <2>4 DEF FoldRun
    <3> QED
      BY <3>1 DEF RecordOK, RecordSet
  <2>5. CASE e.kind = "run.transitioned" /\ rec.what = "run"
    <3>1. Folded(what, rec, e) = Moved(rec, e.to, e.disp)
      BY <2>1, <2>5 DEF FoldRun
    <3> QED
      BY <2>5, <3>1, MovedOK DEF EventSet, Transitions
  <2>6. CASE /\ e.kind # "run.started"
             /\ ~(e.kind \in {"run.finished", "run.corrected", "run.transitioned"} /\ rec.what = "run")
    BY <2>1, <2>6 DEF FoldRun
  <2> QED
    BY <2>2, <2>3, <2>4, <2>5, <2>6
<1> QED
  BY <1>1, <1>2

LEMMA FoldOK ==
  ASSUME NEW what \in {"effort", "run"}, NEW h \in Seq(EventSet), NEW id
  PROVE  RecordOK(what, foldRecord(what, h, id))
<1>1. PICK N \in Nat : N = Len(h)
  OBVIOUS
<1>2. PICK f : Prefixes(what, h, id, N, f) /\ foldRecord(what, h, id) = f[N]
  BY <1>1, FoldIs
<1> DEFINE S == {n \in Nat : n <= N => RecordOK(what, f[n])}
<1>3. 0 \in S
  BY <1>2, PrefixesAre, NoRecordOK
<1>4. ASSUME NEW n \in Nat, n \in S PROVE n + 1 \in S
  <2> SUFFICES ASSUME n + 1 <= N PROVE RecordOK(what, f[n + 1])
    OBVIOUS
  <2>1. n + 1 \in 1..N /\ (n + 1) - 1 = n /\ RecordOK(what, f[n]) /\ h[n + 1] \in EventSet
    BY <1>1, <1>4
  <2>2. \A m \in 1..N : f[m] = Taken(what, id, f[m - 1], h[m])
    BY <1>2, PrefixesAre
  <2>3. f[n + 1] = Taken(what, id, f[n], h[n + 1])
    BY <2>1, <2>2
  <2> QED
    BY <2>1, <2>3, FoldedOK DEF Taken
<1>5. \A n \in Nat : n \in S
  <2> HIDE DEF S
  <2> QED
    BY <1>3, <1>4, SetInduction
<1> QED
  BY <1>2, <1>5

(* A run that is there stays there, and so does a message.                 *)
LEMMA KnownStays ==
  ASSUME NEW h \in Seq(EventSet), NEW e \in EventSet, NEW k, Known(k, h)
  PROVE  Known(k, Append(h, e))
<1>1. CASE k.op \in {"finish", "correct"}
  <2>1. foldRecord("run", h, k.arg.id).what = "run" /\ RecordOK("run", foldRecord("run", h, k.arg.id))
    BY <1>1, FoldOK DEF Known, foldRuns
  <2>2. foldRecord("run", Append(h, e), k.arg.id) = Taken("run", k.arg.id, foldRecord("run", h, k.arg.id), e)
    BY FoldStep
  <2>3. foldRecord("run", Append(h, e), k.arg.id).what = "run"
    BY <2>1, <2>2, FoldedOK DEF Taken
  <2> QED
    BY <1>1, <2>3 DEF Known, foldRuns
<1>2. CASE k.op = "ack"
  <2>1. PICK n \in 1..Len(h) : h[n].kind = "message.sent" /\ h[n].id = k.arg.id
    BY <1>2 DEF Known, loadMessages
  <2>2. n \in 1..Len(Append(h, e)) /\ Append(h, e)[n] = h[n]
    OBVIOUS
  <2>3. k.arg.id \in loadMessages(Append(h, e))
    BY <2>1, <2>2 DEF loadMessages
  <2> QED
    BY <1>2, <2>3 DEF Known
<1> QED
  BY <1>1, <1>2 DEF Known

-----------------------------------------------------------------------------
(* The journal grows.                                                      *)

(* A legal event makes a legal history longer.                             *)
LEMMA HistoryGrows ==
  ASSUME NEW h \in Seq(EventSet), NEW e \in EventSet, LegalHistory(h), LegalAfter(h, e)
  PROVE  LegalHistory(Append(h, e))
<1> DEFINE g == Append(h, e)
<1>1. Len(g) = Len(h) + 1
  OBVIOUS
<1>2. ASSUME NEW n \in 1..Len(g) PROVE LegalAfter(SubSeq(g, 1, n - 1), g[n])
  <2>1. CASE n \in 1..Len(h)
    <3>1. SubSeq(g, 1, n - 1) = SubSeq(h, 1, n - 1) /\ g[n] = h[n]
      BY <2>1
    <3>2. LegalAfter(SubSeq(h, 1, n - 1), h[n])
      BY <2>1 DEF LegalHistory
    <3> QED
      BY <3>1, <3>2
  <2>2. CASE n = Len(h) + 1
    <3>1. SubSeq(g, 1, n - 1) = h /\ g[n] = e
      BY <2>2
    <3> QED
      BY <3>1
  <2> QED
    BY <1>1, <1>2, <2>1, <2>2
<1> QED
  BY <1>2 DEF LegalHistory

LEMMA Attempts == 0 \in 0..MaxAttempts - 1 /\ \A a \in 0..MaxAttempts - 1 : a \in Nat
<1>1. MaxAttempts \in Nat /\ MaxAttempts # 0
  BY RecordsAssumption
<1> QED
  BY <1>1

(* What holds of a call holds of it still when the journal has one more    *)
(* event: what a pinned call decided no longer counts.                     *)
LEMMA CallAppend ==
  ASSUME NEW h \in Seq(EventSet), NEW e \in EventSet, NEW m \in Nat, NEW k, CallInv(k, h, m)
  PROVE  CallInv(k, Append(h, e), m)
<1> DEFINE g == Append(h, e)
<1>1. Len(g) = Len(h) + 1 /\ Len(h) \in Nat
  OBVIOUS
<1>2. k.head \in Nat /\ k.seen \in Nat /\ k.at \in Nat /\ k.attempt \in Nat
  <2>1. k \in CallSet
    BY DEF CallInv, CallOK
  <2> QED
    BY <2>1, Attempts DEF CallSet
<1>3. CallOK(k, g, m)
  BY <1>1, <1>2 DEF CallInv, CallOK
<1>4. LookedKnow(k, g)
  BY KnownStays DEF CallInv, LookedKnow
<1>5. k.head # Len(g)
  BY <1>1, <1>2 DEF CallInv, CallOK
<1>6. PinnedDecided(k, g)
  BY <1>5 DEF CallInv, PinnedDecided
<1>7. Overtaken(k, g)
  <2>1. MaxAttempts \in Nat
    BY RecordsAssumption
  <2> QED
    BY <1>1, <1>2, <2>1 DEF CallInv, Overtaken
<1>8. SubSeq(g, 1, k.at) = SubSeq(h, 1, k.at)
  BY <1>2 DEF CallInv, CallOK
<1>9. Answered(k, g)
  BY <1>8 DEF CallInv, Answered
<1> QED
  BY <1>3, <1>4, <1>6, <1>7, <1>9 DEF CallInv

(* More IDs are no matter.                                                 *)
LEMMA CallMints ==
  ASSUME NEW h, NEW m \in Nat, NEW n \in Nat, m <= n, NEW k, CallInv(k, h, m)
  PROVE  CallInv(k, h, n)
<1>1. k.arg.id \in Nat
  BY DEF CallInv, CallOK, CallSet, ArgSet
<1> QED
  BY <1>1 DEF CallInv, CallOK

-----------------------------------------------------------------------------
(* Calls.                                                                  *)

LEMMA Plans ==
  ASSUME NEW op \in Blind \cup Looked \cup Pinned
  PROVE  /\ Plan(op)[1] = IF op \in Looked THEN "events" ELSE "head"
         /\ After(op, "head") = IF op \in Pinned THEN "events" ELSE "append"
         /\ op \notin Blind => After(op, "events") = IF op \in Pinned THEN "append" ELSE "head"
<1>1. CASE op \in Blind
  <2>1. Plan(op) = <<"head", "append">> /\ op \notin Looked /\ op \notin Pinned
    BY <1>1 DEF Plan, Blind, Looked, Pinned, Moves
  <2>2. After(op, "head") = "append"
    BY <2>1 DEF After, Range
  <2> QED
    BY <1>1, <2>1, <2>2
<1>2. CASE op \in Looked
  <2>1. Plan(op) = <<"events", "head", "append">> /\ op \notin Blind /\ op \notin Pinned
    BY <1>2 DEF Plan, Blind, Looked, Pinned, Moves
  <2>2. After(op, "head") = "append" /\ After(op, "events") = "head"
    BY <2>1 DEF After, Range
  <2> QED
    BY <1>2, <2>1, <2>2
<1>3. CASE op \in Pinned
  <2>1. Plan(op) = <<"head", "events", "append">> /\ op \notin Blind /\ op \notin Looked
    BY <1>3 DEF Plan, Blind, Looked, Pinned, Moves
  <2>2. After(op, "head") = "events" /\ After(op, "events") = "append"
    BY <2>1 DEF After, Range
  <2> QED
    BY <1>3, <2>1, <2>2
<1> QED
  BY <1>1, <1>2, <1>3

LEMMA LenNat == \A h \in Seq(EventSet) : Len(h) \in Nat /\ 0 <= Len(h)
  OBVIOUS

LEMMA NatBound == \A n \in Nat : 0 <= n
  OBVIOUS

LEMMA IdleIs == Idle = [Idle EXCEPT !.result = "none"]
  BY DEF Idle

LEMMA IdleTyped == Idle \in CallSet
<1>1. NoArg \in ArgSet
  BY DEF NoArg, ArgSet, Targets, Dispositions, ZeroCursor
<1>2. NoRecord \in RecordSet
  BY NoRecordOK DEF RecordOK
<1> QED
  BY <1>1, <1>2, Attempts DEF Idle, CallSet

(* A call that is over, and has no answer.                                 *)
LEMMA IdleInv ==
  ASSUME NEW h \in Seq(EventSet), NEW m \in Nat,
         NEW result \in {"none", "error", "invalid", "not found", "conflict", "exhausted"},
         result = "exhausted" => MaxAttempts <= Len(h)
  PROVE  CallInv([Idle EXCEPT !.result = result], h, m)
<1>0. Len(h) \in Nat /\ 0 <= Len(h) /\ 0 <= m
  BY LenNat, NatBound, Zenon
<1> DEFINE k == [Idle EXCEPT !.result = result]
<1>1. /\ k.pc = "idle" /\ k.op = "none" /\ k.arg = NoArg /\ k.head = 0 /\ k.seen = 0
      /\ k.attempt = 0 /\ k.result = result /\ k.record = NoRecord /\ k.at = 0
  BY DEF Idle
<1>2. NoArg \in ArgSet /\ NoArg.id = 0
  BY DEF NoArg, ArgSet, Targets, Dispositions, ZeroCursor
<1>4. k \in CallSet
  BY IdleTyped DEF CallSet
<1>5. CallOK(k, h, m)
  <2> HIDE DEF k
  <2>1. k.arg.id = 0 /\ 0 <= Len(h) /\ 0 <= m
    BY <1>0, <1>1, <1>2, Zenon
  <2> QED
    BY <1>1, <1>4, <2>1 DEF CallOK
<1>6. "none" \notin Looked /\ "none" \notin Pinned /\ "none" \notin Moves
  BY DEF Looked, Pinned, Moves
<1>7. LookedKnow(k, h) /\ PinnedDecided(k, h) /\ Answered(k, h)
  BY <1>1, <1>6 DEF LookedKnow, PinnedDecided, Answered
<1>8. Overtaken(k, h)
  <2> HIDE DEF k
  <2>1. ~HasHead(k) /\ 0 <= Len(h)
    BY <1>0, <1>1, Zenon DEF HasHead
  <2> QED
    BY <1>1, <2>1 DEF Overtaken
<1> QED
  BY <1>5, <1>7, <1>8 DEF CallInv

LEMMA CallTyped ==
  ASSUME NEW h, NEW m, NEW k, CallInv(k, h, m)
  PROVE  /\ k \in CallSet /\ k.head \in Nat /\ k.seen \in Nat /\ k.at \in Nat /\ k.attempt \in Nat
         /\ k.arg \in ArgSet /\ k.arg.id \in Nat /\ k.arg.id <= m
         /\ k.op \in Blind \cup Looked \cup Pinned \cup {"none"}
         /\ k.pc # "idle" => k.op \in Blind \cup Looked \cup Pinned /\ k.result = "none"
<1>1. k \in CallSet
  BY DEF CallInv, CallOK
<1>2. k.head \in Nat /\ k.seen \in Nat /\ k.at \in Nat /\ k.attempt \in Nat
  BY <1>1, Attempts DEF CallSet
<1>3. k.arg \in ArgSet /\ k.op \in Blind \cup Looked \cup Pinned \cup {"none"}
  BY <1>1 DEF CallSet
<1> QED
  BY <1>1, <1>2, <1>3 DEF CallInv, CallOK, ArgSet

(* A call that begins.                                                     *)
LEMMA BegunInv ==
  ASSUME NEW h \in Seq(EventSet), NEW m \in Nat, NEW op \in Blind \cup Looked \cup Pinned,
         NEW arg \in ArgSet, arg.id <= m
  PROVE  LET k == [Idle EXCEPT !.pc = Plan(op)[1], !.op = op, !.arg = arg]
         IN  CallInv(k, h, m) /\ k.pc # "idle"
<1>0. Len(h) \in Nat
  OBVIOUS
<1>1. PICK pc \in {"head", "events"} : /\ pc = Plan(op)[1]
                                       /\ pc = "head" => op \notin Looked
                                       /\ pc = "events" => op \in Looked
  BY Plans
<1> DEFINE k == [Idle EXCEPT !.pc = pc, !.op = op, !.arg = arg]
<1>2. /\ k.pc = pc /\ k.op = op /\ k.arg = arg /\ k.head = 0 /\ k.seen = 0
      /\ k.attempt = 0 /\ k.result = "none" /\ k.record = NoRecord /\ k.at = 0
  BY DEF Idle
<1>3. k \in CallSet
  <2>1. NoRecord \in RecordSet
    BY NoRecordOK DEF RecordOK
  <2> QED
    BY <2>1, Attempts DEF Idle, CallSet
<1>4. op \in Looked => op \notin Blind /\ op \notin Pinned
  BY DEF Looked, Blind, Pinned, Moves
<1>5. op # "none"
  BY DEF Looked, Blind, Pinned, Moves
<1> HIDE DEF k
<1>6. CallOK(k, h, m)
  BY <1>0, <1>1, <1>2, <1>3, <1>4, <1>5 DEF CallOK
<1>7. LookedKnow(k, h) /\ PinnedDecided(k, h) /\ Answered(k, h)
  BY <1>1, <1>2 DEF LookedKnow, PinnedDecided, Answered
<1>8. Overtaken(k, h)
  BY <1>0, <1>1, <1>2, <1>4 DEF Overtaken, HasHead
<1>9. CallInv(k, h, m)
  BY <1>6, <1>7, <1>8 DEF CallInv
<1> QED
  BY <1>1, <1>2, <1>9 DEF k

(* The head is read.                                                       *)
LEMMA HeadRead ==
  ASSUME NEW h \in Seq(EventSet), NEW m \in Nat, NEW k, CallInv(k, h, m), k.pc = "head"
  PROVE  LET q == [k EXCEPT !.head = Len(h), !.pc = After(k.op, "head")]
         IN  CallInv(q, h, m) /\ q.pc # "idle"
<1>0. Len(h) \in Nat
  OBVIOUS
<1>1. k \in CallSet /\ k.op \in Blind \cup Looked \cup Pinned
  BY CallTyped
<1>2. PICK pc \in {"append", "events"} : /\ pc = After(k.op, "head")
                                         /\ pc = IF k.op \in Pinned THEN "events" ELSE "append"
  BY <1>1, Plans
<1> DEFINE q == [k EXCEPT !.head = Len(h), !.pc = pc]
<1>3. /\ q.pc = pc /\ q.op = k.op /\ q.arg = k.arg /\ q.head = Len(h) /\ q.seen = k.seen
      /\ q.attempt = k.attempt /\ q.result = k.result /\ q.record = k.record /\ q.at = k.at
  BY <1>1 DEF CallSet
<1>4. q \in CallSet
  BY <1>0, <1>1 DEF CallSet
<1>5. k.op \in Pinned => k.op \notin Blind
  BY DEF Blind, Pinned, Moves
<1> HIDE DEF q
<1>6. CallOK(q, h, m)
  BY <1>0, <1>2, <1>3, <1>4, <1>5 DEF CallInv, CallOK
<1>7. LookedKnow(q, h)
  BY <1>3 DEF CallInv, LookedKnow, Known
<1>8. PinnedDecided(q, h)
  BY <1>2, <1>3 DEF PinnedDecided
<1>9. Overtaken(q, h) /\ Answered(q, h)
  BY <1>3 DEF CallInv, Overtaken, Answered, Subject
<1>10. CallInv(q, h, m)
  BY <1>6, <1>7, <1>8, <1>9 DEF CallInv
<1> QED
  BY <1>2, <1>3, <1>10 DEF q

LEMMA Verdicts ==
  ASSUME NEW k, k.op \in Looked \cup Pinned
  PROVE  /\ Verdict(k) \in {"ok", "not found", "invalid", "conflict"}
         /\ Verdict(k) = "ok" => Known(k, log) /\ Decided(k, log)
<1>1. k.op \in {"ack", "finish", "correct", "advance", "move_effort", "move_run"}
  BY DEF Looked, Pinned, Moves
<1>2. CASE k.op = "ack"
  BY <1>2 DEF Verdict, Known, Decided, Moves
<1>3. CASE k.op = "finish"
  BY <1>3 DEF Verdict, FinishVerdict, Known, Decided, Moves
<1>4. CASE k.op = "correct"
  BY <1>4 DEF Verdict, Known, Decided, Moves
<1>5. CASE k.op = "advance"
  BY <1>5 DEF Verdict, AdvanceVerdict, Known, Decided, Moves
<1>6. CASE k.op \in Moves
  <2>1. Verdict(k) = TransitionVerdict(Subject(k, log), k.arg.to, k.arg.disp)
    BY <1>6 DEF Verdict, Moves
  <2>2. Known(k, log)
    BY <1>6 DEF Known, Moves
  <2>3. Verdict(k) \in {"ok", "not found", "invalid"}
    BY <2>1 DEF TransitionVerdict
  <2> QED
    BY <1>6, <2>1, <2>2, <2>3 DEF Decided, Moves
<1> QED
  BY <1>1, <1>2, <1>3, <1>4, <1>5, <1>6 DEF Moves

(* The events are read, and let the call go on.                            *)
LEMMA EventsRead ==
  ASSUME log \in Seq(EventSet), NEW m \in Nat, NEW k, CallInv(k, log, m), k.pc = "events",
         Verdict(k) = "ok"
  PROVE  LET q == [k EXCEPT !.pc = After(k.op, "events"),
                            !.seen = IF k.op \in Moves THEN Len(log) ELSE 0]
         IN  CallInv(q, log, m) /\ q.pc # "idle"
<1>0. Len(log) \in Nat
  OBVIOUS
<1>1. k \in CallSet /\ k.op \in Looked \cup Pinned /\ k.head \in Nat
  BY CallTyped DEF CallInv, CallOK
<1>2. k.op \notin Blind /\ (k.op \in Looked => k.op \notin Pinned) /\ (k.op \in Moves => k.op \in Pinned)
  BY <1>1 DEF Looked, Blind, Pinned, Moves
<1>3. PICK pc \in {"append", "head"} : /\ pc = After(k.op, "events")
                                       /\ pc = IF k.op \in Pinned THEN "append" ELSE "head"
  BY <1>1, <1>2, Plans
<1>4. PICK seen \in Nat : /\ seen = IF k.op \in Moves THEN Len(log) ELSE 0
                          /\ seen <= Len(log)
  BY <1>0
<1> DEFINE q == [k EXCEPT !.pc = pc, !.seen = seen]
<1>5. /\ q.pc = pc /\ q.op = k.op /\ q.arg = k.arg /\ q.head = k.head /\ q.seen = seen
      /\ q.attempt = k.attempt /\ q.result = k.result /\ q.record = k.record /\ q.at = k.at
  BY <1>1 DEF CallSet
<1>6. q \in CallSet
  BY <1>1 DEF CallSet
<1>7. Known(k, log) /\ Decided(k, log)
  BY <1>1, Verdicts
<1> HIDE DEF q
<1>8. CallOK(q, log, m)
  BY <1>3, <1>4, <1>5, <1>6 DEF CallInv, CallOK
<1>9. LookedKnow(q, log)
  BY <1>5, <1>7 DEF LookedKnow, Known
<1>10. PinnedDecided(q, log)
  <2>1. Decided(q, log)
    BY <1>5, <1>7 DEF Decided, Subject
  <2>2. q.op \in Moves => q.head <= q.seen
    BY <1>4, <1>5 DEF CallInv, CallOK
  <2> QED
    BY <2>1, <2>2 DEF PinnedDecided
<1>11. Overtaken(q, log)
  BY <1>1, <1>3, <1>5 DEF CallInv, Overtaken, HasHead
<1>12. Answered(q, log)
  BY <1>5 DEF CallInv, Answered, Subject
<1>13. CallInv(q, log, m)
  BY <1>8, <1>9, <1>10, <1>11, <1>12 DEF CallInv
<1> QED
  BY <1>3, <1>4, <1>5, <1>13 DEF q

(* The event a call appends at the head it has read is legal there.        *)
LEMMA EventLegal ==
  ASSUME log \in Seq(EventSet), NEW m \in Nat, NEW k, CallInv(k, log, m), k.pc = "append",
         k.head = Len(log)
  PROVE  EventOK(EventOf(k), log, m)
<1>0. Len(log) \in Nat
  OBVIOUS
<1>1. /\ k \in CallSet /\ k.op \in Blind \cup Looked \cup Pinned /\ k.seen \in Nat
      /\ k.arg \in ArgSet /\ k.arg.id \in Nat /\ k.arg.id <= m
  BY CallTyped
<1>2. PICK e : e = EventOf(k)
  OBVIOUS
<1>3. /\ e.kind = EventKind[k.op] /\ e.id = k.arg.id /\ e.to = k.arg.to /\ e.disp = k.arg.disp
      /\ e.consumer = k.arg.consumer /\ e.cursor = k.arg.cursor
      /\ e.from = IF k.op \in Moves THEN Subject(k, Before(k.seen)).status ELSE "none"
  BY <1>2 DEF EventOf
<1>4. k.op \in Looked => Known(k, log)
  BY DEF CallInv, LookedKnow
<1>5. k.op \in Pinned => Decided(k, log)
  BY DEF CallInv, PinnedDecided
<1>6. k.op \in Moves => Before(k.seen) = log
  <2>1. k.op \in Moves => k.seen = Len(log)
    BY <1>0, <1>1 DEF CallInv, PinnedDecided, CallOK, Pinned
  <2> QED
    BY <2>1 DEF Before
<1>7. /\ k.op \in Moves => /\ TransitionVerdict(Subject(k, log), k.arg.to, k.arg.disp) = "ok"
                           /\ RecordOK(IF k.op = "move_effort" THEN "effort" ELSE "run", Subject(k, log))
  BY <1>5, FoldOK DEF Decided, Pinned, Subject, foldEfforts, foldRuns
<1>8. k.op \in Moves => LegalMove(Subject(k, log), e) /\ e.from \in Status /\ e.to \in Status
  <2>1. ASSUME k.op \in Moves PROVE LegalMove(Subject(k, log), e) /\ e.from \in Status
    BY <2>1, <1>3, <1>6, <1>7 DEF TransitionVerdict, LegalMove, RecordOK
  <2>2. ASSUME k.op \in Moves PROVE e.to \in lifecycleTransitions[e.from]
    BY <2>1, <2>2 DEF LegalMove, validateLifecycleTransition
  <2>3. \A s \in Status : lifecycleTransitions[s] \subseteq Status
    BY DEF Status, lifecycleTransitions
  <2> QED
    BY <2>1, <2>2, <2>3
<1>9. /\ e.kind = "effort.transitioned" <=> k.op = "move_effort"
      /\ e.kind = "run.transitioned" <=> k.op = "move_run"
      /\ e.kind \in {"run.finished", "run.corrected"} <=> k.op \in {"finish", "correct"}
      /\ e.kind = "message.acknowledged" <=> k.op = "ack"
      /\ e.kind = "cursor.advanced" <=> k.op = "advance"
      /\ e.kind \in Kinds
  BY <1>1, <1>3 DEF EventKind, Kinds, Blind, Looked, Pinned, Moves
<1>10. LegalAfter(log, e)
  BY <1>3, <1>4, <1>5, <1>8, <1>9
  DEF LegalAfter, Known, Decided, Looked, Pinned, Moves, Subject
<1>11. e \in EventSet
  <2>1. e.from \in Status \cup {"none"}
    BY <1>3, <1>8
  <2>2. /\ e.id \in Nat /\ e.to \in Targets /\ e.disp \in Dispositions
        /\ e.consumer \in Consumer \cup {"none"} /\ e.cursor \in Nat \X Nat
    BY <1>1, <1>3 DEF ArgSet
  <2>3. e = [kind |-> e.kind, id |-> e.id, from |-> e.from, to |-> e.to, disp |-> e.disp,
             consumer |-> e.consumer, cursor |-> e.cursor]
    BY <1>2 DEF EventOf
  <2>4. e.kind \in Transitions => e.to \in Status
    BY <1>8, <1>9 DEF Transitions, Moves
  <2> QED
    BY <1>9, <2>1, <2>2, <2>3, <2>4 DEF EventSet
<1> QED
  BY <1>1, <1>2, <1>3, <1>10, <1>11 DEF EventOK

(* Attempts that are left after a lost race.                               *)
LEMMA RaceLost ==
  ASSUME NEW h \in Seq(EventSet), NEW m \in Nat, NEW k, CallInv(k, h, m), k.pc = "append",
         k.head # Len(h)
  PROVE  /\ GivesUp(k) => MaxAttempts <= Len(h)
         /\ ~GivesUp(k) => CallInv(AfterRace(k), h, m) /\ AfterRace(k).pc # "idle"
<1>0. Len(h) \in Nat /\ MaxAttempts \in Nat
  BY RecordsAssumption
<1>1. k \in CallSet /\ k.head \in Nat /\ k.attempt \in Nat
  BY CallTyped
<1>2. k.attempt <= k.head /\ k.head <= Len(h)
  BY DEF CallInv, Overtaken, HasHead, CallOK
<1>3. k.attempt + 1 <= Len(h)
  BY <1>0, <1>1, <1>2
<1>4. ASSUME GivesUp(k) PROVE MaxAttempts <= Len(h)
  BY <1>0, <1>1, <1>3, <1>4 DEF GivesUp
<1>5. ASSUME ~GivesUp(k) PROVE CallInv(AfterRace(k), h, m) /\ AfterRace(k).pc # "idle"
  <2>1. PICK a \in 0..MaxAttempts - 1 : a = k.attempt + 1
    BY <1>0, <1>1, <1>5 DEF GivesUp
  <2>2. PICK q : q = [k EXCEPT !.pc = "head", !.attempt = a, !.head = 0]
    OBVIOUS
  <2>3. /\ q.pc = "head" /\ q.op = k.op /\ q.arg = k.arg /\ q.head = 0 /\ q.seen = k.seen
        /\ q.attempt = a /\ q.result = k.result /\ q.record = k.record /\ q.at = k.at
    BY <1>1, <2>2 DEF CallSet
  <2>4. q \in CallSet
    BY <1>1, <2>2 DEF CallSet
  <2>5. q = AfterRace(k)
    BY <2>1, <2>2 DEF AfterRace
  <2>6. CallOK(q, h, m)
    BY <1>0, <2>3, <2>4 DEF CallInv, CallOK
  <2>7. LookedKnow(q, h)
    BY <2>3 DEF CallInv, LookedKnow, Known
  <2>8. PinnedDecided(q, h) /\ Answered(q, h)
    BY <2>3 DEF CallInv, PinnedDecided, Answered, Subject
  <2>9. Overtaken(q, h)
    BY <1>0, <1>3, <2>1, <2>3 DEF CallInv, Overtaken, HasHead
  <2> QED
    BY <2>3, <2>5, <2>6, <2>7, <2>8, <2>9 DEF CallInv
<1> QED
  BY <1>4, <1>5

(* A call that ends with nothing committed.                                *)
LEMMA DoneInv ==
  ASSUME NEW h \in Seq(EventSet), NEW m \in Nat, NEW k,
         NEW result \in {"error", "invalid", "not found", "conflict", "exhausted"},
         result = "exhausted" => MaxAttempts <= Len(h)
  PROVE  CallInv(Done(k, result), h, m) /\ Done(k, result).pc = "idle"
<1>1. Done(k, result) = IF result = "exhausted" THEN [Idle EXCEPT !.result = "exhausted"] ELSE Idle
  BY Zenon DEF Done
<1>2. CallInv(Idle, h, m)
  BY IdleIs, IdleInv, Zenon
<1>3. result = "exhausted" => CallInv([Idle EXCEPT !.result = "exhausted"], h, m)
  BY IdleInv, Zenon
<1>4. Idle.pc = "idle" /\ [Idle EXCEPT !.result = "exhausted"].pc = "idle"
  BY DEF Idle
<1> QED
  BY <1>1, <1>2, <1>3, <1>4, Zenon

(* The answer of a transition is what the journal says at its event.       *)
LEMMA AnswerCurrent ==
  ASSUME log \in Seq(EventSet), NEW m \in Nat, NEW k, CallInv(k, log, m), k.pc = "append",
         k.head = Len(log), k.op \in Moves, NEW e \in EventSet, e = EventOf(k)
  PROVE  Answer(k) = Subject(k, Append(log, e)) /\ Answer(k) \in RecordSet
<1>0. Len(log) \in Nat
  OBVIOUS
<1>1. k.seen \in Nat /\ k.op \in Pinned
  BY CallTyped DEF Pinned
<1>2. k.seen = Len(log)
  BY <1>0, <1>1 DEF CallInv, PinnedDecided, CallOK
<1>3. Before(k.seen) = log
  BY <1>2 DEF Before
<1>4. PICK what \in {"effort", "run"} : what = IF k.op = "move_effort" THEN "effort" ELSE "run"
  OBVIOUS
<1>5. PICK rec : rec = foldRecord(what, log, k.arg.id)
  OBVIOUS
<1>6. \A h : Subject(k, h) = foldRecord(what, h, k.arg.id)
  BY <1>4 DEF Subject, foldEfforts, foldRuns
<1>7. Answer(k) = Moved(rec, k.arg.to, k.arg.disp)
  BY <1>3, <1>5, <1>6 DEF Answer
<1>8. RecordOK(what, rec) /\ rec.what # "none"
  <2>1. RecordOK(what, rec)
    BY <1>5, FoldOK
  <2>2. TransitionVerdict(rec, k.arg.to, k.arg.disp) = "ok"
    BY <1>1, <1>5, <1>6 DEF CallInv, PinnedDecided, Decided
  <2> QED
    BY <2>1, <2>2 DEF TransitionVerdict
<1>9. /\ e.id = k.arg.id /\ e.to = k.arg.to /\ e.disp = k.arg.disp
      /\ e.kind = EventKind[k.op]
  BY DEF EventOf
<1>10. e.kind = IF what = "effort" THEN "effort.transitioned" ELSE "run.transitioned"
  BY <1>4, <1>9 DEF EventKind, Moves
<1>11. Folded(what, rec, e) = Moved(rec, e.to, e.disp)
  BY <1>8, <1>10 DEF Folded, FoldEffort, FoldRun, RecordOK
<1>12. foldRecord(what, Append(log, e), k.arg.id) = Folded(what, rec, e)
  BY <1>5, <1>9, FoldStep DEF Taken
<1>13. Answer(k) = Subject(k, Append(log, e))
  BY <1>6, <1>7, <1>9, <1>11, <1>12
<1>14. Answer(k) \in RecordSet
  <2>1. e.to \in Status /\ e.disp \in Dispositions
    BY <1>10 DEF EventSet, Transitions
  <2>2. RecordOK(what, Moved(rec, e.to, e.disp))
    BY <1>8, <2>1, MovedOK
  <2> QED
    BY <1>7, <1>9, <2>2 DEF RecordOK
<1> QED
  BY <1>13, <1>14

(* A call whose event has committed.                                       *)
LEMMA CommittedInv ==
  ASSUME log \in Seq(EventSet), NEW m \in Nat, NEW k, CallInv(k, log, m), k.pc = "append",
         k.head = Len(log), NEW e \in EventSet, e = EventOf(k)
  PROVE  CallInv(Done(k, "ok"), Append(log, e), m) /\ Done(k, "ok").pc = "idle"
<1> DEFINE g == Append(log, e)
<1>0. Len(log) \in Nat /\ Len(g) = Len(log) + 1 /\ g \in Seq(EventSet) /\ SubSeq(g, 1, Len(g)) = g
  OBVIOUS
<1>1. CASE k.op \notin Moves
  <2>1. Done(k, "ok") = Idle
    BY <1>1 DEF Done
  <2>2. Idle = [Idle EXCEPT !.result = "none"] /\ Idle.pc = "idle"
    BY DEF Idle
  <2>3. CallInv([Idle EXCEPT !.result = "none"], g, m)
    BY <1>0, IdleInv
  <2> QED
    BY <2>1, <2>2, <2>3
<1>2. CASE k.op \in Moves
  <2>0. k.op \in Blind \cup Looked \cup Pinned /\ k.arg.id \in Nat /\ k.arg.id <= m
    BY CallTyped
  <2>1. PICK rec \in RecordSet : rec = Answer(k) /\ rec = Subject(k, g)
    BY <1>2, AnswerCurrent
  <2>2. PICK arg : arg = [NoArg EXCEPT !.id = k.arg.id]
    OBVIOUS
  <2>3. arg \in ArgSet /\ arg.id = k.arg.id
    BY <2>0, <2>2 DEF NoArg, ArgSet, Targets, Dispositions, ZeroCursor
  <2>4. PICK at \in Nat : at = Len(g) /\ at = Len(log) + 1
    BY <1>0
  <2>5. PICK q : q = [Idle EXCEPT !.op = k.op, !.arg = arg, !.result = "ok", !.record = rec,
                                  !.at = at]
    OBVIOUS
  <2>6. q = Done(k, "ok")
    BY <1>2, <2>4, <2>1, <2>2, <2>5 DEF Done, Idle
  <2>7. /\ q.pc = "idle" /\ q.op = k.op /\ q.arg = arg /\ q.head = 0 /\ q.seen = 0
        /\ q.attempt = 0 /\ q.result = "ok" /\ q.record = rec /\ q.at = Len(g)
    BY <2>4, <2>5 DEF Idle
  <2>8. q \in CallSet
    BY <2>0, <2>3, <2>5, IdleTyped DEF CallSet
  <2>9. CallOK(q, g, m)
    BY <1>0, <2>0, <2>3, <2>7, <2>8 DEF CallOK
  <2>10. LookedKnow(q, g) /\ PinnedDecided(q, g) /\ Overtaken(q, g)
    BY <1>0, <2>7 DEF LookedKnow, PinnedDecided, Overtaken, HasHead
  <2>11. Answered(q, g)
    <3>1. Subject(q, g) = Subject(k, g)
      BY <2>3, <2>7 DEF Subject
    <3> QED
      BY <1>0, <2>1, <2>7, <3>1 DEF Answered
  <2> QED
    BY <2>6, <2>7, <2>9, <2>10, <2>11 DEF CallInv
<1> QED
  BY <1>1, <1>2

-----------------------------------------------------------------------------
(* The room in the journal.                                                *)

\* What is under way when one call has changed.
LEMMA ActiveChange ==
  ASSUME call \in [Caller -> CallSet], NEW c \in Caller, NEW k, call' = [call EXCEPT ![c] = k],
         IsFiniteSet(Active)
  PROVE  /\ IsFiniteSet(Active') /\ Cardinality(Active) \in Nat /\ Cardinality(Active') \in Nat
         /\ k.pc # "idle" /\ call[c].pc = "idle" => Cardinality(Active') = Cardinality(Active) + 1
         /\ k.pc # "idle" /\ call[c].pc # "idle" => Cardinality(Active') = Cardinality(Active)
         /\ k.pc = "idle" /\ call[c].pc # "idle" => Cardinality(Active') = Cardinality(Active) - 1
         /\ k.pc = "idle" /\ call[c].pc = "idle" => Cardinality(Active') = Cardinality(Active)
<1>1. \A d \in Caller : call'[d] = IF d = c THEN k ELSE call[d]
  OBVIOUS
<1>2. Active' = IF k.pc # "idle" THEN Active \cup {c} ELSE Active \ {c}
  BY <1>1 DEF Active
<1>3. c \in Active <=> call[c].pc # "idle"
  BY DEF Active
<1>4. Cardinality(Active) \in Nat
  BY FS_CardinalityType
<1>5. /\ IsFiniteSet(Active \cup {c}) /\ IsFiniteSet(Active \ {c})
      /\ Cardinality(Active \cup {c}) = IF c \in Active THEN Cardinality(Active) ELSE Cardinality(Active) + 1
      /\ Cardinality(Active \ {c}) = IF c \in Active THEN Cardinality(Active) - 1 ELSE Cardinality(Active)
  BY FS_AddElement, FS_RemoveElement
<1>6. Cardinality(Active \cup {c}) \in Nat /\ Cardinality(Active \ {c}) \in Nat
  BY <1>5, FS_CardinalityType
<1> QED
  BY <1>2, <1>3, <1>4, <1>5, <1>6

-----------------------------------------------------------------------------
(* The steps.                                                              *)

(* One call goes on, ends or begins, and the journal stays as it is.       *)
LEMMA QuietStep ==
  ASSUME IInv, NEW c \in Caller, NEW k, NEW m \in minted..MaxIds, CallInv(k, log, m),
         call' = [call EXCEPT ![c] = k], minted' = m, UNCHANGED <<log, ghosts>>,
         k.pc # "idle" /\ call[c].pc = "idle" => Room(c)
  PROVE  IInv'
<1>1. minted \in Nat /\ m \in Nat /\ minted <= m /\ m \in 0..MaxIds
  BY RecordsAssumption DEF IInv
<1>2. k \in CallSet
  BY DEF CallInv, CallOK
<1>3. call' \in [Caller -> CallSet]
  BY <1>2 DEF IInv
<1>4. \A d \in Caller : CallInv(call'[d], log, m)
  <2>1. TAKE d \in Caller
  <2>2. CallInv(call[d], log, m)
    BY <1>1, CallMints DEF IInv
  <2> QED
    BY <2>2 DEF IInv
<1>5. \A e \in ghosts : EventOK(e, log, m)
  BY <1>1 DEF IInv, EventOK, EventSet
<1>6. Counted'
  <2>1. Counted /\ Len(log) \in Nat /\ Cardinality(ghosts) \in Nat /\ MaxEvents \in Nat
    BY FS_CardinalityType, RecordsAssumption DEF IInv, Counted
  <2>2. IsFiniteSet(Active') /\ Cardinality(Active) \in Nat /\ Cardinality(Active') \in Nat
    BY <2>1, ActiveChange DEF Counted, IInv
  <2>3. CASE Cardinality(Active') <= Cardinality(Active)
    BY <2>1, <2>2, <2>3 DEF Counted
  <2>4. CASE k.pc # "idle" /\ call[c].pc = "idle"
    <3>1. Cardinality(Active') = Cardinality(Active) + 1
      BY <2>1, <2>4, ActiveChange DEF Counted, IInv
    <3>2. Len(log) + Cardinality(Active) + Cardinality(ghosts) < MaxEvents
      BY <2>4 DEF Room, Active
    <3> QED
      BY <2>1, <2>2, <3>1, <3>2 DEF Counted
  <2>5. \/ Cardinality(Active') <= Cardinality(Active)
        \/ k.pc # "idle" /\ call[c].pc = "idle"
    <3>1. \/ Cardinality(Active') = Cardinality(Active)
          \/ Cardinality(Active') = Cardinality(Active) - 1
          \/ k.pc # "idle" /\ call[c].pc = "idle"
      BY <2>1, ActiveChange DEF Counted, IInv
    <3> QED
      BY <2>2, <3>1
  <2> QED
    BY <2>3, <2>4, <2>5
<1> QED
  BY <1>1, <1>3, <1>4, <1>5, <1>6 DEF IInv

(* A call begins.                                                          *)
LEMMA BeginStep ==
  ASSUME IInv, NEW c \in Caller, NEW op \in Blind \cup Looked \cup Pinned,
         NEW m \in minted..MaxIds, NEW arg \in ArgSet, arg.id <= m, Room(c), Begin(c, op, arg),
         minted' = m, UNCHANGED <<log, ghosts>>
  PROVE  IInv'
<1>1. PICK k : k = [Idle EXCEPT !.pc = Plan(op)[1], !.op = op, !.arg = arg]
  OBVIOUS
<1>2. m \in Nat /\ log \in Seq(EventSet)
  BY DEF IInv
<1>3. CallInv(k, log, m)
  BY <1>1, <1>2, BegunInv
<1>4. call' = [call EXCEPT ![c] = k]
  BY <1>1 DEF Begin
<1> QED
  BY <1>3, <1>4, QuietStep

\* The arguments of the calls.
LEMMA Arguments ==
  /\ \A id \in Nat : [NoArg EXCEPT !.id = id] \in ArgSet /\ [NoArg EXCEPT !.id = id].id = id
  /\ \A id \in Nat, r \in Requests :
        LET arg == [NoArg EXCEPT !.id = id, !.to = r[1], !.disp = r[2]]
        IN  arg \in ArgSet /\ arg.id = id
  /\ \A consumer \in Consumer, cursor \in Cursors :
        LET arg == [NoArg EXCEPT !.consumer = consumer, !.cursor = cursor]
        IN  arg \in ArgSet /\ arg.id = 0
<1>1. NoArg \in ArgSet /\ NoArg.id = 0
  BY DEF NoArg, ArgSet, Targets, Dispositions, ZeroCursor
<1>2. \A r \in Requests : r[1] \in Targets /\ r[2] \in Dispositions
  BY DEF Targets, Dispositions
<1>3. \A cursor \in Cursors : cursor \in Nat \X Nat
  BY RecordsAssumption
<1> QED
  BY <1>1, <1>2, <1>3 DEF ArgSet

LEMMA NewStep ==
  ASSUME IInv, NEW c \in Caller, NEW op \in Blind, CallNew(c, op)
  PROVE  IInv'
<1>1. minted \in Nat /\ minted + 1 \in Nat /\ minted + 1 \in minted..MaxIds
  BY RecordsAssumption DEF IInv, CallNew
<1>2. PICK arg : arg = [NoArg EXCEPT !.id = minted + 1]
  OBVIOUS
<1>3. arg \in ArgSet /\ arg.id = minted + 1
  BY <1>1, <1>2, Arguments
<1>4. Room(c) /\ Begin(c, op, arg) /\ minted' = minted + 1 /\ UNCHANGED <<log, ghosts>>
  BY <1>2 DEF CallNew
<1>5. arg.id <= minted + 1
  BY <1>1, <1>3
<1> QED
  BY <1>1, <1>3, <1>4, <1>5, BeginStep

LEMMA WithStep ==
  ASSUME IInv, NEW c \in Caller, NEW op \in Looked \cup Pinned, NEW arg \in ArgSet,
         arg.id <= minted, CallWith(c, op, arg)
  PROVE  IInv'
<1>1. minted \in minted..MaxIds
  BY RecordsAssumption DEF IInv
<1> QED
  BY <1>1, BeginStep DEF CallWith

LEMMA Minted ==
  ASSUME IInv
  PROVE  minted \in minted..MaxIds /\ minted \in Nat /\ 0 <= minted /\ log \in Seq(EventSet)
  BY RecordsAssumption DEF IInv

(* A call ends, and has changed nothing.                                   *)
LEMMA EndStep ==
  ASSUME IInv, NEW c \in Caller,
         NEW result \in {"error", "invalid", "not found", "conflict", "exhausted"},
         result = "exhausted" => MaxAttempts <= Len(log),
         Return(c, result), UNCHANGED <<log, minted, ghosts>>
  PROVE  IInv'
<1>1. PICK k : k = Done(call[c], result)
  OBVIOUS
<1>2. minted \in minted..MaxIds /\ minted \in Nat /\ log \in Seq(EventSet)
  BY Minted, Zenon
<1>3. CallInv(k, log, minted) /\ k.pc = "idle"
  BY <1>1, <1>2, DoneInv
<1>4. call' = [call EXCEPT ![c] = k]
  BY <1>1 DEF Return
<1> QED
  BY <1>2, <1>3, <1>4, QuietStep

LEMMA ReadHeadStep == ASSUME IInv, NEW c \in Caller, ReadHead(c) PROVE IInv'
<1>1. PICK k : k = [call[c] EXCEPT !.head = Len(log), !.pc = After(call[c].op, "head")]
  OBVIOUS
<1>2. minted \in minted..MaxIds /\ minted \in Nat /\ log \in Seq(EventSet)
  BY RecordsAssumption DEF IInv
<1>3. CallInv(call[c], log, minted) /\ call[c].pc = "head"
  BY DEF IInv, ReadHead
<1>4. CallInv(k, log, minted)
  BY <1>1, <1>2, <1>3, HeadRead
<1>5. call' = [call EXCEPT ![c] = k]
  BY <1>1 DEF ReadHead, IInv
<1> QED
  BY <1>2, <1>3, <1>4, <1>5, QuietStep DEF ReadHead

LEMMA ReadEventsStep == ASSUME IInv, NEW c \in Caller, ReadEvents(c) PROVE IInv'
<1>1. minted \in minted..MaxIds /\ minted \in Nat /\ log \in Seq(EventSet)
  BY RecordsAssumption DEF IInv
<1>2. CallInv(call[c], log, minted) /\ call[c].pc = "events" /\ UNCHANGED <<log, minted, ghosts>>
  BY DEF IInv, ReadEvents
<1>3. CASE Verdict(call[c]) = "ok"
  <2>1. PICK k : k = [call[c] EXCEPT !.pc = After(call[c].op, "events"),
                                     !.seen = IF call[c].op \in Moves THEN Len(log) ELSE 0]
    OBVIOUS
  <2>2. CallInv(k, log, minted)
    BY <1>1, <1>2, <1>3, <2>1, EventsRead
  <2>3. call' = [call EXCEPT ![c] = k]
    BY <1>3, <2>1 DEF ReadEvents, IInv
  <2> QED
    BY <1>1, <1>2, <2>2, <2>3, QuietStep
<1>4. CASE Verdict(call[c]) # "ok"
  <2>1. call[c].op \in Looked \cup Pinned
    BY <1>2, CallTyped DEF CallInv, CallOK
  <2>2. Verdict(call[c]) \in {"ok", "not found", "invalid", "conflict"}
    BY <2>1, Verdicts
  <2>3. Return(c, Verdict(call[c]))
    BY <1>4 DEF ReadEvents
  <2> QED
    BY <1>2, <1>4, <2>2, <2>3, EndStep
<1> QED
  BY <1>3, <1>4

LEMMA RacesStep == ASSUME IInv, NEW c \in Caller, AppendRaces(c) PROVE IInv'
<1>1. minted \in minted..MaxIds /\ minted \in Nat /\ log \in Seq(EventSet)
  BY RecordsAssumption DEF IInv
<1>2. /\ CallInv(call[c], log, minted) /\ call[c].pc = "append" /\ call[c].head # Len(log)
      /\ UNCHANGED <<log, minted, ghosts>>
  BY DEF IInv, AppendRaces
<1>3. CASE GivesUp(call[c])
  <2>1. MaxAttempts <= Len(log)
    BY <1>1, <1>2, <1>3, RaceLost
  <2> QED
    BY <1>2, <1>3, <2>1, EndStep DEF AppendRaces
<1>4. CASE ~GivesUp(call[c])
  <2>1. PICK k : k = AfterRace(call[c])
    OBVIOUS
  <2>2. CallInv(k, log, minted)
    BY <1>1, <1>2, <1>4, <2>1, RaceLost
  <2> QED
    BY <1>1, <1>2, <1>4, <2>1, <2>2, QuietStep DEF AppendRaces
<1> QED
  BY <1>3, <1>4

(* The caller goes, and its event may commit.                              *)
LEMMA AbandonStep == ASSUME IInv, NEW c \in Caller, Abandon(c) PROVE IInv'
<1>1. /\ minted \in Nat /\ log \in Seq(EventSet) /\ CallInv(call[c], log, minted)
      /\ call[c].pc = "append" /\ call[c].head = Len(log) /\ UNCHANGED <<log, minted>>
  BY RecordsAssumption DEF IInv, Abandon
<1>2. PICK e : e = EventOf(call[c])
  OBVIOUS
<1>3. EventOK(e, log, minted)
  BY <1>1, <1>2, EventLegal
<1>4. ghosts' = ghosts \cup {e}
  BY <1>2 DEF Abandon
<1>5. PICK k : k = Done(call[c], "error")
  OBVIOUS
<1>6. CallInv(k, log, minted) /\ k.pc = "idle"
  BY <1>1, <1>5, DoneInv
<1>7. call' = [call EXCEPT ![c] = k]
  BY <1>5 DEF Abandon, Return
<1>8. call' \in [Caller -> CallSet] /\ \A d \in Caller : CallInv(call'[d], log, minted)
  BY <1>6, <1>7 DEF IInv, CallInv, CallOK
<1>9. Counted'
  <2>1. Counted /\ Len(log) \in Nat /\ Cardinality(ghosts) \in Nat /\ MaxEvents \in Nat
    BY FS_CardinalityType, RecordsAssumption DEF IInv, Counted
  <2>2. /\ IsFiniteSet(Active') /\ Cardinality(Active) \in Nat /\ Cardinality(Active') \in Nat
        /\ Cardinality(Active') = Cardinality(Active) - 1
    BY <1>1, <1>6, <1>7, <2>1, ActiveChange DEF Counted, IInv
  <2>3. IsFiniteSet(ghosts') /\ Cardinality(ghosts') \in Nat
    BY <1>4, <2>1, FS_AddElement, FS_CardinalityType DEF Counted
  <2>4. Cardinality(ghosts') <= Cardinality(ghosts) + 1
    <3>1. \/ Cardinality(ghosts') = Cardinality(ghosts)
          \/ Cardinality(ghosts') = Cardinality(ghosts) + 1
      BY <1>4, <2>1, FS_AddElement DEF Counted
    <3> QED
      BY <2>1, <3>1
  <2>5. Len(log) + Cardinality(Active) + Cardinality(ghosts) <= MaxEvents /\ Len(log') = Len(log)
    BY <1>1, <2>1 DEF Counted
  <2>6. Len(log') + Cardinality(Active') + Cardinality(ghosts') <= MaxEvents
    BY <2>1, <2>2, <2>3, <2>4, <2>5
  <2> QED
    BY <2>2, <2>3, <2>6 DEF Counted
<1> QED
  BY <1>1, <1>3, <1>4, <1>8, <1>9 DEF IInv

(* An event commits: whoever else has read this head has lost the race.    *)
LEMMA CommitKeeps ==
  ASSUME IInv, NEW e, EventOK(e, log, minted), Commit(e), minted' = minted
  PROVE  /\ log' \in Seq(EventSet) /\ LegalHistory(log') /\ Len(log') = Len(log) + 1
         /\ ghosts' = {} /\ \A c \in Caller : CallInv(call[c], log', minted)
<1>1. log \in Seq(EventSet) /\ e \in EventSet /\ log' = Append(log, e) /\ minted \in Nat
  BY RecordsAssumption DEF IInv, EventOK, Commit
<1>2. LegalHistory(log')
  BY <1>1, HistoryGrows DEF IInv, EventOK
<1>3. \A c \in Caller : CallInv(call[c], log', minted)
  BY <1>1, CallAppend DEF IInv
<1> QED
  BY <1>1, <1>2, <1>3 DEF Commit

LEMMA CommitsStep == ASSUME IInv, NEW c \in Caller, AppendCommits(c) PROVE IInv'
<1>1. /\ minted \in Nat /\ log \in Seq(EventSet) /\ CallInv(call[c], log, minted)
      /\ call[c].pc = "append" /\ call[c].head = Len(log) /\ minted' = minted
  BY RecordsAssumption DEF IInv, AppendCommits
<1>2. PICK e : e = EventOf(call[c])
  OBVIOUS
<1>3. EventOK(e, log, minted) /\ e \in EventSet
  BY <1>1, <1>2, EventLegal DEF EventOK
<1>4. Commit(e)
  BY <1>2 DEF AppendCommits
<1>5. /\ log' \in Seq(EventSet) /\ LegalHistory(log') /\ Len(log') = Len(log) + 1
      /\ ghosts' = {} /\ \A d \in Caller : CallInv(call[d], log', minted)
  BY <1>1, <1>3, <1>4, CommitKeeps
<1>6. PICK k : k = Done(call[c], "ok")
  OBVIOUS
<1>7. CallInv(k, log', minted) /\ k.pc = "idle"
  BY <1>1, <1>2, <1>3, <1>4, <1>6, CommittedInv DEF Commit
<1>8. call' = [call EXCEPT ![c] = k]
  BY <1>6 DEF AppendCommits, Return
<1>9. call' \in [Caller -> CallSet] /\ \A d \in Caller : CallInv(call'[d], log', minted)
  BY <1>5, <1>7, <1>8 DEF IInv, CallInv, CallOK
<1>10. Counted'
  <2>1. Counted /\ Len(log) \in Nat /\ Cardinality(ghosts) \in Nat /\ MaxEvents \in Nat
    BY FS_CardinalityType, RecordsAssumption DEF IInv, Counted
  <2>2. /\ IsFiniteSet(Active') /\ Cardinality(Active) \in Nat /\ Cardinality(Active') \in Nat
        /\ Cardinality(Active') = Cardinality(Active) - 1
    BY <1>1, <1>7, <1>8, <2>1, ActiveChange DEF Counted, IInv
  <2>3. IsFiniteSet(ghosts') /\ Cardinality(ghosts') = 0
    BY <1>5, FS_EmptySet
  <2> QED
    BY <1>5, <2>1, <2>2, <2>3 DEF Counted
<1> QED
  BY <1>1, <1>5, <1>9, <1>10 DEF IInv

LEMMA CommitGhostStep == ASSUME IInv, NEW e \in ghosts, CommitGhost(e) PROVE IInv'
<1>1. EventOK(e, log, minted) /\ Commit(e) /\ minted' = minted /\ call' = call
  BY DEF IInv, CommitGhost
<1>2. /\ log' \in Seq(EventSet) /\ LegalHistory(log') /\ Len(log') = Len(log) + 1
      /\ ghosts' = {} /\ \A d \in Caller : CallInv(call[d], log', minted)
  BY <1>1, CommitKeeps
<1>3. Counted'
  <2>1. Counted /\ Len(log) \in Nat /\ Cardinality(ghosts) \in Nat /\ MaxEvents \in Nat
    BY FS_CardinalityType, RecordsAssumption DEF IInv, Counted
  <2>2. Active' = Active /\ Cardinality(Active) \in Nat
    BY <1>1, <2>1, FS_CardinalityType DEF Active, Counted
  <2>3. IsFiniteSet(ghosts') /\ Cardinality(ghosts') = 0
    BY <1>2, FS_EmptySet
  <2>4. Cardinality(ghosts) # 0
    BY <2>1, FS_EmptySet DEF Counted
  <2> QED
    BY <1>2, <2>1, <2>2, <2>3, <2>4 DEF Counted
<1> QED
  BY <1>1, <1>2, <1>3 DEF IInv

LEMMA Initial == Init => IInv
<1> SUFFICES ASSUME Init PROVE IInv
  OBVIOUS
<1>1. log \in Seq(EventSet) /\ Len(log) = 0 /\ minted = 0 /\ ghosts = {} /\ 0 \in Nat
  BY DEF Init
<1>2. minted \in 0..MaxIds
  BY <1>1, RecordsAssumption
<1>3. call \in [Caller -> CallSet]
  BY IdleTyped DEF Init
<1>4. CallInv(Idle, log, minted)
  BY <1>1, IdleInv, IdleIs, Zenon
<1>5. \A c \in Caller : CallInv(call[c], log, minted)
  BY <1>4 DEF Init
<1>6. LegalHistory(log)
  BY <1>1 DEF LegalHistory
<1>7. Counted
  <2>1. Active = {}
    BY DEF Active, Init, Idle
  <2>2. IsFiniteSet({}) /\ Cardinality({}) = 0
    BY FS_EmptySet
  <2> QED
    BY <1>1, <2>1, <2>2, RecordsAssumption DEF Counted
<1> QED
  BY <1>1, <1>2, <1>3, <1>5, <1>6, <1>7 DEF IInv

(* Every step keeps the invariant.                                         *)
LEMMA Step == IInv /\ [Next]_vars => IInv'
<1> SUFFICES ASSUME IInv, [Next]_vars PROVE IInv'
  OBVIOUS
<1>0. minted \in Nat /\ 0 <= minted /\ \A id \in 1..minted : id \in Nat /\ id <= minted
  BY RecordsAssumption DEF IInv
<1>1. ASSUME NEW c \in Caller, CallCreate(c) \/ CallStart(c) \/ CallRecord(c) PROVE IInv'
  BY <1>1, NewStep DEF CallCreate, CallStart, CallRecord, Blind
<1>2. ASSUME NEW c \in Caller, NEW kind, NEW cites, CallSend(c, kind, cites) PROVE IInv'
  <2>1. CASE validateMessageKind(kind, cites)
    BY <1>2, <2>1, NewStep DEF CallSend, Blind
  <2>2. CASE ~validateMessageKind(kind, cites)
    BY <1>2, <2>2, EndStep DEF CallSend
  <2> QED
    BY <2>1, <2>2
<1>3. ASSUME NEW c \in Caller, NEW id \in 1..minted,
             CallFinish(c, id) \/ CallCorrect(c, id) \/ CallAcknowledge(c, id)
      PROVE  IInv'
  <2>1. PICK arg : arg = [NoArg EXCEPT !.id = id]
    OBVIOUS
  <2>2. arg \in ArgSet /\ arg.id <= minted
    BY <1>0, <2>1, Arguments
  <2> QED
    BY <1>3, <2>1, <2>2, WithStep DEF CallFinish, CallCorrect, CallAcknowledge, Looked
<1>4. ASSUME NEW c \in Caller, NEW id \in 1..minted, NEW r \in Requests,
             TransitionEffort(c, id, r[1], r[2]) \/ TransitionRun(c, id, r[1], r[2])
      PROVE  IInv'
  <2>1. PICK arg : arg = [NoArg EXCEPT !.id = id, !.to = r[1], !.disp = r[2]]
    OBVIOUS
  <2>2. arg \in ArgSet /\ arg.id <= minted
    <3>1. id \in Nat /\ id <= minted
      BY <1>0
    <3>2. arg \in ArgSet /\ arg.id = id
      BY <2>1, <3>1, Arguments
    <3> QED
      BY <3>1, <3>2
  <2> QED
    BY <1>4, <2>1, <2>2, WithStep DEF TransitionEffort, TransitionRun, Pinned, Moves
<1>5. ASSUME NEW c \in Caller, NEW consumer \in Consumer, NEW cursor \in Cursors,
             CallAdvance(c, consumer, cursor)
      PROVE  IInv'
  <2>1. PICK arg : arg = [NoArg EXCEPT !.consumer = consumer, !.cursor = cursor]
    OBVIOUS
  <2>2. arg \in ArgSet /\ arg.id <= minted
    BY <1>0, <2>1, Arguments
  <2> QED
    BY <1>5, <2>1, <2>2, WithStep DEF CallAdvance, Pinned
<1>6. ASSUME NEW c \in Caller,
             ReadHead(c) \/ ReadEvents(c) \/ AppendCommits(c) \/ AppendRaces(c) \/ Abandon(c)
      PROVE  IInv'
  BY <1>6, ReadHeadStep, ReadEventsStep, CommitsStep, RacesStep, AbandonStep
<1>7. ASSUME NEW c \in Caller, JournalFails(c) PROVE IInv'
  BY <1>7, EndStep DEF JournalFails
<1>8. ASSUME NEW e \in ghosts, CommitGhost(e) PROVE IInv'
  BY <1>8, CommitGhostStep
<1>9. CASE UNCHANGED vars
  BY <1>9 DEF vars, IInv, Counted, Active
<1> QED
  BY <1>1, <1>2, <1>3, <1>4, <1>5, <1>6, <1>7, <1>8, <1>9 DEF Next

-----------------------------------------------------------------------------
(* The invariant holds in every reachable state.                           *)
THEOREM Invariance == Spec => []IInv
  BY Initial, Step, PTL DEF Spec

(* Types: every call is one of the plans, within maxAppendRetries, and     *)
(* nothing it has read is ahead of the journal; the records it is answered *)
(* with are in a state of the lifecycle.                                   *)
THEOREM TypeCorrect == Spec => []TypeOK
<1>1. IInv => TypeOK
  <2> SUFFICES ASSUME IInv PROVE TypeOK
    OBVIOUS
  <2>1. Len(log) <= MaxEvents
    <3>1. Len(log) \in Nat /\ Cardinality(Active) \in Nat /\ Cardinality(ghosts) \in Nat
      BY FS_CardinalityType DEF IInv, Counted
    <3> QED
      BY <3>1, RecordsAssumption DEF IInv, Counted
  <2>2. ASSUME NEW c \in Caller
        PROVE  /\ call[c].pc \in {"idle", "head", "events", "append"}
               /\ call[c].op \in Blind \cup Looked \cup Pinned \cup {"none"}
               /\ call[c].attempt \in 0..MaxAttempts - 1
               /\ {call[c].head, call[c].seen, call[c].at} \subseteq 0..Len(log)
               /\ call[c].record.status \in Status \cup {"none"}
    <3>1. CallInv(call[c], log, minted) /\ Len(log) \in Nat
      BY DEF IInv
    <3>2. /\ call[c] \in CallSet /\ call[c].head \in Nat /\ call[c].seen \in Nat
          /\ call[c].at \in Nat
      BY <3>1, CallTyped
    <3>3. call[c].head \in 0..Len(log) /\ call[c].seen \in 0..Len(log) /\ call[c].at \in 0..Len(log)
      BY <3>1, <3>2 DEF CallInv, CallOK
    <3>4. call[c].record \in RecordSet
      BY <3>2 DEF CallSet
    <3> QED
      BY <3>2, <3>3, <3>4 DEF CallSet, RecordSet
  <2>3. \A e \in ghosts : e.id \in 0..minted
    BY RecordsAssumption DEF IInv, EventOK, EventSet
  <2> QED
    BY <2>1, <2>2, <2>3 DEF TypeOK, IInv
<1> QED
  BY <1>1, Invariance, PTL

(* Whatever calls race, abandon their appends or retry, the journal reads  *)
(* as one legal history: no transition is validated against a stale state, *)
(* no cursor moves back, and no event is about a record that was not there *)
(* (effort.go:157, run.go:229, cursor.go:61).                              *)
THEOREM LegalHistories == Spec => []HistoryIsLegal
<1>1. IInv => HistoryIsLegal
  BY DEF IInv, LegalHistory, LegalAfter, HistoryIsLegal, LegalAt, Before
<1> QED
  BY <1>1, Invariance, PTL

(* The record a successful Transition returns, built from its snapshot and *)
(* its own change, is what the journal says at its event (run.go:257,      *)
(* effort.go:191).                                                         *)
THEOREM CurrentAnswers == Spec => []AnswersAreCurrent
<1>1. IInv => AnswersAreCurrent
  BY DEF IInv, CallInv, Answered, AnswersAreCurrent, Before
<1> QED
  BY <1>1, Invariance, PTL

(* Every attempt that failed lost to an event that was appended while it   *)
(* ran: who gives up was overtaken MaxAttempts times (store.go:231).       *)
THEOREM OvertakenAttempts == Spec => []AttemptsAreOvertaken
<1>1. IInv => AttemptsAreOvertaken
  BY DEF IInv, CallInv, Overtaken, AttemptsAreOvertaken
<1> QED
  BY <1>1, Invariance, PTL
=============================================================================
