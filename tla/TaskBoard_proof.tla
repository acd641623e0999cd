--------------------------- MODULE TaskBoard_proof ---------------------------
(***************************************************************************)
(* The types of the task board, whoever shares a clone; and three layers   *)
(* of facts about clones that only one agent works in, for any agents,     *)
(* tasks and stamps.                                                       *)
(*                                                                         *)
(* Alone is what such a clone gives on its own, whatever else happens to   *)
(* it (merges left in conflict, boards salvaged): a command at its commit  *)
(* has rendered the board, a claim on its way to the remote has its row in *)
(* the rows in memory, in the working tree, then in the commit, and it is  *)
(* fresh unless the remote has moved.                                      *)
(*                                                                         *)
(* Own holds until a command goes on with less than the board said: with   *)
(* what it read past conflict markers, or with a rebuild that lost a row.  *)
(*   CloneOK   legal steps lead from the board a clone last shared, which  *)
(*             is the remote's unless it is behind, to the board of its    *)
(*             last commit and on to the board of its working tree; in an  *)
(*             open merge without markers, from the other side to the tree *)
(*   CallOK    what a command is about to write is the edit of the board   *)
(*             that is still there, or a rebuild that keeps its rows;      *)
(*   Accounted claims + Cardinality(Owing) <= releases + (1 if taken).     *)
(* A clone owes a release when the board it last shared has the task taken *)
(* and its own has not, or has it taken by a claim under way: it released  *)
(* the task and has not pushed.  Each such clone has made a release of its *)
(* own, so any of them may push its claim, and only one of them does.      *)
(***************************************************************************)
EXTENDS TaskBoard, FiniteSetTheorems, SequenceTheorems, TLAPS

Transitions == {"enqueue", "claim", "release", "start", "complete", "fail",
                "block", "unblock", "abort"}
Edits == Transitions \cup {"create", "rebuild"}
Again == {"repull", "reread", "rewrite", "recommit", "repush"}
Pcs == {"done", "get", "guard", "file", "list", "pull", "read", "write", "commit", "push"} \cup Again

Boards == [Task -> Seq(Row)]

CallSet ==
    [stamp : Stamp \cup {NoStamp}, enqueue : BOOLEAN, result : {"none", "ErrConflict"}, pc : Pcs,
     task : Task \cup {NoTask}, op : Edits \cup {"none", "query", "sync", "syncpush"},
     sync : BOOLEAN, guard : Status \cup {NoGuard}, seen : Boards]

\* Which commands come to a step.
Fits(op, pc) ==
    /\ pc \in {"get", "guard"} => op \in Transitions
    /\ pc = "pull" => op \in Transitions \cup {"query", "sync"}
    /\ pc = "file" => op = "create"
    /\ pc = "list" => op = "rebuild"
    /\ pc \in {"read", "write", "commit"} => op \in Edits
    /\ pc \in Again => op = "claim"

Shape(k) ==
    /\ k \in CallSet /\ Fits(k.op, k.pc)
    /\ k.op \in Transitions \cup {"create"} => k.task \in Task
    /\ k.enqueue => k.op = "create"

RepoSet == [head : Content, tree : Content, base : Content, theirs : Content,
            staged : SUBSET Task, merge : {"none", "open", "stale"},
            ahead : BOOLEAN, behind : BOOLEAN]

TypeInv ==
    /\ remote \in Content /\ repo \in [Clone -> RepoSet]
    /\ call \in [Agent -> CallSet] /\ \A a \in Agent : Shape(call[a])
    /\ claims \in [Task -> Nat] /\ releases \in [Task -> Nat] /\ fresh \subseteq Agent
    /\ salvaged \in BOOLEAN /\ calls \in 0..MaxCalls /\ failures \in 0..MaxFailures

-----------------------------------------------------------------------------
(* A clone for each agent                                                  *)

OwnClones == \A a, b \in Agent : At[a] = At[b] => a = b

\* The row that a claim writes, first of its task.
Mine(rows, k) ==
    rows[k.task] # <<>> /\ rows[k.task][1] = [status |-> "claimed", stamp |-> k.stamp]

\* A claim, once it has read the board.
Decided == {"write", "commit", "push", "rewrite", "recommit", "repush"}

\* Of a call k in the clone r, whose claim is fresh or not.
AloneOK(k, r, isFresh) ==
    /\ k.pc \in {"commit", "recommit"} => ~r.tree.marked
    /\ k.op = "claim" =>
         /\ k.pc \in {"push"} \cup Again => k.sync
         /\ k.sync /\ k.pc \in Decided \cup {"read", "reread"} => r.merge = "none"
         /\ k.sync /\ k.pc \in Decided => isFresh \/ r.behind
         /\ k.pc \in {"write", "rewrite"} => Mine(k.seen, k)
         /\ k.pc \in {"commit", "recommit"} => Mine(r.tree.rows, k)
         /\ k.pc \in {"push", "repush"} => Mine(r.head.rows, k)

Alone == MarkersStayLocal /\ \A a \in Agent : AloneOK(call[a], repo[At[a]], a \in fresh)

-----------------------------------------------------------------------------
(* And boards that only the transitions change, until one is salvaged      *)

\* Somebody has the task, or had it when it ended.
Taken(rows) == rows # <<>> /\ rows[1].status \notin {"planning", "queued"}

CloneOK(r, m) ==
    /\ ~r.ahead => r.head.rows = r.base.rows
    /\ ~r.behind => r.base.rows = m
    /\ r.merge # "none" => r.behind
    /\ r.merge = "open" => r.theirs.rows = m
    /\ r.tree.marked => r.merge # "none"
    /\ \A t \in Task :
         /\ LegalRows(r.base.rows[t], r.head.rows[t])
         /\ r.merge = "none" => LegalRows(r.head.rows[t], r.tree.rows[t])
         /\ r.merge # "none" /\ ~r.tree.marked => LegalRows(r.theirs.rows[t], r.tree.rows[t])

\* What a command writes of the rows it read.
NewRows(rows, k) ==
    IF k.op = "create" THEN [rows EXCEPT ![k.task] = @ \o Planned]
    ELSE Edit(rows, k.op, k.task, k.stamp)

Accepts(rows, k) == rows[k.task] # <<>> /\ rows[k.task][1].status \in Allowed[k.op]

\* What a command is about to write follows from rows.
Writes(rows, k) ==
    IF k.op = "rebuild" THEN Keeps(rows, k.seen)
    ELSE (k.op \in Transitions => Accepts(rows, k)) /\ k.seen = NewRows(rows, k)

CallOK(k, r) ==
    /\ k.pc \in {"write", "rewrite", "commit", "recommit"} => ~r.tree.marked
    /\ k.pc \in {"write", "rewrite"} => Writes(r.tree.rows, k)
    /\ k.op = "claim" /\ k.pc \in {"commit", "recommit", "push", "repush"} => Taken(r.tree.rows[k.task])
    /\ k.op = "claim" /\ k.pc \in {"push", "repush"} => Taken(r.head.rows[k.task])

Claiming(k, t) == k.op = "claim" /\ k.task = t /\ k.pc \in Decided

Owes(r, k, t) ==
    IF r.merge = "none"
    THEN \/ /\ Taken(r.base.rows[t])
            /\ ~Taken(r.head.rows[t]) \/ ~Taken(r.tree.rows[t]) \/ Claiming(k, t)
         \/ /\ Taken(r.head.rows[t])
            /\ ~Taken(r.tree.rows[t]) \/ (Claiming(k, t) /\ k.pc \notin {"push", "repush"})
    ELSE /\ ~r.tree.marked /\ Taken(r.theirs.rows[t])
         /\ ~Taken(r.tree.rows[t]) \/ Claiming(k, t)

Owing(t) == {a \in Agent : Owes(repo[At[a]], call[a], t)}

One(b) == IF b THEN 1 ELSE 0

Accounted(t) ==
    /\ IsFiniteSet(Owing(t))
    /\ claims[t] + Cardinality(Owing(t)) <= releases[t] + One(Taken(remote.rows[t]))

Own ==
    /\ \A c \in Clone : CloneOK(repo[c], remote.rows)
    /\ \A a \in Agent : CallOK(call[a], repo[At[a]])
    /\ \A t \in Task : Accounted(t)

Full == TypeInv /\ Alone /\ Own

IInv == TypeInv /\ Alone /\ (salvaged \/ Own)

-----------------------------------------------------------------------------
(* Rows, boards and calls keep their types                                 *)

LEMMA RowsTyped ==
  ASSUME NEW rows \in Seq(Row), rows # <<>>
  PROVE  /\ rows[1] \in Row /\ Last(rows) \in Row /\ <<Last(rows)>> \in Seq(Row)
         /\ Len(rows) \in Nat /\ Len(rows) >= 1
         /\ \A row \in Row : /\ [rows EXCEPT ![1] = row] \in Seq(Row)
                             /\ [rows EXCEPT ![1] = row][1] = row
                             /\ [rows EXCEPT ![1] = row] # <<>>
<1>1. /\ Len(rows) \in Nat /\ Len(rows) # 0 /\ DOMAIN rows = 1..Len(rows)
      /\ \A i \in 1..Len(rows) : rows[i] \in Row
  OBVIOUS
<1>2. Last(rows) \in Row /\ rows[1] \in Row
  BY <1>1 DEF Last
<1>3. ASSUME NEW row \in Row
      PROVE  /\ [rows EXCEPT ![1] = row] \in Seq(Row)
             /\ [rows EXCEPT ![1] = row][1] = row
             /\ [rows EXCEPT ![1] = row] # <<>>
  <2> DEFINE f == [rows EXCEPT ![1] = row]
  <2>0. f = [i \in 1..Len(rows) |-> f[i]] /\ \A i \in 1..Len(rows) : f[i] \in Row
    BY <1>1
  <2>5. f[1] = row
    BY <1>1
  <2>1. f = [i \in 1..Len(rows) |-> f[i]] /\ (\A i \in 1..Len(rows) : f[i] \in Row) /\ f[1] = row
    BY <2>0, <2>5
  <2>2. [i \in 1..Len(rows) |-> f[i]] \in Seq(Row)
    BY <1>1, <2>1, IsASeq
  <2>3. DOMAIN f = 1..Len(rows)
    BY <2>1
  <2> HIDE DEF f
  <2>4. f \in Seq(Row) /\ f # <<>>
    BY <1>1, <2>1, <2>2, <2>3
  <2> QED
    BY <2>1, <2>4 DEF f
<1> QED
  BY <1>1, <1>2, <1>3

LEMMA PlannedTyped ==
  ASSUME NEW rows \in Seq(Row)
  PROVE  /\ <<>> \in Seq(Row) /\ Planned \in Seq(Row) /\ rows \o Planned \in Seq(Row)
         /\ rows \o Planned # <<>>
         /\ (rows \o Planned)[1] = IF rows = <<>> THEN Planned[1] ELSE rows[1]
         /\ Planned[1].status = "planning" /\ Planned # <<>>
<1>1. Planned = <<[status |-> "planning", stamp |-> NoStamp]>>
      /\ [status |-> "planning", stamp |-> NoStamp] \in Row
  BY DEF Planned, Row, Status
<1>2. Planned \in Seq(Row) /\ Len(Planned) = 1 /\ Planned[1].status = "planning" /\ Planned # <<>>
  BY <1>1
<1>3. /\ rows \o Planned \in Seq(Row) /\ Len(rows \o Planned) = Len(rows) + 1
      /\ (rows \o Planned)[1] = IF 1 <= Len(rows) THEN rows[1] ELSE Planned[1 - Len(rows)]
  <2>1. PICK one : one = Planned
    OBVIOUS
  <2>2. one \in Seq(Row) /\ Len(one) = 1 /\ Len(rows) \in Nat
    BY <1>2, <2>1
  <2>3. /\ rows \o one \in Seq(Row) /\ Len(rows \o one) = Len(rows) + Len(one)
        /\ \A i \in 1..Len(rows) + Len(one) :
             (rows \o one)[i] = IF i <= Len(rows) THEN rows[i] ELSE one[i - Len(rows)]
    BY <2>2, ConcatProperties
  <2>4. 1 \in 1..Len(rows) + Len(one)
    BY <2>2
  <2> QED
    BY <2>1, <2>2, <2>3, <2>4
<1>4. rows \o Planned # <<>>
  BY <1>3
<1>5. (rows \o Planned)[1] = IF rows = <<>> THEN Planned[1] ELSE rows[1]
  <2>1. CASE rows = <<>>
    <3>1. Len(rows) = 0
      BY <2>1
    <3> QED
      BY <1>3, <2>1, <3>1
  <2>2. CASE rows # <<>>
    <3>1. Len(rows) \in Nat /\ Len(rows) # 0
      BY <2>2
    <3> QED
      BY <1>3, <2>2, <3>1
  <2> QED
    BY <2>1, <2>2
<1> QED
  BY <1>2, <1>3, <1>4, <1>5

LEMMA MovedTyped ==
  ASSUME NEW row \in Row, NEW op \in Transitions, NEW s \in Stamp \cup {NoStamp}
  PROVE  Moved(row, op, s) \in Row /\ Moved(row, op, s).status = NewStatus[op]
<1>1. NewStatus[op] \in Status
  BY DEF NewStatus, Status, Transitions
<1>2. \/ Moved(row, op, s) = [status |-> NewStatus[op], stamp |-> s]
      \/ Moved(row, op, s) = [status |-> NewStatus[op], stamp |-> NoStamp]
      \/ Moved(row, op, s) = [status |-> NewStatus[op], stamp |-> row.stamp]
  BY DEF Moved
<1>3. row.stamp \in Stamp \cup {NoStamp}
  BY DEF Row
<1> QED
  BY <1>1, <1>2, <1>3 DEF Row

LEMMA EditIs ==
  ASSUME NEW rows \in Boards, NEW op \in Transitions, NEW t \in Task, NEW s \in Stamp \cup {NoStamp},
         rows[t] # <<>>
  PROVE  /\ Edit(rows, op, t, s) \in Boards
         /\ Edit(rows, op, t, s)[t] # <<>>
         /\ Edit(rows, op, t, s)[t][1] = Moved(rows[t][1], op, s)
         /\ \A u \in Task : u # t => Edit(rows, op, t, s)[u] = rows[u]
<1>1. rows \in [Task -> Seq(Row)] /\ rows[t] \in Seq(Row)
  BY DEF Boards
<1>2. rows[t][1] \in Row
  BY <1>1, RowsTyped
<1>3. Moved(rows[t][1], op, s) \in Row
  BY <1>2, MovedTyped
<1>4. PICK new : new = [rows[t] EXCEPT ![1] = Moved(rows[t][1], op, s)]
  OBVIOUS
<1>5. new \in Seq(Row) /\ new # <<>> /\ new[1] = Moved(rows[t][1], op, s)
  BY <1>1, <1>3, <1>4, RowsTyped
<1>6. Edit(rows, op, t, s) = [rows EXCEPT ![t] = new]
  BY <1>4 DEF Edit
<1> QED
  BY <1>1, <1>5, <1>6 DEF Boards

LEMMA CreateIs ==
  ASSUME NEW rows \in Boards, NEW t \in Task
  PROVE  /\ [rows EXCEPT ![t] = @ \o Planned] \in Boards
         /\ [rows EXCEPT ![t] = @ \o Planned][t] = rows[t] \o Planned
         /\ \A u \in Task : u # t => [rows EXCEPT ![t] = @ \o Planned][u] = rows[u]
<1>1. rows \in [Task -> Seq(Row)] /\ rows[t] \o Planned \in Seq(Row)
  BY PlannedTyped DEF Boards
<1> QED
  BY <1>1 DEF Boards

LEMMA RebuiltTyped ==
  ASSUME NEW listed \in Boards, NEW rows \in Boards
  PROVE  Rebuilt(listed, rows) \in Boards
<1>1. ASSUME NEW t \in Task
      PROVE  (IF listed[t] = <<>> \/ rows[t] = <<>> THEN listed[t] ELSE <<Last(rows[t])>>) \in Seq(Row)
  BY RowsTyped DEF Boards
<1> QED
  BY <1>1 DEF Rebuilt, Boards

LEMMA NothingTyped == NoRows \in Boards /\ Nothing \in Content
  BY DEF NoRows, Boards, Nothing, Content

LEMMA ContentIs ==
  ASSUME NEW rows \in Boards, NEW marked \in BOOLEAN, NEW files \in SUBSET Task
  PROVE  [rows |-> rows, marked |-> marked, files |-> files] \in Content
  BY DEF Content, Boards

(* The three-way merge leaves no line without a row.                       *)
LEMMA MergedRowsTyped ==
  ASSUME NEW b \in Seq(Row), NEW o \in Seq(Row), NEW r \in Seq(Row), Mergeable(b, o, r)
  PROVE  MergedRows(b, o, r) \in Seq(Row)
<1> DEFINE n == Pick(Len(b), Len(o), Len(r))
<1>1. /\ Len(b) \in Nat /\ Len(o) \in Nat /\ Len(r) \in Nat
      /\ DOMAIN b = 1..Len(b) /\ DOMAIN o = 1..Len(o) /\ DOMAIN r = 1..Len(r)
  OBVIOUS
<1>2. n \in Nat
  BY <1>1 DEF Pick
<1>3. \A i \in 1..Len(b) : Line(b, i) = b[i] /\ b[i] \in Row
  BY <1>1 DEF Line
<1>4. \A i \in 1..Len(o) : Line(o, i) = o[i] /\ o[i] \in Row
  BY <1>1 DEF Line
<1>5. \A i \in 1..Len(r) : Line(r, i) = r[i] /\ r[i] \in Row
  BY <1>1 DEF Line
<1>6. \A i : i \notin 1..Len(b) => Line(b, i) = NoRow
  BY <1>1 DEF Line
<1>7. \A i : i \notin 1..Len(r) => Line(r, i) = NoRow
  BY <1>1 DEF Line
<1>8. OneSide(Len(b), Len(o), Len(r))
  BY DEF Mergeable
<1>9. ASSUME NEW i \in 1..n
      PROVE  Pick(Line(b, i), Line(o, i), Line(r, i)) \in Row
  <2>1. CASE Line(r, i) # Line(b, i)
    <3>1. i \in 1..Len(r)
      <4>1. CASE Len(r) = Len(b)
        BY <1>6, <1>7, <2>1, <4>1
      <4>2. CASE Len(r) # Len(b)
        BY <1>9, <4>2 DEF Pick
      <4> QED
        BY <4>1, <4>2
    <3> QED
      BY <1>5, <2>1, <3>1 DEF Pick
  <2>2. CASE Line(r, i) = Line(b, i)
    <3>1. i \in 1..Len(o)
      <4>1. CASE Len(r) = Len(b)
        BY <1>9, <4>1 DEF Pick
      <4>2. CASE Len(r) # Len(b)
        <5>1. i \in 1..Len(r)
          BY <1>9, <4>2 DEF Pick
        <5>2. Line(b, i) \in Row
          BY <1>5, <2>2, <5>1
        <5>3. i \in 1..Len(b)
          BY <1>6, <5>2, RowAssumption DEF RowAssumption
        <5> QED
          BY <1>8, <4>2, <5>1, <5>3 DEF OneSide
      <4> QED
        BY <4>1, <4>2
    <3> QED
      BY <1>4, <2>2, <3>1 DEF Pick
  <2> QED
    BY <2>1, <2>2
<1>10. MergedRows(b, o, r) = [i \in 1..n |-> Pick(Line(b, i), Line(o, i), Line(r, i))]
  BY DEF MergedRows
<1> HIDE DEF n
<1> QED
  BY <1>2, <1>9, <1>10, IsASeq

-----------------------------------------------------------------------------
(* What a step makes of its call                                           *)

\* k is old at another step.
Same(k, old) ==
    /\ k.op = old.op /\ k.task = old.task /\ k.stamp = old.stamp
    /\ k.sync = old.sync /\ k.enqueue = old.enqueue

\* The call has returned, or goes on with an enqueue.
Over(k) == k.pc = "done" \/ (k.pc = "pull" /\ k.op = "enqueue")

\* The call has no board in hand and has claimed nothing.
Quiet(k) ==
    \/ k.pc \in {"done", "get", "guard", "file", "list", "pull", "read", "repull", "reread"}
    \/ k.pc = "push" /\ k.op # "claim"

LEMMA CallTyped ==
  ASSUME TypeInv, NEW a \in Agent
  PROVE  /\ call[a] \in CallSet /\ Shape(call[a]) /\ Fits(call[a].op, call[a].pc)
         /\ call[a].task \in Task \cup {NoTask} /\ call[a].stamp \in Stamp \cup {NoStamp}
         /\ call[a].seen \in Boards /\ call[a].op \in Edits \cup {"none", "query", "sync", "syncpush"}
         /\ call[a].op \in Transitions \cup {"create"} => call[a].task \in Task
         /\ call[a].sync \in BOOLEAN /\ call[a].pc \in Pcs
<1>1. call[a] \in CallSet /\ Shape(call[a])
  BY DEF TypeInv
<1> QED
  BY <1>1 DEF Shape, CallSet

LEMMA DoneTyped ==
  ASSUME NEW result \in {"none", "ErrConflict"}, NEW t \in Task \cup {NoTask}
  PROVE  /\ Done(result, t) \in CallSet /\ Shape(Done(result, t))
         /\ Done(result, t).pc = "done" /\ Done(result, t).op = "none"
<1>1. Done(result, t) \in CallSet
  BY NothingTyped DEF Done, CallSet, Pcs
<1>2. Done(result, t).pc = "done" /\ Done(result, t).op = "none" /\ Done(result, t).enqueue = FALSE
  BY DEF Done
<1> QED
  BY <1>1, <1>2 DEF Shape, Fits, Again, Edits, Transitions

LEMMA ReturnIs ==
  ASSUME TypeInv, NEW a \in Agent, NEW result, Return(a, result)
  PROVE  \E k : call' = [call EXCEPT ![a] = k] /\ Shape(k) /\ k.pc = "done" /\ k.op = "none"
<1>1. PICK k : k = IF result = "ErrConflict" THEN Done(result, call[a].task) ELSE Done("none", NoTask)
  OBVIOUS
<1>2. call' = [call EXCEPT ![a] = k]
  BY <1>1 DEF Return
<1>3. Shape(k) /\ k.pc = "done" /\ k.op = "none"
  BY <1>1, CallTyped, DoneTyped
<1> QED
  BY <1>2, <1>3

LEMMA GotoIs ==
  ASSUME TypeInv, NEW a \in Agent, NEW pc \in Pcs, Goto(a, pc), Fits(call[a].op, pc)
  PROVE  \E k : call' = [call EXCEPT ![a] = k] /\ Shape(k) /\ Same(k, call[a])
                /\ k.pc = pc /\ k.seen = call[a].seen
<1>1. PICK k : k = [call[a] EXCEPT !.pc = pc]
  OBVIOUS
<1>2. call' = [call EXCEPT ![a] = k]
  BY <1>1 DEF Goto
<1>3. call[a] \in CallSet /\ Shape(call[a])
  BY CallTyped
<1>4. k \in CallSet /\ k.pc = pc
  BY <1>1, <1>3 DEF CallSet
<1>5. Same(k, call[a]) /\ k.seen = call[a].seen
  BY <1>1, <1>3 DEF CallSet, Same
<1>6. Shape(k)
  BY <1>3, <1>4, <1>5 DEF Shape, Same
<1> QED
  BY <1>2, <1>4, <1>5, <1>6

LEMMA KeepIs ==
  ASSUME TypeInv, NEW a \in Agent, NEW pc \in Pcs, NEW rows \in Boards, Keep(a, pc, rows),
         Fits(call[a].op, pc)
  PROVE  \E k : call' = [call EXCEPT ![a] = k] /\ Shape(k) /\ Same(k, call[a])
                /\ k.pc = pc /\ k.seen = rows
<1>1. PICK k : k = [call[a] EXCEPT !.pc = pc, !.seen = rows]
  OBVIOUS
<1>2. call' = [call EXCEPT ![a] = k]
  BY <1>1 DEF Keep
<1>3. call[a] \in CallSet /\ Shape(call[a])
  BY CallTyped
<1>4. k \in CallSet /\ k.pc = pc /\ k.seen = rows
  BY <1>1, <1>3 DEF CallSet
<1>5. Same(k, call[a])
  BY <1>1, <1>3 DEF CallSet, Same
<1>6. Shape(k)
  BY <1>3, <1>4, <1>5 DEF Shape, Same
<1> QED
  BY <1>2, <1>4, <1>5, <1>6

LEMMA SucceedIs ==
  ASSUME TypeInv, NEW a \in Agent, Succeed(a)
  PROVE  \E k : call' = [call EXCEPT ![a] = k] /\ Shape(k) /\ Over(k) /\ k.op \in {"none", "enqueue"}
<1>1. call[a] \in CallSet /\ Shape(call[a])
  BY CallTyped
<1>2. CASE call[a].enqueue
  <2>1. PICK k : k = [call[a] EXCEPT !.pc = "pull", !.op = "enqueue", !.enqueue = FALSE]
    OBVIOUS
  <2>2. call' = [call EXCEPT ![a] = k]
    BY <1>2, <2>1 DEF Succeed
  <2>3. /\ k \in CallSet /\ k.pc = "pull" /\ k.op = "enqueue" /\ k.enqueue = FALSE
        /\ k.task = call[a].task
    BY <1>1, <2>1 DEF CallSet, Pcs, Edits, Transitions
  <2>4. k.task \in Task
    BY <1>1, <1>2, <2>3 DEF Shape
  <2>5. Shape(k)
    BY <2>3, <2>4 DEF Shape, Fits, Again, Transitions
  <2> QED
    BY <2>2, <2>3, <2>5 DEF Over
<1>3. CASE ~call[a].enqueue
  <2>1. Return(a, "ok")
    BY <1>3 DEF Succeed
  <2> QED
    BY <2>1, ReturnIs DEF Over
<1> QED
  BY <1>2, <1>3

LEMMA PushFailedIs ==
  ASSUME TypeInv, NEW a \in Agent, PushFailed(a)
  PROVE  \E k : /\ call' = [call EXCEPT ![a] = k] /\ Shape(k)
                /\ \/ k.pc = "done" /\ k.op = "none"
                   \/ Same(k, call[a]) /\ k.pc = "repull" /\ call[a].pc = "push" /\ call[a].op = "claim"
<1>1. CASE call[a].op = "claim" /\ call[a].pc = "push"
  <2>1. Goto(a, "repull") /\ Fits(call[a].op, "repull") /\ "repull" \in Pcs
    BY <1>1 DEF PushFailed, Fits, Again, Pcs
  <2> QED
    BY <1>1, <2>1, GotoIs
<1>2. CASE ~(call[a].op = "claim" /\ call[a].pc = "push")
  <2>1. Return(a, "error")
    BY <1>2 DEF PushFailed
  <2> QED
    BY <2>1, ReturnIs
<1> QED
  BY <1>1, <1>2

Begins(a) ==
    \/ CallEnqueue(a) \/ CallClaim(a) \/ CallStart(a) \/ CallComplete(a) \/ CallFail(a)
    \/ CallBlock(a) \/ CallUnblock(a) \/ CallRelease(a) \/ CallAborted(a)
    \/ CallStatus(a) \/ CallNew(a) \/ CallRebuild(a)
    \/ CallQuery(a) \/ CallPush(a) \/ CallSync(a)

LEMMA BeginIs ==
  ASSUME TypeInv, NEW a \in Agent, Begins(a)
  PROVE  \E k : /\ Begin(a, k) /\ Shape(k)
                /\ k.pc \in {"get", "file", "list", "pull"} \/ (k.pc = "push" /\ k.op # "claim")
<1> DEFINE Good(k) == /\ Shape(k)
                      /\ k.pc \in {"get", "file", "list", "pull"} \/ (k.pc = "push" /\ k.op # "claim")
<1>1. ASSUME NEW op \in Transitions, NEW s \in Stamp \cup {NoStamp}, CallTransition(a, op, s)
      PROVE  \E k : Begin(a, k) /\ Good(k)
  <2>1. PICK t \in Task, sync \in BOOLEAN :
          Begin(a, [Done("none", t) EXCEPT !.pc = "pull", !.op = op, !.sync = sync, !.stamp = s])
    BY <1>1 DEF CallTransition
  <2>2. PICK k : k = [Done("none", t) EXCEPT !.pc = "pull", !.op = op, !.sync = sync, !.stamp = s]
    OBVIOUS
  <2>3. k \in CallSet
    BY <2>2, NothingTyped DEF Done, CallSet, Edits, Transitions, Pcs
  <2>4. k.pc = "pull" /\ k.op = op /\ k.task = t /\ k.enqueue = FALSE
    BY <2>2 DEF Done
  <2>5. Good(k)
    BY <2>3, <2>4 DEF Shape, Fits, Again, Transitions
  <2> QED
    BY <2>1, <2>2, <2>5
<1>2. ASSUME \/ CallEnqueue(a) \/ CallClaim(a) \/ CallStart(a) \/ CallComplete(a) \/ CallFail(a)
             \/ CallBlock(a) \/ CallUnblock(a) \/ CallRelease(a) \/ CallAborted(a)
      PROVE  \E k : Begin(a, k) /\ Good(k)
  <2>1. \E op \in Transitions, s \in Stamp \cup {NoStamp} : CallTransition(a, op, s)
    BY <1>2 DEF CallEnqueue, CallClaim, CallStart, CallComplete, CallFail, CallBlock, CallUnblock,
                CallRelease, CallAborted, Transitions
  <2> QED
    BY <1>1, <2>1
<1>3. ASSUME CallStatus(a)
      PROVE  \E k : Begin(a, k) /\ Good(k)
  <2>0. PICK op \in StatusTargets, t \in Task, sync \in BOOLEAN :
          \E s \in Allowed[op] :
            Begin(a, [Done("none", t) EXCEPT !.pc = "get", !.op = op, !.sync = sync, !.guard = s])
    BY <1>3 DEF CallStatus
  <2>1. PICK s \in Allowed[op] :
          Begin(a, [Done("none", t) EXCEPT !.pc = "get", !.op = op, !.sync = sync, !.guard = s])
    BY <2>0
  <2>2. PICK k : k = [Done("none", t) EXCEPT !.pc = "get", !.op = op, !.sync = sync, !.guard = s]
    OBVIOUS
  <2>3. op \in Transitions /\ s \in Status
    BY DEF StatusTargets, Transitions, Allowed, Status
  <2>4. k \in CallSet
    BY <2>2, <2>3, NothingTyped DEF Done, CallSet, Edits, Transitions, Pcs
  <2>5. k.pc = "get" /\ k.op = op /\ k.task = t /\ k.enqueue = FALSE
    BY <2>2 DEF Done
  <2>6. Good(k)
    BY <2>3, <2>4, <2>5 DEF Shape, Fits, Again, Transitions
  <2> QED
    BY <2>1, <2>2, <2>6
<1>4. ASSUME CallNew(a)
      PROVE  \E k : Begin(a, k) /\ Good(k)
  <2>1. PICK t \in Task, sync \in BOOLEAN, enqueue \in BOOLEAN :
          Begin(a, [Done("none", t) EXCEPT !.pc = "file", !.op = "create", !.sync = sync, !.enqueue = enqueue])
    BY <1>4 DEF CallNew
  <2>2. PICK k : k = [Done("none", t) EXCEPT !.pc = "file", !.op = "create", !.sync = sync, !.enqueue = enqueue]
    OBVIOUS
  <2>3. k \in CallSet
    BY <2>2, NothingTyped DEF Done, CallSet, Edits, Transitions, Pcs
  <2>4. k.pc = "file" /\ k.op = "create" /\ k.task = t
    BY <2>2 DEF Done
  <2>5. Good(k)
    BY <2>3, <2>4 DEF Shape, Fits, Again, Edits, Transitions
  <2> QED
    BY <2>1, <2>2, <2>5
<1>5. ASSUME CallRebuild(a) \/ CallQuery(a) \/ CallPush(a) \/ CallSync(a)
      PROVE  \E k : Begin(a, k) /\ Good(k)
  <2> DEFINE Plain(k) == /\ k \in CallSet /\ k.enqueue = FALSE
                         /\ \/ k.pc = "list" /\ k.op = "rebuild"
                            \/ k.pc = "pull" /\ k.op \in {"query", "sync"}
                            \/ k.pc = "push" /\ k.op = "syncpush"
  <2>1. /\ Plain([Done("none", NoTask) EXCEPT !.pc = "list", !.op = "rebuild"])
        /\ Plain([Done("none", NoTask) EXCEPT !.pc = "pull", !.op = "query", !.sync = TRUE])
        /\ Plain([Done("none", NoTask) EXCEPT !.pc = "push", !.op = "syncpush", !.sync = TRUE])
        /\ Plain([Done("none", NoTask) EXCEPT !.pc = "pull", !.op = "sync", !.sync = TRUE])
    BY NothingTyped DEF Done, CallSet, Edits, Pcs
  <2>2. \A k : Plain(k) => Good(k)
    BY DEF Shape, Fits, Again, Edits, Transitions
  <2> HIDE DEF Plain, Good
  <2>6. CASE CallRebuild(a)
    BY <2>1, <2>2, <2>6, Zenon DEF CallRebuild
  <2>7. CASE CallQuery(a)
    BY <2>1, <2>2, <2>7, Zenon DEF CallQuery
  <2>8. CASE CallPush(a)
    BY <2>1, <2>2, <2>8, Zenon DEF CallPush
  <2>9. CASE CallSync(a)
    BY <2>1, <2>2, <2>9, Zenon DEF CallSync
  <2> QED
    BY <1>5, <2>6, <2>7, <2>8, <2>9
<1> QED
  BY <1>2, <1>3, <1>4, <1>5 DEF Begins

(* What follows a pull, or stands for it.                                  *)
LEMMA AfterPullIs ==
  ASSUME TypeInv, NEW a \in Agent, AtPull(a), AfterPull(a)
  PROVE  \E k : /\ call' = [call EXCEPT ![a] = k] /\ Shape(k)
                /\ \/ k.pc = "done" /\ k.op = "none"
                   \/ /\ Same(k, call[a])
                      /\ \/ k.pc \in {"guard", "read"}
                         \/ k.pc = "reread" /\ call[a].pc = "repull"
                         \/ k.pc = "push" /\ k.op = "sync"
<1>1. Fits(call[a].op, call[a].pc)
  BY CallTyped
<1>2. \/ Goto(a, "guard") /\ call[a].pc = "get"
      \/ Goto(a, "reread") /\ call[a].pc = "repull"
      \/ Return(a, "ok")
      \/ Goto(a, "push") /\ call[a].op = "sync"
      \/ Goto(a, "read") /\ call[a].pc = "pull" /\ call[a].op \notin {"query", "sync"}
  BY DEF AfterPull, AtPull
<1>3. {"guard", "reread", "push", "read"} \subseteq Pcs
  BY DEF Pcs, Again
<1>4. CASE Return(a, "ok")
  BY <1>4, ReturnIs
<1>5. CASE Goto(a, "guard") /\ call[a].pc = "get"
  <2>1. Fits(call[a].op, "guard")
    BY <1>1, <1>5 DEF Fits, Again, Transitions
  <2> QED
    BY <1>3, <1>5, <2>1, GotoIs DEF Same
<1>6. CASE Goto(a, "reread") /\ call[a].pc = "repull"
  <2>1. Fits(call[a].op, "reread")
    BY <1>1, <1>6 DEF Fits, Again
  <2> QED
    BY <1>3, <1>6, <2>1, GotoIs DEF Same
<1>7. CASE Goto(a, "push") /\ call[a].op = "sync"
  <2>1. Fits(call[a].op, "push")
    BY DEF Fits, Again
  <2> QED
    BY <1>3, <1>7, <2>1, GotoIs DEF Same
<1>8. CASE Goto(a, "read") /\ call[a].pc = "pull" /\ call[a].op \notin {"query", "sync"}
  <2>1. Fits(call[a].op, "read")
    BY <1>1, <1>8 DEF Fits, Again, Edits, Transitions
  <2> QED
    BY <1>3, <1>8, <2>1, GotoIs DEF Same
<1> QED
  BY <1>2, <1>4, <1>5, <1>6, <1>7, <1>8

-----------------------------------------------------------------------------
(* What a step makes of its clone                                          *)

LEMMA CloneTyped ==
  ASSUME TypeInv, NEW a \in Agent
  PROVE  /\ At[a] \in Clone /\ repo[At[a]] \in RepoSet /\ remote \in Content
         /\ {repo[At[a]].head, repo[At[a]].tree, repo[At[a]].base, repo[At[a]].theirs} \subseteq Content
         /\ repo[At[a]].staged \subseteq Task /\ repo[At[a]].merge \in {"none", "open", "stale"}
         /\ repo[At[a]].ahead \in BOOLEAN /\ repo[At[a]].behind \in BOOLEAN
<1>1. At[a] \in Clone /\ repo[At[a]] \in RepoSet /\ remote \in Content
  BY TaskBoardAssumption DEF TaskBoardAssumption, TypeInv
<1> QED
  BY <1>1 DEF RepoSet

LEMMA FieldsTyped ==
  ASSUME NEW s \in Content
  PROVE  s.rows \in Boards /\ s.marked \in BOOLEAN /\ s.files \subseteq Task
  BY DEF Content, Boards

LEMMA MergedIs ==
  ASSUME remote \in Content, NEW r \in RepoSet, NEW conflicts \in SUBSET Task,
         Unmergeable(r) \subseteq conflicts
  PROVE  /\ Merged(r, conflicts) \in Content
         /\ Merged(r, conflicts).marked = (conflicts # {} \/ r.head.marked \/ remote.marked)
         /\ \A t \in Task : t \notin conflicts =>
              Merged(r, conflicts).rows[t] = MergedRows(r.base.rows[t], r.head.rows[t], remote.rows[t])
<1>1. r.head \in Content /\ r.base \in Content
  BY DEF RepoSet
<1>2. /\ r.head.rows \in Boards /\ r.base.rows \in Boards /\ remote.rows \in Boards
      /\ r.head.marked \in BOOLEAN /\ remote.marked \in BOOLEAN
      /\ r.head.files \subseteq Task /\ remote.files \subseteq Task
  BY <1>1, FieldsTyped
<1> DEFINE Row0(t) == IF t \in conflicts THEN r.head.rows[t] \o remote.rows[t]
                      ELSE MergedRows(r.base.rows[t], r.head.rows[t], remote.rows[t])
<1>3. ASSUME NEW t \in Task
      PROVE  Row0(t) \in Seq(Row)
  <2>1. r.base.rows[t] \in Seq(Row) /\ r.head.rows[t] \in Seq(Row) /\ remote.rows[t] \in Seq(Row)
    BY <1>2 DEF Boards
  <2>2. CASE t \in conflicts
    BY <2>1, <2>2, ConcatProperties
  <2>3. CASE t \notin conflicts
    <3>1. Mergeable(r.base.rows[t], r.head.rows[t], remote.rows[t])
      BY <2>3 DEF Unmergeable
    <3> QED
      BY <2>1, <2>3, <3>1, MergedRowsTyped
  <2> QED
    BY <2>2, <2>3
<1> HIDE DEF Row0
<1>4. [t \in Task |-> Row0(t)] \in Boards
  BY <1>3 DEF Boards
<1>5. Merged(r, conflicts) = [rows |-> [t \in Task |-> Row0(t)],
                              marked |-> conflicts # {} \/ r.head.marked \/ remote.marked,
                              files |-> r.head.files \cup remote.files]
  BY DEF Merged, Row0
<1>6. Merged(r, conflicts) \in Content
  BY <1>2, <1>4, <1>5, ContentIs
<1>7. \A t \in Task : t \notin conflicts =>
         Row0(t) = MergedRows(r.base.rows[t], r.head.rows[t], remote.rows[t])
  BY DEF Row0
<1> QED
  BY <1>5, <1>6, <1>7

LEMMA BroughtIs ==
  ASSUME NEW r \in RepoSet, NEW s \in Content
  PROVE  /\ Brought(r, s) \in Content
         /\ Brought(r, s).rows = IF SameBoard(r.tree, r.head) THEN s.rows ELSE r.tree.rows
         /\ Brought(r, s).marked = IF SameBoard(r.tree, r.head) THEN s.marked ELSE r.tree.marked
<1>1. r.tree \in Content
  BY DEF RepoSet
<1>2. /\ r.tree.rows \in Boards /\ s.rows \in Boards
      /\ r.tree.marked \in BOOLEAN /\ s.marked \in BOOLEAN
      /\ r.tree.files \subseteq Task /\ s.files \subseteq Task
  BY <1>1, FieldsTyped
<1> QED
  BY <1>2, ContentIs DEF Brought

(* A pull leaves the clone as it is, or brings it up to the remote.        *)
Pulled(old, r) ==
    LET content == IF old.ahead THEN Merged(old, {}) ELSE remote
    IN  /\ old.behind
        /\ old.ahead => Unmergeable(old) = {}
        /\ r.head = content /\ r.base = remote /\ ~r.behind /\ r.ahead = old.ahead
        /\ r.tree.rows = IF SameBoard(old.tree, old.head) THEN content.rows ELSE old.tree.rows
        /\ r.tree.marked = IF SameBoard(old.tree, old.head) THEN content.marked ELSE old.tree.marked
        /\ SameBoard(old.tree, old.head) \/ SameBoard(content, old.head)

LEMMA PullIs ==
  ASSUME TypeInv, NEW a \in Agent, NothingToPull(a) \/ Pull(a)
  PROVE  \E r, k :
           /\ repo' = [repo EXCEPT ![At[a]] = r] /\ r \in RepoSet
           /\ call' = [call EXCEPT ![a] = k] /\ Shape(k)
           /\ \/ k.pc = "done" /\ k.op = "none"
              \/ /\ Same(k, call[a])
                 /\ \/ k.pc \in {"guard", "read"}
                    \/ k.pc = "reread" /\ call[a].pc = "repull"
                    \/ k.pc = "push" /\ k.op = "sync"
           /\ r.merge = repo[At[a]].merge /\ (call[a].sync => r.merge = "none")
           /\ r = repo[At[a]] \/ (r.merge = "none" /\ Pulled(repo[At[a]], r))
<1> DEFINE old == repo[At[a]]
           content == IF old.ahead THEN Merged(old, {}) ELSE remote
<1>1. PICK k : /\ call' = [call EXCEPT ![a] = k] /\ Shape(k)
               /\ \/ k.pc = "done" /\ k.op = "none"
                  \/ /\ Same(k, call[a])
                     /\ \/ k.pc \in {"guard", "read"}
                        \/ k.pc = "reread" /\ call[a].pc = "repull"
                        \/ k.pc = "push" /\ k.op = "sync"
  BY AfterPullIs DEF NothingToPull, Pull
<1>2. At[a] \in Clone /\ old \in RepoSet /\ remote \in Content /\ repo \in [Clone -> RepoSet]
  BY CloneTyped DEF TypeInv
<1>3. CASE NothingToPull(a)
  <2>1. repo' = [repo EXCEPT ![At[a]] = old]
    BY <1>2, <1>3 DEF NothingToPull
  <2>2. call[a].sync => old.merge = "none"
    BY <1>3 DEF NothingToPull
  <2> QED
    BY <1>1, <1>2, <2>1, <2>2
<1>4. CASE Pull(a)
  <2>1. /\ old.merge = "none" /\ old.behind
        /\ old.ahead => Unmergeable(old) = {}
        /\ SameBoard(old.tree, old.head) \/ SameBoard(content, old.head)
    BY <1>4 DEF Pull, Untouched
  <2>2. content \in Content
    BY <1>2, <2>1, MergedIs
  <2>3. PICK s : s = content
    OBVIOUS
  <2>4. PICK tree : tree = Brought(old, s)
    OBVIOUS
  <2>5. tree \in Content /\ s \in Content
    BY <1>2, <2>2, <2>3, <2>4, BroughtIs
  <2>6. PICK r : r = [old EXCEPT !.head = s, !.tree = tree, !.base = remote, !.behind = FALSE]
    OBVIOUS
  <2>7. repo' = [repo EXCEPT ![At[a]] = r]
    BY <1>4, <2>3, <2>4, <2>6 DEF Pull
  <2>8. r \in RepoSet
    BY <1>2, <2>5, <2>6 DEF RepoSet
  <2>9. /\ r.head = s /\ r.tree = tree /\ r.base = remote /\ r.behind = FALSE
        /\ r.ahead = old.ahead /\ r.merge = old.merge
    BY <1>2, <2>6 DEF RepoSet
  <2>10. /\ tree.rows = IF SameBoard(old.tree, old.head) THEN s.rows ELSE old.tree.rows
         /\ tree.marked = IF SameBoard(old.tree, old.head) THEN s.marked ELSE old.tree.marked
    BY <1>2, <2>4, <2>5, BroughtIs
  <2>11. Pulled(old, r)
    BY <2>1, <2>3, <2>9, <2>10 DEF Pulled
  <2> QED
    BY <1>1, <2>1, <2>7, <2>8, <2>9, <2>11
<1> QED
  BY <1>3, <1>4

LEMMA ConflictsIs ==
  ASSUME TypeInv, NEW a \in Agent, PullConflicts(a)
  PROVE  \E r, k, conflicts :
           /\ repo' = [repo EXCEPT ![At[a]] = r] /\ r \in RepoSet
           /\ call' = [call EXCEPT ![a] = k] /\ Shape(k) /\ k.pc = "done" /\ k.op = "none"
           /\ repo[At[a]].behind /\ repo[At[a]].merge = "none"
           /\ repo[At[a]].ahead
           /\ conflicts \in SUBSET Task /\ Unmergeable(repo[At[a]]) \subseteq conflicts
           /\ SameBoard(repo[At[a]].tree, repo[At[a]].head)
           /\ r.head = repo[At[a]].head /\ r.base = repo[At[a]].base
           /\ r.ahead = repo[At[a]].ahead /\ r.behind = repo[At[a]].behind
           /\ r.theirs = remote /\ r.merge = "open"
           /\ r.tree.rows = Merged(repo[At[a]], conflicts).rows
           /\ r.tree.marked = Merged(repo[At[a]], conflicts).marked
<1> DEFINE old == repo[At[a]]
<1>1. PICK k : call' = [call EXCEPT ![a] = k] /\ Shape(k) /\ k.pc = "done" /\ k.op = "none"
  BY ReturnIs DEF PullConflicts
<1>2. At[a] \in Clone /\ old \in RepoSet /\ remote \in Content
  BY CloneTyped
<1>3. PICK conflicts \in SUBSET Differ(old) :
       /\ old.merge = "none" /\ old.behind /\ old.ahead
       /\ Unmergeable(old) \subseteq conflicts
       /\ SameBoard(old.tree, old.head)
       /\ repo' = [repo EXCEPT ![At[a]] = [old EXCEPT
             !.tree = Brought(old, Merged(old, conflicts)), !.theirs = remote, !.merge = "open"]]
  BY DEF PullConflicts
<1>4. conflicts \in SUBSET Task
  BY DEF Differ
<1>5. Merged(old, conflicts) \in Content
  BY <1>2, <1>3, <1>4, MergedIs
<1>6. PICK tree : tree = Brought(old, Merged(old, conflicts))
  OBVIOUS
<1>7. /\ tree \in Content /\ tree.rows = Merged(old, conflicts).rows
      /\ tree.marked = Merged(old, conflicts).marked
  BY <1>2, <1>3, <1>5, <1>6, BroughtIs
<1>8. PICK r : r = [old EXCEPT !.tree = tree, !.theirs = remote, !.merge = "open"]
  OBVIOUS
<1>9. r \in RepoSet
  BY <1>2, <1>7, <1>8 DEF RepoSet
<1>10. /\ r.head = old.head /\ r.base = old.base /\ r.ahead = old.ahead /\ r.behind = old.behind
       /\ r.theirs = remote /\ r.merge = "open" /\ r.tree = tree
  BY <1>2, <1>8 DEF RepoSet
<1>11. repo' = [repo EXCEPT ![At[a]] = r]
  BY <1>3, <1>6, <1>8
<1> QED
  BY <1>1, <1>3, <1>4, <1>7, <1>9, <1>10, <1>11

(* A board that is read is edited in memory, or the call returns.          *)
LEMMA ReadingsTyped ==
  ASSUME NEW s \in Content, NEW rows \in Readings(s)
  PROVE  /\ rows \in Boards
         /\ ~s.marked => rows = s.rows
<1>1. s.rows \in Boards
  BY FieldsTyped
<1>2. CASE ~s.marked
  BY <1>1, <1>2 DEF Readings
<1>3. CASE s.marked
  <2>2. PICK known \in SUBSET Task : rows = [t \in Task |-> IF t \in known THEN s.rows[t] ELSE <<>>]
    BY <1>3 DEF Readings
  <2>3. rows \in Boards
    BY <1>1, <2>2, PlannedTyped DEF Boards
  <2> QED
    BY <1>3, <2>3
<1> QED
  BY <1>2, <1>3

LEMMA EditsTyped ==
  ASSUME TypeInv, NEW a \in Agent, NEW rows \in Boards, call[a].op \in Transitions \cup {"create"},
         call[a].op \in Transitions => rows[call[a].task] # <<>>
  PROVE  NewRows(rows, call[a]) \in Boards
<1>1. call[a].task \in Task /\ call[a].stamp \in Stamp \cup {NoStamp}
  BY CallTyped
<1>2. CASE call[a].op = "create"
  BY <1>1, <1>2, CreateIs DEF NewRows
<1>3. CASE call[a].op \in Transitions
  <2>1. call[a].op # "create"
    BY <1>3 DEF Transitions
  <2> QED
    BY <1>1, <1>3, <2>1, EditIs DEF NewRows
<1> QED
  BY <1>2, <1>3

LEMMA ReadIs ==
  ASSUME TypeInv, NEW a \in Agent, Read(a) \/ Reread(a)
  PROVE  \E k :
           /\ call' = [call EXCEPT ![a] = k] /\ Shape(k)
           /\ \/ k.pc = "done" /\ k.op = "none"
              \/ /\ Same(k, call[a])
                 /\ \/ k.pc = "write" /\ call[a].pc = "read"
                    \/ k.pc = "rewrite" /\ call[a].pc = "reread" /\ k.op = "claim"
                 /\ \/ k.op = "rebuild"
                    \/ \E rows \in Readings(repo[At[a]].tree) :
                         /\ k.op \in Transitions => Accepts(rows, call[a])
                         /\ k.seen = NewRows(rows, call[a])
           /\ fresh' = IF k.pc \in {"write", "rewrite"} /\ k.op = "claim" /\ k.sync
                          /\ ~repo[At[a]].behind
                       THEN fresh \cup {a} ELSE fresh \ {a}
           /\ salvaged => salvaged'
           /\ ~salvaged' /\ k.pc \in {"write", "rewrite"} =>
                /\ ~repo[At[a]].tree.marked
                /\ k.op = "rebuild" => Keeps(repo[At[a]].tree.rows, k.seen)
<1> DEFINE old == call[a]
           tree == repo[At[a]].tree
           Kept(k) == /\ Same(k, old)
                      /\ \/ k.pc = "write" /\ old.pc = "read"
                         \/ k.pc = "rewrite" /\ old.pc = "reread" /\ k.op = "claim"
                      /\ \/ k.op = "rebuild"
                         \/ \E rows \in Readings(tree) :
                              /\ k.op \in Transitions => Accepts(rows, old)
                              /\ k.seen = NewRows(rows, old)
           Outcome(k) == (k.pc = "done" /\ k.op = "none") \/ Kept(k)
<1>1. /\ tree \in Content /\ tree.marked \in BOOLEAN /\ old.seen \in Boards /\ Fits(old.op, old.pc)
      /\ \A rows \in Readings(tree) : rows \in Boards
  BY CloneTyped, CallTyped, ReadingsTyped, FieldsTyped
<1>2. ASSUME NEW result, Return(a, result)
      PROVE  \E k : call' = [call EXCEPT ![a] = k] /\ Shape(k) /\ Outcome(k)
  BY <1>2, ReturnIs
<1>3. ASSUME NEW pc, NEW rows \in Readings(tree), NEW seen, Keep(a, pc, seen),
             seen = NewRows(rows, old), old.op \in Transitions \cup {"create"},
             old.op \in Transitions => Accepts(rows, old),
             \/ pc = "write" /\ old.pc = "read"
             \/ pc = "rewrite" /\ old.pc = "reread" /\ old.op = "claim"
      PROVE  \E k : call' = [call EXCEPT ![a] = k] /\ Shape(k) /\ Outcome(k)
  <2>1. seen \in Boards
    BY <1>1, <1>3, EditsTyped DEF Accepts
  <2>2. pc \in Pcs /\ Fits(old.op, pc)
    BY <1>1, <1>3 DEF Pcs, Fits, Again
  <2>3. PICK k : call' = [call EXCEPT ![a] = k] /\ Shape(k) /\ Same(k, old) /\ k.pc = pc /\ k.seen = seen
    BY <1>3, <2>1, <2>2, KeepIs
  <2>4. k.op = old.op
    BY <2>3 DEF Same
  <2>5. Outcome(k)
    BY <1>3, <2>3, <2>4
  <2> QED
    BY <2>3, <2>5
<1>4. ASSUME NEW seen \in Boards, Keep(a, "write", seen), old.op = "rebuild", old.pc = "read"
      PROVE  \E k : call' = [call EXCEPT ![a] = k] /\ Shape(k) /\ Outcome(k)
  <2>1. "write" \in Pcs /\ Fits(old.op, "write")
    BY <1>4 DEF Pcs, Fits, Again, Edits
  <2>2. PICK k : call' = [call EXCEPT ![a] = k] /\ Shape(k) /\ Same(k, old) /\ k.pc = "write"
    BY <1>4, <2>1, KeepIs
  <2>3. Outcome(k)
    BY <1>4, <2>2 DEF Same
  <2> QED
    BY <2>2, <2>3
<1>5. \E k : call' = [call EXCEPT ![a] = k] /\ Shape(k) /\ Outcome(k)
  <2>1. CASE Read(a)
    <3>0. old.pc = "read" /\ old.op \in Edits
      BY <1>1, <2>1 DEF Read, Fits
    <3>1. CASE \E rows \in Readings(tree) :
                 IF old.op = "create" THEN Keep(a, "write", [rows EXCEPT ![old.task] = @ \o Planned])
                 ELSE IF old.op = "rebuild" THEN Keep(a, "write", Rebuilt(old.seen, rows))
                 ELSE IF rows[old.task] = <<>> THEN Return(a, "ErrNotFound")
                 ELSE IF rows[old.task][1].status \notin Allowed[old.op] THEN Return(a, "ErrInvalidTransition")
                 ELSE IF NeedsTaskFile(old.op) /\ old.task \notin tree.files THEN Return(a, "ErrNotFound")
                 ELSE Keep(a, "write", Edit(rows, old.op, old.task, old.stamp))
      <4>1. PICK rows \in Readings(tree) :
                 IF old.op = "create" THEN Keep(a, "write", [rows EXCEPT ![old.task] = @ \o Planned])
                 ELSE IF old.op = "rebuild" THEN Keep(a, "write", Rebuilt(old.seen, rows))
                 ELSE IF rows[old.task] = <<>> THEN Return(a, "ErrNotFound")
                 ELSE IF rows[old.task][1].status \notin Allowed[old.op] THEN Return(a, "ErrInvalidTransition")
                 ELSE IF NeedsTaskFile(old.op) /\ old.task \notin tree.files THEN Return(a, "ErrNotFound")
                 ELSE Keep(a, "write", Edit(rows, old.op, old.task, old.stamp))
        BY <3>1
      <4>2. CASE old.op = "create"
        <5>1. Keep(a, "write", NewRows(rows, old)) /\ old.op \notin Transitions
          BY <4>1, <4>2 DEF NewRows, Transitions
        <5> QED
          BY <1>3, <3>0, <4>2, <5>1
      <4>3. CASE old.op = "rebuild"
        <5>1. Keep(a, "write", Rebuilt(old.seen, rows)) /\ Rebuilt(old.seen, rows) \in Boards
          BY <1>1, <4>1, <4>3, RebuiltTyped
        <5> QED
          BY <1>4, <3>0, <4>3, <5>1
      <4>4. CASE old.op \notin {"create", "rebuild"}
        <5>1. old.op \in Transitions
          BY <3>0, <4>4 DEF Edits
        <5>2. \/ Return(a, "ErrNotFound") \/ Return(a, "ErrInvalidTransition")
              \/ /\ rows[old.task] # <<>> /\ rows[old.task][1].status \in Allowed[old.op]
                 /\ Keep(a, "write", Edit(rows, old.op, old.task, old.stamp))
          BY <4>1, <4>4
        <5>3. CASE /\ rows[old.task] # <<>> /\ rows[old.task][1].status \in Allowed[old.op]
                   /\ Keep(a, "write", Edit(rows, old.op, old.task, old.stamp))
          <6>1. Accepts(rows, old) /\ Keep(a, "write", NewRows(rows, old))
            BY <4>4, <5>3 DEF Accepts, NewRows
          <6> QED
            BY <1>3, <3>0, <5>1, <6>1
        <5> QED
          BY <1>2, <5>2, <5>3
      <4> QED
        BY <4>2, <4>3, <4>4
    <3>2. CASE IF old.op = "rebuild" THEN Keep(a, "write", old.seen) ELSE Return(a, "error")
      BY <1>1, <1>2, <1>4, <3>0, <3>2
    <3> QED
      BY <2>1, <3>1, <3>2 DEF Read
  <2>2. CASE Reread(a)
    <3>0. old.pc = "reread" /\ old.op = "claim"
      BY <1>1, <2>2 DEF Reread, Fits, Again
    <3>1. CASE \E rows \in Readings(tree) :
                 IF rows[old.task] = <<>> THEN Return(a, "ErrNotFound")
                 ELSE IF rows[old.task][1].status # "queued" THEN Return(a, "ErrConflict")
                 ELSE Keep(a, "rewrite", Edit(rows, "claim", old.task, old.stamp))
      <4>1. PICK rows \in Readings(tree) :
                 IF rows[old.task] = <<>> THEN Return(a, "ErrNotFound")
                 ELSE IF rows[old.task][1].status # "queued" THEN Return(a, "ErrConflict")
                 ELSE Keep(a, "rewrite", Edit(rows, "claim", old.task, old.stamp))
        BY <3>1
      <4>2. CASE /\ rows[old.task] # <<>> /\ rows[old.task][1].status = "queued"
                 /\ Keep(a, "rewrite", Edit(rows, "claim", old.task, old.stamp))
        <5>1. Accepts(rows, old)
          BY <3>0, <4>2 DEF Accepts, Allowed
        <5>2. Keep(a, "rewrite", NewRows(rows, old))
          BY <3>0, <4>2 DEF NewRows
        <5>3. old.op \in Transitions
          BY <3>0 DEF Transitions
        <5> QED
          BY <1>3, <3>0, <5>1, <5>2, <5>3
      <4> QED
        BY <1>2, <4>1, <4>2
    <3> QED
      BY <1>2, <2>2, <3>1 DEF Reread
  <2> QED
    BY <2>1, <2>2
<1>6. PICK k : call' = [call EXCEPT ![a] = k] /\ Shape(k) /\ Outcome(k)
  BY <1>5
<1>7. call'[a] = k
  BY <1>6 DEF TypeInv
<1>8. Decide(a)
  BY DEF Read, Reread
<1>9. k.pc \in {"write", "rewrite"} => k.op = old.op /\ k.sync = old.sync
  BY <1>6 DEF Same
<1>10. fresh' = IF k.pc \in {"write", "rewrite"} /\ k.op = "claim" /\ k.sync /\ ~repo[At[a]].behind
                THEN fresh \cup {a} ELSE fresh \ {a}
  <2> HIDE DEF Outcome
  <2> QED
    BY <1>7, <1>8, <1>9 DEF Decide
<1>11. /\ salvaged => salvaged'
       /\ ~salvaged' /\ k.pc \in {"write", "rewrite"} =>
            /\ ~tree.marked
            /\ k.op = "rebuild" => Keeps(tree.rows, k.seen)
  <2> HIDE DEF Outcome
  <2> QED
    BY <1>7, <1>8 DEF Decide
<1> QED
  BY <1>6, <1>10, <1>11

LEMMA WriteIs ==
  ASSUME TypeInv, NEW a \in Agent, Write(a)
  PROVE  \E r, k :
           /\ repo' = [repo EXCEPT ![At[a]] = r] /\ r \in RepoSet
           /\ r.tree.rows = call[a].seen /\ ~r.tree.marked
           /\ r.head = repo[At[a]].head /\ r.base = repo[At[a]].base /\ r.theirs = repo[At[a]].theirs
           /\ r.merge = repo[At[a]].merge /\ r.ahead = repo[At[a]].ahead
           /\ r.behind = repo[At[a]].behind
           /\ call' = [call EXCEPT ![a] = k] /\ Shape(k) /\ Same(k, call[a])
           /\ k.pc = IF call[a].pc = "write" THEN "commit" ELSE "recommit"
           /\ call[a].pc \in {"write", "rewrite"}
<1> DEFINE old == repo[At[a]]
<1>1. At[a] \in Clone /\ old \in RepoSet /\ old.tree \in Content
  BY CloneTyped
<1>2. call[a].seen \in Boards /\ old.tree.files \in SUBSET Task
  BY <1>1, CallTyped, FieldsTyped
<1>3. PICK tree : tree = [old.tree EXCEPT !.rows = call[a].seen, !.marked = FALSE]
  OBVIOUS
<1>4. tree \in Content /\ tree.rows = call[a].seen /\ tree.marked = FALSE
  BY <1>1, <1>2, <1>3 DEF Content, Boards
<1>5. PICK r : r = [old EXCEPT !.tree = tree]
  OBVIOUS
<1>6. repo' = [repo EXCEPT ![At[a]] = r]
  BY <1>1, <1>3, <1>5 DEF Write, TypeInv
<1>7. /\ r \in RepoSet /\ r.tree = tree /\ r.head = old.head /\ r.base = old.base
      /\ r.theirs = old.theirs /\ r.merge = old.merge /\ r.ahead = old.ahead
      /\ r.behind = old.behind
  BY <1>1, <1>4, <1>5 DEF RepoSet
<1>8. PICK pc : pc = IF call[a].pc = "write" THEN "commit" ELSE "recommit"
  OBVIOUS
<1>9. call[a].pc \in {"write", "rewrite"} /\ Keep(a, pc, NoRows)
  BY <1>8 DEF Write
<1>10. pc \in Pcs /\ Fits(call[a].op, pc)
  BY <1>8, <1>9, CallTyped DEF Pcs, Fits, Again
<1>11. PICK k : call' = [call EXCEPT ![a] = k] /\ Shape(k) /\ Same(k, call[a]) /\ k.pc = pc
  BY <1>9, <1>10, NothingTyped, KeepIs
<1> QED
  BY <1>4, <1>6, <1>7, <1>8, <1>9, <1>11

LEMMA AddsTyped ==
  ASSUME TypeInv, NEW a \in Agent
  PROVE  Adds(a) \in SUBSET Task
<1>1. NeedsTaskFile(call[a].op) \/ call[a].op = "create" => call[a].task \in Task
  BY CallTyped DEF NeedsTaskFile, Transitions
<1> QED
  BY <1>1 DEF Adds

LEMMA CommitIs ==
  ASSUME TypeInv, NEW a \in Agent, Commit(a)
  PROVE  \E r, k :
           /\ repo' = [repo EXCEPT ![At[a]] = r] /\ r \in RepoSet
           /\ r.tree = repo[At[a]].tree /\ r.head.rows = r.tree.rows /\ r.head.marked = r.tree.marked
           /\ r.ahead /\ r.merge = "none"
           /\ IF repo[At[a]].merge = "none"
              THEN r.base = repo[At[a]].base /\ r.behind = repo[At[a]].behind
              ELSE r.base = repo[At[a]].theirs /\ r.behind = (repo[At[a]].merge = "stale")
           /\ call' = [call EXCEPT ![a] = k] /\ Shape(k)
           /\ call[a].pc \in {"commit", "recommit"}
           /\ \/ Over(k) /\ k.op \in {"none", "enqueue"}
              \/ /\ Same(k, call[a]) /\ k.sync
                 /\ k.pc = IF call[a].pc = "commit" THEN "push" ELSE "repush"
<1> DEFINE old == repo[At[a]]
<1>1. At[a] \in Clone /\ old \in RepoSet
      /\ {old.head, old.tree, old.base, old.theirs} \subseteq Content
      /\ old.staged \subseteq Task
  BY CloneTyped
<1>2. PICK files : files = old.head.files \cup old.theirs.files \cup old.staged \cup Adds(a)
  OBVIOUS
<1>3. files \in SUBSET Task
  BY <1>1, <1>2, AddsTyped, FieldsTyped
<1>4. PICK head : head = [old.tree EXCEPT !.files = files]
  OBVIOUS
<1>5. head \in Content /\ head.rows = old.tree.rows /\ head.marked = old.tree.marked
  BY <1>1, <1>3, <1>4 DEF Content
<1>6. PICK base : base = IF old.merge # "none" THEN old.theirs ELSE old.base
  OBVIOUS
<1>7. PICK behind : behind = IF old.merge # "none" THEN old.merge = "stale" ELSE old.behind
  OBVIOUS
<1>8. PICK r : r = [old EXCEPT !.head = head, !.ahead = TRUE, !.staged = {}, !.merge = "none",
                               !.theirs = Nothing, !.base = base, !.behind = behind]
  OBVIOUS
<1>9. repo' = [repo EXCEPT ![At[a]] = r]
  BY <1>1, <1>2, <1>4, <1>6, <1>7, <1>8 DEF Commit, RepoSet
<1>10. base \in Content /\ behind \in BOOLEAN
  BY <1>1, <1>6, <1>7, CloneTyped
<1>11. r \in RepoSet
  BY <1>1, <1>5, <1>8, <1>10, NothingTyped DEF RepoSet
<1>12. /\ r.tree = old.tree /\ r.head = head /\ r.ahead = TRUE /\ r.merge = "none"
       /\ r.base = base /\ r.behind = behind
  BY <1>1, <1>8 DEF RepoSet
<1>13. call[a].pc \in {"commit", "recommit"}
  BY DEF Commit
<1>14. \E k : /\ call' = [call EXCEPT ![a] = k] /\ Shape(k)
              /\ \/ Over(k) /\ k.op \in {"none", "enqueue"}
                 \/ /\ Same(k, call[a]) /\ k.sync
                    /\ k.pc = IF call[a].pc = "commit" THEN "push" ELSE "repush"
  <2>1. CASE call[a].sync
    <3>1. PICK pc : pc = IF call[a].pc = "commit" THEN "push" ELSE "repush"
      OBVIOUS
    <3>2. Goto(a, pc)
      BY <2>1, <3>1 DEF Commit
    <3>3. pc \in Pcs /\ Fits(call[a].op, pc)
      BY <1>13, <3>1, CallTyped DEF Pcs, Fits, Again
    <3>4. PICK k : call' = [call EXCEPT ![a] = k] /\ Shape(k) /\ Same(k, call[a]) /\ k.pc = pc
      BY <3>2, <3>3, GotoIs
    <3>5. k.sync
      BY <2>1, <3>4 DEF Same
    <3> QED
      BY <3>1, <3>4, <3>5
  <2>2. CASE ~call[a].sync
    <3>1. Succeed(a)
      BY <2>2 DEF Commit
    <3> QED
      BY <3>1, SucceedIs
  <2> QED
    BY <2>1, <2>2
<1>15. IF old.merge = "none" THEN r.base = old.base /\ r.behind = old.behind
       ELSE r.base = old.theirs /\ r.behind = (old.merge = "stale")
  BY <1>6, <1>7, <1>12
<1>16. r.head.rows = r.tree.rows /\ r.head.marked = r.tree.marked /\ r.tree = old.tree
  BY <1>5, <1>12
<1> HIDE DEF old
<1> QED
  BY <1>9, <1>11, <1>12, <1>13, <1>14, <1>15, <1>16, Zenon DEF old

(* The steps that leave every board of the clone as it is.                 *)
SameBoards(r, old) ==
    /\ r.head = old.head /\ r.base = old.base /\ r.theirs = old.theirs
    /\ r.tree.rows = old.tree.rows /\ r.tree.marked = old.tree.marked
    /\ r.merge = old.merge /\ r.ahead = old.ahead /\ r.behind = old.behind

Others(a) ==
    \/ PullRefused(a) \/ GuardCheck(a) \/ WriteTaskFile(a) \/ List(a) \/ CommitRefused(a)
    \/ PushRejected(a) \/ Fails(a) \/ Ends(a)

LEMMA OtherCall ==
  ASSUME TypeInv, NEW a \in Agent, Others(a)
  PROVE  \E k : /\ call' = [call EXCEPT ![a] = k] /\ Shape(k)
                /\ \/ k.pc = "done" /\ k.op = "none"
                   \/ /\ Same(k, call[a])
                      /\ \/ k.pc = "pull"
                         \/ k.pc = "read" /\ k.op \in {"create", "rebuild"}
                         \/ k.pc = "repull" /\ call[a].pc = "push"
<1>1. CASE \E result : Return(a, result)
  BY <1>1, ReturnIs
<1>2. CASE PushFailed(a)
  BY <1>2, PushFailedIs
<1>3. CASE call[a].pc = "guard" /\ Goto(a, "pull")
  <2>1. Fits(call[a].op, "pull") /\ "pull" \in Pcs
    BY <1>3, CallTyped DEF Fits, Pcs, Again
  <2> QED
    BY <1>3, <2>1, GotoIs
<1>4. CASE WriteTaskFile(a)
  <2>1. Goto(a, "read") /\ call[a].op = "create"
    BY <1>4, CallTyped DEF WriteTaskFile, Fits
  <2>2. Fits(call[a].op, "read") /\ "read" \in Pcs
    BY <2>1 DEF Fits, Pcs, Again, Edits
  <2> QED
    BY <2>1, <2>2, GotoIs DEF Same
<1>5. CASE List(a)
  <2>1. PICK listed : listed = [t \in Task |-> IF t \in repo[At[a]].tree.files THEN Planned ELSE <<>>]
    OBVIOUS
  <2>2. listed \in Boards
    <3>1. <<>> \in Seq(Row)
      OBVIOUS
    <3>2. \A t \in Task : (IF t \in repo[At[a]].tree.files THEN Planned ELSE <<>>) \in Seq(Row)
      BY <3>1, PlannedTyped
    <3> QED
      BY <2>1, <3>2 DEF Boards
  <2>3. Keep(a, "read", listed) \/ Return(a, "error")
    BY <1>5, <2>1 DEF List
  <2>4. call[a].op = "rebuild" /\ Fits(call[a].op, "read") /\ "read" \in Pcs
    BY <1>5, CallTyped DEF List, Fits, Pcs, Again, Edits
  <2> QED
    BY <1>1, <2>2, <2>3, <2>4, KeepIs DEF Same
<1>6. CASE PullRefused(a) \/ GuardCheck(a) \/ CommitRefused(a) \/ PushRejected(a) \/ Fails(a) \/ Ends(a)
  <2>1. (\E result : Return(a, result)) \/ PushFailed(a) \/ (call[a].pc = "guard" /\ Goto(a, "pull"))
    BY <1>6 DEF PullRefused, GuardCheck, CommitRefused, PushRejected, Fails, Ends
  <2> QED
    BY <1>1, <1>2, <1>3, <2>1
<1> QED
  BY <1>4, <1>5, <1>6 DEF Others

LEMMA OtherClone ==
  ASSUME TypeInv, NEW a \in Agent, Others(a)
  PROVE  \E r : /\ repo' = [repo EXCEPT ![At[a]] = r] /\ r \in RepoSet
                /\ SameBoards(r, repo[At[a]])
<1> DEFINE old == repo[At[a]]
<1>1. /\ At[a] \in Clone /\ old \in RepoSet /\ old.tree \in Content /\ old.staged \subseteq Task
      /\ repo \in [Clone -> RepoSet]
  BY CloneTyped DEF TypeInv
<1>2. CASE UNCHANGED repo
  <2>1. repo' = [repo EXCEPT ![At[a]] = old]
    BY <1>1, <1>2
  <2> QED
    BY <1>1, <2>1 DEF SameBoards
<1>3. CASE WriteTaskFile(a)
  <2>1. call[a].task \in Task
    <3>1. call[a].op = "create"
      BY <1>3, CallTyped DEF WriteTaskFile, Fits
    <3> QED
      BY <3>1, CallTyped
  <2>2. PICK tree : tree = [old.tree EXCEPT !.files = @ \cup {call[a].task}]
    OBVIOUS
  <2>3. tree \in Content /\ tree.rows = old.tree.rows /\ tree.marked = old.tree.marked
    BY <1>1, <2>1, <2>2 DEF Content
  <2>4. PICK r : r = [old EXCEPT !.tree = tree]
    OBVIOUS
  <2>5. repo' = [repo EXCEPT ![At[a]] = r]
    BY <1>1, <1>3, <2>2, <2>4 DEF WriteTaskFile, RepoSet
  <2>6. /\ r \in RepoSet /\ r.head = old.head /\ r.base = old.base /\ r.theirs = old.theirs
        /\ r.tree = tree /\ r.merge = old.merge /\ r.ahead = old.ahead /\ r.behind = old.behind
    BY <1>1, <2>3, <2>4 DEF RepoSet
  <2> QED
    BY <2>3, <2>5, <2>6 DEF SameBoards
<1>4. CASE repo' = [repo EXCEPT ![At[a]].staged = @ \cup Adds(a)]
  <2>1. PICK r : r = [old EXCEPT !.staged = old.staged \cup Adds(a)]
    OBVIOUS
  <2>2. repo' = [repo EXCEPT ![At[a]] = r]
    BY <1>1, <1>4, <2>1
  <2>3. old.staged \cup Adds(a) \in SUBSET Task
    BY <1>1, AddsTyped
  <2>4. /\ r \in RepoSet /\ r.head = old.head /\ r.base = old.base /\ r.theirs = old.theirs
        /\ r.tree = old.tree /\ r.merge = old.merge /\ r.ahead = old.ahead /\ r.behind = old.behind
    BY <1>1, <2>1, <2>3 DEF RepoSet
  <2> QED
    BY <2>2, <2>4 DEF SameBoards
<1>5. UNCHANGED repo \/ WriteTaskFile(a) \/ repo' = [repo EXCEPT ![At[a]].staged = @ \cup Adds(a)]
  BY DEF Others, PullRefused, GuardCheck, List, CommitRefused, PushRejected, Fails, Ends
<1> QED
  BY <1>2, <1>3, <1>4, <1>5

(* A push takes the remote's place and leaves the other clones behind.     *)
Pushes(a) == Push(a) \/ PushUnanswered(a)

LEMMA PushCall ==
  ASSUME TypeInv, NEW a \in Agent, Pushes(a)
  PROVE  \E k : /\ call' = [call EXCEPT ![a] = k] /\ Shape(k)
                /\ \/ Over(k) /\ k.op \in {"none", "enqueue"}
                   \/ /\ Same(k, call[a]) /\ k.pc = "repull" /\ call[a].pc = "push"
                      /\ call[a].op = "claim"
<1>1. CASE Push(a)
  <2>1. Succeed(a)
    BY <1>1 DEF Push
  <2> QED
    BY <2>1, SucceedIs
<1>2. CASE PushUnanswered(a)
  <2>1. PushFailed(a)
    BY <1>2 DEF PushUnanswered
  <2> QED
    BY <2>1, PushFailedIs DEF Over
<1> QED
  BY <1>1, <1>2 DEF Pushes

LEMMA PushClone ==
  ASSUME TypeInv, NEW a \in Agent, Pushes(a)
  PROVE  /\ repo' \in [Clone -> RepoSet] /\ remote' = repo[At[a]].head /\ ~repo[At[a]].behind
         /\ \A d \in Clone :
              /\ repo'[d].head = repo[d].head /\ repo'[d].tree = repo[d].tree
              /\ repo'[d].theirs = repo[d].theirs
              /\ d = At[a] => /\ repo'[d].base = repo[d].head /\ ~repo'[d].ahead
                              /\ ~repo'[d].behind /\ repo'[d].merge = repo[d].merge
              /\ d # At[a] =>
                   /\ repo'[d].base = repo[d].base /\ repo'[d].ahead = repo[d].ahead
                   /\ repo'[d].behind = (repo[d].behind \/ repo[At[a]].ahead)
                   /\ repo'[d].merge = IF repo[At[a]].ahead /\ repo[d].merge = "open" THEN "stale"
                                       ELSE repo[d].merge
<1>1. Moves(a)
  BY DEF Pushes, Push, PushUnanswered
<1>2. At[a] \in Clone /\ repo[At[a]] \in RepoSet /\ \A d \in Clone : repo[d] \in RepoSet
  BY CloneTyped DEF TypeInv
<1> DEFINE R(d) == IF d = At[a] THEN [repo[At[a]] EXCEPT !.base = repo[At[a]].head, !.ahead = FALSE]
                   ELSE IF repo[At[a]].ahead
                        THEN [repo[d] EXCEPT !.behind = TRUE, !.merge = IF @ = "open" THEN "stale" ELSE @]
                        ELSE repo[d]
<1>3. repo' = [d \in Clone |-> R(d)] /\ ~repo[At[a]].behind /\ remote' = repo[At[a]].head
  BY <1>1 DEF Moves
<1>4. ASSUME NEW d \in Clone
      PROVE  /\ R(d) \in RepoSet /\ R(d).head = repo[d].head /\ R(d).tree = repo[d].tree
             /\ R(d).theirs = repo[d].theirs
             /\ d = At[a] => /\ R(d).base = repo[d].head /\ R(d).ahead = FALSE
                             /\ R(d).behind = repo[d].behind /\ R(d).merge = repo[d].merge
             /\ d # At[a] =>
                  /\ R(d).base = repo[d].base /\ R(d).ahead = repo[d].ahead
                  /\ R(d).behind = (repo[d].behind \/ repo[At[a]].ahead)
                  /\ R(d).merge = IF repo[At[a]].ahead /\ repo[d].merge = "open" THEN "stale"
                                  ELSE repo[d].merge
  <2>1. repo[d] \in RepoSet /\ repo[At[a]] \in RepoSet
    BY <1>2
  <2>2. CASE d = At[a]
    BY <2>1, <2>2 DEF RepoSet
  <2>3. CASE d # At[a] /\ repo[At[a]].ahead
    BY <2>1, <2>3 DEF RepoSet
  <2>4. CASE d # At[a] /\ ~repo[At[a]].ahead
    BY <2>1, <2>4 DEF RepoSet
  <2> QED
    BY <2>2, <2>3, <2>4
<1> HIDE DEF R
<1>5. repo' \in [Clone -> RepoSet]
  BY <1>3, <1>4
<1>6. \A d \in Clone : repo'[d] = R(d)
  BY <1>3
<1> QED
  BY <1>3, <1>4, <1>5, <1>6

-----------------------------------------------------------------------------
(* Type correctness                                                        *)

LEMMA CountTyped ==
  ASSUME NEW f \in [Task -> Nat], NEW t \in Task
  PROVE  /\ Count(f, t) \in [Task -> Nat]
         /\ \A u \in Task : Count(f, t)[u] = IF u = t THEN f[u] + 1 ELSE f[u]
  BY DEF Count

\* The steps of a command that do not move the remote.
Local(a) ==
    NothingToPull(a) \/ Pull(a) \/ PullConflicts(a) \/ Read(a) \/ Reread(a) \/ Write(a) \/ Commit(a)
    \/ Others(a)

LEMMA NextIs ==
  ASSUME Next
  PROVE  \E a \in Agent : Begins(a) \/ Pushes(a) \/ Local(a)
  BY DEF Next, Step, Begins, Pushes, Local, Others

(* What they leave alone.                                                  *)
LEMMA LocalFrame ==
  ASSUME TypeInv, NEW a \in Agent, Local(a)
  PROVE  /\ remote' = remote /\ claims' = claims /\ calls' = calls
         /\ failures' \in 0..MaxFailures /\ salvaged' \in BOOLEAN /\ (salvaged => salvaged')
         /\ releases' = IF Write(a) /\ call[a].op = "release" THEN Count(releases, call[a].task)
                        ELSE releases
         /\ Write(a) \/ (~Read(a) /\ ~Reread(a)) => fresh' \in {fresh, fresh \ {a}}
         /\ Read(a) \/ Reread(a) => fresh' \in {fresh \cup {a}, fresh \ {a}}
         /\ NothingToPull(a) \/ Pull(a) \/ PullConflicts(a) \/ Write(a) \/ Commit(a) => fresh' = fresh
<1>0. failures \in 0..MaxFailures /\ MaxFailures \in Nat /\ salvaged \in BOOLEAN
  BY TaskBoardAssumption DEF TaskBoardAssumption, TypeInv
<1> DEFINE Frame == /\ remote' = remote /\ claims' = claims /\ calls' = calls
                    /\ failures' \in 0..MaxFailures /\ salvaged' \in BOOLEAN /\ (salvaged => salvaged')
<1>1. CASE NothingToPull(a) \/ Pull(a) \/ PullConflicts(a) \/ Commit(a)
  <2>1. Frame /\ releases' = releases /\ fresh' = fresh
    BY <1>0, <1>1 DEF NothingToPull, Pull, PullConflicts, Commit, ghosts
  <2>2. ~Write(a) \/ call[a].pc \in {"write", "rewrite"}
    BY DEF Write
  <2>3. ~Write(a) /\ ~Read(a) /\ ~Reread(a)
    BY <1>1 DEF NothingToPull, Pull, PullConflicts, Commit, AtPull, Write, Read, Reread
  <2> QED
    BY <2>1, <2>3
<1>2. CASE Write(a)
  <2>1. Frame /\ fresh' = fresh
        /\ releases' = IF call[a].op = "release" THEN Count(releases, call[a].task) ELSE releases
    BY <1>0, <1>2 DEF Write
  <2>2. ~Read(a) /\ ~Reread(a)
    BY <1>2 DEF Write, Read, Reread
  <2> QED
    BY <1>2, <2>1, <2>2
<1>3. CASE Read(a) \/ Reread(a)
  <2>1. Frame /\ releases' = releases /\ fresh' \in {fresh \cup {a}, fresh \ {a}}
    BY <1>0, <1>3 DEF Read, Reread, Decide
  <2>2. ~Write(a) /\ ~NothingToPull(a) /\ ~Pull(a) /\ ~PullConflicts(a) /\ ~Commit(a)
    BY <1>3 DEF Read, Reread, Write, NothingToPull, Pull, PullConflicts, Commit, AtPull
  <2> QED
    BY <1>3, <2>1, <2>2
<1>4. CASE Others(a) /\ ~Write(a) /\ ~Read(a) /\ ~Reread(a) /\ ~NothingToPull(a) /\ ~Pull(a)
           /\ ~PullConflicts(a) /\ ~Commit(a)
  <2>1. CASE Fails(a) \/ Ends(a)
    BY <1>0, <1>4, <2>1 DEF Fails, Ends
  <2>2. CASE PullRefused(a) \/ GuardCheck(a) \/ WriteTaskFile(a) \/ List(a) \/ CommitRefused(a)
             \/ PushRejected(a)
    BY <1>0, <1>4, <2>2 DEF PullRefused, GuardCheck, WriteTaskFile, List, CommitRefused, PushRejected, ghosts
  <2> QED
    BY <1>4, <2>1, <2>2 DEF Others
<1> QED
  BY <1>1, <1>2, <1>3, <1>4 DEF Local

LEMMA LocalIs ==
  ASSUME TypeInv, NEW a \in Agent, Local(a)
  PROVE  \E r, k : /\ repo' = [repo EXCEPT ![At[a]] = r] /\ r \in RepoSet
                   /\ call' = [call EXCEPT ![a] = k] /\ Shape(k)
<1>1. CASE Read(a) \/ Reread(a)
  <2>1. PICK k : call' = [call EXCEPT ![a] = k] /\ Shape(k)
    BY <1>1, ReadIs
  <2>2. repo' = repo /\ repo \in [Clone -> RepoSet] /\ At[a] \in Clone /\ repo[At[a]] \in RepoSet
    BY <1>1, CloneTyped DEF Read, Reread, TypeInv
  <2>3. repo' = [repo EXCEPT ![At[a]] = repo[At[a]]]
    BY <2>2
  <2> QED
    BY <2>1, <2>2, <2>3
<1>2. CASE Others(a)
  BY <1>2, OtherCall, OtherClone
<1>3. CASE NothingToPull(a) \/ Pull(a)
  BY <1>3, PullIs
<1>4. CASE PullConflicts(a)
  BY <1>4, ConflictsIs
<1>5. CASE Write(a)
  BY <1>5, WriteIs
<1>6. CASE Commit(a)
  BY <1>6, CommitIs
<1> QED
  BY <1>1, <1>2, <1>3, <1>4, <1>5, <1>6 DEF Local

LEMMA TypeAt ==
  ASSUME TypeInv, NEW a \in Agent, NEW k, call' = [call EXCEPT ![a] = k], Shape(k),
         remote' \in Content, repo' \in [Clone -> RepoSet],
         claims' \in [Task -> Nat], releases' \in [Task -> Nat], fresh' \subseteq Agent,
         salvaged' \in BOOLEAN, calls' \in 0..MaxCalls, failures' \in 0..MaxFailures
  PROVE  TypeInv'
<1>1. k \in CallSet
  BY DEF Shape
<1>2. call' \in [Agent -> CallSet] /\ \A b \in Agent : Shape(call'[b])
  BY <1>1 DEF TypeInv
<1> QED
  BY <1>2, Zenon DEF TypeInv

LEMMA TypeInit == ASSUME Init PROVE TypeInv
<1>1. remote \in Content
  <2>1. PICK present \in SUBSET Task, s \in [Task -> StartStatus] :
          remote = [rows |-> [t \in Task |->
                      IF t \in present THEN <<[status |-> s[t], stamp |-> NoStamp]>> ELSE <<>>],
                    marked |-> FALSE, files |-> present]
    BY DEF Init
  <2>2. ASSUME NEW t \in Task
        PROVE  (IF t \in present THEN <<[status |-> s[t], stamp |-> NoStamp]>> ELSE <<>>) \in Seq(Row)
    <3>1. [status |-> s[t], stamp |-> NoStamp] \in Row
      BY StartAssumption DEF StartAssumption, Row
    <3> QED
      BY <3>1
  <2>3. [t \in Task |-> IF t \in present THEN <<[status |-> s[t], stamp |-> NoStamp]>> ELSE <<>>] \in Boards
    BY <2>2 DEF Boards
  <2> QED
    BY <2>1, <2>3, ContentIs
<1>2. repo \in [Clone -> RepoSet]
  BY <1>1, NothingTyped DEF Init, RepoSet
<1>3. call \in [Agent -> CallSet] /\ \A a \in Agent : Shape(call[a])
  <2>1. Shape(Done("none", NoTask)) /\ Done("none", NoTask) \in CallSet
    BY DoneTyped
  <2>2. call = [a \in Agent |-> Done("none", NoTask)]
    BY DEF Init
  <2> QED
    BY <2>1, <2>2
<1>4. /\ claims \in [Task -> Nat] /\ releases \in [Task -> Nat] /\ fresh \subseteq Agent
      /\ calls \in 0..MaxCalls /\ failures \in 0..MaxFailures
  BY TaskBoardAssumption DEF TaskBoardAssumption, Init
<1>5. salvaged \in BOOLEAN
  BY DEF Init
<1> QED
  BY <1>1, <1>2, <1>3, <1>4, <1>5 DEF TypeInv

LEMMA TypeStep == ASSUME TypeInv, [Next]_vars PROVE TypeInv'
<1>0. /\ remote \in Content /\ repo \in [Clone -> RepoSet]
      /\ claims \in [Task -> Nat] /\ releases \in [Task -> Nat] /\ fresh \subseteq Agent /\ salvaged \in BOOLEAN
      /\ calls \in 0..MaxCalls /\ failures \in 0..MaxFailures /\ MaxCalls \in Nat /\ MaxFailures \in Nat
  BY TaskBoardAssumption DEF TaskBoardAssumption, TypeInv
<1>1. CASE UNCHANGED vars
  BY <1>1 DEF vars, TypeInv
<1>2. ASSUME NEW a \in Agent, Begins(a)
      PROVE  TypeInv'
  <2>1. PICK k : Begin(a, k) /\ Shape(k)
    BY <1>2, BeginIs
  <2>2. calls' \in 0..MaxCalls
    BY <1>0, <2>1 DEF Begin
  <2> QED
    BY <1>0, <2>1, <2>2, TypeAt DEF Begin, ghosts
<1>3. ASSUME NEW a \in Agent, Pushes(a)
      PROVE  TypeInv'
  <2>1. PICK k : call' = [call EXCEPT ![a] = k] /\ Shape(k)
    BY <1>3, PushCall
  <2>2. repo' \in [Clone -> RepoSet] /\ remote' \in Content
    BY <1>3, PushClone, CloneTyped
  <2>3. claims' \in [Task -> Nat]
    <3>1. CASE Push(a) /\ call[a].op = "claim"
      <4>1. call[a].task \in Task
        BY <3>1, CallTyped DEF Transitions
      <4> QED
        BY <1>0, <3>1, <4>1, CountTyped DEF Push
    <3>2. CASE claims' = claims
      BY <1>0, <3>2
    <3> QED
      BY <1>3, <3>1, <3>2 DEF Pushes, Push, PushUnanswered
  <2>4. releases' = releases /\ calls' = calls /\ failures' \in 0..MaxFailures /\ salvaged' = salvaged
    BY <1>0, <1>3 DEF Pushes, Push, PushUnanswered
  <2>5. fresh' \subseteq Agent
    BY <1>0, <1>3 DEF Pushes, Push, PushUnanswered, Outdates
  <2> QED
    BY <1>0, <2>1, <2>2, <2>3, <2>4, <2>5, TypeAt
<1>4. ASSUME NEW a \in Agent, Local(a)
      PROVE  TypeInv'
  <2>1. PICK r, k : /\ repo' = [repo EXCEPT ![At[a]] = r] /\ r \in RepoSet
                    /\ call' = [call EXCEPT ![a] = k] /\ Shape(k)
    BY <1>4, LocalIs
  <2>2. repo' \in [Clone -> RepoSet]
    BY <1>0, <2>1
  <2>3. releases' \in [Task -> Nat]
    <3>1. call[a].op = "release" => call[a].task \in Task
      BY CallTyped DEF Transitions
    <3> QED
      BY <1>0, <1>4, <3>1, CountTyped, LocalFrame
  <2>4. /\ remote' = remote /\ claims' = claims /\ calls' = calls
        /\ failures' \in 0..MaxFailures /\ salvaged' \in BOOLEAN
    BY <1>4, LocalFrame
  <2>5. fresh' \in {fresh, fresh \ {a}, fresh \cup {a}}
    BY <1>4, LocalFrame
  <2>6. fresh' \subseteq Agent
    BY <1>0, <2>5
  <2> QED
    BY <1>0, <2>1, <2>2, <2>3, <2>4, <2>6, TypeAt
<1> QED
  BY <1>1, <1>2, <1>3, <1>4, NextIs

LEMMA TypeImplies == ASSUME TypeInv PROVE TypeOK
<1>1. ASSUME NEW a \in Agent
      PROVE  call[a].task \in Task \cup {NoTask} /\ call[a].seen \in [Task -> Seq(Row)]
  BY CallTyped DEF Boards
<1> QED
  BY <1>1, Zenon DEF TypeInv, TypeOK, RepoSet

(* Contents, clones, calls and counters keep their domains, whoever works  *)
(* in which clone and whatever a merge, a read or a rebuild makes of it.   *)
THEOREM TypeCorrect == Spec => []TypeOK
<1>1. Init => TypeInv
  BY TypeInit
<1>2. TypeInv /\ [Next]_vars => TypeInv'
  BY TypeStep
<1>3. TypeInv => TypeOK
  BY TypeImplies
<1> QED
  BY <1>1, <1>2, <1>3, PTL DEF Spec

-----------------------------------------------------------------------------
(* A clone for each agent                                                  *)

LEMMA AloneInit == ASSUME Init PROVE Alone
<1>1. /\ ~remote.marked /\ \A c \in Clone : repo[c].head = remote
      /\ call = [a \in Agent |-> Done("none", NoTask)]
  <2>1. ~remote.marked
    BY DEF Init
  <2>2. ASSUME NEW c \in Clone PROVE repo[c].head = remote
    BY DEF Init
  <2> QED
    BY <2>1, <2>2 DEF Init
<1>2. \A a \in Agent : call[a].pc = "done" /\ call[a].op = "none"
  BY <1>1, DoneTyped
<1>3. \A a \in Agent : AloneOK(call[a], repo[At[a]], a \in fresh)
  BY <1>2 DEF AloneOK
<1> QED
  BY <1>1, <1>3 DEF Alone, MarkersStayLocal

LEMMA LocalAlone ==
  ASSUME TypeInv, Alone, OwnClones, NEW a \in Agent, NEW r \in RepoSet, NEW k,
         repo' = [repo EXCEPT ![At[a]] = r], call' = [call EXCEPT ![a] = k], remote' = remote,
         ~r.head.marked, AloneOK(k, r, a \in fresh'),
         \A b \in Agent : b # a => (b \in fresh' <=> b \in fresh)
  PROVE  Alone'
<1>1. /\ At[a] \in Clone /\ repo \in [Clone -> RepoSet] /\ call \in [Agent -> CallSet]
      /\ \A b \in Agent : b # a => At[b] \in Clone /\ At[b] # At[a]
  BY TaskBoardAssumption DEF TaskBoardAssumption, TypeInv, OwnClones
<1>2. /\ repo'[At[a]] = r /\ call'[a] = k
      /\ \A c \in Clone : c # At[a] => repo'[c] = repo[c]
      /\ \A b \in Agent : b # a => call'[b] = call[b] /\ repo'[At[b]] = repo[At[b]]
  BY <1>1
<1>3. ~remote'.marked /\ \A c \in Clone : ~repo'[c].head.marked
  BY <1>2 DEF Alone, MarkersStayLocal
<1>4. ASSUME NEW b \in Agent
      PROVE  AloneOK(call'[b], repo'[At[b]], b \in fresh')
  <2>1. CASE b = a
    BY <1>2, <2>1
  <2>2. CASE b # a
    <3>1. AloneOK(call[b], repo[At[b]], b \in fresh) /\ (b \in fresh' <=> b \in fresh)
          /\ call'[b] = call[b] /\ repo'[At[b]] = repo[At[b]]
      BY <1>2, <2>2 DEF Alone
    <3> QED
      BY <3>1 DEF AloneOK
  <2> QED
    BY <2>1, <2>2
<1> QED
  BY <1>3, <1>4 DEF Alone, MarkersStayLocal

LEMMA ReadAlone ==
  ASSUME TypeInv, Alone, OwnClones, NEW a \in Agent, Read(a) \/ Reread(a)
  PROVE  Alone'
<1> DEFINE old == call[a]
           r == repo[At[a]]
<1>1. PICK k :
        /\ call' = [call EXCEPT ![a] = k] /\ Shape(k)
        /\ \/ k.pc = "done" /\ k.op = "none"
           \/ /\ Same(k, old)
              /\ \/ k.pc = "write" /\ old.pc = "read"
                 \/ k.pc = "rewrite" /\ old.pc = "reread" /\ k.op = "claim"
              /\ \/ k.op = "rebuild"
                 \/ \E rows \in Readings(r.tree) :
                      /\ k.op \in Transitions => Accepts(rows, old)
                      /\ k.seen = NewRows(rows, old)
        /\ fresh' = IF k.pc \in {"write", "rewrite"} /\ k.op = "claim" /\ k.sync /\ ~r.behind
                    THEN fresh \cup {a} ELSE fresh \ {a}
  BY ReadIs
<1>2. /\ At[a] \in Clone /\ r \in RepoSet /\ r.tree \in Content
      /\ repo' = repo /\ repo' = [repo EXCEPT ![At[a]] = r] /\ remote' = remote
      /\ ~r.head.marked /\ AloneOK(old, r, a \in fresh) /\ a \in Agent
  BY CloneTyped DEF Read, Reread, TypeInv, Alone, MarkersStayLocal
<1>3. AloneOK(k, r, a \in fresh')
  <2>1. CASE k.pc = "done" /\ k.op = "none"
    BY <2>1 DEF AloneOK
  <2>2. CASE k.pc \in {"write", "rewrite"} /\ k.op # "claim"
    BY <2>2 DEF AloneOK
  <2>3. CASE k.pc \in {"write", "rewrite"} /\ k.op = "claim" /\ Same(k, old)
    <3>1. PICK rows \in Readings(r.tree) : Accepts(rows, old) /\ k.seen = NewRows(rows, old)
      BY <1>1, <2>3 DEF Transitions
    <3>2. old.op = "claim" /\ old.task \in Task /\ old.stamp \in Stamp \cup {NoStamp}
          /\ k.task = old.task /\ k.stamp = old.stamp /\ k.sync = old.sync
      BY <2>3, CallTyped DEF Same, Transitions
    <3>3. rows \in Boards /\ rows[old.task] # <<>>
      BY <1>2, <3>1, ReadingsTyped DEF Accepts
    <3>4. k.seen = Edit(rows, "claim", old.task, old.stamp)
      BY <3>1, <3>2 DEF NewRows
    <3>5. /\ k.seen[old.task] # <<>>
          /\ k.seen[old.task][1] = Moved(rows[old.task][1], "claim", old.stamp)
      <4>1. "claim" \in Transitions
        BY DEF Transitions
      <4>2. /\ Edit(rows, "claim", old.task, old.stamp)[old.task] # <<>>
            /\ Edit(rows, "claim", old.task, old.stamp)[old.task][1]
                 = Moved(rows[old.task][1], "claim", old.stamp)
        BY <3>2, <3>3, <4>1, EditIs
      <4> QED
        BY <3>4, <4>2
    <3>6. Mine(k.seen, k)
      BY <3>2, <3>5 DEF Mine, Moved, NewStatus
    <3>7. old.pc = "reread" => old.sync
      BY <1>2, <3>2 DEF AloneOK, Again
    <3>8. k.sync => r.merge = "none"
      BY <1>1, <1>2, <2>3, <3>2 DEF AloneOK
    <3>9. k.sync => a \in fresh' \/ r.behind
      BY <1>1, <2>3
    <3>10. k.pc \in {"push"} \cup Again => k.sync
      BY <1>1, <2>3, <3>2, <3>7 DEF Again
    <3> QED
      BY <2>3, <3>6, <3>8, <3>9, <3>10 DEF AloneOK
  <2> QED
    BY <1>1, <2>1, <2>2, <2>3
<1>4. \A b \in Agent : b # a => (b \in fresh' <=> b \in fresh)
  BY <1>1
<1> QED
  BY <1>1, <1>2, <1>3, <1>4, LocalAlone

LEMMA CommitAlone ==
  ASSUME TypeInv, Alone, OwnClones, NEW a \in Agent, Commit(a)
  PROVE  Alone'
<1> DEFINE old == repo[At[a]]
<1>1. PICK r, k :
           /\ repo' = [repo EXCEPT ![At[a]] = r] /\ r \in RepoSet
           /\ r.tree = old.tree /\ r.head.rows = r.tree.rows /\ r.head.marked = r.tree.marked
           /\ r.ahead /\ r.merge = "none"
           /\ IF old.merge = "none" THEN r.base = old.base /\ r.behind = old.behind
              ELSE r.base = old.theirs /\ r.behind = (old.merge = "stale")
           /\ call' = [call EXCEPT ![a] = k] /\ Shape(k)
           /\ call[a].pc \in {"commit", "recommit"}
           /\ \/ Over(k) /\ k.op \in {"none", "enqueue"}
              \/ /\ Same(k, call[a]) /\ k.sync
                 /\ k.pc = IF call[a].pc = "commit" THEN "push" ELSE "repush"
  BY CommitIs
<1>2. remote' = remote /\ fresh' = fresh /\ AloneOK(call[a], old, a \in fresh)
  BY DEF Commit, ghosts, Alone
<1>3. ~r.head.marked
  BY <1>1, <1>2 DEF AloneOK
<1>4. AloneOK(k, r, a \in fresh')
  <2>1. CASE Over(k) /\ k.op \in {"none", "enqueue"}
    BY <2>1 DEF AloneOK, Over
  <2>2. CASE Same(k, call[a]) /\ k.sync /\ k.pc \in {"push", "repush"} /\ k.op # "claim"
    BY <2>2 DEF AloneOK
  <2>3. CASE Same(k, call[a]) /\ k.sync /\ k.pc \in {"push", "repush"} /\ k.op = "claim"
    <3>1. /\ call[a].op = "claim" /\ call[a].sync /\ k.task = call[a].task /\ k.stamp = call[a].stamp
      BY <2>3 DEF Same
    <3>2. /\ Mine(old.tree.rows, call[a]) /\ old.merge = "none" /\ (a \in fresh \/ old.behind)
      BY <1>1, <1>2, <3>1 DEF AloneOK, Decided
    <3>3. Mine(r.head.rows, k) /\ (a \in fresh' \/ r.behind)
      BY <1>1, <1>2, <3>1, <3>2 DEF Mine
    <3> QED
      BY <1>1, <2>3, <3>3 DEF AloneOK
  <2> QED
    BY <1>1, <2>1, <2>2, <2>3
<1> QED
  BY <1>1, <1>2, <1>3, <1>4, LocalAlone

LEMMA OtherAlone ==
  ASSUME TypeInv, Alone, OwnClones, NEW a \in Agent, Local(a), ~Read(a), ~Reread(a), ~Commit(a)
  PROVE  Alone'
<1> DEFINE old == repo[At[a]]
<1>1. /\ remote' = remote /\ \A b \in Agent : b # a => (b \in fresh' <=> b \in fresh)
      /\ ~old.head.marked /\ ~remote.marked /\ AloneOK(call[a], old, a \in fresh)
      /\ remote \in Content /\ old \in RepoSet
  BY LocalFrame, CloneTyped DEF Alone, MarkersStayLocal
<1>2. CASE NothingToPull(a) \/ Pull(a)
  <2>1. PICK r, k :
           /\ repo' = [repo EXCEPT ![At[a]] = r] /\ r \in RepoSet
           /\ call' = [call EXCEPT ![a] = k] /\ Shape(k)
           /\ \/ k.pc = "done" /\ k.op = "none"
              \/ /\ Same(k, call[a])
                 /\ \/ k.pc \in {"guard", "read"}
                    \/ k.pc = "reread" /\ call[a].pc = "repull"
                    \/ k.pc = "push" /\ k.op = "sync"
           /\ r.merge = old.merge /\ (call[a].sync => r.merge = "none")
           /\ r = old \/ (r.merge = "none" /\ Pulled(old, r))
    BY <1>2, PullIs
  <2>2. ~r.head.marked
    <3>1. CASE Pulled(old, r)
      <4>1. CASE old.ahead
        <5>1. Unmergeable(old) = {} /\ r.head = Merged(old, {})
          BY <3>1, <4>1 DEF Pulled
        <5>2. Merged(old, {}).marked = ({} # {} \/ old.head.marked \/ remote.marked)
          BY <1>1, <5>1, MergedIs
        <5> QED
          BY <1>1, <5>1, <5>2
      <4>2. CASE ~old.ahead
        BY <1>1, <3>1, <4>2 DEF Pulled
      <4> QED
        BY <4>1, <4>2
    <3> QED
      BY <1>1, <2>1, <3>1
  <2>3. AloneOK(k, r, a \in fresh')
    <3>1. k.op = "claim" /\ k.pc = "reread" => k.sync
      BY <1>1, <2>1 DEF AloneOK, Same, Again
    <3>2. k.op = "claim" /\ k.sync /\ k.pc \in {"read", "reread"} => r.merge = "none"
      BY <2>1 DEF Same
    <3> QED
      BY <2>1, <3>1, <3>2 DEF AloneOK, Decided, Again
  <2> QED
    BY <1>1, <2>1, <2>2, <2>3, LocalAlone
<1>3. CASE PullConflicts(a)
  <2>1. PICK r, k :
           /\ repo' = [repo EXCEPT ![At[a]] = r] /\ r \in RepoSet
           /\ call' = [call EXCEPT ![a] = k] /\ k.pc = "done" /\ k.op = "none"
           /\ r.head = old.head
    BY <1>3, ConflictsIs
  <2>2. AloneOK(k, r, a \in fresh')
    BY <2>1 DEF AloneOK
  <2> QED
    BY <1>1, <2>1, <2>2, LocalAlone
<1>4. CASE Write(a)
  <2>1. PICK r, k :
           /\ repo' = [repo EXCEPT ![At[a]] = r] /\ r \in RepoSet
           /\ r.tree.rows = call[a].seen /\ ~r.tree.marked
           /\ r.head = old.head /\ r.merge = old.merge /\ r.behind = old.behind
           /\ call' = [call EXCEPT ![a] = k] /\ Shape(k) /\ Same(k, call[a])
           /\ k.pc = IF call[a].pc = "write" THEN "commit" ELSE "recommit"
           /\ call[a].pc \in {"write", "rewrite"}
    BY <1>4, WriteIs
  <2>2. fresh' = fresh
    BY <1>4 DEF Write
  <2>3. AloneOK(k, r, a \in fresh')
    <3>1. CASE k.op # "claim"
      BY <2>1, <3>1 DEF AloneOK
    <3>2. CASE k.op = "claim"
      <4>1. /\ call[a].op = "claim" /\ k.sync = call[a].sync /\ k.task = call[a].task
            /\ k.stamp = call[a].stamp
        BY <2>1, <3>2 DEF Same
      <4>2. Mine(r.tree.rows, k)
        BY <1>1, <2>1, <4>1 DEF AloneOK, Mine
      <4>3. k.sync => r.merge = "none" /\ (a \in fresh' \/ r.behind)
        BY <1>1, <2>1, <2>2, <4>1 DEF AloneOK, Decided
      <4>4. k.pc \in Again => k.sync
        BY <1>1, <2>1, <4>1 DEF AloneOK, Again
      <4> QED
        BY <2>1, <4>2, <4>3, <4>4 DEF AloneOK
    <3> QED
      BY <3>1, <3>2
  <2> QED
    BY <1>1, <2>1, <2>3, LocalAlone
<1>5. CASE Others(a)
  <2>1. PICK r : repo' = [repo EXCEPT ![At[a]] = r] /\ r \in RepoSet /\ SameBoards(r, old)
    BY <1>5, OtherClone
  <2>2. PICK k :
           /\ call' = [call EXCEPT ![a] = k] /\ Shape(k)
           /\ \/ k.pc = "done" /\ k.op = "none"
              \/ /\ Same(k, call[a])
                 /\ \/ k.pc = "pull"
                    \/ k.pc = "read" /\ k.op \in {"create", "rebuild"}
                    \/ k.pc = "repull" /\ call[a].pc = "push"
    BY <1>5, OtherCall
  <2>3. k.op = "claim" /\ k.pc = "repull" => k.sync
    BY <1>1, <2>2 DEF AloneOK, Same
  <2>4. AloneOK(k, r, a \in fresh')
    BY <2>2, <2>3 DEF AloneOK, Decided, Again
  <2> QED
    BY <1>1, <2>1, <2>2, <2>4, LocalAlone DEF SameBoards
<1> QED
  BY <1>2, <1>3, <1>4, <1>5 DEF Local

LEMMA PushAlone ==
  ASSUME TypeInv, Alone, OwnClones, NEW a \in Agent, Pushes(a)
  PROVE  Alone'
<1>1. /\ remote' = repo[At[a]].head /\ At[a] \in Clone /\ call \in [Agent -> CallSet]
      /\ \A d \in Clone : repo'[d].head = repo[d].head /\ repo'[d].tree = repo[d].tree
  BY PushClone, CloneTyped DEF TypeInv
<1>2. PICK k : /\ call' = [call EXCEPT ![a] = k]
               /\ \/ Over(k) /\ k.op \in {"none", "enqueue"}
                  \/ /\ Same(k, call[a]) /\ k.pc = "repull" /\ call[a].pc = "push"
  BY PushCall
<1>3. MarkersStayLocal'
  BY <1>1 DEF Alone, MarkersStayLocal
<1>4. ASSUME NEW b \in Agent
      PROVE  AloneOK(call'[b], repo'[At[b]], b \in fresh')
  <2>1. AloneOK(call[b], repo[At[b]], b \in fresh) /\ At[b] \in Clone
    BY CloneTyped DEF Alone
  <2>2. CASE b = a
    <3>1. call'[b] = k
      BY <1>1, <1>2, <2>2
    <3>2. k.op = "claim" => k.pc = "repull" /\ k.sync
      BY <1>2, <2>1, <2>2 DEF AloneOK, Same
    <3>3. k.pc \notin {"commit", "recommit"}
      BY <1>2 DEF Over
    <3> QED
      BY <3>1, <3>2, <3>3 DEF AloneOK, Decided
  <2>3. CASE b # a
    <3>1. call'[b] = call[b] /\ At[b] # At[a]
      BY <1>1, <1>2, <2>3 DEF OwnClones
    <3>2. /\ repo'[At[b]].head = repo[At[b]].head /\ repo'[At[b]].tree = repo[At[b]].tree
          /\ repo'[At[b]].behind = (repo[At[b]].behind \/ repo[At[a]].ahead)
          /\ repo[At[b]].merge = "none" => repo'[At[b]].merge = "none"
      BY <2>1, <3>1, PushClone
    <3>3. repo[At[a]].ahead \/ (b \in fresh <=> b \in fresh')
      BY <2>3 DEF Pushes, Push, PushUnanswered, Outdates
    <3>4. b \in fresh \/ repo[At[b]].behind => b \in fresh' \/ repo'[At[b]].behind
      BY <3>2, <3>3
    <3> QED
      BY <2>1, <3>1, <3>2, <3>4 DEF AloneOK
  <2> QED
    BY <2>2, <2>3
<1> QED
  BY <1>3, <1>4 DEF Alone

LEMMA AloneStep == ASSUME TypeInv, Alone, OwnClones, [Next]_vars PROVE Alone'
<1>1. CASE UNCHANGED vars
  BY <1>1 DEF vars, Alone, MarkersStayLocal
<1>2. ASSUME NEW a \in Agent, Begins(a)
      PROVE  Alone'
  <2>1. PICK k : (Begin(a, k) /\ k.pc \in {"get", "file", "list", "pull"}) \/ (Begin(a, k) /\ k.pc = "push" /\ k.op # "claim")
    BY <1>2, BeginIs
  <2>2. /\ call' = [call EXCEPT ![a] = k] /\ repo' = repo /\ remote' = remote /\ fresh' = fresh
    BY <2>1 DEF Begin, ghosts
  <2>3. repo' = [repo EXCEPT ![At[a]] = repo[At[a]]] /\ repo[At[a]] \in RepoSet
        /\ ~repo[At[a]].head.marked
    BY <2>2, CloneTyped DEF TypeInv, Alone, MarkersStayLocal
  <2>4. AloneOK(k, repo[At[a]], a \in fresh')
    BY <2>1 DEF AloneOK, Decided, Again
  <2> QED
    BY <2>2, <2>3, <2>4, LocalAlone
<1> QED
  BY <1>1, <1>2, NextIs, PushAlone, ReadAlone, CommitAlone, OtherAlone

LEMMA AloneInvariant == ASSUME OwnClones PROVE Spec => [](TypeInv /\ Alone)
<1>1. Init => TypeInv /\ Alone
  BY TypeInit, AloneInit
<1>2. TypeInv /\ Alone /\ [Next]_vars => TypeInv' /\ Alone'
  BY TypeStep, AloneStep
<1> QED
  BY <1>1, <1>2, PTL DEF Spec

(* With a clone for each agent, whatever its merges leave behind, no board *)
(* with conflict markers is committed, and so none is pushed.              *)
THEOREM MarkersLocal == ASSUME OwnClones PROVE Spec => []MarkersStayLocal
<1>1. Alone => MarkersStayLocal
  BY DEF Alone
<1> QED
  BY <1>1, AloneInvariant, PTL

(* Only a push of a's claim that moves the remote counts a claim.          *)
LEMMA ClaimCounts ==
  ASSUME TypeInv, [Next]_vars, claims' # claims, NEW a \in Agent, call'[a] # call[a]
  PROVE  Push(a) /\ call[a].op = "claim" /\ call[a].pc \in {"push", "repush"}
<1>1. Next
  BY DEF vars
<1>2. PICK b \in Agent : Begins(b) \/ Pushes(b) \/ Local(b)
  BY <1>1, NextIs
<1>3. ~Begins(b)
  <2>1. SUFFICES ASSUME Begins(b) PROVE FALSE
    OBVIOUS
  <2>2. claims' = claims
    BY <2>1, BeginIs DEF Begin, ghosts
  <2> QED
    BY <2>2
<1>4. Push(b) /\ call[b].op = "claim"
  BY <1>2, <1>3, LocalFrame DEF Pushes, Push, PushUnanswered
<1>5. \E k : call' = [call EXCEPT ![b] = k]
  BY <1>4, PushCall DEF Pushes
<1>6. a = b
  BY <1>5 DEF TypeInv
<1> QED
  BY <1>4, <1>6 DEF Push, AtPush

(* However many agents there are, each with its clone, a claim that        *)
(* returns nil was decided on a board with every commit of the remote.     *)
THEOREM ClaimsSerial == ASSUME OwnClones PROVE Spec => ClaimsAreSerial
<1>1. TypeInv /\ Alone /\ [Next]_vars
        => [\A a \in Agent : claims' # claims /\ call'[a] # call[a] => a \in fresh]_vars
  <2> SUFFICES ASSUME TypeInv, Alone, [Next]_vars, NEW a \in Agent, claims' # claims, call'[a] # call[a]
               PROVE  a \in fresh
    OBVIOUS
  <2>1. Push(a) /\ call[a].op = "claim" /\ call[a].pc \in {"push", "repush"}
    BY ClaimCounts
  <2>2. ~repo[At[a]].behind
    BY <2>1, PushClone DEF Pushes
  <2>3. call[a].sync /\ (a \in fresh \/ repo[At[a]].behind)
    BY <2>1 DEF Alone, AloneOK, Decided, Again
  <2> QED
    BY <2>2, <2>3
<1> QED
  BY <1>1, AloneInvariant, PTL DEF Spec, ClaimsAreSerial

(* And the remote then gives the task to its caller, with the stamp of     *)
(* that claim.                                                             *)
THEOREM ClaimPublished == ASSUME OwnClones PROVE Spec => NilClaimIsPublished
<1>1. TypeInv /\ Alone /\ [Next]_vars
        => [\A a \in Agent : claims' # claims /\ call'[a] # call[a] =>
              /\ remote'.rows[call[a].task] # <<>>
              /\ remote'.rows[call[a].task][1] = [status |-> "claimed", stamp |-> call[a].stamp]]_vars
  <2> SUFFICES ASSUME TypeInv, Alone, [Next]_vars, NEW a \in Agent, claims' # claims, call'[a] # call[a]
               PROVE  /\ remote'.rows[call[a].task] # <<>>
                      /\ remote'.rows[call[a].task][1] = [status |-> "claimed", stamp |-> call[a].stamp]
    OBVIOUS
  <2>1. Push(a) /\ call[a].op = "claim" /\ call[a].pc \in {"push", "repush"}
    BY ClaimCounts
  <2>2. remote' = repo[At[a]].head
    BY <2>1, PushClone DEF Pushes
  <2>3. Mine(repo[At[a]].head.rows, call[a])
    BY <2>1 DEF Alone, AloneOK
  <2> QED
    BY <2>2, <2>3 DEF Mine
<1> QED
  BY <1>1, AloneInvariant, PTL DEF Spec, NilClaimIsPublished

-----------------------------------------------------------------------------
(* Statuses and rows                                                       *)

LEMMA ReachIs ==
  /\ \A s \in {"completed", "failed", "aborted"} : Reach(s) = {s}
  /\ \A s \in {"in_progress", "blocked"} :
       Reach(s) = {"in_progress", "blocked", "completed", "failed", "aborted"}
  /\ \A s \in {"queued", "claimed"} :
       Reach(s) = {"queued", "claimed", "in_progress", "blocked", "completed", "failed", "aborted"}
  /\ Reach("planning") = Status
  BY DEF Reach

LEMMA ReachLaws ==
  ASSUME NEW s \in Status
  PROVE  /\ s \in Reach(s)
         /\ \A u \in Reach(s) : u \in Status /\ Reach(u) \subseteq Reach(s)
<1>1. CASE s \in {"completed", "failed", "aborted"}
  BY <1>1, ReachIs DEF Status
<1>2. CASE s \in {"in_progress", "blocked"}
  BY <1>2, ReachIs DEF Status
<1>3. CASE s \in {"queued", "claimed"}
  BY <1>3, ReachIs DEF Status
<1>4. CASE s = "planning"
  <2>1. \A u \in Status : Reach(u) \subseteq Status
    BY ReachIs DEF Status
  <2> QED
    BY <1>4, <2>1, ReachIs
<1> QED
  BY <1>1, <1>2, <1>3, <1>4 DEF Status

LEMMA RowsLegal ==
  ASSUME NEW x \in Seq(Row), NEW y \in Seq(Row), NEW z \in Seq(Row)
  PROVE  /\ LegalRows(x, x)
         /\ LegalRows(x, y) /\ LegalRows(y, z) => LegalRows(x, z)
<1>1. \A w \in Seq(Row) : w # <<>> => w[1].status \in Status
  <2> SUFFICES ASSUME NEW w \in Seq(Row), w # <<>>
               PROVE  w[1].status \in Status
    OBVIOUS
  <2>1. w[1] \in Row
    OBVIOUS
  <2> QED
    BY <2>1 DEF Row
<1>2. LegalRows(x, x)
  BY <1>1, ReachLaws DEF LegalRows
<1>3. ASSUME LegalRows(x, y), LegalRows(y, z), x # <<>>
      PROVE  z # <<>> /\ z[1].status \in Reach(x[1].status)
  <2>1. y # <<>> /\ y[1].status \in Reach(x[1].status) /\ x[1].status \in Status
    BY <1>1, <1>3 DEF LegalRows
  <2>2. z # <<>> /\ z[1].status \in Reach(y[1].status)
    BY <1>3, <2>1 DEF LegalRows
  <2>3. Reach(y[1].status) \subseteq Reach(x[1].status)
    BY <2>1, ReachLaws
  <2> QED
    BY <2>2, <2>3
<1> QED
  BY <1>2, <1>3 DEF LegalRows

(* Two legal steps, one after the other, are one.                          *)
LEMMA LegalPath ==
  ASSUME NEW x, NEW y, NEW z, LegalRows(x, y), LegalRows(y, z),
         x \in Seq(Row), y \in Seq(Row), z \in Seq(Row)
  PROVE  LegalRows(x, z)
BY RowsLegal

(* What a transition does to a status.                                     *)
LEMMA TransitionIs ==
  ASSUME NEW op \in Transitions, NEW s \in Allowed[op]
  PROVE  /\ s \in Status /\ NewStatus[op] \in Reach(s)
         /\ op \notin {"release", "enqueue"} => NewStatus[op] \notin {"planning", "queued"}
         /\ op = "enqueue" => s = "planning"
<1>1. CASE op \in {"enqueue", "claim", "release", "start"}
  BY <1>1, ReachIs DEF Allowed, NewStatus, Status
<1>2. CASE op \in {"complete", "fail", "block", "unblock", "abort"}
  BY <1>2, ReachIs DEF Allowed, NewStatus, Status
<1> QED
  BY <1>1, <1>2 DEF Transitions

(* What a command writes makes a legal step, and only a release gives a    *)
(* task back.                                                              *)
LEMMA NewRowsLegal ==
  ASSUME NEW rows \in Boards, NEW k, Shape(k), k.op \in Transitions \cup {"create"},
         k.op \in Transitions => Accepts(rows, k), NEW t \in Task
  PROVE  /\ LegalRows(rows[t], NewRows(rows, k)[t])
         /\ Taken(rows[t]) /\ ~Taken(NewRows(rows, k)[t]) => k.op = "release" /\ k.task = t
         /\ k.op = "claim" /\ k.task = t => Taken(NewRows(rows, k)[t])
<1>0. k.task \in Task /\ k.stamp \in Stamp \cup {NoStamp}
  BY DEF Shape, CallSet
<1>1. rows[t] \in Seq(Row) /\ rows[k.task] \in Seq(Row)
  BY <1>0 DEF Boards
<1>2. LegalRows(rows[t], rows[t])
  BY <1>1, RowsLegal
<1>3. CASE k.op = "create"
  <2>1. NewRows(rows, k) = [rows EXCEPT ![k.task] = @ \o Planned]
    BY <1>3 DEF NewRows
  <2>2. CASE t # k.task
    <3>1. NewRows(rows, k)[t] = rows[t]
      BY <1>0, <2>1, <2>2, CreateIs
    <3> QED
      BY <1>2, <1>3, <3>1
  <2>3. CASE t = k.task
    <3>1. NewRows(rows, k)[t] = rows[t] \o Planned
      BY <1>0, <2>1, <2>3, CreateIs
    <3>2. /\ rows[t] \o Planned # <<>>
          /\ rows[t] # <<>> => (rows[t] \o Planned)[1] = rows[t][1]
      BY <1>1, PlannedTyped
    <3> QED
      BY <1>2, <1>3, <3>1, <3>2 DEF LegalRows, Taken
  <2> QED
    BY <2>2, <2>3
<1>4. CASE k.op \in Transitions
  <2>0. rows[k.task] # <<>> /\ rows[k.task][1].status \in Allowed[k.op]
    BY <1>4 DEF Accepts
  <2>1. NewRows(rows, k) = Edit(rows, k.op, k.task, k.stamp)
    BY <1>4 DEF NewRows, Transitions
  <2>2. CASE t # k.task
    <3>1. NewRows(rows, k)[t] = rows[t]
      BY <1>0, <1>4, <2>0, <2>1, <2>2, EditIs
    <3> QED
      BY <1>2, <2>2, <3>1
  <2>3. CASE t = k.task
    <3>1. PICK new : new = NewRows(rows, k)[t]
      OBVIOUS
    <3>2. new # <<>> /\ new[1] = Moved(rows[t][1], k.op, k.stamp)
      BY <1>0, <1>4, <2>0, <2>1, <2>3, <3>1, EditIs
    <3>3. rows[t][1] \in Row
      BY <1>1, <2>0, <2>3, RowsTyped
    <3>4. new[1].status = NewStatus[k.op]
      BY <1>0, <1>4, <3>2, <3>3, MovedTyped
    <3>5. PICK s : s = rows[t][1].status
      OBVIOUS
    <3>6. /\ NewStatus[k.op] \in Reach(s)
          /\ k.op \notin {"release", "enqueue"} => NewStatus[k.op] \notin {"planning", "queued"}
          /\ k.op = "enqueue" => s = "planning"
      BY <1>4, <2>0, <2>3, <3>5, TransitionIs
    <3>7. LegalRows(rows[t], new)
      BY <3>2, <3>4, <3>5, <3>6 DEF LegalRows
    <3>8. Taken(rows[t]) /\ ~Taken(new) => k.op = "release"
      BY <3>2, <3>4, <3>5, <3>6 DEF Taken
    <3>9. k.op = "claim" => Taken(new)
      BY <3>2, <3>4, <3>6 DEF Taken
    <3> QED
      BY <2>3, <3>1, <3>7, <3>8, <3>9
  <2> QED
    BY <2>2, <2>3
<1> QED
  BY <1>3, <1>4

(* And so does a rebuild that keeps the rows.                              *)
LEMMA WritesLegal ==
  ASSUME NEW rows \in Boards, NEW k, Shape(k), k.op \in Edits, Writes(rows, k), NEW t \in Task
  PROVE  /\ LegalRows(rows[t], k.seen[t])
         /\ Taken(rows[t]) /\ ~Taken(k.seen[t]) => k.op = "release" /\ k.task = t
         /\ k.op = "claim" /\ k.task = t => Taken(k.seen[t])
<1>1. CASE k.op = "rebuild"
  <2>1. rows[t] \in Seq(Row)
    BY DEF Boards
  <2>2. LegalRows(rows[t], rows[t])
    BY <2>1, RowsLegal
  <2>3. rows[t] # <<>> => k.seen[t] # <<>> /\ k.seen[t][1] = rows[t][1]
    BY <1>1 DEF Writes, Keeps
  <2> QED
    BY <1>1, <2>2, <2>3 DEF LegalRows, Taken
<1>2. CASE k.op # "rebuild"
  <2>1. k.op \in Transitions \cup {"create"}
    BY <1>2 DEF Edits
  <2>2. (k.op \in Transitions => Accepts(rows, k)) /\ k.seen = NewRows(rows, k)
    BY <1>2 DEF Writes
  <2> QED
    BY <2>1, <2>2, NewRowsLegal
<1> QED
  BY <1>1, <1>2

(* A merge takes the first row of a task from the remote, or from the      *)
(* clone where the remote still has the row both started from.             *)
LEMMA MergedFirst ==
  ASSUME NEW b \in Seq(Row), NEW o \in Seq(Row), NEW r \in Seq(Row), Mergeable(b, o, r),
         LegalRows(b, o), r # <<>>,
         NEW m, m = MergedRows(b, o, r)
  PROVE  /\ m # <<>>
         /\ \/ m[1] = r[1]
            \/ b # <<>> /\ b[1] = r[1] /\ o # <<>> /\ m[1] = o[1]
<1> DEFINE n == Pick(Len(b), Len(o), Len(r))
<1>1. /\ Len(b) \in Nat /\ Len(o) \in Nat /\ Len(r) \in Nat
      /\ DOMAIN b = 1..Len(b) /\ DOMAIN o = 1..Len(o) /\ DOMAIN r = 1..Len(r)
      /\ (b = <<>> <=> Len(b) = 0) /\ (o = <<>> <=> Len(o) = 0) /\ Len(r) >= 1
  OBVIOUS
<1>2. b # <<>> => o # <<>>
  BY DEF LegalRows
<1>3. n \in Nat /\ n >= 1
  <2>1. CASE Len(r) = Len(b)
    <3>1. n = Len(o) /\ Len(b) # 0
      BY <1>1, <2>1 DEF Pick
    <3>2. Len(o) # 0
      BY <1>1, <1>2, <3>1
    <3> QED
      BY <1>1, <3>1, <3>2
  <2>2. CASE Len(r) # Len(b)
    <3>1. n = Len(r)
      BY <2>2 DEF Pick
    <3> QED
      BY <1>1, <3>1
  <2> QED
    BY <2>1, <2>2
<1>4. m = [i \in 1..n |-> Pick(Line(b, i), Line(o, i), Line(r, i))]
  BY DEF MergedRows
<1>5. m[1] = Pick(Line(b, 1), Line(o, 1), Line(r, 1)) /\ m # <<>>
  <2> HIDE DEF n
  <2>1. 1 \in 1..n
    BY <1>3
  <2>2. m[1] = Pick(Line(b, 1), Line(o, 1), Line(r, 1)) /\ DOMAIN m = 1..n
    BY <1>4, <2>1
  <2>3. m \in Seq(Row)
    BY MergedRowsTyped
  <2>4. m # <<>>
    <3>1. DOMAIN m = 1..Len(m) /\ Len(m) \in Nat
      BY <2>3
    <3>2. 1 \in 1..Len(m)
      BY <2>1, <2>2, <3>1
    <3>3. Len(m) # 0
      BY <3>1, <3>2
    <3> QED
      BY <2>3, <3>3
  <2> QED
    BY <2>2, <2>4
<1>6. Line(r, 1) = r[1] /\ r[1] \in Row
  BY <1>1 DEF Line
<1>7. CASE Line(r, 1) = Line(b, 1)
  <2>1. b # <<>> /\ b[1] = r[1]
    BY <1>1, <1>6, <1>7, RowAssumption DEF RowAssumption, Line
  <2>2. o # <<>> /\ Line(o, 1) = o[1]
    BY <1>1, <1>2, <2>1 DEF Line
  <2> QED
    BY <1>5, <1>7, <2>1, <2>2 DEF Pick
<1>8. CASE Line(r, 1) # Line(b, 1)
  BY <1>5, <1>6, <1>8 DEF Pick
<1> QED
  BY <1>7, <1>8

(* What a pull brings to a clone that is not disturbed.                    *)
LEMMA BroughtLegal ==
  ASSUME TypeInv, NEW r \in RepoSet, CloneOK(r, remote.rows),
         r.ahead => Unmergeable(r) = {}, NEW t \in Task,
         NEW rows, rows = IF r.ahead THEN Merged(r, {}).rows ELSE remote.rows
  PROVE  /\ LegalRows(remote.rows[t], rows[t])
         /\ Taken(remote.rows[t]) /\ ~Taken(rows[t])
              => Taken(r.base.rows[t]) /\ ~Taken(r.head.rows[t])
<1>1. /\ remote.rows[t] \in Seq(Row) /\ r.base.rows[t] \in Seq(Row) /\ r.head.rows[t] \in Seq(Row)
      /\ remote \in Content
  BY DEF TypeInv, RepoSet, Content
<1>2. LegalRows(remote.rows[t], remote.rows[t]) /\ LegalRows(r.base.rows[t], r.head.rows[t])
  BY <1>1, RowsLegal DEF CloneOK
<1>3. CASE ~r.ahead
  BY <1>2, <1>3
<1>4. CASE r.ahead
  <2>1. rows[t] = MergedRows(r.base.rows[t], r.head.rows[t], remote.rows[t])
    BY <1>1, <1>4, MergedIs
  <2>2. Mergeable(r.base.rows[t], r.head.rows[t], remote.rows[t])
    BY <1>4 DEF Unmergeable
  <2>3. CASE remote.rows[t] = <<>>
    BY <2>3 DEF LegalRows, Taken
  <2>4. CASE remote.rows[t] # <<>>
    <3>1. /\ rows[t] # <<>>
          /\ \/ rows[t][1] = remote.rows[t][1]
             \/ /\ r.base.rows[t] # <<>> /\ r.base.rows[t][1] = remote.rows[t][1]
                /\ r.head.rows[t] # <<>> /\ rows[t][1] = r.head.rows[t][1]
      BY <1>1, <1>2, <2>1, <2>2, <2>4, MergedFirst
    <3>2. CASE rows[t][1] = remote.rows[t][1]
      BY <1>2, <2>4, <3>1, <3>2 DEF LegalRows, Taken
    <3>3. CASE /\ r.base.rows[t] # <<>> /\ r.base.rows[t][1] = remote.rows[t][1]
               /\ r.head.rows[t] # <<>> /\ rows[t][1] = r.head.rows[t][1]
      BY <1>2, <2>4, <3>1, <3>3 DEF LegalRows, Taken
    <3> QED
      BY <3>1, <3>2, <3>3
  <2> QED
    BY <2>3, <2>4
<1> QED
  BY <1>3, <1>4

-----------------------------------------------------------------------------
(* An undisturbed clone: the steps that do not push                        *)

LEMMA CardChange ==
  ASSUME NEW S, NEW T, NEW a, IsFiniteSet(S), \A b : b # a => (b \in T <=> b \in S)
  PROVE  /\ IsFiniteSet(T) /\ Cardinality(S) \in Nat /\ Cardinality(T) \in Nat
         /\ Cardinality(T) + One(a \in S) = Cardinality(S) + One(a \in T)
<1>1. Cardinality(S) \in Nat
  BY FS_CardinalityType
<1>2. CASE (a \in S) <=> (a \in T)
  <2>1. S = T
    BY <1>2
  <2> QED
    BY <1>1, <2>1
<1>3. CASE a \in S /\ a \notin T
  <2>1. T = S \ {a}
    BY <1>3
  <2>2. IsFiniteSet(T) /\ Cardinality(T) = Cardinality(S) - 1
    BY <1>3, <2>1, FS_RemoveElement
  <2>3. Cardinality(T) \in Nat
    BY <2>2, FS_CardinalityType
  <2> QED
    BY <1>1, <1>3, <2>2, <2>3 DEF One
<1>4. CASE a \notin S /\ a \in T
  <2>1. T = S \cup {a}
    BY <1>4
  <2>2. IsFiniteSet(T) /\ Cardinality(T) = Cardinality(S) + 1
    BY <1>4, <2>1, FS_AddElement
  <2> QED
    BY <1>1, <1>4, <2>2 DEF One
<1> QED
  BY <1>2, <1>3, <1>4

(* Only the agent's own membership of Owing(t) can have changed.           *)
LEMMA LocalOwn ==
  ASSUME Full, OwnClones, NEW a \in Agent, NEW r \in RepoSet, NEW k,
         repo' = [repo EXCEPT ![At[a]] = r], call' = [call EXCEPT ![a] = k],
         remote' = remote, claims' = claims,
         CloneOK(r, remote.rows), CallOK(k, r),
         \A t \in Task :
           \/ releases'[t] = releases[t] /\ (Owes(r, k, t) => Owes(repo[At[a]], call[a], t))
           \/ releases'[t] = releases[t] + 1
  PROVE  Own'
<1>1. /\ At[a] \in Clone /\ repo \in [Clone -> RepoSet] /\ call \in [Agent -> CallSet]
      /\ claims \in [Task -> Nat] /\ releases \in [Task -> Nat]
  BY TaskBoardAssumption DEF TaskBoardAssumption, Full, TypeInv
<1>2. /\ repo'[At[a]] = r /\ call'[a] = k
      /\ \A c \in Clone : c # At[a] => repo'[c] = repo[c]
      /\ \A b \in Agent : b # a => call'[b] = call[b]
  BY <1>1
<1>3. \A b \in Agent : b # a => At[b] \in Clone /\ At[b] # At[a] /\ repo'[At[b]] = repo[At[b]]
  BY <1>2, TaskBoardAssumption DEF TaskBoardAssumption, OwnClones
<1>4. \A c \in Clone : CloneOK(repo'[c], remote'.rows)
  BY <1>2 DEF Full, Own
<1>5. \A b \in Agent : CallOK(call'[b], repo'[At[b]])
  BY <1>2, <1>3 DEF Full, Own
<1>6. ASSUME NEW t \in Task
      PROVE  Accounted(t)'
  <2> DEFINE S == {b \in Agent : Owes(repo[At[b]], call[b], t)}
             T == {b \in Agent : Owes(repo'[At[b]], call'[b], t)}
  <2>1. \A b : b # a => (b \in T <=> b \in S)
    BY <1>2, <1>3
  <2>2. (a \in S <=> Owes(repo[At[a]], call[a], t)) /\ (a \in T <=> Owes(r, k, t))
    BY <1>2
  <2>3. IsFiniteSet(S) /\ claims[t] + Cardinality(S) <= releases[t] + One(Taken(remote.rows[t]))
    BY DEF Full, Own, Accounted, Owing
  <2>4. \/ releases'[t] = releases[t] /\ (a \in T => a \in S)
        \/ releases'[t] = releases[t] + 1
    BY <2>2
  <2> HIDE DEF S, T
  <2>5. /\ IsFiniteSet(T) /\ Cardinality(S) \in Nat /\ Cardinality(T) \in Nat
        /\ Cardinality(T) + One(a \in S) = Cardinality(S) + One(a \in T)
    BY <2>1, <2>3, CardChange
  <2>6. claims[t] \in Nat /\ releases[t] \in Nat /\ One(Taken(remote.rows[t])) \in {0, 1}
    BY <1>1 DEF One
  <2>7. claims[t] + Cardinality(T) <= releases'[t] + One(Taken(remote.rows[t]))
    BY <2>3, <2>4, <2>5, <2>6 DEF One
  <2> QED
    BY <2>5, <2>7 DEF Accounted, Owing, T
<1> QED
  BY <1>4, <1>5, <1>6 DEF Own

(* A call without a board in hand has nothing to answer for.               *)
LEMMA QuietOK ==
  ASSUME NEW k, NEW r, Quiet(k)
  PROVE  CallOK(k, r) /\ \A t : ~Claiming(k, t)
  BY DEF Quiet, CallOK, Claiming, Decided

LEMMA PullOwn ==
  ASSUME Full, OwnClones, NEW a \in Agent, NothingToPull(a) \/ Pull(a)
  PROVE  Own'
<1> DEFINE old == repo[At[a]]
<1>1. PICK r, k :
           /\ repo' = [repo EXCEPT ![At[a]] = r] /\ r \in RepoSet
           /\ call' = [call EXCEPT ![a] = k]
           /\ \/ k.pc = "done" /\ k.op = "none"
              \/ /\ Same(k, call[a])
                 /\ \/ k.pc \in {"guard", "read"}
                    \/ k.pc = "reread" /\ call[a].pc = "repull"
                    \/ k.pc = "push" /\ k.op = "sync"
           /\ r.merge = old.merge
           /\ r = old \/ (r.merge = "none" /\ Pulled(old, r))
  BY PullIs DEF Full
<1>2. /\ remote' = remote /\ claims' = claims /\ releases' = releases
      /\ At[a] \in Clone /\ old \in RepoSet /\ remote \in Content /\ CloneOK(old, remote.rows)
      /\ ~old.head.marked /\ ~remote.marked
  BY TaskBoardAssumption DEF TaskBoardAssumption, Full, TypeInv, Own, Alone, MarkersStayLocal,
     NothingToPull, Pull, ghosts
<1>3. CallOK(k, r) /\ \A t : ~Claiming(k, t)
  BY <1>1, QuietOK DEF Quiet
<1>4. CASE r = old
  <2>1. \A t \in Task : Owes(r, k, t) => Owes(old, call[a], t)
    BY <1>3, <1>4 DEF Owes
  <2> QED
    BY <1>1, <1>2, <1>3, <1>4, <2>1, LocalOwn
<1>5. CASE r.merge = "none" /\ Pulled(old, r)
  <2>1. PICK content : content = IF old.ahead THEN Merged(old, {}) ELSE remote
    OBVIOUS
  <2>2. /\ r.head = content /\ r.base = remote /\ ~r.behind /\ r.ahead = old.ahead
        /\ r.tree.rows = IF SameBoard(old.tree, old.head) THEN content.rows ELSE old.tree.rows
        /\ r.tree.marked = IF SameBoard(old.tree, old.head) THEN content.marked ELSE old.tree.marked
        /\ SameBoard(old.tree, old.head) \/ SameBoard(content, old.head)
        /\ old.ahead => Unmergeable(old) = {}
    BY <1>5, <2>1 DEF Pulled
  <2>3. PICK rows : rows = IF old.ahead THEN Merged(old, {}).rows ELSE remote.rows
    OBVIOUS
  <2>4. content.rows = rows
    BY <2>1, <2>3
  <2>5. ~content.marked
    <3>1. CASE old.ahead
      <4>1. Merged(old, {}).marked = ({} # {} \/ old.head.marked \/ remote.marked)
        BY <1>2, <2>2, <3>1, MergedIs
      <4> QED
        BY <1>2, <2>1, <3>1, <4>1
    <3>2. CASE ~old.ahead
      BY <1>2, <2>1, <3>2
    <3> QED
      BY <3>1, <3>2
  <2>6. ~r.tree.marked
    BY <1>1, <1>2, <1>5, <2>2, <2>5 DEF CloneOK
  <2>7. ASSUME NEW t \in Task
        PROVE  /\ LegalRows(r.base.rows[t], r.head.rows[t]) /\ LegalRows(r.head.rows[t], r.tree.rows[t])
               /\ Taken(remote.rows[t]) /\ ~Taken(rows[t])
                    => Taken(old.base.rows[t]) /\ ~Taken(old.head.rows[t])
    <3>1. /\ LegalRows(remote.rows[t], rows[t])
          /\ Taken(remote.rows[t]) /\ ~Taken(rows[t])
               => Taken(old.base.rows[t]) /\ ~Taken(old.head.rows[t])
      BY <1>2, <2>2, <2>3, BroughtLegal DEF Full
    <3>2. LegalRows(r.head.rows[t], r.tree.rows[t])
      <4>1. CASE SameBoard(old.tree, old.head)
        <5>1. r.head.rows[t] \in Seq(Row)
          BY <1>1 DEF RepoSet, Content
        <5> QED
          BY <2>2, <4>1, <5>1, RowsLegal
      <4>2. CASE ~SameBoard(old.tree, old.head)
        <5>1. content.rows = old.head.rows /\ r.tree.rows = old.tree.rows
          BY <2>2, <4>2 DEF SameBoard
        <5>2. LegalRows(old.head.rows[t], old.tree.rows[t])
          BY <1>1, <1>2, <1>5 DEF CloneOK
        <5> QED
          BY <2>2, <5>1, <5>2
      <4> QED
        BY <4>1, <4>2
    <3> QED
      BY <2>2, <2>4, <3>1, <3>2
  <2>8. CloneOK(r, remote.rows)
    BY <1>2, <1>5, <2>1, <2>2, <2>6, <2>7 DEF CloneOK
  <2>9. ASSUME NEW t \in Task, Owes(r, k, t)
        PROVE  Owes(old, call[a], t)
    <3>1. /\ r.head.rows = rows
          /\ \/ Taken(remote.rows[t]) /\ (~Taken(rows[t]) \/ ~Taken(r.tree.rows[t]))
             \/ Taken(rows[t]) /\ ~Taken(r.tree.rows[t])
      BY <1>3, <1>5, <2>2, <2>4, <2>9 DEF Owes
    <3>2. CASE Taken(remote.rows[t]) /\ ~Taken(rows[t])
      BY <1>1, <1>5, <2>7, <3>2 DEF Owes
    <3>3. CASE Taken(rows[t]) /\ ~Taken(r.tree.rows[t])
      <4>1. ~SameBoard(old.tree, old.head)
        BY <2>2, <2>4, <3>3
      <4>2. rows = old.head.rows /\ r.tree.rows = old.tree.rows
        BY <2>2, <2>4, <4>1 DEF SameBoard
      <4> QED
        BY <1>1, <1>5, <3>3, <4>2 DEF Owes
    <3> QED
      BY <3>1, <3>2, <3>3
  <2> QED
    BY <1>1, <1>2, <1>3, <2>8, <2>9, LocalOwn
<1> QED
  BY <1>1, <1>4, <1>5

LEMMA ConflictsOwn ==
  ASSUME Full, OwnClones, NEW a \in Agent, PullConflicts(a)
  PROVE  Own'
<1> DEFINE old == repo[At[a]]
<1>1. PICK r, k, conflicts :
           /\ repo' = [repo EXCEPT ![At[a]] = r] /\ r \in RepoSet
           /\ call' = [call EXCEPT ![a] = k] /\ k.pc = "done" /\ k.op = "none"
           /\ old.behind /\ old.merge = "none" /\ old.ahead
           /\ conflicts \in SUBSET Task /\ Unmergeable(old) \subseteq conflicts
           /\ r.head = old.head /\ r.base = old.base
           /\ r.ahead = old.ahead /\ r.behind = old.behind
           /\ r.theirs = remote /\ r.merge = "open"
           /\ r.tree.rows = Merged(old, conflicts).rows
           /\ r.tree.marked = Merged(old, conflicts).marked
  BY ConflictsIs DEF Full
<1>2. /\ remote' = remote /\ claims' = claims /\ releases' = releases
      /\ At[a] \in Clone /\ old \in RepoSet /\ remote \in Content /\ CloneOK(old, remote.rows)
  BY TaskBoardAssumption DEF TaskBoardAssumption, Full, TypeInv, Own, PullConflicts, ghosts
<1>3. CallOK(k, r) /\ \A t : ~Claiming(k, t)
  BY <1>1, QuietOK DEF Quiet
<1>4. ~r.tree.marked => conflicts = {}
  BY <1>1, <1>2, MergedIs
<1>5. ASSUME NEW t \in Task, ~r.tree.marked
      PROVE  /\ LegalRows(remote.rows[t], r.tree.rows[t])
             /\ Taken(remote.rows[t]) /\ ~Taken(r.tree.rows[t])
                  => Taken(old.base.rows[t]) /\ ~Taken(old.head.rows[t])
  <2>1. conflicts = {} /\ Unmergeable(old) = {}
    BY <1>1, <1>4, <1>5
  <2>2. PICK rows : rows = IF old.ahead THEN Merged(old, {}).rows ELSE remote.rows
    OBVIOUS
  <2>3. r.tree.rows = rows
    BY <1>1, <2>1, <2>2
  <2> QED
    BY <1>2, <2>1, <2>2, <2>3, BroughtLegal DEF Full
<1>6. CloneOK(r, remote.rows)
  BY <1>1, <1>2, <1>5 DEF CloneOK
<1>7. ASSUME NEW t \in Task, Owes(r, k, t)
      PROVE  Owes(old, call[a], t)
  <2>1. ~r.tree.marked /\ Taken(remote.rows[t]) /\ ~Taken(r.tree.rows[t])
    BY <1>1, <1>3, <1>7 DEF Owes
  <2> QED
    BY <1>1, <1>5, <2>1 DEF Owes
<1> QED
  BY <1>1, <1>2, <1>3, <1>6, <1>7, LocalOwn

LEMMA ReadOwn ==
  ASSUME Full, OwnClones, NEW a \in Agent, Read(a) \/ Reread(a), ~salvaged'
  PROVE  Own'
<1> DEFINE old == call[a]
           r == repo[At[a]]
<1>1. PICK k :
        /\ call' = [call EXCEPT ![a] = k] /\ Shape(k)
        /\ \/ k.pc = "done" /\ k.op = "none"
           \/ /\ Same(k, old)
              /\ \/ k.pc = "write" /\ old.pc = "read"
                 \/ k.pc = "rewrite" /\ old.pc = "reread" /\ k.op = "claim"
              /\ \/ k.op = "rebuild"
                 \/ \E rows \in Readings(r.tree) :
                      /\ k.op \in Transitions => Accepts(rows, old)
                      /\ k.seen = NewRows(rows, old)
        /\ k.pc \in {"write", "rewrite"} =>
             ~r.tree.marked /\ (k.op = "rebuild" => Keeps(r.tree.rows, k.seen))
  BY ReadIs DEF Full
<1>2. /\ repo' = repo /\ remote' = remote /\ claims' = claims /\ releases' = releases
      /\ CallOK(old, r) /\ CloneOK(r, remote.rows) /\ r.tree \in Content
      /\ At[a] \in Clone /\ r \in RepoSet /\ repo' = [repo EXCEPT ![At[a]] = r]
  BY CloneTyped DEF Read, Reread, ghosts, Full, TypeInv, Own
<1>3. CallOK(k, r) /\ \A t \in Task : Claiming(k, t) => ~Taken(r.tree.rows[t])
  <2>1. CASE k.pc = "done" /\ k.op = "none"
    BY <2>1, QuietOK DEF Quiet
  <2>2. CASE Same(k, old) /\ k.pc \in {"write", "rewrite"}
    <3>1. k.op = old.op /\ k.task = old.task /\ k.stamp = old.stamp /\ ~r.tree.marked
      BY <1>1, <2>2 DEF Same
    <3>2. Writes(r.tree.rows, k)
      <4>1. CASE k.op = "rebuild"
        BY <1>1, <2>2, <4>1 DEF Writes
      <4>2. CASE k.op # "rebuild"
        <5>1. PICK rows \in Readings(r.tree) : /\ k.op \in Transitions => Accepts(rows, old)
                                               /\ k.seen = NewRows(rows, old)
          BY <1>1, <2>2, <4>2
        <5>2. rows = r.tree.rows
          BY <1>2, <3>1, ReadingsTyped
        <5> QED
          BY <3>1, <4>2, <5>1, <5>2 DEF Writes, Accepts, NewRows
      <4> QED
        BY <4>1, <4>2
    <3>5. CallOK(k, r)
      BY <2>2, <3>1, <3>2 DEF CallOK
    <3>6. ASSUME NEW t \in Task, Claiming(k, t)
          PROVE  ~Taken(r.tree.rows[t])
      <4>1. k.op = "claim" /\ k.task = t /\ Accepts(r.tree.rows, k) /\ Allowed["claim"] = {"queued"}
        BY <3>2, <3>6 DEF Writes, Claiming, Transitions, Allowed
      <4> QED
        BY <4>1 DEF Accepts, Taken
    <3> QED
      BY <3>5, <3>6
  <2> QED
    BY <1>1, <2>1, <2>2
<1>4. \A t \in Task : Owes(r, k, t) => Owes(r, old, t)
  BY <1>3 DEF Owes
<1> QED
  BY <1>1, <1>2, <1>3, <1>4, LocalOwn

LEMMA WriteOwn ==
  ASSUME Full, OwnClones, NEW a \in Agent, Write(a)
  PROVE  Own'
<1> DEFINE old == repo[At[a]]
           ko == call[a]
<1>1. PICK r, k :
           /\ repo' = [repo EXCEPT ![At[a]] = r] /\ r \in RepoSet
           /\ r.tree.rows = ko.seen /\ ~r.tree.marked
           /\ r.head = old.head /\ r.base = old.base /\ r.theirs = old.theirs
           /\ r.merge = old.merge /\ r.ahead = old.ahead /\ r.behind = old.behind
           /\ call' = [call EXCEPT ![a] = k] /\ Shape(k) /\ Same(k, ko)
           /\ k.pc = IF ko.pc = "write" THEN "commit" ELSE "recommit"
           /\ ko.pc \in {"write", "rewrite"}
  BY WriteIs DEF Full
<1>2. /\ remote' = remote /\ claims' = claims
      /\ releases' = IF ko.op = "release" THEN Count(releases, ko.task) ELSE releases
  BY DEF Write
<1>3. /\ At[a] \in Clone /\ old \in RepoSet /\ CloneOK(old, remote.rows) /\ CallOK(ko, old)
      /\ Shape(ko) /\ releases \in [Task -> Nat] /\ old.tree.rows \in Boards
      /\ remote.rows \in Boards
  BY CloneTyped, CallTyped, FieldsTyped DEF Full, TypeInv, Own
<1>4. /\ ko.op \in Edits /\ ~old.tree.marked /\ Writes(old.tree.rows, ko)
      /\ k.op = ko.op /\ k.task = ko.task
  BY <1>1, <1>3 DEF CallOK, Shape, Fits, Again, Edits, Transitions, Same
<1>5. ASSUME NEW t \in Task
      PROVE  /\ LegalRows(old.tree.rows[t], r.tree.rows[t])
             /\ Taken(old.tree.rows[t]) /\ ~Taken(r.tree.rows[t]) => ko.op = "release" /\ ko.task = t
             /\ ko.op = "claim" /\ ko.task = t => Taken(r.tree.rows[t])
  BY <1>1, <1>3, <1>4, WritesLegal
<1>6. CloneOK(r, remote.rows)
  <2>1. ASSUME NEW t \in Task
        PROVE  /\ LegalRows(r.base.rows[t], r.head.rows[t])
               /\ r.merge = "none" => LegalRows(r.head.rows[t], r.tree.rows[t])
               /\ r.merge # "none" => LegalRows(r.theirs.rows[t], r.tree.rows[t])
    <3>1. /\ old.head.rows[t] \in Seq(Row) /\ old.theirs.rows[t] \in Seq(Row)
          /\ old.tree.rows[t] \in Seq(Row) /\ r.tree.rows[t] \in Seq(Row)
      BY <1>1, <1>3 DEF RepoSet, Content
    <3>2. /\ LegalRows(old.base.rows[t], old.head.rows[t])
          /\ old.merge = "none" => LegalRows(old.head.rows[t], old.tree.rows[t])
          /\ old.merge # "none" => LegalRows(old.theirs.rows[t], old.tree.rows[t])
      BY <1>3, <1>4 DEF CloneOK
    <3>3. /\ r.base.rows = old.base.rows /\ r.head.rows = old.head.rows
          /\ r.theirs.rows = old.theirs.rows /\ r.merge = old.merge
      BY <1>1
    <3>4. LegalRows(old.tree.rows[t], r.tree.rows[t])
      BY <1>5
    <3>5. old.merge = "none" => LegalRows(old.head.rows[t], r.tree.rows[t])
      BY <3>1, <3>2, <3>4, LegalPath
    <3>6. old.merge # "none" => LegalRows(old.theirs.rows[t], r.tree.rows[t])
      BY <3>1, <3>2, <3>4, LegalPath
    <3> QED
      BY <3>2, <3>3, <3>5, <3>6
  <2> QED
    BY <1>1, <1>3, <2>1 DEF CloneOK
<1>7. CallOK(k, r)
  <2>1. k.op = "claim" => Taken(r.tree.rows[k.task])
    <3>1. k.op = "claim" => k.task \in Task
      BY <1>1 DEF Shape, Transitions
    <3> QED
      BY <1>4, <1>5, <3>1
  <2> QED
    BY <1>1, <1>4, <2>1 DEF CallOK, Transitions
<1>8. ASSUME NEW t \in Task
      PROVE  \/ releases'[t] = releases[t] /\ (Owes(r, k, t) => Owes(old, ko, t))
             \/ releases'[t] = releases[t] + 1
  <2>1. CASE ko.op = "release" /\ ko.task = t
    BY <1>2, <1>3, <2>1, CountTyped
  <2>2. CASE ~(ko.op = "release" /\ ko.task = t)
    <3>1. releases'[t] = releases[t]
      <4>1. ko.op = "release" => ko.task \in Task
        BY <1>3 DEF Shape, Transitions
      <4> QED
        BY <1>2, <1>3, <2>2, <4>1, CountTyped
    <3>2. /\ Claiming(k, t) => Claiming(ko, t)
          /\ ko.pc \notin {"push", "repush"}
      BY <1>1, <1>4 DEF Claiming, Decided
    <3>3. ~Taken(r.tree.rows[t]) => ~Taken(old.tree.rows[t])
      BY <1>5, <2>2
    <3>4. Owes(r, k, t) => Owes(old, ko, t)
      BY <1>1, <1>4, <3>2, <3>3 DEF Owes
    <3> QED
      BY <3>1, <3>4
  <2> QED
    BY <2>1, <2>2
<1> QED
  BY <1>1, <1>2, <1>6, <1>7, <1>8, LocalOwn

LEMMA CommitOwn ==
  ASSUME Full, OwnClones, NEW a \in Agent, Commit(a)
  PROVE  Own'
<1> DEFINE old == repo[At[a]]
           ko == call[a]
<1>1. PICK r, k :
           /\ repo' = [repo EXCEPT ![At[a]] = r] /\ r \in RepoSet
           /\ r.tree = old.tree /\ r.head.rows = r.tree.rows /\ r.ahead /\ r.merge = "none"
           /\ IF old.merge = "none" THEN r.base = old.base /\ r.behind = old.behind
              ELSE r.base = old.theirs /\ r.behind = (old.merge = "stale")
           /\ call' = [call EXCEPT ![a] = k]
           /\ ko.pc \in {"commit", "recommit"}
           /\ \/ Over(k) /\ k.op \in {"none", "enqueue"}
              \/ /\ Same(k, ko) /\ k.sync
                 /\ k.pc = IF ko.pc = "commit" THEN "push" ELSE "repush"
  BY CommitIs DEF Full
<1>2. remote' = remote /\ claims' = claims /\ releases' = releases
  BY DEF Commit, ghosts
<1>3. /\ At[a] \in Clone /\ old \in RepoSet /\ CloneOK(old, remote.rows) /\ CallOK(ko, old)
      /\ ~old.tree.marked /\ old.merge \in {"none", "open", "stale"}
  BY <1>1, CloneTyped DEF Full, Own, CallOK
<1>4. CloneOK(r, remote.rows)
  <2>1. ASSUME NEW t \in Task
        PROVE  LegalRows(r.base.rows[t], r.head.rows[t]) /\ LegalRows(r.head.rows[t], r.tree.rows[t])
    <3>1. /\ old.base.rows[t] \in Seq(Row) /\ old.head.rows[t] \in Seq(Row)
          /\ old.tree.rows[t] \in Seq(Row) /\ old.theirs.rows[t] \in Seq(Row)
      BY <1>3 DEF RepoSet, Content
    <3>2. /\ LegalRows(old.base.rows[t], old.head.rows[t])
          /\ old.merge = "none" => LegalRows(old.head.rows[t], old.tree.rows[t])
          /\ old.merge # "none" => LegalRows(old.theirs.rows[t], old.tree.rows[t])
      BY <1>3 DEF CloneOK
    <3>3. LegalRows(r.head.rows[t], r.tree.rows[t])
      BY <1>1, <3>1, RowsLegal
    <3>4. LegalRows(r.base.rows[t], r.head.rows[t])
      <4>1. CASE old.merge = "none"
        <5>1. r.base.rows[t] = old.base.rows[t] /\ r.head.rows[t] = old.tree.rows[t]
          BY <1>1, <4>1
        <5>2. LegalRows(old.base.rows[t], old.tree.rows[t])
          BY <3>1, <3>2, <4>1, LegalPath
        <5> QED
          BY <5>1, <5>2
      <4>2. CASE old.merge # "none"
        BY <1>1, <3>2, <4>2
      <4> QED
        BY <4>1, <4>2
    <3> QED
      BY <3>3, <3>4
  <2>2. ~r.behind => r.base.rows = remote.rows
    <3>1. CASE old.merge = "none"
      BY <1>1, <1>3, <3>1 DEF CloneOK
    <3>2. CASE old.merge # "none"
      BY <1>1, <1>3, <3>2 DEF CloneOK
    <3> QED
      BY <3>1, <3>2
  <2> QED
    BY <1>1, <1>3, <2>1, <2>2 DEF CloneOK
<1>5. /\ CallOK(k, r) /\ \A t : Claiming(k, t) => Claiming(ko, t) /\ k.pc \in {"push", "repush"}
  <2>1. CASE Over(k) /\ k.op \in {"none", "enqueue"}
    BY <2>1, QuietOK DEF Quiet, Over
  <2>2. CASE Same(k, ko) /\ k.pc \in {"push", "repush"}
    <3>1. k.op = ko.op /\ k.task = ko.task
      BY <1>3, <2>2 DEF Same, CallOK
    <3>2. k.op = "claim" => Taken(r.tree.rows[k.task]) /\ Taken(r.head.rows[k.task])
      BY <1>1, <1>3, <3>1 DEF CallOK
    <3>3. CallOK(k, r)
      BY <2>2, <3>1, <3>2 DEF CallOK
    <3>4. \A t : Claiming(k, t) => Claiming(ko, t)
      BY <1>1, <3>1 DEF Claiming, Decided
    <3> QED
      BY <2>2, <3>3, <3>4
  <2> QED
    BY <1>1, <2>1, <2>2
<1>6. \A t \in Task : Owes(r, k, t) => Owes(old, ko, t)
  <2> SUFFICES ASSUME NEW t \in Task, Owes(r, k, t)
               PROVE  Owes(old, ko, t)
    OBVIOUS
  <2>1. /\ Taken(r.base.rows[t])
        /\ ~Taken(old.tree.rows[t]) \/ Claiming(ko, t)
    BY <1>1, <1>5 DEF Owes
  <2>2. CASE old.merge = "none"
    BY <1>1, <2>1, <2>2 DEF Owes
  <2>3. CASE old.merge # "none"
    BY <1>1, <1>3, <2>1, <2>3 DEF Owes
  <2> QED
    BY <2>2, <2>3
<1> QED
  BY <1>1, <1>2, <1>4, <1>5, <1>6, LocalOwn

LEMMA OtherOwn ==
  ASSUME Full, OwnClones, NEW a \in Agent, Others(a)
  PROVE  Own'
<1> DEFINE old == repo[At[a]]
<1>1. PICK k : /\ call' = [call EXCEPT ![a] = k] /\ Shape(k)
               /\ \/ k.pc = "done" /\ k.op = "none"
                  \/ /\ Same(k, call[a])
                     /\ \/ k.pc = "pull"
                        \/ k.pc = "read" /\ k.op \in {"create", "rebuild"}
                        \/ k.pc = "repull" /\ call[a].pc = "push"
  BY OtherCall DEF Full
<1>2. PICK r : repo' = [repo EXCEPT ![At[a]] = r] /\ r \in RepoSet /\ SameBoards(r, old)
  BY OtherClone DEF Full
<1>3. remote' = remote /\ claims' = claims /\ releases' = releases
  BY DEF Others, PullRefused, GuardCheck, WriteTaskFile, List, CommitRefused, PushRejected,
         Fails, Ends, ghosts
<1>4. CallOK(call[a], old) /\ CloneOK(old, remote.rows)
  BY CloneTyped DEF Full, Own
<1>5. CallOK(k, r) /\ \A t : ~Claiming(k, t)
  BY <1>1, QuietOK DEF Quiet
<1>6. CloneOK(r, remote.rows)
  BY <1>2, <1>4 DEF CloneOK, SameBoards
<1>7. \A t \in Task : Owes(r, k, t) => Owes(old, call[a], t)
  BY <1>2, <1>5 DEF Owes, SameBoards
<1> QED
  BY <1>1, <1>2, <1>3, <1>5, <1>6, <1>7, LocalOwn

LEMMA BeginOwn ==
  ASSUME Full, OwnClones, NEW a \in Agent, Begins(a)
  PROVE  Own'
<1>1. PICK k : /\ Begin(a, k)
               /\ k.pc \in {"get", "file", "list", "pull"} \/ (k.pc = "push" /\ k.op # "claim")
  BY BeginIs DEF Full
<1>2. /\ call' = [call EXCEPT ![a] = k] /\ repo' = repo /\ remote' = remote
      /\ claims' = claims /\ releases' = releases
  BY <1>1 DEF Begin, ghosts
<1>3. CallOK(k, repo[At[a]]) /\ \A t : ~Claiming(k, t)
  BY <1>1, QuietOK DEF Quiet
<1>4. /\ repo' = [repo EXCEPT ![At[a]] = repo[At[a]]] /\ repo[At[a]] \in RepoSet
      /\ CloneOK(repo[At[a]], remote.rows)
  BY <1>2, CloneTyped DEF Full, TypeInv, Own
<1>5. \A t \in Task : Owes(repo[At[a]], k, t) => Owes(repo[At[a]], call[a], t)
  BY <1>3 DEF Owes
<1> QED
  BY <1>2, <1>3, <1>4, <1>5, LocalOwn

-----------------------------------------------------------------------------
(* The push                                                                *)

(* The clone that pushes has what the remote has, and its own commits.     *)
LEMMA PushBoards ==
  ASSUME Full, NEW a \in Agent, Pushes(a)
  PROVE  /\ remote' = repo[At[a]].head /\ remote.rows = repo[At[a]].base.rows
         /\ repo[At[a]].merge = "none"
         /\ \A t \in Task : LegalRows(remote.rows[t], remote'.rows[t])
<1>1. At[a] \in Clone /\ CloneOK(repo[At[a]], remote.rows)
  BY CloneTyped DEF Full, Own
<1>2. ~repo[At[a]].behind /\ remote' = repo[At[a]].head
  BY PushClone DEF Full
<1> QED
  BY <1>1, <1>2 DEF CloneOK

LEMMA PushClones ==
  ASSUME Full, NEW a \in Agent, Pushes(a), NEW c \in Clone
  PROVE  CloneOK(repo'[c], remote'.rows)
<1> DEFINE old == repo[At[a]]
<1>1. /\ repo'[c].head = repo[c].head /\ repo'[c].tree = repo[c].tree
      /\ repo'[c].theirs = repo[c].theirs
      /\ c = At[a] => /\ repo'[c].base = repo[c].head /\ ~repo'[c].ahead /\ ~repo'[c].behind
                      /\ repo'[c].merge = repo[c].merge
      /\ c # At[a] => /\ repo'[c].base = repo[c].base /\ repo'[c].ahead = repo[c].ahead
                      /\ repo'[c].behind = (repo[c].behind \/ old.ahead)
                      /\ repo'[c].merge = IF old.ahead /\ repo[c].merge = "open" THEN "stale"
                                          ELSE repo[c].merge
  BY PushClone DEF Full
<1>2. /\ CloneOK(repo[c], remote.rows) /\ CloneOK(old, remote.rows) /\ repo[c] \in RepoSet
      /\ remote' = old.head /\ remote.rows = old.base.rows /\ old.merge = "none"
  BY CloneTyped, PushBoards DEF Full, TypeInv, Own
<1>3. CASE c = At[a]
  <2>1. ASSUME NEW t \in Task
        PROVE  LegalRows(repo[c].head.rows[t], repo[c].head.rows[t])
    <3>1. repo[c].head.rows[t] \in Seq(Row)
      BY <1>2 DEF RepoSet, Content
    <3> QED
      BY <3>1, RowsLegal
  <2> QED
    BY <1>1, <1>2, <1>3, <2>1 DEF CloneOK
<1>4. CASE c # At[a]
  <2>1. ~old.ahead => remote'.rows = remote.rows
    BY <1>2 DEF CloneOK
  <2>2. /\ repo'[c].merge = "none" <=> repo[c].merge = "none"
        /\ repo'[c].merge = "open" => repo[c].merge = "open" /\ ~old.ahead
    BY <1>1, <1>4
  <2>3. /\ ~repo'[c].ahead => repo'[c].head.rows = repo'[c].base.rows
        /\ ~repo'[c].behind => repo'[c].base.rows = remote'.rows
        /\ repo'[c].merge # "none" => repo'[c].behind
        /\ repo'[c].merge = "open" => repo'[c].theirs.rows = remote'.rows
        /\ repo'[c].tree.marked => repo'[c].merge # "none"
    BY <1>1, <1>2, <1>4, <2>1, <2>2 DEF CloneOK
  <2> QED
    BY <1>1, <1>2, <1>4, <2>2, <2>3 DEF CloneOK
<1> QED
  BY <1>3, <1>4

(* One claim comes in where the remote's board has the task free; where it *)
(* has the task taken, the pushing clone has paid with a release.          *)
LEMMA PushAccounts ==
  ASSUME Full, OwnClones, NEW a \in Agent, Pushes(a), NEW t \in Task
  PROVE  Accounted(t)'
<1> DEFINE old == repo[At[a]]
           ko == call[a]
           S == {b \in Agent : Owes(repo[At[b]], call[b], t)}
           T == {b \in Agent : Owes(repo'[At[b]], call'[b], t)}
<1>1. PICK k : /\ call' = [call EXCEPT ![a] = k]
               /\ \/ Over(k) /\ k.op \in {"none", "enqueue"}
                  \/ Same(k, ko) /\ k.pc = "repull"
  BY PushCall DEF Full
<1>2. \A d \in Clone :
        /\ repo'[d].head = repo[d].head /\ repo'[d].tree = repo[d].tree
        /\ repo'[d].theirs = repo[d].theirs
        /\ d = At[a] => repo'[d].base = repo[d].head /\ repo'[d].merge = repo[d].merge
        /\ d # At[a] => /\ repo'[d].base = repo[d].base
                        /\ repo'[d].merge = "none" <=> repo[d].merge = "none"
  BY PushClone DEF Full
<1>3. /\ At[a] \in Clone /\ call \in [Agent -> CallSet] /\ CallOK(ko, old)
      /\ claims \in [Task -> Nat] /\ releases \in [Task -> Nat] /\ Shape(ko)
      /\ \A b \in Agent : b # a => At[b] \in Clone /\ At[b] # At[a]
  BY TaskBoardAssumption DEF TaskBoardAssumption, Full, TypeInv, Own, OwnClones
<1>4. old.merge = "none" /\ remote' = old.head /\ remote.rows = old.base.rows
  BY PushBoards
<1>5. \A b : b # a => (b \in T <=> b \in S)
  <2>1. ASSUME NEW b \in Agent, b # a
        PROVE  /\ call'[b] = call[b] /\ repo'[At[b]].head = repo[At[b]].head
               /\ repo'[At[b]].tree = repo[At[b]].tree /\ repo'[At[b]].base = repo[At[b]].base
               /\ repo'[At[b]].theirs = repo[At[b]].theirs
               /\ repo'[At[b]].merge = "none" <=> repo[At[b]].merge = "none"
    BY <1>1, <1>2, <1>3, <2>1
  <2>2. ASSUME NEW b \in Agent, b # a
        PROVE  Owes(repo'[At[b]], call'[b], t) <=> Owes(repo[At[b]], call[b], t)
    BY <2>1, <2>2 DEF Owes
  <2> QED
    BY <2>2
<1>6. a \in T <=> Taken(old.head.rows[t]) /\ ~Taken(old.tree.rows[t])
  <2>1. call'[a] = k /\ ~Claiming(k, t)
    BY <1>1, <1>3 DEF Claiming, Decided, Over
  <2> QED
    BY <1>2, <1>3, <1>4, <2>1 DEF Owes
<1>7. /\ ko.pc \in {"push", "repush"} /\ releases' = releases
      /\ claims' = claims \/ (ko.op = "claim" /\ claims' = Count(claims, ko.task))
  BY DEF Pushes, Push, PushUnanswered, AtPush
<1>8. a \in S <=> \/ /\ Taken(remote.rows[t])
                     /\ ~Taken(old.head.rows[t]) \/ ~Taken(old.tree.rows[t]) \/ Claiming(ko, t)
                  \/ Taken(old.head.rows[t]) /\ ~Taken(old.tree.rows[t])
  BY <1>4, <1>7 DEF Owes
<1>9. /\ Claiming(ko, t) => Taken(old.head.rows[t]) /\ Taken(old.tree.rows[t])
      /\ claims'[t] \in {claims[t], IF Claiming(ko, t) THEN claims[t] + 1 ELSE claims[t]}
  <2>1. ko.op = "claim" => /\ ko.task \in Task /\ Taken(old.head.rows[ko.task])
                           /\ Taken(old.tree.rows[ko.task])
    BY <1>3, <1>7 DEF CallOK, Shape, Transitions
  <2>2. Claiming(ko, t) <=> ko.op = "claim" /\ ko.task = t
    BY <1>7 DEF Claiming, Decided
  <2> QED
    BY <1>3, <1>7, <2>1, <2>2, CountTyped
<1>10. IsFiniteSet(S) /\ claims[t] + Cardinality(S) <= releases[t] + One(Taken(remote.rows[t]))
  BY DEF Full, Own, Accounted, Owing
<1> HIDE DEF S, T, old, ko
<1>11. /\ IsFiniteSet(T) /\ Cardinality(S) \in Nat /\ Cardinality(T) \in Nat
       /\ Cardinality(T) + One(a \in S) = Cardinality(S) + One(a \in T)
  BY <1>5, <1>10, CardChange
<1>12. claims[t] \in Nat /\ releases[t] \in Nat
  BY <1>3
<1>13. claims'[t] + Cardinality(T) <= releases'[t] + One(Taken(remote'.rows[t]))
  <2>1. CASE Claiming(ko, t)
    <3>1. Taken(remote'.rows[t]) /\ ~(a \in T) /\ (a \in S <=> Taken(remote.rows[t]))
      BY <1>4, <1>6, <1>8, <1>9, <2>1
    <3>2. claims'[t] <= claims[t] + 1 /\ claims'[t] \in Nat /\ releases'[t] = releases[t]
      BY <1>7, <1>9, <1>12
    <3> QED
      BY <1>10, <1>11, <1>12, <3>1, <3>2 DEF One
  <2>2. CASE ~Claiming(ko, t)
    <3>1. claims'[t] = claims[t] /\ releases'[t] = releases[t]
      BY <1>7, <1>9, <2>2
    <3>2. /\ Taken(remote.rows[t]) /\ ~Taken(remote'.rows[t]) => a \in S /\ ~(a \in T)
          /\ a \in T => a \in S
      BY <1>4, <1>6, <1>8, <2>2
    <3> QED
      BY <1>10, <1>11, <1>12, <3>1, <3>2 DEF One
  <2> QED
    BY <2>1, <2>2
<1> QED
  BY <1>11, <1>13 DEF Accounted, Owing, T

LEMMA PushOwn ==
  ASSUME Full, OwnClones, NEW a \in Agent, Pushes(a)
  PROVE  Own'
<1>1. ASSUME NEW b \in Agent
      PROVE  CallOK(call'[b], repo'[At[b]])
  <2>1. PICK k : /\ call' = [call EXCEPT ![a] = k]
                 /\ \/ Over(k) /\ k.op \in {"none", "enqueue"}
                    \/ Same(k, call[a]) /\ k.pc = "repull"
    BY PushCall DEF Full
  <2>2. /\ call \in [Agent -> CallSet] /\ At[b] \in Clone /\ CallOK(call[b], repo[At[b]])
        /\ CallOK(call[a], repo[At[a]])
        /\ repo'[At[b]].head = repo[At[b]].head /\ repo'[At[b]].tree = repo[At[b]].tree
    BY PushClone, CloneTyped DEF Full, TypeInv, Own
  <2>3. CASE b = a
    <3>2. Quiet(k)
      BY <2>1 DEF Quiet, Over
    <3> QED
      BY <2>1, <2>2, <2>3, <3>2, QuietOK
  <2>4. CASE b # a
    <3>1. call'[b] = call[b]
      BY <2>1, <2>2, <2>4
    <3> QED
      BY <2>2, <3>1 DEF CallOK
  <2> QED
    BY <2>3, <2>4
<1>2. \A t \in Task : Accounted(t)'
  BY PushAccounts
<1> QED
  BY <1>1, <1>2, PushClones DEF Own

-----------------------------------------------------------------------------
(* The invariant and what follows                                          *)

LEMMA InitOwn == ASSUME Init PROVE Own
<1>1. remote \in Content /\ ~remote.marked
  <2>1. remote \in Content
    BY TypeInit DEF TypeInv
  <2>2. ~remote.marked
    BY DEF Init
  <2> QED
    BY <2>1, <2>2
<1>2. ASSUME NEW c \in Clone
      PROVE  /\ repo[c].head = remote /\ repo[c].tree = remote /\ repo[c].base = remote
             /\ ~repo[c].ahead /\ ~repo[c].behind /\ repo[c].merge = "none"
  BY DEF Init
<1>3. ASSUME NEW c \in Clone
      PROVE  CloneOK(repo[c], remote.rows)
  <2>1. ASSUME NEW t \in Task
        PROVE  LegalRows(remote.rows[t], remote.rows[t])
    <3>1. remote.rows[t] \in Seq(Row)
      BY <1>1 DEF Content
    <3> QED
      BY <3>1, RowsLegal
  <2> QED
    BY <1>1, <1>2, <2>1 DEF CloneOK
<1>4. ASSUME NEW a \in Agent
      PROVE  /\ At[a] \in Clone /\ CallOK(call[a], repo[At[a]])
             /\ \A t : ~Claiming(call[a], t)
  <2>1. call[a] = Done("none", NoTask)
    BY DEF Init
  <2>2. Quiet(call[a])
    BY <2>1, DoneTyped DEF Quiet
  <2> QED
    BY <2>2, QuietOK, TaskBoardAssumption DEF TaskBoardAssumption
<1>5. ASSUME NEW t \in Task
      PROVE  Accounted(t)
  <2>1. Owing(t) = {}
    BY <1>2, <1>4 DEF Owing, Owes
  <2>2. IsFiniteSet(Owing(t)) /\ Cardinality(Owing(t)) = 0
    BY <2>1, FS_EmptySet
  <2>3. claims[t] = 0 /\ releases[t] = 0
    BY DEF Init
  <2> QED
    BY <2>2, <2>3 DEF Accounted, One
<1> QED
  BY <1>3, <1>4, <1>5 DEF Own

LEMMA OwnStep == ASSUME Full, OwnClones, [Next]_vars, ~salvaged' PROVE Own'
<1>1. CASE UNCHANGED vars
  BY <1>1 DEF vars, Full, Own, Accounted, Owing
<1>2. ASSUME NEW a \in Agent, Local(a)
      PROVE  Own'
  BY <1>2, PullOwn, ConflictsOwn, ReadOwn, WriteOwn, CommitOwn, OtherOwn DEF Local
<1> QED
  BY <1>1, <1>2, NextIs, BeginOwn, PushOwn

(* Nothing is forgotten.                                                   *)
LEMMA StaysSalvaged == ASSUME TypeInv, [Next]_vars, salvaged PROVE salvaged'
<1>1. CASE UNCHANGED vars
  BY <1>1 DEF vars
<1>2. ASSUME NEW a \in Agent, Begins(a)
      PROVE  salvaged'
  BY <1>2, BeginIs DEF Begin, ghosts
<1>3. ASSUME NEW a \in Agent, Pushes(a)
      PROVE  salvaged'
  BY <1>3 DEF Pushes, Push, PushUnanswered
<1> QED
  BY <1>1, <1>2, <1>3, NextIs, LocalFrame

(* With a clone for each agent, whatever the agents, the tasks, the stamps *)
(* and the failures: until a board is salvaged, legal steps lead from the  *)
(* remote's board to every board a command can still publish, and the      *)
(* accounts of every task balance.                                         *)
THEOREM Invariance == ASSUME OwnClones PROVE Spec => []IInv
<1>1. Init => IInv
  BY TypeInit, AloneInit, InitOwn DEF IInv
<1>2. IInv /\ [Next]_vars => IInv'
  <2> SUFFICES ASSUME IInv, [Next]_vars PROVE IInv'
    OBVIOUS
  <2>1. TypeInv' /\ Alone'
    BY TypeStep, AloneStep DEF IInv
  <2>2. salvaged' \/ Own'
    BY StaysSalvaged, OwnStep DEF IInv, Full
  <2> QED
    BY <2>1, <2>2 DEF IInv
<1> QED
  BY <1>1, <1>2, PTL DEF Spec

(* Of any number of agents that race for a task, each with its clone, as   *)
(* many synchronised claims return nil as there were releases of it, and   *)
(* at most one more, until a board is salvaged: lost answers, interrupted  *)
(* commands, merges, boards left in conflict and rebuilds included.        *)
THEOREM ClaimsExclude == ASSUME OwnClones PROVE Spec => []OneClaimWins
<1>1. IInv => OneClaimWins
  <2> SUFFICES ASSUME IInv, ~salvaged, NEW t \in Task PROVE claims[t] <= 1 + releases[t]
    BY DEF OneClaimWins
  <2>1. IsFiniteSet(Owing(t))
        /\ claims[t] + Cardinality(Owing(t)) <= releases[t] + One(Taken(remote.rows[t]))
    BY DEF IInv, Own, Accounted
  <2>2. Cardinality(Owing(t)) \in Nat
    BY <2>1, FS_CardinalityType
  <2>3. claims[t] \in Nat /\ releases[t] \in Nat
    BY DEF IInv, TypeInv
  <2> QED
    BY <2>1, <2>2, <2>3 DEF One
<1> QED
  BY <1>1, Invariance, PTL

(* What the remote says of a task then only moves along the transitions: a *)
(* push replaces the board that its clone last shared, which is the        *)
(* remote's, by one reached from it.                                       *)
THEOREM RemoteIsLegal == ASSUME OwnClones PROVE Spec => RemoteStepsAreLegal
<1>1. IInv /\ [Next]_vars => [salvaged \/ \A t \in Task : LegalRows(remote.rows[t], remote'.rows[t])]_vars
  <2> SUFFICES ASSUME IInv, [Next]_vars, ~UNCHANGED vars, ~salvaged, NEW t \in Task
               PROVE  LegalRows(remote.rows[t], remote'.rows[t])
    OBVIOUS
  <2>0. Full
    BY DEF IInv, Full
  <2>1. LegalRows(remote.rows[t], remote.rows[t])
    <3>1. remote.rows[t] \in Seq(Row)
      BY DEF IInv, TypeInv, Content
    <3> QED
      BY <3>1, RowsLegal
  <2>2. PICK a \in Agent : Begins(a) \/ Pushes(a) \/ Local(a)
    BY NextIs
  <2>3. CASE Pushes(a)
    BY <2>0, <2>3, PushBoards
  <2>4. CASE Begins(a) \/ Local(a)
    <3>1. remote' = remote
      BY <2>4, BeginIs, LocalFrame DEF IInv, Begin
    <3> QED
      BY <2>1, <3>1
  <2> QED
    BY <2>2, <2>3, <2>4
<1> QED
  BY <1>1, Invariance, PTL DEF Spec, RemoteStepsAreLegal
=============================================================================
