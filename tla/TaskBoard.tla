------------------------------ MODULE TaskBoard ------------------------------
(***************************************************************************)
(* gitTaskStore and gitBoard: the board of tasks/README.md and a file for  *)
(* each task, kept in clones of one state repository and changed by agents *)
(* that pull, read the whole board, write it back, commit and push.  There *)
(* is no lock: agents of one clone share its working tree, agents of two   *)
(* clones meet at the push.                                                *)
(*                                                                         *)
(* A content of the repository is the rows of the board, task by task and  *)
(* in the order of the table (Create can append a second row of a task,    *)
(* findRow takes the first), whether conflict markers stand between them,  *)
(* and the tasks that have a file.  A row is its status and what a claim   *)
(* stamps it with (branch, model and minute).                              *)
(*                                                                         *)
(* Of the history a clone keeps the last content it shares with the remote *)
(* and whether it is ahead or behind.  A divergent pull is refused, or git *)
(* merges line by line, as the clone is configured: either may happen.     *)
(* Where git cannot merge, both sides of the lines stay in the working     *)
(* tree with their markers, nobody takes the merge back, and the next      *)
(* commit concludes it.  Where git sees a conflict depends on the layout,  *)
(* so a merge may conflict on any lines the two sides differ in.  What     *)
(* else the task files hold is left out.                                   *)
(***************************************************************************)
EXTENDS Integers, SequencesExt

CONSTANTS
    Agent,
    Clone,
    At,             \* the clone an agent works in
    Task, NoTask,
    Stamp,          \* what claims write; two claims may write the same
    NoStamp,
    NoGuard, NoRow,
    StartStatus,    \* the statuses of the tasks there are at the start
    MaxCalls,       \* bound: calls
    MaxFailures     \* bound: failed git commands and processes that end

ASSUME TaskBoardAssumption ==
    /\ At \in [Agent -> Clone] /\ NoStamp \notin Stamp /\ NoTask \notin Task
    /\ MaxCalls \in Nat /\ MaxFailures \in Nat

VARIABLES
    remote,         \* the content of the remote branch
    repo,           \* per clone: its commits, its index and its working tree
    call,           \* per agent: the command it runs, or the last result
    claims,         \* per task: claims that pushed and returned nil
    releases,       \* per task: releases that were written to a board
    fresh,          \* agents whose claim still has every commit of the remote
    salvaged,       \* has a command gone on with less than the board said?
    calls, failures

vars == <<remote, repo, call, claims, releases, fresh, salvaged, calls, failures>>

Status == {"planning", "queued", "claimed", "in_progress", "blocked",
           "completed", "failed", "aborted"}
ASSUME StartAssumption == StartStatus \subseteq Status \ {"claimed", "in_progress", "blocked"}

Row == [status : Status, stamp : Stamp \cup {NoStamp}]
ASSUME RowAssumption == NoRow \notin Row

\* The statuses each transition accepts, and the status it writes.
Allowed == [enqueue |-> {"planning"}, claim |-> {"queued"}, release |-> {"claimed"},
            start |-> {"claimed"}, complete |-> {"in_progress"}, fail |-> {"in_progress"},
            block |-> {"in_progress"}, unblock |-> {"blocked"},
            abort |-> {"claimed", "in_progress"}]
NewStatus == [enqueue |-> "queued", claim |-> "claimed", release |-> "queued",
              start |-> "in_progress", complete |-> "completed", fail |-> "failed",
              block |-> "blocked", unblock |-> "in_progress", abort |-> "aborted"]

\* What `task status --new` can ask for; blocked to in_progress it cannot.
StatusTargets == {"enqueue", "start", "complete", "fail", "block", "abort"}

NoRows == [t \in Task |-> <<>>]
Planned == <<[status |-> "planning", stamp |-> NoStamp]>>
Nothing == [rows |-> NoRows, marked |-> FALSE, files |-> {}]

Done(result, t) == [stamp |-> NoStamp, enqueue |-> FALSE, result |-> result, pc |-> "done",
                    task |-> t, op |-> "none", sync |-> FALSE, guard |-> NoGuard, seen |-> NoRows]

Init ==
    /\ \E present \in SUBSET Task, s \in [Task -> StartStatus] :
         remote = [rows |-> [t \in Task |->
                      IF t \in present THEN <<[status |-> s[t], stamp |-> NoStamp]>> ELSE <<>>],
                   marked |-> FALSE, files |-> present]
    /\ repo = [c \in Clone |-> [head |-> remote, tree |-> remote, base |-> remote, theirs |-> Nothing,
                                staged |-> {}, merge |-> "none", ahead |-> FALSE, behind |-> FALSE]]
    /\ call = [a \in Agent |-> Done("none", NoTask)]
    /\ claims = [t \in Task |-> 0] /\ releases = [t \in Task |-> 0] /\ fresh = {}
    /\ salvaged = FALSE /\ calls = 0 /\ failures = 0

ghosts == <<claims, releases, fresh, salvaged>>

-----------------------------------------------------------------------------
(* The commands *)

Begin(a, k) ==
    /\ call[a].pc = "done" /\ calls < MaxCalls
    /\ calls' = calls + 1
    /\ call' = [call EXCEPT ![a] = k]
    /\ UNCHANGED <<remote, repo, ghosts, failures>>

\* A transition asked for by its own command.
CallTransition(a, op, s) ==
    \E t \in Task, sync \in BOOLEAN :
        Begin(a, [Done("none", t) EXCEPT !.pc = "pull", !.op = op, !.sync = sync, !.stamp = s])

CallEnqueue(a)  == CallTransition(a, "enqueue", NoStamp)
CallClaim(a)    == \E s \in Stamp : CallTransition(a, "claim", s)
CallStart(a)    == CallTransition(a, "start", NoStamp)
CallComplete(a) == CallTransition(a, "complete", NoStamp)
CallFail(a)     == CallTransition(a, "fail", NoStamp)
CallBlock(a)    == CallTransition(a, "block", NoStamp)
CallUnblock(a)  == CallTransition(a, "unblock", NoStamp)
CallRelease(a)  == CallTransition(a, "release", NoStamp)
CallAborted(a)  == CallTransition(a, "abort", NoStamp)

\* task status --current --new: Get, the guard, then the transition.
CallStatus(a) ==
    \E op \in StatusTargets, t \in Task, sync \in BOOLEAN : \E s \in Allowed[op] :
        Begin(a, [Done("none", t) EXCEPT !.pc = "get", !.op = op, !.sync = sync, !.guard = s])

CallNew(a) ==
    \E t \in Task, sync \in BOOLEAN, enqueue \in BOOLEAN :
        Begin(a, [Done("none", t) EXCEPT !.pc = "file", !.op = "create", !.sync = sync, !.enqueue = enqueue])

\* Board.Rebuild of the store; no command calls it.
CallRebuild(a) ==
    Begin(a, [Done("none", NoTask) EXCEPT !.pc = "list", !.op = "rebuild"])

\* Get, List, the board view, RequestAbort (which stores nothing yet) and the
\* Pull of the state pull and only read.
CallQuery(a) ==
    Begin(a, [Done("none", NoTask) EXCEPT !.pc = "pull", !.op = "query", !.sync = TRUE])

\* Push and Sync of the state, whatever the policy; Sync pulls first.
CallPush(a) ==
    Begin(a, [Done("none", NoTask) EXCEPT !.pc = "push", !.op = "syncpush", !.sync = TRUE])
CallSync(a) ==
    Begin(a, [Done("none", NoTask) EXCEPT !.pc = "pull", !.op = "sync", !.sync = TRUE])

-----------------------------------------------------------------------------
(* The steps of a command *)

Goto(a, pc) == call' = [call EXCEPT ![a].pc = pc]

\* The call returns; of the results only ErrConflict is remembered.
Return(a, result) ==
    call' = [call EXCEPT ![a] =
        IF result = "ErrConflict" THEN Done(result, @.task) ELSE Done("none", NoTask)]

\* A call that succeeded: `task new --enqueue` goes on with an Enqueue.
Succeed(a) ==
    IF call[a].enqueue
    THEN call' = [call EXCEPT ![a] = [@ EXCEPT !.pc = "pull", !.op = "enqueue", !.enqueue = FALSE]]
    ELSE Return(a, "ok")

\* Mutant: a claim whose push was refused pushes what the pull merged.
AfterPullTrusts(a) ==
    CASE call[a].pc = "get" -> Goto(a, "guard")
      [] call[a].pc = "repull" -> Goto(a, "repush")
      [] call[a].op = "query" -> Return(a, "ok")
      [] call[a].op = "sync" -> Goto(a, "push")
      [] OTHER -> Goto(a, "read")

AfterPull(a) ==
    CASE call[a].pc = "get" -> Goto(a, "guard")
      [] call[a].pc = "repull" -> Goto(a, "reread")
      [] call[a].op = "query" -> Return(a, "ok")
      [] call[a].op = "sync" -> Goto(a, "push")
      [] OTHER -> Goto(a, "read")

AtPull(a) == call[a].pc \in {"get", "pull", "repull"}

SameBoard(s, u) == s.rows = u.rows /\ s.marked = u.marked

\* The three-way merge of a line, or of any value.
OneSide(b, o, r) == o = b \/ r = b \/ o = r
Pick(b, o, r) == IF r = b THEN o ELSE r

Line(rows, i) == IF i \in DOMAIN rows THEN rows[i] ELSE NoRow

\* Each line was changed by one side, or by both in the same way.
Mergeable(b, o, r) ==
    /\ OneSide(Len(b), Len(o), Len(r))
    /\ \A i \in DOMAIN b \cup DOMAIN o \cup DOMAIN r : OneSide(Line(b, i), Line(o, i), Line(r, i))

MergedRows(b, o, r) ==
    [i \in 1..Pick(Len(b), Len(o), Len(r)) |-> Pick(Line(b, i), Line(o, i), Line(r, i))]

\* What a pull makes of a clone r: where the lines conflict, both sides stay.
Merged(r, conflicts) ==
    [rows |-> [t \in Task |->
         IF t \in conflicts THEN r.head.rows[t] \o remote.rows[t]
         ELSE MergedRows(r.base.rows[t], r.head.rows[t], remote.rows[t])],
     marked |-> conflicts # {} \/ r.head.marked \/ remote.marked,
     files |-> r.head.files \cup remote.files]

\* git brings a content: what is not committed stays, if git need not touch it.
Untouched(r, content) ==
    /\ SameBoard(r.tree, r.head) \/ SameBoard(content, r.head)
    /\ (r.tree.files \cap content.files) \subseteq (r.head.files \cup r.staged)

Brought(r, content) ==
    [files |-> r.tree.files \cup content.files,
     rows |-> IF SameBoard(r.tree, r.head) THEN content.rows ELSE r.tree.rows,
     marked |-> IF SameBoard(r.tree, r.head) THEN content.marked ELSE r.tree.marked]

Differ(r) == {t \in Task : r.head.rows[t] # remote.rows[t]}
Unmergeable(r) == {t \in Task : ~Mergeable(r.base.rows[t], r.head.rows[t], remote.rows[t])}

NothingToPull(a) ==
    /\ AtPull(a)
    /\ ~call[a].sync \/ (repo[At[a]].merge = "none" /\ ~repo[At[a]].behind)
    /\ AfterPull(a)
    /\ UNCHANGED <<remote, repo, ghosts, calls, failures>>

Pull(a) ==
    /\ AtPull(a) /\ call[a].sync
    /\ LET c == At[a]
           r == repo[c]
           content == IF r.ahead THEN Merged(r, {}) ELSE remote
       IN
       /\ r.merge = "none" /\ r.behind
       /\ r.ahead => Unmergeable(r) = {}
       /\ Untouched(r, content)
       /\ repo' = [repo EXCEPT ![c] = [r EXCEPT
             !.head = content, !.tree = Brought(r, content), !.base = remote, !.behind = FALSE]]
    /\ AfterPull(a)
    /\ UNCHANGED <<remote, ghosts, calls, failures>>

\* The merge stops: markers (none, if only a task file conflicts) and MERGE_HEAD
\* stay, and the call fails.
PullConflicts(a) ==
    /\ AtPull(a) /\ call[a].sync
    /\ LET c == At[a]
           r == repo[c]
       IN \E conflicts \in SUBSET Differ(r) :
       /\ r.merge = "none" /\ r.behind /\ r.ahead
       /\ Unmergeable(r) \subseteq conflicts
       /\ SameBoard(r.tree, r.head) /\ Untouched(r, remote)
       /\ repo' = [repo EXCEPT ![c] = [r EXCEPT
             !.tree = Brought(r, Merged(r, conflicts)), !.theirs = remote, !.merge = "open"]]
    /\ Return(a, "error")
    /\ UNCHANGED <<remote, ghosts, calls, failures>>

\* git refuses: a merge is not concluded, the branches diverged and the clone is
\* not to merge, or local changes of the board or of task files are in the way.
PullRefused(a) ==
    /\ AtPull(a) /\ call[a].sync
    /\ repo[At[a]].behind \/ repo[At[a]].merge # "none"
    /\ Return(a, "error")
    /\ UNCHANGED <<remote, repo, ghosts, calls, failures>>

\* What ParseBoard, which is specscore's, may make of a board.  With markers in
\* it: the rows of both sides, or those it comes to, or (elsewhere) an error.
Readings(s) ==
    IF s.marked THEN {[t \in Task |-> IF t \in known THEN s.rows[t] ELSE <<>>] : known \in SUBSET Task}
    ELSE {s.rows}

GuardCheck(a) ==
    /\ call[a].pc = "guard"
    /\ LET tree == repo[At[a]].tree
           t == call[a].task
       IN  \/ \E rows \in Readings(tree) :
                 IF t \notin tree.files \/ rows[t] = <<>> THEN Return(a, "ErrNotFound")
                 ELSE IF rows[t][1].status # call[a].guard THEN Return(a, "guard failed")
                 ELSE Goto(a, "pull")
           \/ tree.marked /\ Return(a, "error")
    /\ UNCHANGED <<remote, repo, ghosts, calls, failures>>

\* Create begins with the task file, whether there is one or not.
WriteTaskFile(a) ==
    /\ call[a].pc = "file"
    /\ repo' = [repo EXCEPT ![At[a]].tree.files = @ \cup {call[a].task}]
    /\ Goto(a, "read")
    /\ UNCHANGED <<remote, ghosts, calls, failures>>

\* Go on to a step with rows in memory.
Keep(a, pc, rows) == call' = [call EXCEPT ![a] = [@ EXCEPT !.pc = pc, !.seen = rows]]

\* Rebuild begins with the task files: a planned row for each.  It stops at one
\* it cannot parse, which a merge may leave behind.
List(a) ==
    /\ call[a].pc = "list"
    /\ \/ Keep(a, "read", [t \in Task |-> IF t \in repo[At[a]].tree.files THEN Planned ELSE <<>>])
       \/ repo[At[a]].merge # "none" /\ Return(a, "error")
    /\ UNCHANGED <<remote, repo, ghosts, calls, failures>>

\* The row a transition writes.
Moved(row, op, s) ==
    [status |-> NewStatus[op],
     stamp |-> CASE op = "claim" -> s [] op = "release" -> NoStamp [] OTHER -> row.stamp]

\* Mutant: the row changed is the last of a task, the row checked the first.
EditLast(rows, op, t, s) == [rows EXCEPT ![t][Len(rows[t])] = Moved(@, op, s)]

Edit(rows, op, t, s) == [rows EXCEPT ![t][1] = Moved(@, op, s)]

\* Rebuild: the row of a task that has a file is kept, the last one of several.
Rebuilt(listed, rows) ==
    [t \in Task |-> IF listed[t] = <<>> \/ rows[t] = <<>> THEN listed[t] ELSE <<Last(rows[t])>>]

\* The transitions that read and rewrite the task file.
NeedsTaskFile(op) == op \in {"complete", "fail", "block", "unblock", "release"}

\* A rebuild with these rows gives every task of the board the row it has.
Keeps(before, after) ==
    \A t \in Task : before[t] # <<>> => after[t] # <<>> /\ after[t][1] = before[t][1]

\* History, which no step reads: a claim that is to push was decided on a board
\* with every commit of the remote; a command goes on with what it could read
\* past conflict markers, or with a rebuild that loses or replaces a row.
Decide(a) ==
    LET k == call'[a]
        r == repo[At[a]]
        goesOn == k.pc \in {"write", "rewrite"}
    IN  /\ fresh' = IF goesOn /\ k.op = "claim" /\ k.sync /\ ~r.behind THEN fresh \cup {a} ELSE fresh \ {a}
        /\ salvaged' = (\/ salvaged
                        \/ goesOn /\ r.tree.marked
                        \/ goesOn /\ k.op = "rebuild" /\ ~Keeps(r.tree.rows, k.seen))

Read(a) ==
    /\ call[a].pc = "read"
    /\ LET tree == repo[At[a]].tree
           k == call[a]
           t == k.task
       IN  \/ \E rows \in Readings(tree) :
                 IF k.op = "create" THEN Keep(a, "write", [rows EXCEPT ![t] = @ \o Planned])
                 ELSE IF k.op = "rebuild" THEN Keep(a, "write", Rebuilt(k.seen, rows))
                 ELSE IF rows[t] = <<>> THEN Return(a, "ErrNotFound")
                 ELSE IF rows[t][1].status \notin Allowed[k.op] THEN Return(a, "ErrInvalidTransition")
                 ELSE IF NeedsTaskFile(k.op) /\ t \notin tree.files THEN Return(a, "ErrNotFound")
                 ELSE Keep(a, "write", Edit(rows, k.op, t, k.stamp))
           \/ /\ tree.marked
              /\ IF k.op = "rebuild" THEN Keep(a, "write", k.seen) ELSE Return(a, "error")
    /\ Decide(a)
    /\ UNCHANGED <<remote, repo, claims, releases, calls, failures>>

\* Claim after a refused push: only a task still queued is claimed again.
Reread(a) ==
    /\ call[a].pc = "reread"
    /\ LET tree == repo[At[a]].tree
           k == call[a]
       IN  \/ \E rows \in Readings(tree) :
                 IF rows[k.task] = <<>> THEN Return(a, "ErrNotFound")
                 ELSE IF rows[k.task][1].status # "queued" THEN Return(a, "ErrConflict")
                 ELSE Keep(a, "rewrite", Edit(rows, "claim", k.task, k.stamp))
           \/ tree.marked /\ Return(a, "error")
    /\ Decide(a)
    /\ UNCHANGED <<remote, repo, claims, releases, calls, failures>>

Count(f, t) == [f EXCEPT ![t] = @ + 1]

\* Mutant: the rows are patched into the file, around what stands between them.
WritePatched(a) ==
    /\ call[a].pc \in {"write", "rewrite"}
    /\ repo' = [repo EXCEPT ![At[a]].tree.rows = call[a].seen]
    /\ Keep(a, IF call[a].pc = "write" THEN "commit" ELSE "recommit", NoRows)
    /\ releases' = IF call[a].op = "release" THEN Count(releases, call[a].task) ELSE releases
    /\ UNCHANGED <<remote, claims, fresh, salvaged, calls, failures>>

\* The table is rendered anew from the rows in memory.
Write(a) ==
    /\ call[a].pc \in {"write", "rewrite"}
    /\ repo' = [repo EXCEPT ![At[a]].tree = [@ EXCEPT !.rows = call[a].seen, !.marked = FALSE]]
    /\ Keep(a, IF call[a].pc = "write" THEN "commit" ELSE "recommit", NoRows)
    /\ releases' = IF call[a].op = "release" THEN Count(releases, call[a].task) ELSE releases
    /\ UNCHANGED <<remote, claims, fresh, salvaged, calls, failures>>

\* The task files a call adds to the index beside the board.
Adds(a) ==
    IF NeedsTaskFile(call[a].op) \/ call[a].op = "create" THEN {call[a].task} ELSE {}

\* Is there nothing to commit?  A release leaves its task file as it was.
Unchanged(a) ==
    LET r == repo[At[a]] IN
    /\ SameBoard(r.tree, r.head) /\ r.merge = "none"
    /\ (r.staged \cup Adds(a)) \subseteq r.head.files
    /\ Adds(a) = {} \/ call[a].op = "release"

\* git add and git commit record the board as it is, whoever wrote it, what the
\* index holds already, and the other side of a merge.
Commit(a) ==
    /\ call[a].pc \in {"commit", "recommit"}
    /\ ~Unchanged(a)
    /\ LET r == repo[At[a]]
           merges == r.merge # "none"
           content == [r.tree EXCEPT !.files = r.head.files \cup r.theirs.files \cup r.staged \cup Adds(a)]
       IN  repo' = [repo EXCEPT ![At[a]] = [r EXCEPT
             !.head = content, !.ahead = TRUE, !.staged = {}, !.merge = "none", !.theirs = Nothing,
             !.base = IF merges THEN r.theirs ELSE @,
             !.behind = IF merges THEN r.merge = "stale" ELSE @]]
    /\ IF call[a].sync THEN Goto(a, IF call[a].pc = "commit" THEN "push" ELSE "repush")
       ELSE Succeed(a)
    /\ UNCHANGED <<remote, ghosts, calls, failures>>

\* git finds nothing to commit, or a task file of a merge still in conflict.
CommitRefused(a) ==
    /\ call[a].pc \in {"commit", "recommit"}
    /\ Unchanged(a) \/ repo[At[a]].merge # "none"
    /\ repo' = [repo EXCEPT ![At[a]].staged = @ \cup Adds(a)]
    /\ Return(a, "error") /\ fresh' = fresh \ {a}
    /\ UNCHANGED <<remote, claims, releases, salvaged, calls, failures>>

AtPush(a) == call[a].pc \in {"push", "repush"}

\* Mutant: the push is forced.
MovesForced(a) ==
    LET c == At[a] IN
    /\ remote' = repo[c].head
    /\ repo' = [d \in Clone |->
          IF d = c THEN [repo[c] EXCEPT !.base = repo[c].head, !.ahead = FALSE, !.behind = FALSE]
          ELSE [repo[d] EXCEPT !.behind = TRUE]]

\* The remote takes a push that has every commit of it.
Moves(a) ==
    LET c == At[a] IN
    /\ ~repo[c].behind
    /\ remote' = repo[c].head
    /\ repo' = [d \in Clone |->
          IF d = c THEN [repo[c] EXCEPT !.base = repo[c].head, !.ahead = FALSE]
          ELSE IF repo[c].ahead
               THEN [repo[d] EXCEPT !.behind = TRUE, !.merge = IF @ = "open" THEN "stale" ELSE @]
               ELSE repo[d]]

\* A push with commits leaves every other claim with an old board.
Outdates(a) == fresh' = IF repo[At[a]].ahead THEN {} ELSE fresh \ {a}

Push(a) ==
    /\ AtPush(a)
    /\ Moves(a)
    /\ claims' = IF call[a].op = "claim" THEN Count(claims, call[a].task) ELSE claims
    /\ Succeed(a) /\ Outdates(a)
    /\ UNCHANGED <<releases, salvaged, calls, failures>>

\* A claim looks again once, whatever the push failed of.
PushFailed(a) ==
    IF call[a].op = "claim" /\ call[a].pc = "push" THEN Goto(a, "repull") ELSE Return(a, "error")

PushRejected(a) ==
    /\ AtPush(a)
    /\ repo[At[a]].behind
    /\ PushFailed(a) /\ fresh' = fresh \ {a}
    /\ UNCHANGED <<remote, repo, claims, releases, salvaged, calls, failures>>

\* The remote takes the push, but its answer is lost.
PushUnanswered(a) ==
    /\ failures < MaxFailures /\ failures' = failures + 1
    /\ AtPush(a)
    /\ Moves(a)
    /\ PushFailed(a) /\ Outdates(a)
    /\ UNCHANGED <<claims, releases, salvaged, calls>>

\* A git command fails: the network, the index lock, the disk.  A commit may
\* fail after its files were added.
Fails(a) ==
    /\ failures < MaxFailures /\ failures' = failures + 1
    /\ \/ AtPull(a) /\ call[a].sync /\ Return(a, "error") /\ UNCHANGED repo
       \/ AtPush(a) /\ PushFailed(a) /\ UNCHANGED repo
       \/ /\ call[a].pc \in {"commit", "recommit"} /\ Return(a, "error")
          /\ \/ UNCHANGED repo
             \/ repo' = [repo EXCEPT ![At[a]].staged = @ \cup Adds(a)]
    /\ fresh' = fresh \ {a}
    /\ UNCHANGED <<remote, claims, releases, salvaged, calls>>

\* The process of the command ends; the files stay as they are.
Ends(a) ==
    /\ call[a].pc # "done"
    /\ failures < MaxFailures /\ failures' = failures + 1
    /\ Return(a, "none") /\ fresh' = fresh \ {a}
    /\ UNCHANGED <<remote, repo, claims, releases, salvaged, calls>>

Step(a) ==
    \/ NothingToPull(a) \/ Pull(a) \/ PullConflicts(a) \/ PullRefused(a)
    \/ GuardCheck(a) \/ WriteTaskFile(a) \/ List(a) \/ Read(a) \/ Reread(a) \/ Write(a)
    \/ Commit(a) \/ CommitRefused(a) \/ Push(a) \/ PushRejected(a)

Next == \E a \in Agent :
    \/ CallEnqueue(a) \/ CallClaim(a) \/ CallStart(a) \/ CallComplete(a) \/ CallFail(a)
    \/ CallBlock(a) \/ CallUnblock(a) \/ CallRelease(a) \/ CallAborted(a)
    \/ CallStatus(a) \/ CallNew(a) \/ CallRebuild(a)
    \/ CallQuery(a) \/ CallPush(a) \/ CallSync(a)
    \/ Step(a) \/ PushUnanswered(a) \/ Fails(a) \/ Ends(a)

Spec == Init /\ [][Next]_vars

-----------------------------------------------------------------------------
(* Properties *)

Content == [rows : [Task -> Seq(Row)], marked : BOOLEAN, files : SUBSET Task]

\* Every value stays in its domain: contents, clones, calls and counters.
TypeOK ==
    /\ remote \in Content
    /\ repo \in [Clone -> [head : Content, tree : Content, base : Content, theirs : Content,
                           staged : SUBSET Task, merge : {"none", "open", "stale"},
                           ahead : BOOLEAN, behind : BOOLEAN]]
    /\ \A a \in Agent :
         call[a].task \in Task \cup {NoTask} /\ call[a].seen \in [Task -> Seq(Row)]
    /\ claims \in [Task -> Nat] /\ releases \in [Task -> Nat] /\ fresh \subseteq Agent
    /\ salvaged \in BOOLEAN /\ calls \in 0..MaxCalls /\ failures \in 0..MaxFailures

\* The statuses a task can come to from one, in any number of transitions.
Reach(s) ==
    LET final == {"completed", "failed", "aborted"}
        working == {"in_progress", "blocked"} \cup final
    IN  CASE s \in final -> {s}
          [] s \in {"in_progress", "blocked"} -> working
          [] s \in {"queued", "claimed"} -> {"queued", "claimed"} \cup working
          [] OTHER -> Status

LegalRows(before, after) ==
    before # <<>> => after # <<>> /\ after[1].status \in Reach(before[1].status)

\* The task store with a clone for each agent, whatever else happens to the
\* clones: rebuilt boards, merges left in conflict and concluded by the next
\* command, boards read past their markers, lost answers, interrupted commands.

\* task.go:317-345: a claim that returns nil, at its first push or after looking
\* again, was decided on a board that had every commit of the remote when the
\* push took it there: no claim returns nil on a board somebody had changed.
ClaimsAreSerial ==
    [][\A a \in Agent : claims' # claims /\ call'[a] # call[a] => a \in fresh]_vars

\* And when it returns nil, the remote gives the task to its caller, whatever
\* its clone had to merge, to commit or to conclude on the way.
NilClaimIsPublished ==
    [][\A a \in Agent : claims' # claims /\ call'[a] # call[a] =>
          /\ remote'.rows[call[a].task] # <<>>
          /\ remote'.rows[call[a].task][1] = [status |-> "claimed", stamp |-> call[a].stamp]]_vars

\* Conflict markers never leave the working tree git put them in: each commit is
\* made of a board that a command has rendered since.
MarkersStayLocal ==
    ~remote.marked /\ \A c \in Clone : ~repo[c].head.marked

\* The next two hold until a board is salvaged.  Then they need not: a rebuild
\* drops a task whose file was never committed, and a parser that reads past
\* markers may leave out a task.

\* What the remote says of a task only moves along the transitions of the task
\* store: whoever pushes, and however many commits a push brings, a finished
\* task is never reopened, a task never disappears.
RemoteStepsAreLegal ==
    [][salvaged \/ \A t \in Task : LegalRows(remote.rows[t], remote'.rows[t])]_vars

\* Claim of src/pkg/state/task.go: of the agents that race for a task, each with
\* its clone, one whose claim synchronises is told nil; each further one takes a
\* release.
OneClaimWins == salvaged \/ \A t \in Task : claims[t] <= 1 + releases[t]

\* src/pkg/state/task.go:22-24: the other claim of a task "receives
\* ErrConflict".  Where the push of a claim was refused and the remote gives the
\* task to somebody else, the claim returns nothing but ErrConflict.
LoserReceivesErrConflict ==
    [][\A a \in Agent :
          LET k == call[a] IN
          /\ k.pc \in {"repull", "reread"} /\ call'[a].pc = "done"
          /\ remote.rows[k.task] # <<>>
          /\ \E s \in Stamp \ {k.stamp} : remote.rows[k.task][1] = [status |-> "claimed", stamp |-> s]
          => call'[a].result = "ErrConflict"]_vars

=============================================================================
