------------------------------ MODULE Promotion ------------------------------
(***************************************************************************)
(* The replicated journals of one project and the promotion of a replica:  *)
(* every endpoint's role, authority epoch and durable log, the replication *)
(* of events between them, and any number of concurrent, failing, retried  *)
(* calls of Promote.                                                       *)
(*                                                                         *)
(* An append or an ingest is one atomic step here (GroupCommit has its     *)
(* interleavings).  Logs are durable; role and epoch live in the process   *)
(* and a restart gives them the values of the configuration again.         *)
(*                                                                         *)
(* An event carries, besides the fields of JournalChain,                   *)
(*   by   the endpoint that appended it as the active one (a checkpoint's  *)
(*        former_active_endpoint_id),                                      *)
(*   to   a checkpoint's new_active_endpoint_id; Nobody in other events.   *)
(***************************************************************************)
EXTENDS JournalChain, FiniteSets

CONSTANTS
    Endpoint,
    First,           \* the endpoint configured as active; the others as replicas
    Operator,        \* callers of Promote, each making one call at a time
    ExplicitKey,     \* idempotency keys operators may name
    Nobody,
    MaxEpoch,        \* bound: authority epochs
    MaxCommands,     \* bound: domain events
    MaxRestarts      \* bound: process restarts

ASSUME TopologyAssumption ==
    /\ First \in Endpoint /\ Nobody \notin Endpoint
    /\ MaxEpoch \in Nat \ {0} /\ MaxCommands \in Nat /\ MaxRestarts \in Nat

VARIABLES
    role, epoch, log,    \* per endpoint
    call,                \* per operator: its call of Promote
    issued,              \* domain events appended so far
    restarts             \* restarts so far

endpointVars == <<role, epoch, log>>
boundVars == <<issued, restarts>>
vars == <<endpointVars, call, boundVars>>

Idle == [pc |-> "idle", active |-> Nobody, candidate |-> Nobody, key |-> Nobody,
         checkpoint |-> Genesis, queue |-> {}]

ConfiguredRole(n) == IF n = First THEN "active" ELSE "replica"

Init ==
    /\ role = [n \in Endpoint |-> ConfiguredRole(n)]
    /\ epoch = [n \in Endpoint |-> 1]
    /\ log = [n \in Endpoint |-> <<>>]
    /\ call = [o \in Operator |-> Idle]
    /\ issued = 0 /\ restarts = 0

-----------------------------------------------------------------------------
(* The seams of one endpoint *)

\* Append: a domain event built on this endpoint's head, at its epoch.
DomainEvent(n) ==
    LET head == HeadOf(log[n]) IN
    [id |-> <<n, issued>>, key |-> <<n, issued>>, epoch |-> epoch[n],
     seq |-> IF head.epoch = epoch[n] THEN head.seq + 1 ELSE 1,
     prev |-> head, by |-> n, to |-> Nobody]

\* Mutant: only the epoch is compared, not the role.
AppendEventAnyRole(n) ==
    /\ issued < MaxCommands
    /\ Verdict(log[n], DomainEvent(n)) = "ok"
    /\ log' = [log EXCEPT ![n] = Append(@, DomainEvent(n))]
    /\ issued' = issued + 1
    /\ UNCHANGED <<role, epoch, call, restarts>>

AppendEvent(n) ==
    /\ issued < MaxCommands
    /\ role[n] = "active"
    /\ Verdict(log[n], DomainEvent(n)) = "ok"
    /\ log' = [log EXCEPT ![n] = Append(@, DomainEvent(n))]
    /\ issued' = issued + 1
    /\ UNCHANGED <<role, epoch, call, restarts>>

\* IngestReplica: only a replica takes a replicated event.
Ingest(n, e) ==
    /\ role[n] = "replica"
    /\ Succeeds(log[n], e)
    /\ log' = [log EXCEPT ![n] = AppendData(@, e)]

(***************************************************************************)
(* Replication at large: Replicate, DrainOutbox and the fan-out at the end *)
(* of Promote hand a replica events of another log.  Logs are never cut,   *)
(* so any event of any log may arrive, however late and however often.     *)
(***************************************************************************)
Deliver(n) ==
    /\ \E m \in Endpoint : \E e \in Events(log[m]) :
          Verdict(log[n], e) = "ok" /\ Ingest(n, e)
    /\ UNCHANGED <<role, epoch, call, boundVars>>

\* Mutant: the authority epoch is not validated at construction.
RestartUnset(n) ==
    /\ restarts < MaxRestarts
    /\ role' = [role EXCEPT ![n] = ConfiguredRole(n)]
    /\ epoch' = [epoch EXCEPT ![n] = 0]
    /\ restarts' = restarts + 1
    /\ UNCHANGED <<log, call, issued>>

\* The process of an endpoint restarts: the log is durable, role and epoch
\* are what the configuration says.
Restart(n) ==
    /\ restarts < MaxRestarts
    /\ role' = [role EXCEPT ![n] = ConfiguredRole(n)]
    /\ epoch' = [epoch EXCEPT ![n] = 1]
    /\ restarts' = restarts + 1
    /\ UNCHANGED <<log, call, issued>>

-----------------------------------------------------------------------------
(* Promote, step by step *)

At(o, pc) == call[o].pc = pc

Return(o) == call' = [call EXCEPT ![o] = Idle]

\* Blank keys default to one derived from the two endpoints.
KeysFor(a, b) == {<<"promotion", a, b>>} \cup ExplicitKey

\* The preconditions of a fresh attempt; a call that finds its active
\* endpoint already fenced skips them.
PromoteBegin(o) ==
    /\ At(o, "idle")
    /\ \E a \in Endpoint : \E b \in Endpoint \ {a} : \E k \in KeysFor(a, b) :
          /\ role[a] = "active" => role[b] = "replica" /\ {log[a], log[b]} # {<<>>}
          /\ call' = [call EXCEPT ![o] = [Idle EXCEPT !.pc = "fence", !.active = a,
                                                      !.candidate = b, !.key = k]]
    /\ UNCHANGED <<endpointVars, boundVars>>

\* The checkpoint of epoch + 1, chained onto the active endpoint's own head.
Checkpoint(c) ==
    [id |-> c.key, key |-> c.key, epoch |-> epoch[c.active] + 1, seq |-> 1,
     prev |-> HeadOf(log[c.active]), by |-> c.active, to |-> c.candidate]

Fenced(o, checkpoint) ==
    call' = [call EXCEPT ![o].pc = "catchup", ![o].checkpoint = checkpoint]

\* FenceAsReplica on an active endpoint: record the checkpoint, flip the role.
FenceFresh(o) ==
    LET c == call[o] IN
    /\ At(o, "fence") /\ role[c.active] = "active" /\ epoch[c.active] < MaxEpoch
    /\ IF Succeeds(log[c.active], Checkpoint(c))
         THEN /\ log' = [log EXCEPT ![c.active] = AppendData(@, Checkpoint(c))]
              /\ role' = [role EXCEPT ![c.active] = "replica"]
              /\ epoch' = [epoch EXCEPT ![c.active] = @ + 1]
              /\ Fenced(o, Checkpoint(c))
         ELSE Return(o) /\ UNCHANGED endpointVars
    /\ UNCHANGED boundVars

\* Mutant: the checkpoint's candidate is not compared.
FencedForKey(c, head) == head # Genesis /\ head.key = c.key

\* Mutant: the checkpoint's key is not compared, and its candidate is fenced.
FencedForAnyone(c, head) == head # Genesis /\ head.to # Nobody

\* A replica is accepted as this promotion's former active only if its head
\* is this promotion's checkpoint.
FencedFor(c, head) == head # Genesis /\ head.key = c.key /\ head.to = c.candidate

FenceResumed(o) ==
    LET c == call[o]  head == HeadOf(log[c.active]) IN
    /\ At(o, "fence") /\ role[c.active] = "replica"
    /\ IF FencedFor(c, head) THEN Fenced(o, head) ELSE Return(o)
    /\ UNCHANGED <<endpointVars, boundVars>>

SameCursor(a, b) == a.epoch = b.epoch /\ a.seq = b.seq

\* The candidate is ahead of its source, or differs from it at its cursor.
AheadOrDiverged(head, source) ==
    \/ Before(source, head)
    \/ SameCursor(head, source) /\ head # Genesis /\ head # source

\* Mutant: the catch-up leaves the checkpoint itself out.
CatchUpShort(o) ==
    LET c == call[o]
        source == log[c.active]
        head == HeadOf(log[c.candidate])
    IN
    /\ At(o, "catchup")
    /\ IF SameCursor(head, c.checkpoint)
         THEN call' = [call EXCEPT ![o].pc = "promote"]
       ELSE IF AheadOrDiverged(head, HeadOf(source)) THEN Return(o)
       ELSE call' = [call EXCEPT ![o].pc = "deliver",
                                 ![o].queue = {e \in After(source, head) : Before(e, c.checkpoint)}]
    /\ UNCHANGED <<endpointVars, boundVars>>

\* Read the candidate's head; Replicate collects what lies beyond it.
CatchUp(o) ==
    LET c == call[o]
        source == log[c.active]
        head == HeadOf(log[c.candidate])
    IN
    /\ At(o, "catchup")
    /\ \/ SameCursor(head, c.checkpoint) /\ call' = [call EXCEPT ![o].pc = "promote"]
       \/ /\ ~SameCursor(head, c.checkpoint)
          /\ IF AheadOrDiverged(head, HeadOf(source))
               THEN Return(o)
               ELSE call' = [call EXCEPT ![o].pc = "deliver", ![o].queue = After(source, head)]
    /\ UNCHANGED <<endpointVars, boundVars>>

\* The next event of the catch-up, in cursor order; the first failure ends it.
CatchUpOne(o) ==
    LET c == call[o] IN
    /\ At(o, "deliver") /\ c.queue # {}
    /\ LET e == CHOOSE x \in c.queue : \A y \in c.queue \ {x} : ~Before(y, x) IN
          \/ Ingest(c.candidate, e) /\ call' = [call EXCEPT ![o].queue = @ \ {e}]
          \/ ~(role[c.candidate] = "replica" /\ Succeeds(log[c.candidate], e))
             /\ Return(o) /\ UNCHANGED log
    /\ UNCHANGED <<role, epoch, boundVars>>

CaughtUp(o) ==
    /\ At(o, "deliver") /\ call[o].queue = {}
    /\ call' = [call EXCEPT ![o].pc = "promote"]
    /\ UNCHANGED <<endpointVars, boundVars>>

\* evaluateConvergence, then PromoteToActive, which checks the head again
\* under the candidate's lock.  A candidate that is active already must be so
\* at the checkpoint's epoch.
PromoteCandidate(o) ==
    LET c == call[o]  b == c.candidate IN
    /\ At(o, "promote")
    /\ IF HeadOf(log[b]) = c.checkpoint /\ role[b] = "replica"
         THEN /\ role' = [role EXCEPT ![b] = "active"]
              /\ epoch' = [epoch EXCEPT ![b] = c.checkpoint.epoch]
         ELSE UNCHANGED <<role, epoch>>
    /\ Return(o)
    /\ UNCHANGED <<log, boundVars>>

\* Any read or write of a call may fail, and its process may crash.
PromoteFails(o) ==
    /\ ~At(o, "idle") /\ Return(o)
    /\ UNCHANGED <<endpointVars, boundVars>>

-----------------------------------------------------------------------------
PromoteStep(o) ==
    \/ FenceFresh(o) \/ FenceResumed(o)
    \/ CatchUp(o) \/ CatchUpOne(o) \/ CaughtUp(o)
    \/ PromoteCandidate(o)

Next ==
    \/ \E n \in Endpoint : AppendEvent(n) \/ Deliver(n) \/ Restart(n)
    \/ \E o \in Operator : PromoteBegin(o) \/ PromoteStep(o) \/ PromoteFails(o)

Spec == Init /\ [][Next]_vars

\* The log no other log is longer than.
Longest == CHOOSE l \in {log[n] : n \in Endpoint} : \A n \in Endpoint : Len(log[n]) <= Len(l)

(***************************************************************************)
(* Fairness, for the promise that a promotion can be resumed.  An operator *)
(* keeps calling Promote with the arguments of the interrupted call, a call *)
(* does not hang, and a step that is tried over and over does not fail     *)
(* every time.                                                             *)
(***************************************************************************)
Interrupted(c) ==
    LET head == HeadOf(log[c.active]) IN FencedFor(c, head) /\ head = HeadOf(Longest)

PromoteAgain(o) == PromoteBegin(o) /\ Interrupted(call'[o])

Persistence(o) ==
    /\ WF_vars(PromoteStep(o) \/ PromoteFails(o))
    /\ SF_vars(PromoteAgain(o))
    /\ SF_vars(FenceResumed(o) /\ Interrupted(call[o]))
    /\ SF_vars(CatchUp(o) /\ Interrupted(call[o]))
    /\ SF_vars(CatchUpOne(o) /\ Interrupted(call[o]))
    /\ SF_vars(CaughtUp(o) /\ Interrupted(call[o]))
    /\ SF_vars(PromoteCandidate(o) /\ Interrupted(call[o]))

PersistentSpec == Spec /\ \A o \in Operator : Persistence(o)

-----------------------------------------------------------------------------
(* Properties *)

EventOK(e) ==
    e.epoch \in 1..MaxEpoch /\ e.seq \in 1..MaxCommands + 1 /\ e.by \in Endpoint
        /\ e.to \in Endpoint \cup {Nobody}

TypeOK ==
    /\ role \in [Endpoint -> {"active", "replica"}]
    /\ epoch \in [Endpoint -> 1..MaxEpoch]
    /\ \A n \in Endpoint : \A e \in Events(log[n]) : EventOK(e)
    /\ \A o \in Operator :
          /\ call[o].pc \in {"idle", "fence", "catchup", "deliver", "promote"}
          /\ ~At(o, "idle") => call[o].active \in Endpoint /\ call[o].candidate \in Endpoint
          /\ \A e \in call[o].queue : EventOK(e)
    /\ issued \in 0..MaxCommands /\ restarts \in 0..MaxRestarts

\* The endpoint's Append would accept an event built on its head.
CanWrite(n) == role[n] = "active" /\ epoch[n] >= HeadOf(log[n]).epoch

(* Fail toward zero writers, never two: whatever promotions race, fail and *)
(* resume, and whichever endpoints restart with their configured role.     *)
AtMostOneWriter ==
    \A m, n \in Endpoint : CanWrite(m) /\ CanWrite(n) => m = n

(* No two logs ever diverge: one is always a prefix of the other.          *)
NoDivergence ==
    \A m, n \in Endpoint : \A i \in DOMAIN log[m] \cap DOMAIN log[n] : log[m][i] = log[n][i]

(* A new writer has every event any endpoint ever acknowledged: a          *)
(* promotion to a candidate that lacks one would lose it.                  *)
WriterHasEverything ==
    \A m, n \in Endpoint : CanWrite(n) => Len(log[m]) <= Len(log[n])

(* A promotion that stopped after the fence, with zero writers, can be     *)
(* resumed: whoever the last checkpoint names becomes the writer.          *)
PromotionCompletes ==
    \A b \in Endpoint :
        (/\ Longest # <<>> /\ HeadOf(Longest).to = b
         /\ ~\E n \in Endpoint : CanWrite(n)) ~> CanWrite(b)

-----------------------------------------------------------------------------
(* The refinement of Authority *)

Writer == IF \E n \in Endpoint : CanWrite(n) THEN CHOOSE n \in Endpoint : CanWrite(n) ELSE Nobody

Abstract == INSTANCE Authority WITH chain <- Longest, holder <- Writer

(* The endpoints together behave as one chain with one movable authority.  *)
ImplementsAuthority == Abstract!Spec
=============================================================================
