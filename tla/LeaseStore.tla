----------------------------- MODULE LeaseStore -----------------------------
(***************************************************************************)
(* agentstore's lease store: exclusive, expiring, fenced leases kept as    *)
(* events of one journal.                                                  *)
(*                                                                         *)
(* Every call reads the journal's head, then the events (a projection of   *)
(* all leases), decides, and appends one event pinned to the head it read; *)
(* when any event has committed since, the append is refused and the call  *)
(* starts over.  The journal's content is abstracted to the projection of  *)
(* its lease events, and a pinned head to the question that matters about  *)
(* it: whether it still is the head (fresh).                               *)
(*                                                                         *)
(* Time is what remains of each deadline, so every clock that is compared  *)
(* is the same clock, as the code's comments ask for.                      *)
(***************************************************************************)
EXTENDS Naturals, FiniteSets

CONSTANTS
    Run,             \* the holders
    Thread,          \* the concurrent callers every run has
    Resource,
    TTLs,            \* the TTLs that are asked for; 0 never expires
    Nothing,
    MaxLeases,       \* bound: lease IDs ever minted
    MaxTransfers,    \* bound: fence tokens minted by transfers of one lease
    MaxAttempts      \* maxAppendRetries

ASSUME LeaseAssumption ==
    /\ TTLs \subseteq Nat /\ MaxLeases \in Nat /\ MaxTransfers \in Nat
    /\ MaxAttempts \in Nat \ {0}

VARIABLES
    leases,          \* leaseProjection.byID and .released
    current,         \* leaseProjection.byResource
    call,            \* per run: its call
    fresh,           \* the runs whose head, as they read it, is still the head
    ghosts,          \* pinned appends nobody waits for that may still commit
    grant            \* per lease: what its holder was last told

vars == <<leases, current, call, fresh, ghosts, grant>>

Caller == Run \X Thread
RunOf(c) == c[1]

LeaseId == 1..MaxLeases

NoLease == [state |-> "unused", resource |-> Nothing, holder |-> Nothing,
            token |-> 0, ttl |-> 0, left |-> 0]
NoEvent == [kind |-> "none", id |-> 0, old |-> 0, lease |-> NoLease]
NoGrant == [run |-> Nothing, token |-> 0, ttl |-> 0, left |-> 0]
Idle    == [pc |-> "idle", op |-> "none", resource |-> Nothing, ttl |-> 0,
            id |-> 0, token |-> 0, to |-> Nothing, attempt |-> 0, event |-> NoEvent]

Init ==
    /\ leases = [i \in LeaseId |-> NoLease]
    /\ current = [x \in Resource |-> 0]
    /\ call = [c \in Caller |-> Idle]
    /\ fresh = {} /\ ghosts = {}
    /\ grant = [i \in LeaseId |-> NoGrant]

-----------------------------------------------------------------------------
(* The projection *)

Exists(i) == leases[i].state # "unused"
Held(i)   == leases[i].state = "held"
Expired(l) == l.ttl # 0 /\ l.left = 0
Unused    == {i \in LeaseId : ~Exists(i)}
FreshId   == CHOOSE i \in Unused : TRUE

\* One event folded into the projection.  A renewal or a transfer of a lease
\* that has ended changes nothing.
Fold(e) ==
    \/ /\ e.kind = "acquired"
       /\ leases' = [leases EXCEPT ![e.id] = e.lease]
       /\ current' = [current EXCEPT ![e.lease.resource] = e.id]
    \/ /\ e.kind = "reclaimed"
       /\ leases' = [leases EXCEPT ![e.old].state = "released", ![e.id] = e.lease]
       /\ current' = [current EXCEPT ![e.lease.resource] = e.id]
    \/ /\ e.kind = "released"
       /\ leases' = [leases EXCEPT ![e.id].state = "released"]
       /\ current' = [x \in Resource |-> IF current[x] = e.id THEN 0 ELSE current[x]]
    \/ /\ e.kind \in {"renewed", "transferred"}
       /\ leases' = [leases EXCEPT ![e.id] = IF Held(e.id) THEN e.lease ELSE @]
       /\ UNCHANGED current

\* Mutant: a renewal is written without moving the journal's head.
LandsUnseen(e) ==
    Fold(e) /\ IF e.kind = "renewed" THEN UNCHANGED <<fresh, ghosts>> ELSE fresh' = {} /\ ghosts' = {}

\* An append commits: every other head that was read is stale.
Lands(e) == Fold(e) /\ fresh' = {} /\ ghosts' = {}

-----------------------------------------------------------------------------
(* Calls *)

At(c, pc) == call[c].pc = pc

Return(c) == call' = [call EXCEPT ![c] = Idle] /\ fresh' = fresh \ {c}

Begin(c, q) ==
    /\ At(c, "idle")
    /\ call' = [call EXCEPT ![c] = q]

AcquireBegin(c) ==
    /\ \E x \in Resource, ttl \in TTLs :
          Begin(c, [Idle EXCEPT !.pc = "head", !.op = "acquire", !.resource = x, !.ttl = ttl])
    /\ UNCHANGED <<leases, current, fresh, ghosts, grant>>

\* A run presents the fence of its lease, or one that has been replaced.
Knows(c, i, token) == token < leases[i].token \/ leases[i].holder = RunOf(c)

RenewBegin(c) ==
    /\ \E i \in LeaseId : \E token \in 0..leases[i].token :
          /\ Exists(i) /\ Knows(c, i, token)
          /\ Begin(c, [Idle EXCEPT !.pc = "head", !.op = "renew", !.id = i, !.token = token])
    /\ UNCHANGED <<leases, current, fresh, ghosts, grant>>

ReleaseBegin(c) ==
    /\ \E i \in LeaseId : \E token \in 0..leases[i].token :
          /\ Exists(i) /\ Knows(c, i, token)
          /\ Begin(c, [Idle EXCEPT !.pc = "head", !.op = "release", !.id = i, !.token = token])
    /\ UNCHANGED <<leases, current, fresh, ghosts, grant>>

TransferBegin(c) ==
    /\ \E i \in LeaseId : \E token \in 0..leases[i].token : \E to \in Run \ {RunOf(c)} :
          /\ Exists(i) /\ Knows(c, i, token) /\ leases[i].token < MaxTransfers
          /\ Begin(c, [Idle EXCEPT !.pc = "head", !.op = "transfer", !.id = i, !.token = token, !.to = to])
    /\ UNCHANGED <<leases, current, fresh, ghosts, grant>>

\* snapshot: the head first ...
ReadHead(c) ==
    /\ At(c, "head")
    /\ call' = [call EXCEPT ![c].pc = "events"]
    /\ fresh' = fresh \cup {c}
    /\ UNCHANGED <<leases, current, ghosts, grant>>

\* ... then the events, and the decision they allow.
Pin(c, e) ==
    /\ call' = [call EXCEPT ![c].pc = "append", ![c].event = e]
    /\ UNCHANGED <<leases, current, fresh, ghosts>>

GrantedTo(q, holder, token) ==
    [state |-> "held", resource |-> q.resource, holder |-> holder, token |-> token,
     ttl |-> q.ttl, left |-> q.ttl]

\* Mutant: an expired lease is not reclaimed.
AcquireOnlyFree(c) ==
    LET q == call[c] IN
    /\ At(c, "events") /\ q.op = "acquire" /\ Unused # {} /\ current[q.resource] = 0
    /\ Pin(c, [kind |-> "acquired", id |-> FreshId, old |-> 0, lease |-> GrantedTo(q, RunOf(c), 0)])
    /\ UNCHANGED grant

AcquireDecides(c) ==
    LET q == call[c]  i == current[q.resource] IN
    /\ At(c, "events") /\ q.op = "acquire" /\ Unused # {}
    /\ \/ /\ i = 0
          /\ Pin(c, [kind |-> "acquired", id |-> FreshId, old |-> 0, lease |-> GrantedTo(q, RunOf(c), 0)])
       \/ /\ i # 0 /\ Expired(leases[i])
          /\ Pin(c, [kind |-> "reclaimed", id |-> FreshId, old |-> i, lease |-> GrantedTo(q, RunOf(c), 0)])
    /\ UNCHANGED grant

\* ErrConflict: the resource has a live lease.
AcquireConflict(c) ==
    LET i == current[call[c].resource] IN
    /\ At(c, "events") /\ call[c].op = "acquire" /\ i # 0 /\ ~Expired(leases[i])
    /\ Return(c)
    /\ UNCHANGED <<leases, current, ghosts, grant>>

HolderOps == {"renew", "release", "transfer"}

Fenced(c) == leases[call[c].id].token # call[c].token

\* ErrLeaseFenced: the lease has ended, or its fence was replaced.
FenceRefuses(c) ==
    /\ At(c, "events") /\ call[c].op \in HolderOps
    /\ IF Held(call[c].id) THEN Fenced(c) ELSE call[c].op # "release"
    /\ Return(c)
    /\ UNCHANGED <<leases, current, ghosts, grant>>

\* Releasing twice is not an error.
ReleasedAlready(c) ==
    /\ At(c, "events") /\ call[c].op = "release" /\ ~Held(call[c].id)
    /\ Return(c)
    /\ UNCHANGED <<leases, current, ghosts, grant>>

\* The event of an accepted renewal, release or transfer.
HolderEvent(q) ==
    LET l == leases[q.id] IN
    IF q.op = "renew" THEN
        [kind |-> "renewed", id |-> q.id, old |-> 0, lease |-> [l EXCEPT !.left = l.ttl]]
    ELSE IF q.op = "release" THEN
        [kind |-> "released", id |-> q.id, old |-> 0, lease |-> NoLease]
    ELSE
        [kind |-> "transferred", id |-> q.id, old |-> 0,
         lease |-> [l EXCEPT !.left = l.ttl, !.holder = q.to, !.token = @ + 1]]

\* Who gives a lease up does not rely on it from then on, whether or not it
\* learns what became of the attempt.
LetsGo(c) ==
    LET i == call[c].id IN
    grant' = IF call[c].op # "renew" /\ grant[i].run = RunOf(c)
               THEN [grant EXCEPT ![i] = NoGrant] ELSE grant

\* Mutant: the presented fence is not compared.
HolderUnfenced(c) ==
    /\ At(c, "events") /\ call[c].op \in HolderOps
    /\ Held(call[c].id)
    /\ leases[call[c].id].token < MaxTransfers \/ call[c].op # "transfer"
    /\ Pin(c, HolderEvent(call[c])) /\ LetsGo(c)

HolderDecides(c) ==
    /\ At(c, "events") /\ call[c].op \in HolderOps
    /\ Held(call[c].id) /\ ~Fenced(c)
    /\ leases[call[c].id].token < MaxTransfers \/ call[c].op # "transfer"
    /\ Pin(c, HolderEvent(call[c])) /\ LetsGo(c)

\* A run relies on a grant until the deadline it was told has passed.
InTime(g) == IF Expired(g) THEN NoGrant ELSE g

\* The caller learns of the lease its event granted, renewed or moved.
Told(e) ==
    grant' = IF e.kind = "released" THEN grant
             ELSE [grant EXCEPT ![e.id] =
                       InTime([run |-> e.lease.holder, token |-> e.lease.token,
                               ttl |-> e.lease.ttl, left |-> e.lease.left])]

\* Mutant: the append takes whatever slot is next.
CommitUnpinned(c) ==
    /\ At(c, "append")
    /\ Lands(call[c].event)
    /\ Told(call[c].event)
    /\ call' = [call EXCEPT ![c] = Idle]

\* tryAppendAt: the append lands only on the very head it was pinned to.
Commit(c) ==
    /\ At(c, "append") /\ c \in fresh
    /\ Lands(call[c].event)
    /\ Told(call[c].event)
    /\ call' = [call EXCEPT ![c] = Idle]

\* errSequenceRace: start over from a fresh snapshot, maxAppendRetries times.
Raced(c) ==
    /\ At(c, "append") /\ c \notin fresh
    /\ call' = [call EXCEPT ![c] =
                  IF call[c].attempt + 1 < MaxAttempts
                    THEN [call[c] EXCEPT !.pc = "head", !.attempt = @ + 1, !.event = NoEvent]
                    ELSE Idle]
    /\ UNCHANGED <<leases, current, fresh, ghosts, grant>>

\* The caller's context ends while its append sits in a batch window.
GiveUp(c) ==
    /\ At(c, "append")
    /\ ghosts' = IF c \in fresh THEN ghosts \cup {call[c].event} ELSE ghosts
    /\ Return(c)
    /\ UNCHANGED <<leases, current, grant>>

GhostLands ==
    /\ \E e \in ghosts : Lands(e)
    /\ UNCHANGED <<call, grant>>

\* A read or the append fails, or the caller's process dies.
Fails(c) ==
    /\ ~At(c, "idle") /\ Return(c)
    /\ UNCHANGED <<leases, current, ghosts, grant>>

\* Anything else the journal records: another store, another project's run.
OtherAppend ==
    /\ fresh # {} \/ ghosts # {}
    /\ fresh' = {} /\ ghosts' = {}
    /\ UNCHANGED <<leases, current, call, grant>>

Less(x) == IF x.left > 0 THEN [x EXCEPT !.left = @ - 1] ELSE x

\* Time passes, for recorded, pending and remembered deadlines alike.
Tick ==
    /\ leases' = [i \in LeaseId |-> Less(leases[i])]
    /\ call' = [c \in Caller |-> [call[c] EXCEPT !.event.lease = Less(@)]]
    /\ ghosts' = {[e EXCEPT !.lease = Less(@)] : e \in ghosts}
    /\ grant' = [i \in LeaseId |-> InTime(Less(grant[i]))]
    /\ UNCHANGED <<current, fresh>>

-----------------------------------------------------------------------------
CallStep(c) ==
    \/ ReadHead(c)
    \/ AcquireDecides(c) \/ AcquireConflict(c)
    \/ FenceRefuses(c) \/ ReleasedAlready(c) \/ HolderDecides(c)
    \/ Commit(c) \/ Raced(c)

Next ==
    \/ \E c \in Caller :
          \/ AcquireBegin(c) \/ RenewBegin(c) \/ ReleaseBegin(c) \/ TransferBegin(c)
          \/ CallStep(c) \/ GiveUp(c) \/ Fails(c)
    \/ GhostLands \/ OtherAppend \/ Tick

Spec == Init /\ [][Next]_vars

-----------------------------------------------------------------------------
(* Properties *)

TypeOK ==
    /\ current \in [Resource -> 0..MaxLeases]
    /\ \A i \in LeaseId :
          /\ leases[i].state \in {"unused", "held", "released"}
          /\ leases[i].token \in 0..MaxTransfers /\ leases[i].ttl \in TTLs \cup {0}
          /\ leases[i].left \in 0..leases[i].ttl
          /\ Exists(i) => leases[i].resource \in Resource /\ leases[i].holder \in Run
    /\ fresh \subseteq Caller
    /\ \A c \in Caller : call[c].attempt \in 0..MaxAttempts - 1

\* byResource names the one lease of a resource that has not ended.
OneLeasePerResource ==
    \A i, j \in LeaseId :
        Held(i) /\ Held(j) /\ leases[i].resource = leases[j].resource => i = j

\* The decision an event stands for, taken again on the projection of now.
Justified(e) ==
    \/ e.kind = "acquired" /\ current[e.lease.resource] = 0 /\ ~Exists(e.id)
    \/ /\ e.kind = "reclaimed" /\ ~Exists(e.id)
       /\ current[e.lease.resource] = e.old /\ Held(e.old) /\ Expired(leases[e.old])
    \/ e.kind \in {"renewed", "released"} /\ Held(e.id)
    \/ e.kind = "transferred" /\ Held(e.id) /\ e.lease.token = leases[e.id].token + 1

(* The compare-and-swap of snapshot and tryAppendAt: as long as the head a *)
(* call read is the head, what it decided on the events it read later is   *)
(* still the right decision, for calls in progress and abandoned ones.     *)
PinnedDecisionHolds ==
    /\ \A c \in fresh : At(c, "append") => Justified(call[c].event)
    /\ \A e \in ghosts : Justified(e)

(* A run that was granted the lease, and for which the deadline it was     *)
(* told has not passed, relies on it.                                      *)
Relies(i) == grant[i].run # Nothing

(* One writer at a time: no two runs ever hold unexpired grants of the     *)
(* same resource, whatever reclaims, handoffs, renewals and abandoned      *)
(* appends race.                                                           *)
OneWriterPerResource ==
    \A i, j \in LeaseId :
        (Relies(i) /\ Relies(j) /\ leases[i].resource = leases[j].resource) => i = j
=============================================================================
