--------------------------- MODULE LeaseStore_proof ---------------------------
(***************************************************************************)
(* Exclusivity of the lease store, for every set of runs, threads,         *)
(* resources and TTLs.                                                     *)
(*                                                                         *)
(* IInv is the inductive invariant.  Its parts:                            *)
(*   Typed            the types, of calls and pending events too;          *)
(*   Indexed          byResource and the held leases name each other;      *)
(*   CallsKnow        a call presents the fence of its run's lease, or one *)
(*                    that has been replaced;                              *)
(*   GrantsCovered    a run that relies on a grant holds the lease, and    *)
(*                    the deadline it was told is not after the recorded;  *)
(*   PinnedSound      what may still land on the head is the decision of   *)
(*                    the present projection, and ends no lease that       *)
(*                    somebody relies on.                                  *)
(*                                                                         *)
(* The worktree claims are a client of the store: their steps are steps of *)
(* the store (ClaimsAreLeases), so that what is proved of the leases holds *)
(* of them, and ClaimsInv adds what the claims and the claim events that   *)
(* are yet to be appended say of the leases.                               *)
(***************************************************************************)
EXTENDS WorktreeClaims, TLAPS

States == {"unused", "held", "released"}
Kinds  == {"none", "acquired", "reclaimed", "renewed", "released", "transferred"}

LeaseRecord ==
    [state : States, resource : Resource \cup {Nothing}, holder : Run \cup {Nothing},
     token : 0..MaxTransfers, ttl : TTLs \cup {0}, left : Nat]

LeaseOK(l) ==
    /\ l \in LeaseRecord
    /\ l.left <= l.ttl
    /\ l.state # "unused" => l.resource \in Resource /\ l.holder \in Run

EventRecord ==
    {e \in [kind : Kinds, id : 0..MaxLeases, old : 0..MaxLeases, lease : LeaseRecord] :
        e.kind # "reclaimed" => e.old = 0}

GrantRecord ==
    [run : Run \cup {Nothing}, token : Nat, ttl : Nat, left : Nat]

CallRecord ==
    [pc : {"idle", "head", "events", "append"},
     op : {"none", "acquire"} \cup HolderOps,
     resource : Resource \cup {Nothing}, ttl : TTLs \cup {0}, id : 0..MaxLeases,
     token : Nat, to : Run \cup {Nothing}, attempt : 0..MaxAttempts - 1,
     event : EventRecord]

CallOK(q) ==
    /\ q \in CallRecord
    /\ LeaseOK(q.event.lease)
    /\ q.op = "acquire" => q.resource \in Resource
    /\ q.op = "transfer" => q.to \in Run

Typed ==
    /\ leases \in [LeaseId -> LeaseRecord]
    /\ \A i \in LeaseId : LeaseOK(leases[i])
    /\ current \in [Resource -> 0..MaxLeases]
    /\ call \in [Caller -> CallRecord]
    /\ \A c \in Caller : CallOK(call[c])
    /\ fresh \subseteq Caller
    /\ \A e \in ghosts : e \in EventRecord /\ LeaseOK(e.lease)
    /\ grant \in [LeaseId -> GrantRecord]

Indexed ==
    /\ \A x \in Resource :
          current[x] # 0 => Held(current[x]) /\ leases[current[x]].resource = x
    /\ \A i \in LeaseId : Held(i) => current[leases[i].resource] = i

CallsKnow ==
    \A c \in Caller : call[c].op \in HolderOps =>
        LET l == leases[call[c].id] IN
        /\ call[c].id \in LeaseId /\ Exists(call[c].id)
        /\ call[c].token <= l.token
        /\ call[c].token = l.token => l.holder = RunOf(c)

GrantsCovered ==
    \A i \in LeaseId : Relies(i) =>
        /\ Held(i)
        /\ grant[i].run = leases[i].holder /\ grant[i].ttl = leases[i].ttl
        /\ grant[i].ttl # 0 => 0 < grant[i].left /\ grant[i].left <= leases[i].left

\* A new lease that e grants.
Granting(e) ==
    /\ e.id \in LeaseId /\ ~Exists(e.id)
    /\ e.lease.state = "held" /\ e.lease.token = 0

\* A lease that e changes.
Changing(e) == e.id \in LeaseId /\ Held(e.id)

Sound(e) ==
    \/ /\ e.kind = "acquired" /\ Granting(e)
       /\ current[e.lease.resource] = 0
    \/ /\ e.kind = "reclaimed" /\ Granting(e)
       /\ e.old # 0 /\ current[e.lease.resource] = e.old /\ Expired(leases[e.old])
    \/ /\ e.kind = "released" /\ Changing(e) /\ ~Relies(e.id)
    \/ /\ e.kind = "renewed" /\ Changing(e)
       /\ e.lease = [leases[e.id] EXCEPT !.left = e.lease.left]
       /\ leases[e.id].left <= e.lease.left
    \/ /\ e.kind = "transferred" /\ Changing(e) /\ ~Relies(e.id)
       /\ e.lease.state = "held" /\ e.lease.resource = leases[e.id].resource
       /\ e.lease.token = leases[e.id].token + 1

PinnedSound ==
    /\ \A c \in fresh : At(c, "append") => Sound(call[c].event)
    /\ \A e \in ghosts : Sound(e)

IInv == Typed /\ Indexed /\ CallsKnow /\ GrantsCovered /\ PinnedSound

-----------------------------------------------------------------------------
(* A minted ID is one that was not in use. *)
LEMMA FreshIdUnused == Unused # {} => FreshId \in LeaseId /\ ~Exists(FreshId)
  BY DEF FreshId, Unused

(* A TTL is a number. *)
LEMMA TTLNat == \A t : t \in TTLs \cup {0} => t \in Nat
<1> TAKE t
<1> HAVE t \in TTLs \cup {0}
<1>1. CASE t = 0
  BY <1>1
<1>2. CASE t \in TTLs
  <2>1. TTLs \subseteq Nat
    BY LeaseAssumption
  <2> QED
    BY <1>2, <2>1
<1> QED
  BY <1>1, <1>2

(* The record that is not there is well formed. *)
LEMMA NoLeaseOK == LeaseOK(NoLease) /\ NoEvent \in EventRecord /\ LeaseOK(NoEvent.lease)
<1>1. NoLease \in LeaseRecord
  BY LeaseAssumption DEF NoLease, LeaseRecord, States
<1> QED
  BY <1>1, LeaseAssumption DEF LeaseOK, NoLease, NoEvent, EventRecord, Kinds

\* The lease l, ended.
Ended(l, m) ==
    /\ m.state = "released" /\ m.resource = l.resource /\ m.holder = l.holder
    /\ m.token = l.token /\ m.ttl = l.ttl /\ m.left = l.left

(* Ending a lease changes nothing else of it. *)
LEMMA EndedLease ==
  ASSUME NEW l \in LeaseRecord
  PROVE  LET m == [l EXCEPT !.state = "released"] IN m \in LeaseRecord /\ Ended(l, m)
  BY DEF LeaseRecord, States, Ended

(* A sound event of each kind: what it says of the projection it lands on. *)
LEMMA SoundCases ==
  ASSUME Typed, Indexed, NEW e \in EventRecord, LeaseOK(e.lease), Sound(e)
  PROVE  /\ e.id \in LeaseId
         /\ \/ /\ e.kind = "acquired" /\ ~Exists(e.id) /\ e.lease.state = "held"
               /\ e.lease.resource \in Resource /\ current[e.lease.resource] = 0
            \/ /\ e.kind = "reclaimed" /\ ~Exists(e.id) /\ e.lease.state = "held"
               /\ e.lease.resource \in Resource /\ current[e.lease.resource] = e.old
               /\ e.old \in LeaseId /\ e.old # e.id
               /\ Held(e.old) /\ leases[e.old].resource = e.lease.resource
               /\ Expired(leases[e.old])
            \/ e.kind = "released" /\ Held(e.id) /\ ~Relies(e.id)
            \/ /\ e.kind \in {"renewed", "transferred"} /\ Held(e.id) /\ e.lease.state = "held"
               /\ e.lease.resource = leases[e.id].resource
<1>1. CASE e.kind = "acquired"
  BY <1>1 DEF Sound, Granting, LeaseOK
<1>2. CASE e.kind = "reclaimed"
  <2>1. /\ Granting(e) /\ e.lease.resource \in Resource
        /\ e.old # 0 /\ current[e.lease.resource] = e.old /\ Expired(leases[e.old])
    BY <1>2 DEF Sound, Granting, LeaseOK
  <2>2. Held(e.old) /\ leases[e.old].resource = e.lease.resource
    BY <2>1 DEF Indexed
  <2>3. e.old \in LeaseId
    BY <2>1, LeaseAssumption DEF EventRecord, LeaseId
  <2> QED
    BY <1>2, <2>1, <2>2, <2>3 DEF Granting, Held, Exists
<1>3. CASE e.kind = "released"
  BY <1>3 DEF Sound, Changing
<1>4. CASE e.kind = "renewed"
  <2>1. Held(e.id) /\ e.id \in LeaseId /\ e.lease = [leases[e.id] EXCEPT !.left = e.lease.left]
    BY <1>4 DEF Sound, Changing
  <2>2. leases[e.id] \in LeaseRecord
    BY <2>1 DEF Typed
  <2>3. e.lease.state = leases[e.id].state /\ e.lease.resource = leases[e.id].resource
    BY <2>1, <2>2 DEF LeaseRecord
  <2> QED
    BY <1>4, <2>1, <2>3 DEF Held
<1>5. CASE e.kind = "transferred"
  BY <1>5 DEF Sound, Changing
<1> QED
  BY <1>1, <1>2, <1>3, <1>4, <1>5 DEF Sound

(* What the next projection says of each lease when a sound event lands. *)
LEMMA Landed ==
  ASSUME Typed, Indexed, NEW e \in EventRecord, LeaseOK(e.lease), Sound(e), Lands(e)
  PROVE  /\ leases' \in [LeaseId -> LeaseRecord]
         /\ e.kind # "released" => leases'[e.id] = e.lease
         /\ e.kind = "released" => Ended(leases[e.id], leases'[e.id])
         /\ e.kind = "reclaimed" => Ended(leases[e.old], leases'[e.old])
         /\ \A i \in LeaseId :
               i # e.id /\ (e.kind = "reclaimed" => i # e.old) => leases'[i] = leases[i]
<1>0. leases \in [LeaseId -> LeaseRecord] /\ e.lease \in LeaseRecord /\ e.id \in LeaseId
  BY SoundCases DEF Typed, LeaseOK
<1>1. CASE e.kind = "acquired"
  <2>1. leases' = [leases EXCEPT ![e.id] = e.lease]
    BY <1>1 DEF Lands, Fold
  <2> QED
    BY <1>0, <1>1, <2>1
<1>2. CASE e.kind = "reclaimed"
  <2>1. leases' = [leases EXCEPT ![e.old].state = "released", ![e.id] = e.lease]
    BY <1>2 DEF Lands, Fold
  <2>2. e.old \in LeaseId /\ e.old # e.id
    BY <1>2, SoundCases
  <2>3. leases'[e.old] = [leases[e.old] EXCEPT !.state = "released"]
    BY <1>0, <2>1, <2>2
  <2>4. leases'[e.old] \in LeaseRecord /\ Ended(leases[e.old], leases'[e.old])
    BY <1>0, <2>2, <2>3, EndedLease
  <2>5. leases'[e.id] = e.lease /\ \A i \in LeaseId \ {e.id, e.old} : leases'[i] = leases[i]
    BY <1>0, <2>1, <2>2
  <2>6. DOMAIN leases' = LeaseId /\ leases' = [i \in LeaseId |-> leases'[i]]
    BY <1>0, <2>1
  <2> QED
    BY <1>0, <1>2, <2>2, <2>4, <2>5, <2>6
<1>3. CASE e.kind = "released"
  <2>1. leases' = [leases EXCEPT ![e.id].state = "released"]
    BY <1>3 DEF Lands, Fold
  <2>2. leases'[e.id] = [leases[e.id] EXCEPT !.state = "released"]
    BY <1>0, <2>1
  <2>3. leases'[e.id] \in LeaseRecord /\ Ended(leases[e.id], leases'[e.id])
    BY <1>0, <2>2, EndedLease
  <2>4. leases' = [i \in LeaseId |-> leases'[i]] /\ \A i \in LeaseId \ {e.id} : leases'[i] = leases[i]
    BY <1>0, <2>1
  <2> QED
    BY <1>0, <1>3, <2>3, <2>4
<1>4. CASE e.kind \in {"renewed", "transferred"}
  <2>1. leases' = [leases EXCEPT ![e.id] = e.lease]
    BY <1>4, SoundCases DEF Lands, Fold
  <2> QED
    BY <1>0, <1>4, <2>1
<1> QED
  BY <1>1, <1>2, <1>3, <1>4, SoundCases

(* The next index. *)
LEMMA Reindexed ==
  ASSUME Typed, Indexed, NEW e \in EventRecord, LeaseOK(e.lease), Sound(e), Lands(e)
  PROVE  /\ current' \in [Resource -> 0..MaxLeases]
         /\ \A x \in Resource :
               current'[x] =
                 IF e.kind \in {"acquired", "reclaimed"} /\ x = e.lease.resource THEN e.id
                 ELSE IF e.kind = "released" /\ current[x] = e.id THEN 0
                 ELSE current[x]
<1>1. current \in [Resource -> 0..MaxLeases] /\ e.id \in 0..MaxLeases /\ 0 \in 0..MaxLeases
  BY LeaseAssumption DEF Typed, EventRecord
<1>2. CASE e.kind \in {"acquired", "reclaimed"}
  <2>1. current' = [current EXCEPT ![e.lease.resource] = e.id]
    BY <1>2 DEF Lands, Fold
  <2> QED
    BY <1>1, <1>2, <2>1
<1>3. CASE e.kind = "released"
  <2>1. current' = [x \in Resource |-> IF current[x] = e.id THEN 0 ELSE current[x]]
    BY <1>3 DEF Lands, Fold
  <2> QED
    BY <1>1, <1>3, <2>1
<1>4. CASE e.kind \in {"renewed", "transferred"}
  BY <1>1, <1>4 DEF Lands, Fold
<1> QED
  BY <1>2, <1>3, <1>4, SoundCases

(* It stays an index of the held leases. *)
LEMMA LandedIndexed ==
  ASSUME Typed, Indexed, NEW e \in EventRecord, LeaseOK(e.lease), Sound(e), Lands(e)
  PROVE  Indexed'
<1>1. \A x \in Resource : current[x] # 0 => current[x] \in LeaseId
  BY LeaseAssumption DEF Typed, LeaseId
<1>2. 0 \notin LeaseId
  BY DEF LeaseId
<1>3. \A i \in LeaseId : Held(i) => leases[i].resource \in Resource
  BY DEF Typed, LeaseOK, Held
<1>4. CASE e.kind \in {"acquired", "reclaimed"}
  <2>1. /\ e.id \in LeaseId /\ leases'[e.id] = e.lease /\ e.lease.state = "held"
        /\ e.lease.resource \in Resource /\ ~Held(e.id)
        /\ \A x \in Resource :
              current'[x] = IF x = e.lease.resource THEN e.id ELSE current[x]
    BY <1>4, SoundCases, Landed, Reindexed DEF Held, Exists
  <2>2. \A i \in LeaseId \ {e.id} :
           \/ leases'[i] = leases[i] /\ (Held(i) => leases[i].resource # e.lease.resource)
           \/ leases'[i].state = "released" /\ current[e.lease.resource] = i
    BY <1>2, <1>4, SoundCases, Landed DEF Ended, Indexed
  <2> QED
    BY <1>1, <1>2, <1>3, <2>1, <2>2 DEF Indexed, Held
<1>5. CASE e.kind = "released"
  <2>1. /\ e.id \in LeaseId /\ leases'[e.id].state = "released"
        /\ \A i \in LeaseId \ {e.id} : leases'[i] = leases[i]
        /\ \A x \in Resource : current'[x] = IF current[x] = e.id THEN 0 ELSE current[x]
    BY <1>5, SoundCases, Landed, Reindexed DEF Ended
  <2> QED
    BY <1>1, <1>2, <1>3, <2>1 DEF Indexed, Held
<1>6. CASE e.kind \in {"renewed", "transferred"}
  <2>1. /\ e.id \in LeaseId /\ Held(e.id)
        /\ leases'[e.id].state = "held" /\ leases'[e.id].resource = leases[e.id].resource
        /\ \A i \in LeaseId \ {e.id} : leases'[i] = leases[i]
        /\ \A x \in Resource : current'[x] = current[x]
    BY <1>6, SoundCases, Landed, Reindexed
  <2> QED
    BY <1>1, <1>2, <1>3, <2>1 DEF Indexed, Held
<1> QED
  BY <1>4, <1>5, <1>6, SoundCases

(* No fence is minted twice, and who holds one does not change under it. *)
LEMMA LandedFences ==
  ASSUME Typed, Indexed, NEW e \in EventRecord, LeaseOK(e.lease), Sound(e), Lands(e),
         NEW i \in LeaseId, Exists(i)
  PROVE  /\ leases'[i].state # "unused"
         /\ leases[i].token <= leases'[i].token
         /\ leases'[i].token = leases[i].token => leases'[i].holder = leases[i].holder
<1>1. leases[i] \in LeaseRecord /\ leases[i].token \in Nat /\ leases'[i] \in LeaseRecord
  BY Landed, LeaseAssumption DEF Typed, LeaseRecord
<1>2. CASE e.kind = "renewed" /\ i = e.id
  <2>1. leases'[i] = [leases[i] EXCEPT !.left = e.lease.left]
    BY <1>2, Landed DEF Sound
  <2> QED
    BY <1>1, <2>1 DEF LeaseRecord, Exists
<1>3. CASE e.kind = "transferred" /\ i = e.id
  <2>1. leases'[i] = e.lease /\ e.lease.state = "held" /\ e.lease.token = leases[i].token + 1
    BY <1>3, Landed DEF Sound
  <2> QED
    BY <1>1, <2>1
<1>4. CASE e.kind \notin {"renewed", "transferred"} \/ i # e.id
  <2>1. leases'[i] = leases[i] \/ Ended(leases[i], leases'[i])
    BY <1>4, Landed, SoundCases
  <2> QED
    BY <1>1, <2>1 DEF Ended, Exists
<1> QED
  BY <1>2, <1>3, <1>4

(* A lease that somebody relies on stays held, and its deadline stays. *)
LEMMA LandedGrants ==
  ASSUME Typed, Indexed, GrantsCovered,
         NEW e \in EventRecord, LeaseOK(e.lease), Sound(e), Lands(e),
         NEW i \in LeaseId, Relies(i)
  PROVE  /\ leases'[i].state = "held" /\ leases'[i].holder = leases[i].holder
         /\ leases'[i].ttl = leases[i].ttl
         /\ leases[i].left <= leases'[i].left
<1>1. leases[i] \in LeaseRecord /\ leases[i].left \in Nat /\ Held(i)
  BY DEF Typed, LeaseRecord, GrantsCovered
<1>2. ~Expired(leases[i])
  BY <1>1 DEF GrantsCovered, Expired, Typed, GrantRecord
<1>3. CASE e.kind = "renewed" /\ i = e.id
  <2>1. leases'[i] = [leases[i] EXCEPT !.left = e.lease.left] /\ leases[i].left <= e.lease.left
    BY <1>3, Landed DEF Sound
  <2> QED
    BY <1>1, <2>1 DEF LeaseRecord, Held
<1>4. CASE e.kind # "renewed" \/ i # e.id
  <2>1. i # e.id
    BY <1>1, <1>4, SoundCases DEF Sound, Held, Exists
  <2>2. leases'[i] = leases[i]
    BY <1>2, <2>1, Landed, SoundCases
  <2> QED
    BY <1>1, <2>2 DEF Held
<1> QED
  BY <1>3, <1>4

(***************************************************************************)
(* What the steps have in common.                                          *)
(***************************************************************************)
(* A step that lands nothing and changes no record keeps what is said of   *)
(* the projection, and of each event that could land already.              *)
LEMMA SoundStays ==
  ASSUME UNCHANGED <<leases, current, grant>>, NEW e, Sound(e)
  PROVE  Sound(e)'
  BY DEF Sound, Granting, Changing, Held, Exists, Expired, Relies

(* The projection after an event has landed. *)
LEMMA LandsKeeps ==
  ASSUME Typed, Indexed, CallsKnow,
         NEW e \in EventRecord, LeaseOK(e.lease), Sound(e), Lands(e),
         \A c \in Caller : call'[c] = call[c] \/ call'[c] = Idle
  PROVE  /\ leases' \in [LeaseId -> LeaseRecord]
         /\ \A i \in LeaseId : LeaseOK(leases'[i])
         /\ current' \in [Resource -> 0..MaxLeases]
         /\ Indexed' /\ CallsKnow' /\ PinnedSound'
<1>1. \A i \in LeaseId : LeaseOK(leases'[i])
  <2> SUFFICES ASSUME NEW i \in LeaseId PROVE LeaseOK(leases'[i])
    OBVIOUS
  <2>1. CASE leases'[i] = e.lease \/ leases'[i] = leases[i]
    BY <2>1 DEF Typed
  <2>2. CASE Ended(leases[i], leases'[i])
    <3>1. leases'[i] \in LeaseRecord
      BY Landed
    <3>2. leases[i].state # "unused"
      BY <2>2, SoundCases, Landed, <2>1 DEF Held, Exists, Ended
    <3> QED
      BY <2>2, <3>1, <3>2 DEF Typed, LeaseOK, Ended
  <2> QED
    BY <2>1, <2>2, Landed, SoundCases
<1>2. CallsKnow'
  <2> SUFFICES ASSUME NEW c \in Caller, call'[c].op \in HolderOps
               PROVE  /\ call'[c].id \in LeaseId /\ leases'[call'[c].id].state # "unused"
                      /\ call'[c].token <= leases'[call'[c].id].token
                      /\ call'[c].token = leases'[call'[c].id].token
                            => leases'[call'[c].id].holder = RunOf(c)
    BY DEF CallsKnow, Exists
  <2>1. call'[c] = call[c]
    BY DEF Idle, HolderOps
  <2> DEFINE i == call[c].id
  <2>2. /\ i \in LeaseId /\ Exists(i)
        /\ call[c].token <= leases[i].token
        /\ call[c].token = leases[i].token => leases[i].holder = RunOf(c)
    BY <2>1 DEF CallsKnow
  <2>3. /\ leases'[i].state # "unused"
        /\ leases[i].token <= leases'[i].token
        /\ leases'[i].token = leases[i].token => leases'[i].holder = leases[i].holder
    BY <2>2, LandedFences
  <2>4. call[c].token \in Nat /\ leases[i].token \in Nat /\ leases'[i].token \in Nat
    BY <2>2, Landed, LeaseAssumption DEF Typed, CallRecord, LeaseRecord
  <2> QED
    BY <2>1, <2>2, <2>3, <2>4
<1>3. PinnedSound'
  BY DEF PinnedSound, Lands
<1> QED
  BY <1>1, <1>2, <1>3, Landed, Reindexed, LandedIndexed

(* A call that starts, goes on or ends, and pins nothing.                  *)
LEMMA QuietStep ==
  ASSUME IInv, UNCHANGED <<leases, current, grant>>,
         fresh' \subseteq Caller, ghosts' = ghosts,
         NEW c \in Caller, NEW q, CallOK(q), call' = [call EXCEPT ![c] = q],
         q.pc # "append",
         q.op \in HolderOps =>
            /\ q.id \in LeaseId /\ Exists(q.id)
            /\ q.token <= leases[q.id].token
            /\ q.token = leases[q.id].token => leases[q.id].holder = RunOf(c),
         \A d \in Caller : d # c /\ d \in fresh' => d \in fresh
  PROVE  IInv'
<1>1. Typed /\ Indexed /\ CallsKnow /\ GrantsCovered /\ PinnedSound
  BY DEF IInv
<1>2. call'[c] = q /\ \A d \in Caller : d # c => call'[d] = call[d]
  BY <1>1 DEF Typed
<1>3. Typed'
  BY <1>1, <1>2 DEF Typed, CallOK
<1>4. Indexed' /\ GrantsCovered'
  BY <1>1 DEF Indexed, GrantsCovered, Held, Relies
<1>5. CallsKnow'
  <2> SUFFICES ASSUME NEW d \in Caller, call'[d].op \in HolderOps
               PROVE  /\ call'[d].id \in LeaseId /\ Exists(call'[d].id)
                      /\ call'[d].token <= leases[call'[d].id].token
                      /\ call'[d].token = leases[call'[d].id].token
                            => leases[call'[d].id].holder = RunOf(d)
    BY DEF CallsKnow, Exists
  <2>1. CASE d = c
    BY <2>1, <1>2
  <2>2. CASE d # c
    BY <2>2, <1>1, <1>2 DEF CallsKnow
  <2> QED
    BY <2>1, <2>2
<1>6. PinnedSound'
  <2>1. ASSUME NEW d \in Caller, d \in fresh', At(d, "append")' PROVE Sound(call[d].event)'
    <3>1. d # c /\ d \in fresh /\ call'[d] = call[d]
      BY <2>1, <1>2 DEF At
    <3>2. PICK e : e = call[d].event
      OBVIOUS
    <3>3. Sound(e)
      BY <2>1, <3>1, <3>2, <1>1 DEF PinnedSound, At
    <3>4. Sound(e)'
      BY <3>3, SoundStays
    <3> QED
      BY <3>1, <3>2, <3>4
  <2>2. \A e \in ghosts : Sound(e)'
    BY <1>1, SoundStays DEF PinnedSound
  <2> QED
    BY <2>1, <2>2 DEF PinnedSound
<1> QED
  BY <1>3, <1>4, <1>5, <1>6 DEF IInv

(* A call that pins its event, and may let its own grant go with it.       *)
LEMMA PinStep ==
  ASSUME IInv, NEW c \in Caller, NEW e \in EventRecord, LeaseOK(e.lease), Pin(c, e),
         \A i \in LeaseId : grant'[i] = grant[i] \/ grant'[i] = NoGrant,
         grant' \in [LeaseId -> GrantRecord],
         Nothing = NoGrant.run,
         Sound(e)'
  PROVE  IInv'
<1>1. Typed /\ Indexed /\ CallsKnow /\ GrantsCovered /\ PinnedSound
  BY DEF IInv
<1>2. /\ call'[c] = [call[c] EXCEPT !.pc = "append", !.event = e]
      /\ \A d \in Caller : d # c => call'[d] = call[d]
      /\ DOMAIN call' = Caller
      /\ UNCHANGED <<leases, current, fresh, ghosts>>
  BY <1>1 DEF Typed, Pin
<1>3. CallOK(call'[c]) /\ call'[c].event = e /\ call'[c].op = call[c].op
      /\ call'[c].id = call[c].id /\ call'[c].token = call[c].token
  <2>1. CallOK(call[c])
    BY <1>1 DEF Typed
  <2>2. /\ call'[c] \in CallRecord /\ call'[c].event = e /\ call'[c].op = call[c].op
        /\ call'[c].id = call[c].id /\ call'[c].token = call[c].token
        /\ call'[c].resource = call[c].resource /\ call'[c].to = call[c].to
    BY <2>1, <1>2 DEF CallOK, CallRecord
  <2> QED
    BY <2>1, <2>2 DEF CallOK
<1>4. Typed'
  <2>1. \A d \in Caller : CallOK(call'[d]) /\ call'[d] \in CallRecord
    BY <1>1, <1>2, <1>3 DEF Typed, CallOK
  <2>2. call' \in [Caller -> CallRecord]
    BY <1>1, <2>1 DEF Typed, Pin
  <2> QED
    BY <1>1, <1>2, <2>1, <2>2 DEF Typed
<1>5. Indexed'
  BY <1>1, <1>2 DEF Indexed, Held
<1>6. CallsKnow'
  <2> SUFFICES ASSUME NEW d \in Caller, call'[d].op \in HolderOps
               PROVE  /\ call'[d].id \in LeaseId /\ leases'[call'[d].id].state # "unused"
                      /\ call'[d].token <= leases'[call'[d].id].token
                      /\ call'[d].token = leases'[call'[d].id].token
                            => leases'[call'[d].id].holder = RunOf(d)
    BY DEF CallsKnow, Exists
  <2>1. call'[d].op = call[d].op /\ call'[d].id = call[d].id /\ call'[d].token = call[d].token
    BY <1>2, <1>3
  <2> QED
    BY <2>1, <1>1, <1>2 DEF CallsKnow, Exists
<1>7. \A i \in LeaseId : Relies(i)' => Relies(i) /\ grant'[i] = grant[i]
  BY DEF Relies
<1>8. GrantsCovered'
  BY <1>1, <1>2, <1>7 DEF GrantsCovered, Held
<1>9. \A x : Sound(x) => Sound(x)'
  BY <1>2, <1>7 DEF Sound, Granting, Changing, Held, Exists, Expired
<1>10. PinnedSound'
  BY <1>1, <1>2, <1>3, <1>9 DEF PinnedSound, At, Typed
<1> QED
  BY <1>4, <1>5, <1>6, <1>8, <1>10 DEF IInv

(* An idle call is well formed, and nobody relies on no grant. *)
LEMMA IdleOK == CallOK(Idle) /\ Idle.op = "none" /\ Idle.pc = "idle"
<1>1. Idle \in CallRecord
  BY LeaseAssumption, NoLeaseOK DEF Idle, CallRecord, HolderOps
<1> QED
  BY <1>1, NoLeaseOK DEF CallOK, Idle

LEMMA NoGrantOK == NoGrant \in GrantRecord /\ NoGrant.run = Nothing
  BY DEF NoGrant, GrantRecord

(* One tick on a lease. *)
LEMMA LessLease ==
  ASSUME NEW l, LeaseOK(l)
  PROVE  LET m == Less(l) IN
         /\ LeaseOK(m)
         /\ m = [l EXCEPT !.left = m.left]
         /\ m.state = l.state /\ m.resource = l.resource /\ m.holder = l.holder
         /\ m.token = l.token /\ m.ttl = l.ttl
         /\ m.left = IF l.left > 0 THEN l.left - 1 ELSE 0
<1>1. l \in LeaseRecord /\ l.left \in Nat /\ l.ttl \in Nat
  <2>1. l \in LeaseRecord
    BY DEF LeaseOK
  <2>2. l.left \in Nat /\ l.ttl \in TTLs \cup {0}
    BY <2>1 DEF LeaseRecord
  <2> QED
    BY <2>1, <2>2, TTLNat
<1>2. CASE l.left > 0
  <2>1. Less(l) = [l EXCEPT !.left = l.left - 1] /\ l.left - 1 \in Nat
    BY <1>1, <1>2 DEF Less
  <2> QED
    BY <1>1, <1>2, <2>1 DEF LeaseOK, LeaseRecord
<1>3. CASE ~(l.left > 0)
  <2>1. Less(l) = l
    BY <1>3 DEF Less
  <2> QED
    BY <1>1, <1>3, <2>1 DEF LeaseOK, LeaseRecord
<1> QED
  BY <1>2, <1>3

(* One tick on a grant: it is gone, or has as much less of its time. *)
LEMMA LessGrant ==
  ASSUME NEW g \in GrantRecord
  PROVE  LET h == InTime(Less(g)) IN
         /\ h \in GrantRecord
         /\ h.run # Nothing =>
               /\ h.run = g.run /\ h.ttl = g.ttl
               /\ h.left = IF g.left > 0 THEN g.left - 1 ELSE 0
               /\ h.ttl # 0 => h.left > 0
<1>1. CASE g.left > 0
  <2>1. Less(g) = [g EXCEPT !.left = g.left - 1] /\ g.left - 1 \in Nat
    BY <1>1 DEF Less, GrantRecord
  <2> QED
    BY <1>1, <2>1, NoGrantOK DEF InTime, Expired, GrantRecord
<1>2. CASE ~(g.left > 0)
  <2>1. Less(g) = g /\ g.left = 0
    BY <1>2 DEF Less, GrantRecord
  <2> QED
    BY <1>2, <2>1, NoGrantOK DEF InTime, Expired, GrantRecord
<1> QED
  BY <1>1, <1>2

(* The projection and the grants after a tick. *)
LEMMA Ticked ==
  ASSUME Typed, Tick, NEW i \in LeaseId
  PROVE  /\ LeaseOK(leases'[i]) /\ grant'[i] \in GrantRecord
         /\ leases'[i].state = leases[i].state /\ leases'[i].resource = leases[i].resource
         /\ leases'[i].holder = leases[i].holder /\ leases'[i].token = leases[i].token
         /\ leases'[i].ttl = leases[i].ttl
         /\ leases'[i].left = IF leases[i].left > 0 THEN leases[i].left - 1 ELSE 0
         /\ grant'[i].run # Nothing =>
               /\ grant'[i].run = grant[i].run /\ grant'[i].ttl = grant[i].ttl
               /\ grant'[i].left = IF grant[i].left > 0 THEN grant[i].left - 1 ELSE 0
               /\ grant'[i].ttl # 0 => grant'[i].left > 0
<1>1. leases'[i] = Less(leases[i]) /\ grant'[i] = InTime(Less(grant[i]))
  BY DEF Tick
<1>2. LeaseOK(leases[i]) /\ grant[i] \in GrantRecord
  BY DEF Typed
<1> QED
  BY <1>1, <1>2, LessLease, LessGrant

(* A pending event after a tick. *)
LEMMA SoundTicks ==
  ASSUME Typed, Indexed, Tick, NEW e \in EventRecord, LeaseOK(e.lease), Sound(e),
         NEW f, f = [e EXCEPT !.lease = Less(e.lease)]
  PROVE  Sound(f)'
<1>1. /\ f.kind = e.kind /\ f.id = e.id /\ f.old = e.old /\ f.lease = Less(e.lease)
      /\ e.id \in LeaseId /\ current' = current
  BY SoundCases DEF EventRecord, Tick
<1>2. /\ LeaseOK(f.lease) /\ f.lease.state = e.lease.state /\ f.lease.resource = e.lease.resource
      /\ f.lease.token = e.lease.token /\ f.lease.holder = e.lease.holder /\ f.lease.ttl = e.lease.ttl
      /\ f.lease.left = IF e.lease.left > 0 THEN e.lease.left - 1 ELSE 0
  BY <1>1, LessLease
<1>3. (Held(e.id)' <=> Held(e.id)) /\ (Exists(e.id)' <=> Exists(e.id)) /\ (Relies(e.id)' => Relies(e.id))
  BY <1>1, Ticked DEF Held, Exists, Relies
<1>4. CASE e.kind = "acquired"
  BY <1>1, <1>2, <1>3, <1>4 DEF Sound, Granting
<1>5. CASE e.kind = "reclaimed"
  <2>1. e.old \in LeaseId /\ leases[e.old].ttl # 0 /\ leases[e.old].left = 0
    BY <1>5, SoundCases DEF Expired
  <2>2. Expired(leases[e.old])'
    BY <2>1, Ticked DEF Expired
  <2> QED
    BY <1>1, <1>2, <1>3, <1>5, <2>2 DEF Sound, Granting
<1>6. CASE e.kind = "released"
  BY <1>1, <1>3, <1>6 DEF Sound, Changing
<1>7. CASE e.kind = "renewed"
  <2>1. e.lease = [leases[e.id] EXCEPT !.left = e.lease.left] /\ leases[e.id].left <= e.lease.left
    BY <1>7 DEF Sound
  <2>2. leases[e.id] \in LeaseRecord /\ leases'[e.id] \in LeaseRecord /\ f.lease \in LeaseRecord
    BY <1>1, <1>2, Ticked DEF LeaseOK, Typed
  <2>3. /\ f.lease.state = leases'[e.id].state /\ f.lease.resource = leases'[e.id].resource
        /\ f.lease.holder = leases'[e.id].holder /\ f.lease.token = leases'[e.id].token
        /\ f.lease.ttl = leases'[e.id].ttl
    BY <1>1, <1>2, <2>1, <2>2, Ticked DEF LeaseRecord
  <2>4. f.lease = [leases'[e.id] EXCEPT !.left = f.lease.left]
    BY <2>2, <2>3 DEF LeaseRecord
  <2>5. leases'[e.id].left <= f.lease.left
    BY <1>1, <1>2, <2>1, <2>2, Ticked DEF LeaseRecord, LeaseOK
  <2> QED
    BY <1>1, <1>3, <1>7, <2>4, <2>5 DEF Sound, Changing
<1>8. CASE e.kind = "transferred"
  BY <1>1, <1>2, <1>3, <1>8, Ticked DEF Sound, Changing
<1> QED
  BY <1>4, <1>5, <1>6, <1>7, <1>8 DEF Sound

(* Time alone takes nobody's lease. *)
LEMMA TickStep == IInv /\ Tick => IInv'
<1> SUFFICES ASSUME IInv, Tick PROVE IInv'
  OBVIOUS
<1>1. Typed /\ Indexed /\ CallsKnow /\ GrantsCovered /\ PinnedSound
  BY DEF IInv
<1>2. ASSUME NEW e \in EventRecord, LeaseOK(e.lease)
      PROVE  LET f == [e EXCEPT !.lease = Less(e.lease)] IN
             f \in EventRecord /\ LeaseOK(f.lease)
  BY <1>2, LessLease DEF EventRecord, LeaseOK
<1>3. ASSUME NEW c \in Caller
      PROVE  LET f == [call[c].event EXCEPT !.lease = Less(call[c].event.lease)] IN
             /\ call'[c] = [call[c] EXCEPT !.event = f]
             /\ call'[c].event = f /\ call'[c].pc = call[c].pc /\ call'[c].op = call[c].op
             /\ call'[c].id = call[c].id /\ call'[c].token = call[c].token
             /\ CallOK(call'[c])
  <2>1. CallOK(call[c]) /\ call[c] \in CallRecord /\ call[c].event \in EventRecord
    BY <1>1 DEF Typed, CallOK, CallRecord
  <2> DEFINE f == [call[c].event EXCEPT !.lease = Less(call[c].event.lease)]
  <2>2. call'[c] = [call[c] EXCEPT !.event = f]
    BY <2>1 DEF Tick, CallRecord, EventRecord
  <2>3. f \in EventRecord /\ LeaseOK(f.lease)
    BY <2>1, <1>2 DEF CallOK
  <2> HIDE DEF f
  <2>4. /\ call'[c] \in CallRecord /\ call'[c].event = f /\ call'[c].pc = call[c].pc
        /\ call'[c].op = call[c].op /\ call'[c].id = call[c].id /\ call'[c].token = call[c].token
        /\ call'[c].resource = call[c].resource /\ call'[c].to = call[c].to
    BY <2>1, <2>2, <2>3 DEF CallRecord
  <2>5. CallOK(call'[c])
    BY <2>1, <2>3, <2>4 DEF CallOK
  <2> QED
    BY <2>2, <2>4, <2>5 DEF f
<1>4. Typed'
  <2>1. leases' \in [LeaseId -> LeaseRecord] /\ grant' \in [LeaseId -> GrantRecord]
    BY <1>1, Ticked DEF Tick, LeaseOK
  <2>2. call' \in [Caller -> CallRecord]
    BY <1>3 DEF Tick, CallOK
  <2>3. \A e \in ghosts' : e \in EventRecord /\ LeaseOK(e.lease)
    BY <1>1, <1>2 DEF Tick, Typed
  <2> QED
    BY <1>1, <1>3, <2>1, <2>2, <2>3, Ticked DEF Typed, Tick
<1>5. Indexed'
  <2>1. \A x \in Resource : current[x] # 0 => current[x] \in LeaseId
    BY <1>1, LeaseAssumption DEF Typed, LeaseId
  <2> QED
    BY <1>1, <2>1, Ticked DEF Indexed, Held, Tick
<1>6. CallsKnow'
  <2> SUFFICES ASSUME NEW d \in Caller, call'[d].op \in HolderOps
               PROVE  /\ call'[d].id \in LeaseId /\ leases'[call'[d].id].state # "unused"
                      /\ call'[d].token <= leases'[call'[d].id].token
                      /\ call'[d].token = leases'[call'[d].id].token
                            => leases'[call'[d].id].holder = RunOf(d)
    BY DEF CallsKnow, Exists
  <2>1. call'[d].op = call[d].op /\ call'[d].id = call[d].id /\ call'[d].token = call[d].token
    BY <1>3
  <2> QED
    BY <1>1, <2>1, Ticked DEF CallsKnow, Exists
<1>7. GrantsCovered'
  <2> SUFFICES ASSUME NEW i \in LeaseId, grant'[i].run # Nothing
               PROVE  /\ leases'[i].state = "held"
                      /\ grant'[i].run = leases'[i].holder /\ grant'[i].ttl = leases'[i].ttl
                      /\ grant'[i].ttl # 0 => 0 < grant'[i].left /\ grant'[i].left <= leases'[i].left
    BY DEF GrantsCovered, Relies, Held
  <2>1. Relies(i)
    BY <1>1, Ticked DEF Relies
  <2>2. leases[i].left \in Nat /\ grant[i].left \in Nat
    BY <1>1 DEF Typed, LeaseRecord, GrantRecord
  <2> QED
    BY <1>1, <2>1, <2>2, Ticked DEF GrantsCovered, Held
<1>8. PinnedSound'
  <2>1. ASSUME NEW d \in Caller, d \in fresh', At(d, "append")' PROVE Sound(call[d].event)'
    <3>1. PICK e : e = call[d].event
      OBVIOUS
    <3>2. Sound(e) /\ e \in EventRecord /\ LeaseOK(e.lease)
      BY <2>1, <3>1, <1>1, <1>3 DEF PinnedSound, At, Tick, Typed, CallOK, CallRecord
    <3>3. PICK f : f = [e EXCEPT !.lease = Less(e.lease)]
      OBVIOUS
    <3>4. Sound(f)'
      BY <1>1, <3>2, <3>3, SoundTicks
    <3>5. call'[d].event = f
      BY <1>3, <3>1, <3>3
    <3> QED
      BY <3>4, <3>5
  <2>2. ASSUME NEW f \in ghosts' PROVE Sound(f)'
    <3>1. PICK e \in ghosts : f = [e EXCEPT !.lease = Less(e.lease)]
      BY <2>2 DEF Tick
    <3> QED
      BY <1>1, <3>1, SoundTicks DEF PinnedSound, Typed
  <2> QED
    BY <1>4, <2>1, <2>2 DEF PinnedSound, Typed
<1> QED
  BY <1>4, <1>5, <1>6, <1>7, <1>8 DEF IInv
-----------------------------------------------------------------------------
(* The initial states satisfy the invariant. *)
LEMMA Initial == Init => IInv
<1> SUFFICES ASSUME Init PROVE IInv
  OBVIOUS
<1>1. Typed
  <2>1. NoLease \in LeaseRecord /\ LeaseOK(NoLease)
    BY NoLeaseOK DEF LeaseOK
  <2>2. current \in [Resource -> 0..MaxLeases]
    BY LeaseAssumption DEF Init
  <2> QED
    BY <2>1, <2>2, IdleOK, NoGrantOK DEF Init, Typed, CallOK
<1>2. Indexed /\ GrantsCovered
  BY DEF Init, Indexed, GrantsCovered, Held, Relies, NoLease, NoGrant
<1>3. CallsKnow /\ PinnedSound
  BY IdleOK DEF Init, CallsKnow, PinnedSound, HolderOps
<1> QED
  BY <1>1, <1>2, <1>3 DEF IInv

(* An event that was pinned to the present head lands. *)
LEMMA CommitStep == ASSUME IInv, NEW c \in Caller, Commit(c) PROVE IInv'
<1>1. Typed /\ Indexed /\ CallsKnow /\ GrantsCovered /\ PinnedSound
  BY DEF IInv
<1>2. PICK e : e = call[c].event
  OBVIOUS
<1>3. e \in EventRecord /\ LeaseOK(e.lease) /\ Sound(e) /\ Lands(e) /\ Told(e)
  BY <1>1, <1>2 DEF Commit, PinnedSound, Typed, CallOK, CallRecord
<1>4. \A d \in Caller : (call'[d] = call[d] \/ call'[d] = Idle)
  BY <1>1 DEF Commit, Typed
<1>5. /\ leases' \in [LeaseId -> LeaseRecord] /\ \A i \in LeaseId : LeaseOK(leases'[i])
      /\ current' \in [Resource -> 0..MaxLeases]
      /\ Indexed' /\ CallsKnow' /\ PinnedSound'
  BY <1>1, <1>3, <1>4, LandsKeeps
<1> DEFINE g == [run |-> e.lease.holder, token |-> e.lease.token,
                 ttl |-> e.lease.ttl, left |-> e.lease.left]
<1>6. g \in GrantRecord
  <2>1. e.lease.holder \in Run \cup {Nothing} /\ e.lease.left \in Nat
    BY <1>3 DEF LeaseOK, LeaseRecord
  <2>2. e.lease.ttl \in TTLs \cup {0} /\ e.lease.token \in 0..MaxTransfers
    BY <1>3 DEF LeaseOK, LeaseRecord
  <2>3. e.lease.ttl \in Nat
    BY <2>2, TTLNat
  <2>4. e.lease.token \in Nat
    BY <2>2, LeaseAssumption
  <2> QED
    BY <2>1, <2>3, <2>4 DEF GrantRecord
<1>7. /\ e.id \in LeaseId
      /\ grant' = IF e.kind = "released" THEN grant ELSE [grant EXCEPT ![e.id] = InTime(g)]
  BY <1>1, <1>3, SoundCases DEF Told
<1>8. grant' \in [LeaseId -> GrantRecord]
  BY <1>1, <1>6, <1>7, NoGrantOK DEF Typed, InTime
<1>9. Typed'
  <2>1. call' \in [Caller -> CallRecord] /\ \A d \in Caller : CallOK(call'[d])
    BY <1>1, IdleOK DEF Typed, Commit, CallOK
  <2> QED
    BY <1>3, <1>5, <1>8, <2>1 DEF Typed, Lands
<1>10. GrantsCovered'
  <2> SUFFICES ASSUME NEW i \in LeaseId, grant'[i].run # Nothing
               PROVE  /\ leases'[i].state = "held"
                      /\ grant'[i].run = leases'[i].holder /\ grant'[i].ttl = leases'[i].ttl
                      /\ grant'[i].ttl # 0 => 0 < grant'[i].left /\ grant'[i].left <= leases'[i].left
    BY DEF GrantsCovered, Relies, Held
  <2>1. CASE grant'[i] = grant[i]
    <3>1. Relies(i) /\ leases[i].left \in Nat /\ leases'[i].left \in Nat /\ grant[i].left \in Nat
      BY <2>1, <1>1, <1>5 DEF Relies, Typed, LeaseRecord, GrantRecord
    <3> QED
      BY <2>1, <3>1, <1>1, <1>3, LandedGrants DEF GrantsCovered
  <2>2. CASE i = e.id /\ e.kind # "released"
    <3>1. grant'[i] = g /\ ~Expired(g)
      BY <2>2, <1>1, <1>7, NoGrantOK DEF InTime, Typed
    <3>2. leases'[i] = e.lease /\ e.lease.state = "held"
      BY <2>2, <1>1, <1>3, Landed, SoundCases
    <3>3. e.lease.left \in Nat
      BY <1>3 DEF LeaseOK, LeaseRecord
    <3> QED
      BY <3>1, <3>2, <3>3 DEF Expired
  <2> QED
    BY <2>1, <2>2, <1>1, <1>7 DEF Typed
<1> QED
  BY <1>5, <1>9, <1>10 DEF IInv

(* So does one whose caller has stopped waiting. *)
LEMMA GhostStep == IInv /\ GhostLands => IInv'
<1> SUFFICES ASSUME IInv, GhostLands PROVE IInv'
  OBVIOUS
<1>1. Typed /\ Indexed /\ CallsKnow /\ GrantsCovered /\ PinnedSound
  BY DEF IInv
<1>2. PICK e \in ghosts : Lands(e)
  BY DEF GhostLands
<1>3. e \in EventRecord /\ LeaseOK(e.lease) /\ Sound(e) /\ call' = call /\ grant' = grant
  BY <1>1 DEF PinnedSound, Typed, GhostLands
<1>4. /\ leases' \in [LeaseId -> LeaseRecord] /\ \A i \in LeaseId : LeaseOK(leases'[i])
      /\ current' \in [Resource -> 0..MaxLeases]
      /\ Indexed' /\ CallsKnow' /\ PinnedSound'
  BY <1>1, <1>2, <1>3, LandsKeeps
<1>5. Typed'
  BY <1>1, <1>2, <1>3, <1>4 DEF Typed, Lands
<1>6. GrantsCovered'
  <2> SUFFICES ASSUME NEW i \in LeaseId, Relies(i)
               PROVE  /\ leases'[i].state = "held"
                      /\ grant[i].run = leases'[i].holder /\ grant[i].ttl = leases'[i].ttl
                      /\ grant[i].ttl # 0 => 0 < grant[i].left /\ grant[i].left <= leases'[i].left
    BY <1>3 DEF GrantsCovered, Relies, Held
  <2>1. leases[i].left \in Nat /\ leases'[i].left \in Nat /\ grant[i].left \in Nat
    BY <1>1, <1>4 DEF Typed, LeaseRecord, GrantRecord
  <2> QED
    BY <2>1, <1>1, <1>2, <1>3, LandedGrants DEF GrantsCovered
<1> QED
  BY <1>4, <1>5, <1>6 DEF IInv

(* An acquisition pins a lease of its own. *)
LEMMA AcquireStep == ASSUME IInv, NEW c \in Caller, AcquireDecides(c) PROVE IInv'
<1>1. Typed
  BY DEF IInv
<1> DEFINE q == call[c]
           i == current[q.resource]
           l == GrantedTo(q, RunOf(c), 0)
<1>2. /\ q.resource \in Resource /\ q.ttl \in TTLs \cup {0} /\ q.ttl \in Nat /\ RunOf(c) \in Run
      /\ FreshId \in LeaseId /\ ~Exists(FreshId) /\ i \in 0..MaxLeases
  <2>1. q \in CallRecord /\ q.resource \in Resource /\ RunOf(c) \in Run
    BY <1>1 DEF AcquireDecides, Typed, CallOK, Caller, RunOf
  <2>2. q.ttl \in TTLs \cup {0}
    BY <2>1 DEF CallRecord
  <2>3. q.ttl \in Nat
    BY <2>2, TTLNat
  <2>4. FreshId \in LeaseId /\ ~Exists(FreshId)
    BY FreshIdUnused DEF AcquireDecides
  <2>5. i \in 0..MaxLeases
    BY <1>1, <2>1 DEF Typed
  <2> QED
    BY <2>1, <2>2, <2>3, <2>4, <2>5
<1>3. l \in LeaseRecord /\ LeaseOK(l) /\ l.state = "held" /\ l.token = 0 /\ l.resource = q.resource
  <2>1. l \in LeaseRecord
    BY <1>2, LeaseAssumption DEF GrantedTo, LeaseRecord, States
  <2> QED
    BY <1>2, <2>1 DEF GrantedTo, LeaseOK
<1> HIDE DEF l
<1>4. ASSUME NEW e, e = [kind |-> "acquired", id |-> FreshId, old |-> 0, lease |-> l],
             i = 0, Pin(c, e)
      PROVE  IInv'
  <2>1. e \in EventRecord /\ LeaseOK(e.lease)
    BY <1>2, <1>3, <1>4, LeaseAssumption DEF EventRecord, Kinds, LeaseId
  <2>2. Sound(e)
    BY <1>2, <1>3, <1>4 DEF Sound, Granting
  <2>3. Sound(e)'
    BY <1>4, <2>2, SoundStays DEF AcquireDecides, Pin
  <2> QED
    BY <1>1, <1>4, <2>1, <2>3, NoGrantOK, PinStep DEF AcquireDecides, Typed
<1>5. ASSUME NEW e, e = [kind |-> "reclaimed", id |-> FreshId, old |-> i, lease |-> l],
             i # 0, Expired(leases[i]), Pin(c, e)
      PROVE  IInv'
  <2>1. e \in EventRecord /\ LeaseOK(e.lease)
    BY <1>2, <1>3, <1>5, LeaseAssumption DEF EventRecord, Kinds, LeaseId
  <2>2. Sound(e)
    BY <1>2, <1>3, <1>5 DEF Sound, Granting
  <2>3. Sound(e)'
    BY <1>5, <2>2, SoundStays DEF AcquireDecides, Pin
  <2> QED
    BY <1>1, <1>5, <2>1, <2>3, NoGrantOK, PinStep DEF AcquireDecides, Typed
<1> QED
  BY <1>4, <1>5 DEF AcquireDecides, l

(* A renewal, release or transfer pins a change of its run's own lease, and *)
(* a run that gives its lease up has let go of it.                         *)
LEMMA HolderStep == ASSUME IInv, NEW c \in Caller, HolderDecides(c) PROVE IInv'
<1>1. Typed /\ Indexed /\ CallsKnow /\ GrantsCovered
  BY DEF IInv
<1> DEFINE i == call[c].id
           l == leases[i]
<1>2. /\ i \in LeaseId /\ Held(i) /\ l.holder = RunOf(c) /\ call[c].op \in HolderOps
      /\ l \in LeaseRecord /\ LeaseOK(l) /\ l.resource \in Resource /\ RunOf(c) \in Run
      /\ l.token \in 0..MaxTransfers /\ l.ttl \in TTLs \cup {0} /\ l.ttl \in Nat
  <2>1. i \in LeaseId /\ Held(i) /\ l.holder = RunOf(c) /\ call[c].op \in HolderOps
    BY <1>1 DEF CallsKnow, HolderDecides, Fenced
  <2>2. l \in LeaseRecord /\ LeaseOK(l)
    BY <1>1, <2>1 DEF Typed
  <2>3. l.resource \in Resource /\ RunOf(c) \in Run
    BY <2>1, <2>2 DEF LeaseOK, Held, Caller, RunOf
  <2>4. l.token \in 0..MaxTransfers /\ l.ttl \in TTLs \cup {0}
    BY <2>2 DEF LeaseRecord
  <2>5. l.ttl \in Nat
    BY <2>4, TTLNat
  <2> QED
    BY <2>1, <2>2, <2>3, <2>4, <2>5
<1>3. PICK e : e = HolderEvent(call[c])
  OBVIOUS
<1>4. /\ \A j \in LeaseId : grant'[j] = grant[j] \/ grant'[j] = NoGrant
      /\ grant' \in [LeaseId -> GrantRecord]
      /\ call[c].op # "renew" => grant'[i].run = Nothing
  <2>1. Relies(i) => grant[i].run = RunOf(c)
    BY <1>1, <1>2 DEF GrantsCovered
  <2> QED
    BY <1>1, <1>2, <2>1, NoGrantOK DEF HolderDecides, LetsGo, Typed, Relies
<1>5. leases' = leases /\ Pin(c, e) /\ current' = current
  BY <1>3 DEF HolderDecides, Pin
<1>6. e \in EventRecord /\ LeaseOK(e.lease) /\ Sound(e)'
  <2>1. CASE call[c].op = "renew"
    <3>1. e = [kind |-> "renewed", id |-> i, old |-> 0, lease |-> [l EXCEPT !.left = l.ttl]]
      BY <1>3, <2>1 DEF HolderEvent
    <3>2. /\ e.lease \in LeaseRecord /\ LeaseOK(e.lease) /\ e.lease.left = l.ttl /\ l.left <= l.ttl
          /\ e.lease = [l EXCEPT !.left = l.ttl]
      BY <1>2, <3>1 DEF LeaseOK, LeaseRecord
    <3>3. e \in EventRecord
      BY <1>2, <3>1, <3>2, LeaseAssumption DEF EventRecord, Kinds, LeaseId
    <3> QED
      BY <1>2, <1>5, <3>1, <3>2, <3>3 DEF Sound, Changing, Held
  <2>2. CASE call[c].op = "release"
    <3>1. e = [kind |-> "released", id |-> i, old |-> 0, lease |-> NoLease]
      BY <1>3, <2>2 DEF HolderEvent
    <3>2. e \in EventRecord /\ LeaseOK(e.lease)
      BY <1>2, <3>1, NoLeaseOK, LeaseAssumption DEF EventRecord, Kinds, LeaseId, LeaseOK
    <3> QED
      BY <1>2, <1>4, <1>5, <2>2, <3>1, <3>2 DEF Sound, Changing, Held, Relies
  <2>3. CASE call[c].op = "transfer"
    <3>1. e = [kind |-> "transferred", id |-> i, old |-> 0,
               lease |-> [l EXCEPT !.left = l.ttl, !.holder = call[c].to, !.token = l.token + 1]]
      BY <1>3, <2>3 DEF HolderEvent
    <3>2. call[c].to \in Run /\ l.token + 1 \in 0..MaxTransfers
      BY <1>1, <1>2, <2>3, LeaseAssumption DEF HolderDecides, Typed, CallOK
    <3>3. /\ e.lease \in LeaseRecord /\ e.lease.state = l.state /\ e.lease.resource = l.resource
          /\ e.lease.token = l.token + 1 /\ e.lease.holder = call[c].to
          /\ e.lease.left = l.ttl /\ e.lease.ttl = l.ttl
      BY <1>2, <3>1, <3>2 DEF LeaseRecord
    <3>4. e \in EventRecord /\ LeaseOK(e.lease)
      BY <1>2, <3>1, <3>2, <3>3, LeaseAssumption DEF EventRecord, Kinds, LeaseId, LeaseOK
    <3>5. e.kind = "transferred" /\ e.id = i
      BY <3>1
    <3> QED
      BY <1>2, <1>4, <1>5, <2>3, <3>3, <3>4, <3>5 DEF Sound, Changing, Held, Relies
  <2> QED
    BY <1>2, <2>1, <2>2, <2>3 DEF HolderOps
<1> QED
  BY <1>4, <1>5, <1>6, NoGrantOK, PinStep

(* An append that is given up stays sound until the head moves. *)
LEMMA GiveUpStep == ASSUME IInv, NEW c \in Caller, GiveUp(c) PROVE IInv'
<1>1. Typed /\ Indexed /\ CallsKnow /\ GrantsCovered /\ PinnedSound
  BY DEF IInv
<1>2. /\ call' = [call EXCEPT ![c] = Idle] /\ fresh' = fresh \ {c}
      /\ UNCHANGED <<leases, current, grant>>
      /\ \A e \in ghosts' : e \in ghosts \/ (c \in fresh /\ At(c, "append") /\ e = call[c].event)
  BY DEF GiveUp, Return
<1>3. call'[c] = Idle /\ \A d \in Caller : d # c => call'[d] = call[d]
  BY <1>1, <1>2 DEF Typed
<1>4. \A e \in ghosts' : e \in EventRecord /\ LeaseOK(e.lease) /\ Sound(e)
  BY <1>1, <1>2 DEF PinnedSound, Typed, CallOK, CallRecord
<1>5. Typed'
  <2>1. call' \in [Caller -> CallRecord] /\ \A d \in Caller : CallOK(call'[d])
    BY <1>1, <1>2, IdleOK DEF Typed, CallOK
  <2> QED
    BY <1>1, <1>2, <1>4, <2>1 DEF Typed
<1>6. Indexed' /\ GrantsCovered'
  BY <1>1, <1>2 DEF Indexed, GrantsCovered, Held, Relies
<1>7. CallsKnow'
  <2> SUFFICES ASSUME NEW d \in Caller, call'[d].op \in HolderOps
               PROVE  /\ call'[d].id \in LeaseId /\ Exists(call'[d].id)
                      /\ call'[d].token <= leases[call'[d].id].token
                      /\ call'[d].token = leases[call'[d].id].token
                            => leases[call'[d].id].holder = RunOf(d)
    BY <1>2 DEF CallsKnow, Exists
  <2>1. d # c
    BY <1>3, IdleOK DEF HolderOps
  <2> QED
    BY <1>1, <1>3, <2>1 DEF CallsKnow
<1>8. PinnedSound'
  <2>1. ASSUME NEW d \in Caller, d \in fresh', At(d, "append")' PROVE Sound(call[d].event)'
    <3>1. d # c /\ d \in fresh /\ call'[d] = call[d]
      BY <2>1, <1>2, <1>3 DEF At
    <3>2. PICK e : e = call[d].event
      OBVIOUS
    <3>3. Sound(e)
      BY <2>1, <3>1, <3>2, <1>1 DEF PinnedSound, At
    <3>4. Sound(e)'
      BY <1>2, <3>3, SoundStays
    <3> QED
      BY <3>1, <3>2, <3>4
  <2>2. ASSUME NEW e \in ghosts' PROVE Sound(e)'
    BY <1>2, <1>4, <2>2, SoundStays
  <2> QED
    BY <1>5, <2>1, <2>2 DEF PinnedSound, Typed
<1> QED
  BY <1>5, <1>6, <1>7, <1>8 DEF IInv

(* A run begins a call on a lease it knows. *)
LEMMA HolderBegins ==
  ASSUME IInv, NEW c \in Caller, NEW i \in LeaseId, NEW token \in 0..leases[i].token,
         NEW q, CallOK(q), q.op \in HolderOps, q.pc = "head", q.id = i, q.token = token,
         Exists(i), Knows(c, i, token), Begin(c, q),
         UNCHANGED <<leases, current, fresh, ghosts, grant>>
  PROVE  IInv'
<1>1. fresh \subseteq Caller /\ leases[i].token \in Nat
  <2>1. leases[i] \in LeaseRecord /\ fresh \subseteq Caller
    BY DEF IInv, Typed
  <2>2. leases[i].token \in 0..MaxTransfers
    BY <2>1 DEF LeaseRecord
  <2> QED
    BY <2>1, <2>2, LeaseAssumption
<1>2. token <= leases[i].token /\ (token = leases[i].token => leases[i].holder = RunOf(c))
  BY <1>1 DEF Knows
<1> QED
  BY <1>1, <1>2, QuietStep DEF Begin

(* The beginning of each call that a holder makes. *)
LEMMA HolderCall ==
  ASSUME NEW i \in LeaseId, NEW token \in Nat, NEW op \in {"renew", "release"}
  PROVE  LET q == [Idle EXCEPT !.pc = "head", !.op = op, !.id = i, !.token = token] IN
         /\ CallOK(q) /\ q.op \in HolderOps /\ q.pc = "head" /\ q.id = i /\ q.token = token
<1> DEFINE q == [Idle EXCEPT !.pc = "head", !.op = op, !.id = i, !.token = token]
<1>1. i \in 0..MaxLeases
  BY LeaseAssumption DEF LeaseId
<1>2. Idle \in CallRecord /\ LeaseOK(Idle.event.lease)
  BY IdleOK DEF CallOK
<1>3. /\ q.pc = "head" /\ q.op = op /\ q.id = i /\ q.token = token /\ q.event = Idle.event
      /\ q \in CallRecord
  BY <1>1, <1>2 DEF CallRecord, HolderOps
<1> HIDE DEF q
<1>4. CallOK(q)
  BY <1>2, <1>3 DEF CallOK
<1>5. q.op \in HolderOps
  BY <1>3 DEF HolderOps
<1> QED
  BY <1>3, <1>4, <1>5 DEF q

LEMMA TransferCall ==
  ASSUME NEW i \in LeaseId, NEW token \in Nat, NEW to \in Run
  PROVE  LET q == [Idle EXCEPT !.pc = "head", !.op = "transfer", !.id = i,
                               !.token = token, !.to = to] IN
         /\ CallOK(q) /\ q.op \in HolderOps /\ q.pc = "head" /\ q.id = i /\ q.token = token
<1> DEFINE q == [Idle EXCEPT !.pc = "head", !.op = "transfer", !.id = i,
                             !.token = token, !.to = to]
<1>1. i \in 0..MaxLeases
  BY LeaseAssumption DEF LeaseId
<1>2. Idle \in CallRecord /\ LeaseOK(Idle.event.lease)
  BY IdleOK DEF CallOK
<1>3. /\ q.pc = "head" /\ q.op = "transfer" /\ q.id = i /\ q.token = token /\ q.to = to
      /\ q.event = Idle.event /\ q \in CallRecord
  BY <1>1, <1>2 DEF CallRecord, HolderOps
<1> HIDE DEF q
<1>4. CallOK(q)
  BY <1>2, <1>3 DEF CallOK
<1>5. q.op \in HolderOps
  BY <1>3 DEF HolderOps
<1> QED
  BY <1>3, <1>4, <1>5 DEF q

LEMMA AcquireCall ==
  ASSUME NEW x \in Resource, NEW ttl \in TTLs
  PROVE  LET q == [Idle EXCEPT !.pc = "head", !.op = "acquire", !.resource = x, !.ttl = ttl] IN
         CallOK(q) /\ q.op \notin HolderOps /\ q.pc = "head"
<1> DEFINE q == [Idle EXCEPT !.pc = "head", !.op = "acquire", !.resource = x, !.ttl = ttl]
<1>1. Idle \in CallRecord /\ LeaseOK(Idle.event.lease)
  BY IdleOK DEF CallOK
<1>2. /\ q.pc = "head" /\ q.op = "acquire" /\ q.resource = x /\ q.event = Idle.event
      /\ q \in CallRecord
  BY <1>1 DEF CallRecord
<1> HIDE DEF q
<1>3. CallOK(q) /\ q.op \notin HolderOps
  BY <1>1, <1>2 DEF CallOK, HolderOps
<1> QED
  BY <1>2, <1>3 DEF q

(* A call that starts. *)
LEMMA BeginStep ==
  ASSUME IInv, NEW c \in Caller,
         AcquireBegin(c) \/ RenewBegin(c) \/ ReleaseBegin(c) \/ TransferBegin(c)
  PROVE  IInv'
<1>1. fresh \subseteq Caller
  BY DEF IInv, Typed
<1>2. CASE AcquireBegin(c)
  <2>1. PICK x \in Resource, ttl \in TTLs :
          Begin(c, [Idle EXCEPT !.pc = "head", !.op = "acquire", !.resource = x, !.ttl = ttl])
    BY <1>2 DEF AcquireBegin
  <2>2. UNCHANGED <<leases, current, fresh, ghosts, grant>>
    BY <1>2 DEF AcquireBegin
  <2> DEFINE q == [Idle EXCEPT !.pc = "head", !.op = "acquire", !.resource = x, !.ttl = ttl]
  <2>3. CallOK(q) /\ q.op \notin HolderOps /\ q.pc = "head"
    BY AcquireCall
  <2>4. Begin(c, q)
    BY <2>1
  <2> HIDE DEF q
  <2> QED
    BY <1>1, <2>2, <2>3, <2>4, QuietStep DEF Begin
<1>3. ASSUME NEW i \in LeaseId, NEW token \in 0..leases[i].token PROVE token \in Nat
  OBVIOUS
<1>4. CASE RenewBegin(c)
  <2>1. PICK i \in LeaseId : \E token \in 0..leases[i].token :
          /\ Exists(i) /\ Knows(c, i, token)
          /\ Begin(c, [Idle EXCEPT !.pc = "head", !.op = "renew", !.id = i, !.token = token])
    BY <1>4 DEF RenewBegin
  <2>2. PICK token \in 0..leases[i].token :
          /\ Exists(i) /\ Knows(c, i, token)
          /\ Begin(c, [Idle EXCEPT !.pc = "head", !.op = "renew", !.id = i, !.token = token])
    BY <2>1
  <2>3. UNCHANGED <<leases, current, fresh, ghosts, grant>>
    BY <1>4 DEF RenewBegin
  <2> QED
    BY <1>3, <2>2, <2>3, HolderCall, HolderBegins
<1>5. CASE ReleaseBegin(c)
  <2>1. PICK i \in LeaseId : \E token \in 0..leases[i].token :
          /\ Exists(i) /\ Knows(c, i, token)
          /\ Begin(c, [Idle EXCEPT !.pc = "head", !.op = "release", !.id = i, !.token = token])
    BY <1>5 DEF ReleaseBegin
  <2>2. PICK token \in 0..leases[i].token :
          /\ Exists(i) /\ Knows(c, i, token)
          /\ Begin(c, [Idle EXCEPT !.pc = "head", !.op = "release", !.id = i, !.token = token])
    BY <2>1
  <2>3. UNCHANGED <<leases, current, fresh, ghosts, grant>>
    BY <1>5 DEF ReleaseBegin
  <2> QED
    BY <1>3, <2>2, <2>3, HolderCall, HolderBegins
<1>6. CASE TransferBegin(c)
  <2>1. PICK i \in LeaseId : \E token \in 0..leases[i].token : \E to \in Run \ {RunOf(c)} :
          /\ Exists(i) /\ Knows(c, i, token)
          /\ Begin(c, [Idle EXCEPT !.pc = "head", !.op = "transfer", !.id = i,
                                   !.token = token, !.to = to])
    BY <1>6 DEF TransferBegin
  <2>2. PICK token \in 0..leases[i].token : \E to \in Run \ {RunOf(c)} :
          /\ Exists(i) /\ Knows(c, i, token)
          /\ Begin(c, [Idle EXCEPT !.pc = "head", !.op = "transfer", !.id = i,
                                   !.token = token, !.to = to])
    BY <2>1
  <2>3. PICK to \in Run \ {RunOf(c)} :
          /\ Exists(i) /\ Knows(c, i, token)
          /\ Begin(c, [Idle EXCEPT !.pc = "head", !.op = "transfer", !.id = i,
                                   !.token = token, !.to = to])
    BY <2>2
  <2>4. UNCHANGED <<leases, current, fresh, ghosts, grant>>
    BY <1>6 DEF TransferBegin
  <2> QED
    BY <1>3, <2>3, <2>4, TransferCall, HolderBegins
<1> QED
  BY <1>2, <1>4, <1>5, <1>6

(* A call that ends with nothing appended. *)
LEMMA ReturnStep ==
  ASSUME IInv, NEW c \in Caller, Return(c), UNCHANGED <<leases, current, ghosts, grant>>
  PROVE  IInv'
<1>1. fresh' \subseteq Caller /\ \A d \in Caller : d # c /\ d \in fresh' => d \in fresh
  BY DEF Return, IInv, Typed
<1>2. call' = [call EXCEPT ![c] = Idle]
  BY DEF Return
<1>3. CallOK(Idle) /\ Idle.pc # "append" /\ Idle.op \notin HolderOps
  BY IdleOK DEF HolderOps
<1> QED
  BY <1>1, <1>2, <1>3, QuietStep

(* The head is read: what is decided from now on is pinned to it. *)
LEMMA ReadHeadStep == ASSUME IInv, NEW c \in Caller, ReadHead(c) PROVE IInv'
<1> DEFINE q == [call[c] EXCEPT !.pc = "events"]
<1>1. Typed /\ CallsKnow
  BY DEF IInv
<1>2. /\ UNCHANGED <<leases, current, grant>> /\ ghosts' = ghosts
      /\ fresh' \subseteq Caller /\ \A d \in Caller : d # c /\ d \in fresh' => d \in fresh
  BY <1>1 DEF ReadHead, Typed
<1>3. CallOK(call[c]) /\ call[c] \in CallRecord
  BY <1>1 DEF Typed, CallOK
<1>4. call' = [call EXCEPT ![c] = q]
  BY <1>1, <1>3 DEF ReadHead, Typed, CallRecord
<1>5. /\ q \in CallRecord /\ q.pc = "events" /\ q.op = call[c].op /\ q.id = call[c].id
      /\ q.token = call[c].token /\ q.event = call[c].event
      /\ q.resource = call[c].resource /\ q.to = call[c].to
  BY <1>3 DEF CallRecord
<1> HIDE DEF q
<1>6. CallOK(q)
  BY <1>3, <1>5 DEF CallOK
<1>7. q.op \in HolderOps =>
         /\ q.id \in LeaseId /\ Exists(q.id)
         /\ q.token <= leases[q.id].token
         /\ q.token = leases[q.id].token => leases[q.id].holder = RunOf(c)
  BY <1>1, <1>5 DEF CallsKnow
<1> QED
  BY <1>2, <1>4, <1>5, <1>6, <1>7, QuietStep

(* A lost race starts over, or gives up. *)
LEMMA RacedStep == ASSUME IInv, NEW c \in Caller, Raced(c) PROVE IInv'
<1> DEFINE q == [call[c] EXCEPT !.pc = "head", !.attempt = call[c].attempt + 1,
                                !.event = NoEvent]
<1>1. Typed /\ CallsKnow
  BY DEF IInv
<1>2. /\ UNCHANGED <<leases, current, grant>> /\ ghosts' = ghosts
      /\ fresh' \subseteq Caller /\ \A d \in Caller : d # c /\ d \in fresh' => d \in fresh
  BY <1>1 DEF Raced, Typed
<1>3. CASE call[c].attempt + 1 < MaxAttempts
  <2>1. CallOK(call[c]) /\ call[c] \in CallRecord
    BY <1>1 DEF Typed, CallOK
  <2>2. call' = [call EXCEPT ![c] = q]
    <3>1. call' = [call EXCEPT ![c] =
                     IF call[c].attempt + 1 < MaxAttempts
                       THEN [call[c] EXCEPT !.pc = "head", !.attempt = @ + 1, !.event = NoEvent]
                       ELSE Idle]
      BY DEF Raced
    <3>2. [call[c] EXCEPT !.pc = "head", !.attempt = @ + 1, !.event = NoEvent] = q
      BY <2>1 DEF CallRecord
    <3> QED
      BY <1>3, <3>1, <3>2, Zenon
  <2>3. call[c].attempt + 1 \in 0..MaxAttempts - 1
    BY <2>1, <1>3, LeaseAssumption DEF CallRecord
  <2>4. /\ q \in CallRecord /\ q.pc = "head" /\ q.op = call[c].op /\ q.id = call[c].id
        /\ q.token = call[c].token /\ q.event = NoEvent
        /\ q.resource = call[c].resource /\ q.to = call[c].to
    BY <2>1, <2>3, NoLeaseOK DEF CallRecord
  <2> HIDE DEF q
  <2>5. CallOK(q)
    BY <2>1, <2>4, NoLeaseOK DEF CallOK
  <2>6. q.op \in HolderOps =>
           /\ q.id \in LeaseId /\ Exists(q.id)
           /\ q.token <= leases[q.id].token
           /\ q.token = leases[q.id].token => leases[q.id].holder = RunOf(c)
    BY <1>1, <2>4 DEF CallsKnow
  <2> QED
    BY <1>2, <2>2, <2>4, <2>5, <2>6, QuietStep
<1>4. CASE ~(call[c].attempt + 1 < MaxAttempts)
  <2>1. call' = [call EXCEPT ![c] = Idle]
    BY <1>1, <1>4 DEF Raced, Typed
  <2>2. CallOK(Idle) /\ Idle.pc # "append" /\ Idle.op \notin HolderOps
    BY IdleOK DEF HolderOps
  <2> QED
    BY <1>2, <2>1, <2>2, QuietStep
<1> QED
  BY <1>3, <1>4

(* Another record moves the head: nothing pinned to the old one can land. *)
LEMMA OtherStep == ASSUME IInv, OtherAppend PROVE IInv'
<1>1. /\ UNCHANGED <<leases, current, call, grant>> /\ fresh' = {} /\ ghosts' = {}
  BY DEF OtherAppend
<1> QED
  BY <1>1 DEF IInv, Typed, Indexed, CallsKnow, GrantsCovered, PinnedSound, Held, Exists, Relies

(* Nothing happens. *)
LEMMA StutterStep == IInv /\ UNCHANGED vars => IInv'
<1> SUFFICES ASSUME IInv, UNCHANGED vars PROVE IInv'
  OBVIOUS
<1>1. Typed' /\ Indexed'
  BY DEF vars, IInv, Typed, Indexed, Held
<1>2. CallsKnow' /\ GrantsCovered'
  BY DEF vars, IInv, CallsKnow, GrantsCovered, Held, Exists, Relies
<1>3. \A e : Sound(e)' <=> Sound(e)
  BY DEF vars, Sound, Granting, Changing, Held, Exists, Relies
<1>4. PinnedSound'
  BY <1>3 DEF vars, IInv, PinnedSound, At
<1> QED
  BY <1>1, <1>2, <1>4 DEF IInv

(* Every step of the store keeps the invariant. *)
LEMMA Step == IInv /\ [Next]_vars => IInv'
<1> SUFFICES ASSUME IInv, [Next]_vars PROVE IInv'
  OBVIOUS
<1>1. ASSUME NEW c \in Caller, CallStep(c) PROVE IInv'
  <2>1. CASE ReadHead(c)
    BY <2>1, ReadHeadStep
  <2>2. CASE AcquireDecides(c)
    BY <2>2, AcquireStep
  <2>3. CASE AcquireConflict(c)
    BY <2>3, ReturnStep DEF AcquireConflict
  <2>4. CASE FenceRefuses(c)
    BY <2>4, ReturnStep DEF FenceRefuses
  <2>5. CASE ReleasedAlready(c)
    BY <2>5, ReturnStep DEF ReleasedAlready
  <2>6. CASE HolderDecides(c)
    BY <2>6, HolderStep
  <2>7. CASE Commit(c)
    BY <2>7, CommitStep
  <2>8. CASE Raced(c)
    BY <2>8, RacedStep
  <2> QED
    BY <1>1, <2>1, <2>2, <2>3, <2>4, <2>5, <2>6, <2>7, <2>8 DEF CallStep
<1>2. ASSUME NEW c \in Caller,
             AcquireBegin(c) \/ RenewBegin(c) \/ ReleaseBegin(c) \/ TransferBegin(c)
      PROVE  IInv'
  BY <1>2, BeginStep
<1>3. ASSUME NEW c \in Caller, GiveUp(c) PROVE IInv'
  BY <1>3, GiveUpStep
<1>4. ASSUME NEW c \in Caller, Fails(c) PROVE IInv'
  BY <1>4, ReturnStep DEF Fails
<1>5. CASE GhostLands
  BY <1>5, GhostStep
<1>6. CASE OtherAppend
  BY <1>6, OtherStep
<1>7. CASE Tick
  BY <1>7, TickStep
<1>8. CASE UNCHANGED vars
  BY <1>8, StutterStep
<1> QED
  BY <1>1, <1>2, <1>3, <1>4, <1>5, <1>6, <1>7, <1>8 DEF Next

-----------------------------------------------------------------------------
(* The invariant holds in every reachable state of the store.              *)
THEOREM Safety == Spec => []IInv
  BY Initial, Step, PTL DEF Spec

(* Types: leases, fences and deadlines keep theirs, and no call retries    *)
(* more often than maxAppendRetries.                                       *)
THEOREM TypeCorrect == Spec => []TypeOK
<1>1. IInv => TypeOK
  <2> SUFFICES ASSUME IInv PROVE TypeOK
    OBVIOUS
  <2>1. Typed
    BY DEF IInv
  <2>2. ASSUME NEW i \in LeaseId
        PROVE  /\ leases[i].state \in {"unused", "held", "released"}
               /\ leases[i].token \in 0..MaxTransfers /\ leases[i].ttl \in TTLs \cup {0}
               /\ leases[i].left \in 0..leases[i].ttl
               /\ Exists(i) => leases[i].resource \in Resource /\ leases[i].holder \in Run
    <3>1. LeaseOK(leases[i]) /\ leases[i] \in LeaseRecord
      BY <2>1 DEF Typed
    <3>2. /\ leases[i].state \in States /\ leases[i].token \in 0..MaxTransfers
          /\ leases[i].ttl \in TTLs \cup {0} /\ leases[i].left \in Nat
      BY <3>1 DEF LeaseRecord
    <3>3. leases[i].ttl \in Nat
      BY <3>2, TTLNat
    <3>4. leases[i].left \in 0..leases[i].ttl
      BY <3>1, <3>2, <3>3 DEF LeaseOK
    <3> QED
      BY <3>1, <3>2, <3>4 DEF LeaseOK, States, Exists
  <2>3. \A c \in Caller : call[c].attempt \in 0..MaxAttempts - 1
    BY <2>1 DEF Typed, CallRecord
  <2> QED
    BY <2>1, <2>2, <2>3 DEF TypeOK, Typed
<1> QED
  BY <1>1, Safety, PTL

(* byResource names the one lease of a resource that has not ended: the    *)
(* events of acquire, release and transfer keep the index and the leases   *)
(* in step, in whatever order the calls race.                              *)
THEOREM OneLease == Spec => []OneLeasePerResource
<1>1. IInv => OneLeasePerResource
  BY DEF IInv, Indexed, OneLeasePerResource
<1> QED
  BY <1>1, Safety, PTL

(* The compare-and-swap of snapshot and tryAppendAt: an append that may    *)
(* still land carries the decision that the present projection justifies,  *)
(* also when the caller that pinned it has given up waiting.               *)
THEOREM PinnedDecision == Spec => []PinnedDecisionHolds
<1>1. ASSUME Typed, Indexed, NEW e \in EventRecord, LeaseOK(e.lease), Sound(e)
      PROVE  Justified(e)
  BY <1>1, SoundCases DEF Sound, Justified, Changing
<1>2. IInv => PinnedDecisionHolds
  <2> SUFFICES ASSUME IInv PROVE PinnedDecisionHolds
    OBVIOUS
  <2>1. Typed /\ Indexed /\ PinnedSound
    BY DEF IInv
  <2>2. ASSUME NEW c \in fresh, At(c, "append") PROVE Justified(call[c].event)
    BY <1>1, <2>1, <2>2 DEF PinnedSound, Typed, CallOK, CallRecord
  <2>3. ASSUME NEW e \in ghosts PROVE Justified(e)
    BY <1>1, <2>1, <2>3 DEF PinnedSound, Typed
  <2> QED
    BY <2>2, <2>3 DEF PinnedDecisionHolds
<1> QED
  BY <1>2, Safety, PTL

(* One writer at a time: no two leases of one resource are ever both       *)
(* relied on, whatever reclaims, handoffs, renewals and abandoned appends  *)
(* race, as long as the deadlines are compared on one clock.               *)
THEOREM OneWriter == Spec => []OneWriterPerResource
<1>1. IInv => OneWriterPerResource
  BY DEF IInv, Indexed, GrantsCovered, OneWriterPerResource
<1> QED
  BY <1>1, Safety, PTL
-----------------------------------------------------------------------------
(* Worktree claims: the store with a claim event after the lease event.    *)

\* A lease that is over stays over.
Over(i) == leases[i].state = "released"

ClaimRecord ==
    [state : {"unused", "live", "released"}, run : Run \cup {Nothing}, token : 0..MaxTransfers]

FollowRecord ==
    [kind : {"claimed", "reclaimed", "renewed", "released", "handedoff"},
     id : LeaseId, old : 0..MaxLeases, run : Run \cup {Nothing}, token : 0..MaxTransfers]

\* What a claim event that is yet to be appended says is so when it is.
FollowOK(f) ==
    /\ f \in FollowRecord
    /\ Exists(f.id)
    /\ f.kind \in {"claimed", "reclaimed", "handedoff"} => f.run \in Run
    /\ f.kind = "released" => Over(f.id)
    /\ f.old \in LeaseId => Over(f.old)

ClaimOK(i) ==
    /\ claims[i] \in ClaimRecord
    /\ claims[i].state # "unused" => claims[i].run \in Run /\ Exists(i)
    /\ claims[i].state = "released" => Over(i)

ClaimsInv ==
    /\ claims \in [LeaseId -> ClaimRecord]
    /\ \A i \in LeaseId : ClaimOK(i)
    /\ followUp \in [Caller -> FollowRecord \cup {NoFollow}]
    /\ \A c \in Caller : ~Free(c) => At(c, "idle") /\ FollowOK(followUp[c])

(* A step of the store leaves every lease in being, and ended ones ended.  *)
LEMMA LeasesStay ==
  ASSUME IInv, [Next]_vars, NEW i \in LeaseId
  PROVE  (Exists(i) => Exists(i)') /\ (Over(i) => Over(i)')
<1>1. Typed /\ Indexed /\ PinnedSound
  BY DEF IInv
<1>2. ASSUME NEW e \in EventRecord, LeaseOK(e.lease), Sound(e), Lands(e)
      PROVE  (Exists(i) => Exists(i)') /\ (Over(i) => Over(i)')
  BY <1>1, <1>2, Landed, SoundCases DEF Exists, Over, Held, Ended
<1>3. CASE UNCHANGED leases
  BY <1>3 DEF Exists, Over
<1>4. ASSUME NEW c \in Caller, Commit(c) PROVE \E e \in EventRecord : LeaseOK(e.lease) /\ Sound(e) /\ Lands(e)
  <2>1. PICK e : e = call[c].event
    OBVIOUS
  <2> QED
    BY <1>1, <1>4, <2>1 DEF Commit, PinnedSound, Typed, CallOK, CallRecord
<1>5. ASSUME GhostLands PROVE \E e \in EventRecord : LeaseOK(e.lease) /\ Sound(e) /\ Lands(e)
  BY <1>1, <1>5 DEF GhostLands, PinnedSound, Typed
<1>6. CASE Tick
  BY <1>1, <1>6, Ticked DEF Exists, Over
<1>7. ASSUME NEW c \in Caller, CallStep(c), ~Commit(c) PROVE UNCHANGED leases
  BY <1>7 DEF CallStep, ReadHead, AcquireDecides, AcquireConflict, FenceRefuses, ReleasedAlready,
              HolderDecides, Raced, Pin
<1>8. ASSUME NEW c \in Caller,
             AcquireBegin(c) \/ RenewBegin(c) \/ ReleaseBegin(c) \/ TransferBegin(c)
               \/ GiveUp(c) \/ Fails(c)
      PROVE  UNCHANGED leases
  BY <1>8 DEF AcquireBegin, RenewBegin, ReleaseBegin, TransferBegin, GiveUp, Fails
<1>9. OtherAppend \/ UNCHANGED vars => UNCHANGED leases
  BY DEF OtherAppend, vars
<1> QED
  BY <1>2, <1>3, <1>4, <1>5, <1>6, <1>7, <1>8, <1>9 DEF Next

(* The claim event that goes with a lease event that has just landed.      *)
LEMMA FollowingOK ==
  ASSUME Typed, Indexed, NEW e \in EventRecord, LeaseOK(e.lease), Sound(e), Lands(e)
  PROVE  FollowOK(Following(e))'
<1>1. /\ e.id \in LeaseId /\ e.old \in 0..MaxLeases
      /\ e.kind \in {"acquired", "reclaimed", "released", "renewed", "transferred"}
  BY SoundCases DEF EventRecord
<1>2. e.lease.holder \in Run \cup {Nothing} /\ e.lease.token \in 0..MaxTransfers
  BY DEF LeaseOK, LeaseRecord
<1>3. Following(e) \in FollowRecord
  BY <1>1, <1>2 DEF Following, FollowRecord
<1>4. Exists(e.id)'
  BY Landed, SoundCases DEF Exists, Ended, Held
<1>5. e.kind # "released" => e.lease.holder \in Run
  BY SoundCases DEF LeaseOK
<1>6. e.kind = "released" => Over(e.id)'
  BY Landed DEF Over, Ended
<1>7. e.old \in LeaseId => Over(e.old)'
  BY Landed, SoundCases DEF Over, Ended, EventRecord, LeaseId
<1> QED
  BY <1>1, <1>3, <1>4, <1>5, <1>6, <1>7 DEF FollowOK, Following

(* What a claim event says stays so until it is appended.                  *)
LEMMA FollowStays ==
  ASSUME IInv, [Next]_vars, NEW f, FollowOK(f)
  PROVE  FollowOK(f)'
<1>1. f \in FollowRecord /\ f.id \in LeaseId
  BY DEF FollowOK, FollowRecord
<1>2. Exists(f.id)' /\ (Over(f.id) => Over(f.id)')
  BY <1>1, LeasesStay DEF FollowOK
<1>3. f.old \in LeaseId => Over(f.old)'
  BY LeasesStay DEF FollowOK
<1> QED
  BY <1>1, <1>2, <1>3 DEF FollowOK

(* A claim stays as it is while the store works.                           *)
LEMMA ClaimsStay ==
  ASSUME IInv, ClaimsInv, [Next]_vars, claims' = claims
  PROVE  claims' \in [LeaseId -> ClaimRecord] /\ \A i \in LeaseId : ClaimOK(i)'
<1>1. ASSUME NEW i \in LeaseId PROVE ClaimOK(i)'
  <2>1. ClaimOK(i) /\ (Exists(i) => Exists(i)') /\ (Over(i) => Over(i)')
    BY LeasesStay DEF ClaimsInv
  <2> QED
    BY <2>1 DEF ClaimOK
<1> QED
  BY <1>1 DEF ClaimsInv

(* A caller with a claim event to append is between two operations, and    *)
(* only appending it, or failing to, takes it from there.                  *)
LEMMA StaysIdle ==
  ASSUME Typed, NEW c \in Caller, At(c, "idle"),
         \/ \E d \in Caller \ {c} :
               \/ AcquireBegin(d) \/ RenewBegin(d) \/ ReleaseBegin(d) \/ TransferBegin(d)
               \/ CallStep(d) \/ GiveUp(d) \/ Fails(d)
         \/ CallStep(c) \/ GiveUp(c) \/ Fails(c)
         \/ GhostLands \/ OtherAppend \/ Tick
  PROVE  At(c, "idle")'
<1>1. call \in [Caller -> CallRecord]
  BY DEF Typed
<1>2. ASSUME NEW d \in Caller, d # c, \E q : call' = [call EXCEPT ![d] = q]
      PROVE  At(c, "idle")'
  BY <1>1, <1>2 DEF At
<1>3. ASSUME NEW d \in Caller, d # c,
             AcquireBegin(d) \/ RenewBegin(d) \/ ReleaseBegin(d) \/ TransferBegin(d)
      PROVE  At(c, "idle")'
  BY <1>2, <1>3 DEF AcquireBegin, RenewBegin, ReleaseBegin, TransferBegin, Begin
<1>4. ASSUME NEW d \in Caller, d # c, CallStep(d) PROVE At(c, "idle")'
  BY <1>1, <1>4 DEF At, CallStep, ReadHead, AcquireDecides, AcquireConflict, FenceRefuses,
                    ReleasedAlready, HolderDecides, Commit, Raced, Pin, Return
<1>5. ASSUME NEW d \in Caller, d # c, GiveUp(d) \/ Fails(d) PROVE At(c, "idle")'
  BY <1>1, <1>5 DEF At, GiveUp, Fails, Return
<1>6. CASE CallStep(c) \/ GiveUp(c) \/ Fails(c)
  BY <1>6 DEF At, CallStep, ReadHead, AcquireDecides, AcquireConflict, FenceRefuses,
              ReleasedAlready, HolderDecides, Commit, Raced, GiveUp, Fails
<1>7. CASE GhostLands \/ OtherAppend
  BY <1>7 DEF At, GhostLands, OtherAppend
<1>8. CASE Tick
  <2>1. call'[c] = [call[c] EXCEPT !.event.lease = Less(@)]
    BY <1>8 DEF Tick
  <2> QED
    BY <1>1, <2>1 DEF At, CallRecord
<1> QED
  BY <1>3, <1>4, <1>5, <1>6, <1>7, <1>8

(* Every step of the claims is one of the store, or none: a claim event    *)
(* that is appended is an append of somebody else's to it.                 *)
LEMMA StoreStep == [ClaimsNext]_allVars => [Next]_vars
<1> SUFFICES ASSUME [ClaimsNext]_allVars PROVE [Next]_vars
  OBVIOUS
<1>1. ASSUME NEW c \in Caller, Claim(c) \/ Renew(c) \/ Release(c) \/ Handoff(c) PROVE Next
  BY <1>1 DEF Claim, Renew, Release, Handoff, Next
<1>2. ASSUME NEW c \in Caller, LeaseWorks(c) \/ LeaseGranted(c) \/ LeaseGone(c) PROVE Next
  BY <1>2 DEF LeaseWorks, LeaseGranted, LeaseGone, Next, CallStep
<1>3. ASSUME NEW c \in Caller, FollowUp(c) PROVE [Next]_vars
  <2>1. CASE fresh # {} \/ ghosts # {}
    BY <1>3, <2>1 DEF FollowUp, OtherAppend, Next
  <2>2. CASE fresh = {} /\ ghosts = {}
    BY <1>3, <2>2 DEF FollowUp, vars
  <2> QED
    BY <2>1, <2>2
<1>4. ASSUME NEW c \in Caller, FollowUpLost(c) PROVE UNCHANGED vars
  BY <1>4 DEF FollowUpLost
<1>5. Elsewhere => Next
  BY DEF Elsewhere, Next
<1>6. UNCHANGED allVars => UNCHANGED vars
  BY DEF allVars
<1> QED
  BY <1>1, <1>2, <1>3, <1>4, <1>5, <1>6 DEF ClaimsNext

(* Nobody has anything to append before the lease layer has answered.      *)
LEMMA FollowUpsStay ==
  ASSUME IInv, ClaimsInv, [Next]_vars, followUp' = followUp,
         \A c \in Caller : ~Free(c) => At(c, "idle")'
  PROVE  /\ followUp' \in [Caller -> FollowRecord \cup {NoFollow}]
         /\ \A c \in Caller : ~Free(c)' => At(c, "idle")' /\ FollowOK(followUp[c])'
<1>1. ASSUME NEW c \in Caller, ~Free(c) PROVE FollowOK(followUp[c])'
  <2>1. PICK f : f = followUp[c]
    OBVIOUS
  <2>2. FollowOK(f) /\ followUp'[c] = f
    BY <1>1, <2>1 DEF ClaimsInv
  <2>3. FollowOK(f)'
    BY <2>2, FollowStays
  <2> QED
    BY <2>1, <2>2, <2>3
<1> QED
  BY <1>1 DEF ClaimsInv, Free

(* The lease layer has answered, and the claim event that goes with it is  *)
(* the next thing its caller appends.                                      *)
LEMMA FollowsStep ==
  ASSUME IInv, ClaimsInv, [Next]_vars, NEW c \in Caller, NEW f, FollowOK(f)',
         followUp' = [followUp EXCEPT ![c] = f], claims' = claims,
         At(c, "idle")', \A d \in Caller : ~Free(d) => At(d, "idle")'
  PROVE  ClaimsInv'
<1>1. claims' \in [LeaseId -> ClaimRecord] /\ \A i \in LeaseId : ClaimOK(i)'
  BY ClaimsStay
<1>2. f \in FollowRecord
  BY DEF FollowOK
<1>3. followUp' \in [Caller -> FollowRecord \cup {NoFollow}]
  BY <1>2 DEF ClaimsInv
<1>4. ASSUME NEW d \in Caller, ~Free(d)' PROVE At(d, "idle")' /\ FollowOK(followUp[d])'
  <2>1. CASE d = c
    <3>1. followUp'[d] = f
      BY <2>1 DEF ClaimsInv
    <3> QED
      BY <2>1, <3>1
  <2>2. CASE d # c
    <3>1. PICK g : g = followUp[d]
      OBVIOUS
    <3>2. followUp'[d] = g
      BY <2>2, <3>1 DEF ClaimsInv
    <3>3. ~Free(d) /\ FollowOK(g)
      BY <1>4, <3>1, <3>2 DEF Free, ClaimsInv
    <3>4. FollowOK(g)'
      BY <3>3, FollowStays
    <3> QED
      BY <3>2, <3>3, <3>4
  <2> QED
    BY <2>1, <2>2
<1> QED
  BY <1>1, <1>3, <1>4 DEF ClaimsInv

(* A claim event is folded into the claims.                                *)
LEMMA FoldedOK ==
  ASSUME IInv, ClaimsInv, UNCHANGED leases, NEW f, FollowOK(f), FoldClaim(f)
  PROVE  claims' \in [LeaseId -> ClaimRecord] /\ \A i \in LeaseId : ClaimOK(i)'
<1>1. /\ f \in FollowRecord /\ f.id \in LeaseId /\ f.token \in 0..MaxTransfers
      /\ f.run \in Run \cup {Nothing}
      /\ f.kind \in {"claimed", "reclaimed", "renewed", "released", "handedoff"}
  BY DEF FollowOK, FollowRecord
<1>2. ASSUME NEW i \in LeaseId PROVE claims'[i] \in ClaimRecord /\ ClaimOK(i)'
  <2>0. ClaimOK(i) /\ claims[i] \in ClaimRecord
    BY DEF ClaimsInv
  <2>1. CASE i = f.id /\ f.kind \in {"claimed", "reclaimed"}
    <3>1. claims'[i] = [state |-> "live", run |-> f.run, token |-> f.token]
      BY <2>1 DEF FoldClaim, Live
    <3> QED
      BY <1>1, <2>1, <3>1 DEF ClaimOK, ClaimRecord, FollowOK, Exists
  <2>2. CASE i = f.id /\ f.kind = "renewed" /\ claims[i].state # "unused"
    <3>1. claims'[i] = [claims[i] EXCEPT !.token = f.token]
      BY <2>2 DEF FoldClaim
    <3> QED
      BY <1>1, <2>0, <3>1 DEF ClaimOK, ClaimRecord, Exists, Over
  <2>3. CASE i = f.id /\ f.kind = "released" /\ claims[i].state # "unused"
    <3>1. claims'[i] = [claims[i] EXCEPT !.state = "released"]
      BY <2>3 DEF FoldClaim
    <3> QED
      BY <1>1, <2>0, <2>3, <3>1 DEF ClaimOK, ClaimRecord, Exists, Over, FollowOK
  <2>4. CASE i = f.id /\ f.kind = "handedoff" /\ claims[i].state # "unused"
    <3>1. claims'[i] = [claims[i] EXCEPT !.run = f.run, !.token = f.token]
      BY <2>4 DEF FoldClaim
    <3> QED
      BY <1>1, <2>0, <2>4, <3>1 DEF ClaimOK, ClaimRecord, Exists, Over, FollowOK
  <2>5. CASE /\ ~(i = f.id /\ (f.kind \in {"claimed", "reclaimed"} \/ claims[i].state # "unused"))
             /\ i = f.old /\ LiveClaim(i)
    <3>1. claims'[i] = [claims[i] EXCEPT !.state = "released"]
      BY <2>5 DEF FoldClaim
    <3> QED
      BY <1>1, <2>0, <2>5, <3>1 DEF ClaimOK, ClaimRecord, Exists, Over, FollowOK, LiveClaim
  <2>6. CASE /\ ~(i = f.id /\ (f.kind \in {"claimed", "reclaimed"} \/ claims[i].state # "unused"))
             /\ ~(i = f.old /\ LiveClaim(i))
    <3>1. claims'[i] = claims[i]
      BY <2>6 DEF FoldClaim
    <3> QED
      BY <2>0, <3>1 DEF ClaimOK, Exists, Over
  <2> QED
    BY <1>1, <2>1, <2>2, <2>3, <2>4, <2>5, <2>6
<1> DEFINE Folded(i) ==
        IF i = f.id /\ (f.kind \in {"claimed", "reclaimed"} \/ claims[i].state # "unused")
          THEN CASE f.kind \in {"claimed", "reclaimed"} -> Live(f)
                 [] f.kind = "renewed"   -> [claims[i] EXCEPT !.token = f.token]
                 [] f.kind = "released"  -> [claims[i] EXCEPT !.state = "released"]
                 [] f.kind = "handedoff" -> [claims[i] EXCEPT !.run = f.run, !.token = f.token]
        ELSE IF i = f.old /\ LiveClaim(i) THEN [claims[i] EXCEPT !.state = "released"]
        ELSE claims[i]
<1>3. claims' = [i \in LeaseId |-> claims'[i]]
  <2>1. claims' = [i \in LeaseId |-> Folded(i)]
    BY DEF FoldClaim
  <2> HIDE DEF Folded
  <2> QED
    BY <2>1
<1> QED
  BY <1>2, <1>3

(* A claim event is appended, or is lost.                                  *)
LEMMA FollowUpStep ==
  ASSUME IInv, ClaimsInv, NEW c \in Caller, ~Free(c), UNCHANGED <<leases, call>>,
         followUp' = [followUp EXCEPT ![c] = NoFollow],
         FoldClaim(followUp[c]) \/ claims' = claims
  PROVE  ClaimsInv'
<1>1. claims' \in [LeaseId -> ClaimRecord] /\ \A i \in LeaseId : ClaimOK(i)'
  <2>1. CASE FoldClaim(followUp[c])
    BY <2>1, FoldedOK DEF ClaimsInv
  <2>2. CASE claims' = claims
    BY <2>2 DEF ClaimsInv, ClaimOK, Exists, Over
  <2> QED
    BY <2>1, <2>2
<1>2. followUp' \in [Caller -> FollowRecord \cup {NoFollow}]
  BY DEF ClaimsInv
<1>3. ASSUME NEW d \in Caller, ~Free(d)' PROVE At(d, "idle")' /\ FollowOK(followUp[d])'
  <2>1. d # c /\ followUp'[d] = followUp[d] /\ ~Free(d)
    BY <1>3 DEF Free, ClaimsInv
  <2> QED
    BY <2>1 DEF ClaimsInv, At, FollowOK, Exists, Over
<1> QED
  BY <1>1, <1>2, <1>3 DEF ClaimsInv

(* Every step of the claims keeps what they say of the leases.             *)
LEMMA ClaimsStep == IInv /\ ClaimsInv /\ [ClaimsNext]_allVars => ClaimsInv'
<1> SUFFICES ASSUME IInv, ClaimsInv, [ClaimsNext]_allVars PROVE ClaimsInv'
  OBVIOUS
<1>0. [Next]_vars /\ Typed /\ Indexed /\ PinnedSound
  BY StoreStep DEF IInv
<1>1. ASSUME claims' = claims, followUp' = followUp, \A c \in Caller : ~Free(c) => At(c, "idle")'
      PROVE  ClaimsInv'
  BY <1>0, <1>1, ClaimsStay, FollowUpsStay DEF ClaimsInv
<1>2. ASSUME NEW c \in Caller, Claim(c) \/ Renew(c) \/ Release(c) \/ Handoff(c) PROVE ClaimsInv'
  <2>1. UNCHANGED claimVars /\ Free(c)
    BY <1>2 DEF Claim, Renew, Release, Handoff, OnLiveClaim
  <2>2. AcquireBegin(c) \/ RenewBegin(c) \/ ReleaseBegin(c) \/ TransferBegin(c)
    BY <1>2 DEF Claim, Renew, Release, Handoff
  <2>3. ASSUME NEW d \in Caller, ~Free(d) PROVE At(d, "idle")'
    <3>1. d # c /\ At(d, "idle")
      BY <2>1, <2>3 DEF ClaimsInv
    <3> QED
      BY <1>0, <2>2, <3>1, StaysIdle
  <2> QED
    BY <1>1, <2>1, <2>3 DEF claimVars
<1>3. ASSUME NEW c \in Caller, CallStep(c) \/ GiveUp(c) \/ Fails(c)
      PROVE  \A d \in Caller : ~Free(d) => At(d, "idle")'
  <2>1. TAKE d \in Caller
  <2>2. HAVE ~Free(d)
  <2>3. At(d, "idle")
    BY <2>2 DEF ClaimsInv
  <2> QED
    BY <1>0, <1>3, <2>3, StaysIdle
<1>4. ASSUME NEW c \in Caller, LeaseWorks(c) PROVE ClaimsInv'
  BY <1>1, <1>3, <1>4 DEF LeaseWorks, CallStep, claimVars
<1>5. ASSUME NEW c \in Caller, LeaseGranted(c) PROVE ClaimsInv'
  <2>1. PICK e : e = call[c].event
    OBVIOUS
  <2>2. e \in EventRecord /\ LeaseOK(e.lease) /\ Sound(e) /\ Lands(e)
    BY <1>0, <1>5, <2>1 DEF LeaseGranted, Commit, PinnedSound, Typed, CallOK, CallRecord
  <2>3. PICK f : f = Following(e)
    OBVIOUS
  <2>4. FollowOK(f)'
    <3>1. FollowOK(Following(e))'
      BY <1>0, <2>2, FollowingOK
    <3> QED
      BY <2>3, <3>1 DEF FollowOK, Following, Exists, Over
  <2>5. followUp' = [followUp EXCEPT ![c] = f] /\ claims' = claims
    BY <1>5, <2>1, <2>3 DEF LeaseGranted, Follows
  <2>6. At(c, "idle")'
    BY <1>0, <1>5 DEF LeaseGranted, Commit, At, Typed, Idle
  <2>7. \A d \in Caller : ~Free(d) => At(d, "idle")'
    BY <1>3, <1>5 DEF LeaseGranted, CallStep
  <2> QED
    BY <1>0, <2>4, <2>5, <2>6, <2>7, FollowsStep
<1>6. ASSUME NEW c \in Caller, LeaseGone(c) PROVE ClaimsInv'
  <2>0. ReleasedAlready(c)
    BY <1>6 DEF LeaseGone
  <2>1. PICK f : f = [kind |-> "released", id |-> call[c].id, old |-> 0, run |-> Nothing, token |-> 0]
    OBVIOUS
  <2>2. followUp' = [followUp EXCEPT ![c] = f] /\ claims' = claims
    BY <1>6, <2>1 DEF LeaseGone, Follows, Following, NoEvent, NoLease
  <2>3. FollowOK(f)'
    <3>1. call[c].id \in LeaseId /\ Exists(call[c].id) /\ ~Held(call[c].id) /\ UNCHANGED leases
      BY <2>0 DEF ReleasedAlready, IInv, CallsKnow, HolderOps
    <3>2. Over(f.id)' /\ Exists(f.id)'
      BY <1>0, <2>1, <3>1 DEF Typed, LeaseRecord, States, Over, Exists, Held
    <3>3. f \in FollowRecord
      BY <2>1, <3>1, LeaseAssumption DEF FollowRecord
    <3> QED
      BY <2>1, <3>2, <3>3 DEF FollowOK, LeaseId
  <2>4. At(c, "idle")'
    BY <1>0, <2>0 DEF ReleasedAlready, Return, At, Typed, Idle
  <2>5. \A d \in Caller : ~Free(d) => At(d, "idle")'
    BY <1>3, <2>0 DEF CallStep
  <2> QED
    BY <1>0, <2>2, <2>3, <2>4, <2>5, FollowsStep
<1>7. ASSUME NEW c \in Caller, FollowUp(c) \/ FollowUpLost(c) PROVE ClaimsInv'
  BY <1>7, FollowUpStep DEF FollowUp, FollowUpLost, vars
<1>8. ASSUME Elsewhere PROVE ClaimsInv'
  <2>1. \A d \in Caller : ~Free(d) => At(d, "idle")'
    BY <1>0, <1>8, StaysIdle DEF Elsewhere, ClaimsInv
  <2> QED
    BY <1>1, <1>8, <2>1 DEF Elsewhere, claimVars
<1>9. CASE UNCHANGED allVars
  BY <1>1, <1>9 DEF allVars, claimVars, vars, ClaimsInv, At
<1> QED
  BY <1>2, <1>4, <1>5, <1>6, <1>7, <1>8, <1>9 DEF ClaimsNext

(* The worktree store is a client of the lease store: with the claims and  *)
(* their events left out, what it does is what the lease store allows, so  *)
(* every theorem above holds of the leases behind the claims.              *)
THEOREM ClaimsAreLeases == ClaimsSpec => Spec
<1>1. ClaimsInit => Init
  BY DEF ClaimsInit
<1> QED
  BY <1>1, StoreStep, PTL DEF ClaimsSpec, Spec

(* What the claims say of the leases holds in every reachable state.       *)
THEOREM ClaimsSafety == ClaimsSpec => [](IInv /\ ClaimsInv)
<1>1. ClaimsInit => ClaimsInv
  BY LeaseAssumption
  DEF ClaimsInit, ClaimsInv, ClaimRecord, ClaimOK, NoClaim, Free, FollowRecord
<1> QED
  BY <1>1, Safety, ClaimsAreLeases, ClaimsStep, PTL DEF ClaimsSpec

(* Types: a claim that is recorded names a run and a lease that exists,    *)
(* and a caller with a claim event to append is between two operations.    *)
THEOREM ClaimsTypeCorrect == ClaimsSpec => []ClaimsTypeOK
<1>1. TypeOK /\ ClaimsInv => ClaimsTypeOK
  BY DEF ClaimsTypeOK, ClaimsInv, ClaimOK, ClaimRecord, FollowOK, FollowRecord
<1> QED
  BY <1>1, TypeCorrect, ClaimsAreLeases, ClaimsSafety, PTL

(* A claim that is shown as released is over: its lease has ended and no   *)
(* run relies on it, however late the claim events were appended and       *)
(* whichever of them were lost.                                            *)
THEOREM ReleasedIsOver == ClaimsSpec => []ReleasedClaimIsOver
<1>1. IInv /\ ClaimsInv => ReleasedClaimIsOver
  BY DEF IInv, GrantsCovered, ClaimsInv, ClaimOK, Over, Held, ReleasedClaimIsOver
<1> QED
  BY <1>1, ClaimsSafety, PTL
=============================================================================
