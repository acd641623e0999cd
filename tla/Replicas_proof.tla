--------------------------- MODULE Replicas_proof ----------------------------
(***************************************************************************)
(* Proofs about Replicas, for any endpoints, workers, cascade and bounds.  *)
(*                                                                         *)
(* Everything follows from three facts that every step keeps: the log of   *)
(* the active endpoint is a chain of strictly increasing cursors, every    *)
(* other log is a copy of a beginning of it, and every event on its way (a *)
(* row, a checkpoint, an event a call holds) is one of the chain.  What a  *)
(* restore has replayed (Restores) is proved on top of it.                 *)
(***************************************************************************)
EXTENDS Replicas, JournalChain_proof, FiniteSetTheorems

-----------------------------------------------------------------------------
(* The inductive invariant *)

chain == Events(log[Active])

Chains ==
    /\ log \in [Endpoint -> Seq(chain)]
    /\ IsChain(log[Active]) /\ Increasing(log[Active])
    /\ \A n \in Endpoint : IsCopy(log[n], log[Active])

\* What a call c has established about the logs L and the remotes P.
CallOK(c, L, P) ==
    /\ c.pc # "done" => c.result = "none"
    /\ c.applied \subseteq Events(L[c.to])
    /\ c.pc \in {"poll", "receipt"} => c.op = "wait" /\ c.at \in Events(L[Active])
    /\ c.pc = "receipt" => c.at \in Events(L[c.to])
    /\ c.result = "satisfied" =>
          /\ c.at \in Events(L[c.to])
          /\ c.to \in RemoteBacked => c.at \in Events(P[c.to])
    /\ c.op = "verify" =>
          /\ c.result \in {"none", "equivalent"}
          /\ c.pc = "replica head" => c.at \in Events(L[c.from]) \cup {Genesis}
          /\ c.pc = "hashes" => c.at \in Events(L[c.from]) /\ c.at \in Events(L[c.to])

Inv ==
    /\ TypeOK
    /\ Chains
    /\ \A n \in Endpoint : Events(pushed[n]) \subseteq Events(log[n])
    /\ NothingIsLost
    /\ \A w \in Worker : CallOK(call[w], log, pushed)

-----------------------------------------------------------------------------
(* Typing *)

(* Whatever is made of some events is made of more events, too.            *)
LEMMA Widens ==
  ASSUME NEW S, NEW T, S \subseteq T
  PROVE  Seq(S) \subseteq Seq(T) /\ File(S) \subseteq File(T) /\ Calls(S) \subseteq Calls(T)
<1>1. Seq(S) \subseteq Seq(T)
  BY SeqMonotonic
<1>2. File(S) \subseteq File(T)
  BY <1>1 DEF File
<1>3. Calls(S) \subseteq Calls(T)
  BY <1>1, <1>2 DEF Calls
<1> QED
  BY <1>1, <1>2, <1>3

(* The events of a sequence over S are in S, and its parts are over S.     *)
LEMMA Parts ==
  ASSUME NEW S, NEW s \in Seq(S)
  PROVE  /\ Events(s) \subseteq S
         /\ s # <<>> => Head(s) \in S /\ Tail(s) \in Seq(S) /\ Front(s) \in Seq(S)
         /\ \A n \in DOMAIN s : SubSeq(s, 1, n) \in Seq(S)
         /\ HeadOf(s) \in S \cup {Genesis}
         /\ s # <<>> => HeadOf(s) \in Events(s)
<1>1. Len(s) \in Nat /\ DOMAIN s = 1..Len(s) /\ \A i \in 1..Len(s) : s[i] \in S
  OBVIOUS
<1>2. Events(s) \subseteq S
  BY <1>1 DEF Events
<1>3. \A n \in 0..Len(s) : SubSeq(s, 1, n) \in Seq(S)
  BY <1>1, SubSeqProperties
<1>4. s # <<>> => Len(s) # 0 /\ Head(s) \in S /\ Tail(s) \in Seq(S) /\ Front(s) \in Seq(S)
  BY <1>1, <1>3, HeadTailProperties DEF Front
<1>5. s # <<>> => Len(s) \in DOMAIN s
  BY <1>1, <1>4
<1>6. s # <<>> => HeadOf(s) \in Events(s)
  BY <1>5 DEF HeadOf, Events
<1>7. HeadOf(s) \in S \cup {Genesis}
  BY <1>2, <1>6 DEF HeadOf
<1> QED
  BY <1>1, <1>2, <1>3, <1>4, <1>6, <1>7

(* A new call.                                                             *)
LEMMA NewCall ==
  ASSUME NEW S, NEW pc \in Pcs, NEW op \in Ops, NEW from \in Endpoint, NEW to \in Endpoint,
         NEW at \in S \cup {Genesis}, NEW f \in File(S), NEW r \in Results
  PROVE  /\ Call(pc, op, from, to, at, f) \in Calls(S)
         /\ [Call(pc, op, from, to, at, f) EXCEPT !.result = r] \in Calls(S)
<1> DEFINE c == [pc |-> pc, op |-> op, from |-> from, to |-> to, at |-> at, file |-> f,
                 events |-> <<>>, applied |-> {}, result |-> "none"]
<1>1. <<>> \in Seq(S) /\ {} \in SUBSET S /\ "none" \in Results
  BY DEF Results
<1>2. c \in Calls(S)
  BY <1>1 DEF Calls
<1>3. Call(pc, op, from, to, at, f) = c
  BY DEF Call
<1> HIDE DEF c
<1>4. [c EXCEPT !.result = r] \in Calls(S)
  BY <1>2 DEF Calls
<1> QED
  BY <1>2, <1>3, <1>4

(* A worker without a call.                                                *)
LEMMA IdleCall ==
  ASSUME NEW S
  PROVE  Idle \in Calls(S) /\ NoFile \in File(S)
<1>1. NoFile \in File(S)
  BY DEF NoFile, File
<1>2. Active \in Endpoint /\ "done" \in Pcs /\ "none" \in Ops /\ "none" \in Results
  BY ReplicasAssumption DEF Pcs, Ops, Results
<1>3. Call("done", "none", Active, Active, Genesis, NoFile) \in Calls(S)
  BY <1>1, <1>2, NewCall
<1> QED
  BY <1>1, <1>3 DEF Idle

(* A step of a call.                                                       *)
LEMMA MovedCall ==
  ASSUME NEW S, NEW c \in Calls(S), NEW pc \in Pcs, NEW at \in S \cup {Genesis},
         NEW es \in Seq(S), NEW done \in SUBSET S
  PROVE  /\ [c EXCEPT !.pc = pc] \in Calls(S)
         /\ [c EXCEPT !.pc = pc, !.at = at] \in Calls(S)
         /\ [c EXCEPT !.pc = pc, !.events = es] \in Calls(S)
         /\ [c EXCEPT !.events = es, !.applied = done] \in Calls(S)
  BY DEF Calls

(* A finite set of events can be sorted only into sequences of its events. *)
LEMMA SortingsType ==
  ASSUME NEW rows, IsFiniteSet(rows), NEW s \in Sortings(rows)
  PROVE  s \in Seq(rows)
<1>1. Cardinality(rows) \in Nat
  BY FS_CardinalityType
<1>2. s \in [1..Cardinality(rows) -> rows]
  BY DEF Sortings
<1> QED
  BY <1>1, <1>2, IsASeq

(* A journal holds finitely many events.                                   *)
LEMMA EventsFinite ==
  ASSUME NEW S, NEW s \in Seq(S)
  PROVE  IsFiniteSet(Events(s))
<1>1. IsFiniteSet(DOMAIN s)
  BY FS_Interval
<1>2. Events(s) = {s[i] : i \in DOMAIN s}
  BY DEF Events
<1> DEFINE f == [i \in DOMAIN s |-> s[i]]
<1>3. f \in Surjection(DOMAIN s, Events(s))
  BY <1>2 DEF Surjection
<1> QED
  BY <1>1, <1>3, FS_Surjection

(* What the invariant says of the pieces of a state.                       *)
LEMMA Facts ==
  ASSUME Inv
  PROVE  /\ Active \in Endpoint /\ IsLog(log[Active])
         /\ \A n \in Endpoint : log[n] \in Seq(chain) /\ Events(log[n]) \subseteq chain
         /\ \A n \in Endpoint, r \in Endpoint :
               outbox[n][r] \subseteq chain /\ IsFiniteSet(outbox[n][r])
         /\ \A w \in Worker : call[w] \in Calls(chain) /\ CallOK(call[w], log, pushed)
         /\ calls \in 0..MaxCalls /\ failures \in 0..MaxFailures
         /\ files \subseteq File(chain)
<1>1. Active \in Endpoint
  BY ReplicasAssumption
<1>2. \A n \in Endpoint : log[n] \in Seq(chain) /\ Events(log[n]) \subseteq chain
  <2>1. \A n \in Endpoint : log[n] \in Seq(chain)
    BY DEF Inv, TypeOK, chain
  <2> QED
    BY <2>1, Parts
<1>3. \A n \in Endpoint, r \in Endpoint : outbox[n][r] \subseteq chain
  BY DEF Inv, TypeOK, chain
<1>4. IsFiniteSet(chain)
  BY <1>1, <1>2, EventsFinite DEF chain
<1>5. \A w \in Worker : call[w] \in Calls(chain) /\ CallOK(call[w], log, pushed)
  BY DEF Inv, TypeOK, chain
<1>6. calls \in 0..MaxCalls /\ failures \in 0..MaxFailures /\ files \subseteq File(chain)
  BY DEF Inv, TypeOK, chain
<1>7. IsLog(log[Active])
  BY <1>1, <1>2 DEF IsLog, chain
<1> QED
  BY <1>1, <1>2, <1>3, <1>4, <1>5, <1>6, <1>7, FS_Subset

-----------------------------------------------------------------------------
(* Steps of a worker that leave logs and rows alone *)

\* The call of w becomes another one the invariant allows.
Moves(w) == \E x \in Calls(chain) : CallOK(x, log, pushed) /\ call' = [call EXCEPT ![w] = x]

(* The fields of a call, typed one by one.                                 *)
LEMMA CallFields ==
  ASSUME Inv, NEW w \in Worker
  PROVE  /\ call[w].from \in Endpoint /\ call[w].to \in Endpoint
         /\ call[w].pc \in Pcs /\ call[w].op \in Ops /\ call[w].result \in Results
         /\ call[w].at \in chain \cup {Genesis} /\ call[w].file \in File(chain)
         /\ call[w].events \in Seq(chain) /\ call[w].applied \in SUBSET chain
<1>1. call[w] \in Calls(chain)
  BY Facts
<1> QED
  BY <1>1 DEF Calls

(* It claims nothing.                                                      *)
LEMMA IdleOK == CallOK(Idle, log, pushed)
  BY DEF CallOK, Idle, Call

(* A call that begins has established nothing, and claims nothing.         *)
LEMMA Starts ==
  ASSUME Inv, NEW w \in Worker,
         NEW pc \in Pcs, NEW op \in Ops, NEW from \in Endpoint, NEW to \in Endpoint,
         NEW at \in chain \cup {Genesis}, NEW f \in File(chain),
         pc \notin {"receipt", "replica head", "hashes"},
         pc = "poll" => op = "wait" /\ at \in chain,
         call' = [call EXCEPT ![w] = Call(pc, op, from, to, at, f)]
  PROVE  Moves(w)
<1> DEFINE x == Call(pc, op, from, to, at, f)
<1>1. x \in Calls(chain)
  BY NewCall DEF Results
<1>2. x.pc = pc /\ x.op = op /\ x.at = at /\ x.result = "none" /\ x.applied = {} /\ x.to = to
  BY DEF Call
<1> HIDE DEF x
<1>3. CallOK(x, log, pushed)
  BY <1>2 DEF CallOK, chain
<1> QED
  BY <1>1, <1>3 DEF Moves, x

(* A call that returns keeps what it was about and what it found.          *)
LEMMA Returns ==
  ASSUME Inv, NEW w \in Worker, NEW r \in Results \cup {"error"}, Return(w, r),
         r = "satisfied" =>
            /\ call[w].at \in Events(log[call[w].to])
            /\ call[w].to \in RemoteBacked => call[w].at \in Events(pushed[call[w].to]),
         call[w].op = "verify" => r \in {"none", "error", "equivalent"}
  PROVE  Moves(w)
<1> DEFINE c == call[w]
           y == Call("done", c.op, c.from, c.to, c.at, c.file)
           z == [y EXCEPT !.result = r]
<1>1. CASE r \in {"none", "error"}
  <2>1. call' = [call EXCEPT ![w] = Idle]
    BY <1>1 DEF Return
  <2> QED
    BY <2>1, IdleCall, IdleOK DEF Moves
<1>2. CASE r \notin {"none", "error"}
  <2>1. call' = [call EXCEPT ![w] = z]
    BY <1>2 DEF Return
  <2>2. r \in Results /\ "done" \in Pcs
    BY <1>2 DEF Pcs
  <2>3. z \in Calls(chain)
    BY <2>2, CallFields, NewCall
  <2>4. /\ z.pc = "done" /\ z.op = c.op /\ z.at = c.at /\ z.to = c.to /\ z.from = c.from
        /\ z.result = r /\ z.applied = {}
    BY DEF Call
  <2> HIDE DEF c, y, z
  <2>5. CallOK(z, log, pushed)
    BY <1>2, <2>4 DEF CallOK, c
  <2> QED
    BY <2>1, <2>3, <2>5 DEF Moves
<1> QED
  BY <1>1, <1>2

(* A call that goes on at pc with a cursor, or with events to ingest.      *)
LEMMA GoesOn ==
  ASSUME Inv, NEW w \in Worker, NEW pc \in Pcs, NEW at \in chain \cup {Genesis},
         NEW es \in Seq(chain),
         call[w].pc # "done",
         \/ call' = [call EXCEPT ![w].pc = pc] /\ at = call[w].at
         \/ call' = [call EXCEPT ![w].pc = pc, ![w].at = at]
         \/ call' = [call EXCEPT ![w].pc = pc, ![w].events = es] /\ at = call[w].at,
         pc \in {"poll", "receipt"} => call[w].op = "wait" /\ at \in chain,
         pc = "receipt" => at \in Events(log[call[w].to]),
         call[w].op = "verify" =>
            /\ pc = "replica head" => at \in Events(log[call[w].from]) \cup {Genesis}
            /\ pc = "hashes" => at \in Events(log[call[w].from]) /\ at \in Events(log[call[w].to])
  PROVE  Moves(w)
<1> DEFINE c == call[w]
<1>1. c \in Calls(chain) /\ CallOK(c, log, pushed)
  BY Facts
<1>2. PICK x \in Calls(chain) :
        /\ call' = [call EXCEPT ![w] = x]
        /\ x.pc = pc /\ x.at = at /\ x.op = c.op /\ x.to = c.to /\ x.from = c.from
        /\ x.result = c.result /\ x.applied = c.applied
  <2>1. CASE call' = [call EXCEPT ![w].pc = pc] /\ at = c.at
    <3> DEFINE y == [c EXCEPT !.pc = pc]
    <3>1. y \in Calls(chain) /\ call' = [call EXCEPT ![w] = y]
      BY <1>1, <2>1, MovedCall
    <3>2. /\ y.pc = pc /\ y.at = at /\ y.op = c.op /\ y.to = c.to /\ y.from = c.from
          /\ y.result = c.result /\ y.applied = c.applied
      BY <1>1, <2>1 DEF Calls
    <3> QED
      BY <3>1, <3>2
  <2>2. CASE call' = [call EXCEPT ![w].pc = pc, ![w].at = at]
    <3> DEFINE y == [c EXCEPT !.pc = pc, !.at = at]
    <3>1. y \in Calls(chain)
      BY <1>1, MovedCall
    <3>2. call' = [call EXCEPT ![w] = y]
      BY <2>2, Facts DEF Inv, TypeOK
    <3>3. /\ y.pc = pc /\ y.at = at /\ y.op = c.op /\ y.to = c.to /\ y.from = c.from
          /\ y.result = c.result /\ y.applied = c.applied
      BY <1>1 DEF Calls
    <3> QED
      BY <3>1, <3>2, <3>3
  <2>3. CASE call' = [call EXCEPT ![w].pc = pc, ![w].events = es] /\ at = c.at
    <3> DEFINE y == [c EXCEPT !.pc = pc, !.events = es]
    <3>1. y \in Calls(chain)
      BY <1>1, MovedCall
    <3>2. call' = [call EXCEPT ![w] = y]
      BY <2>3, Facts DEF Inv, TypeOK
    <3>3. /\ y.pc = pc /\ y.at = at /\ y.op = c.op /\ y.to = c.to /\ y.from = c.from
          /\ y.result = c.result /\ y.applied = c.applied
      BY <1>1, <2>3 DEF Calls
    <3> QED
      BY <3>1, <3>2, <3>3
  <2> QED
    BY <2>1, <2>2, <2>3
<1>3. CallOK(x, log, pushed)
  <2>1. x.result = "none" /\ x.applied \subseteq Events(log[x.to])
    BY <1>1, <1>2 DEF CallOK
  <2> HIDE DEF c
  <2> QED
    BY <2>1, <1>2 DEF CallOK, chain, c
<1> QED
  BY <1>2, <1>3 DEF Moves

(* GoesOn for a step that moves the cursor: the events are not in question. *)
LEMMA CursorGoesOn ==
  ASSUME Inv, NEW w \in Worker, NEW pc \in Pcs, NEW at \in chain \cup {Genesis},
         call[w].pc # "done",
         call' = [call EXCEPT ![w].pc = pc, ![w].at = at],
         pc \in {"poll", "receipt"} => call[w].op = "wait" /\ at \in chain,
         pc = "receipt" => at \in Events(log[call[w].to]),
         call[w].op = "verify" =>
            /\ pc = "replica head" => at \in Events(log[call[w].from]) \cup {Genesis}
            /\ pc = "hashes" => at \in Events(log[call[w].from]) /\ at \in Events(log[call[w].to])
  PROVE  Moves(w)
<1>1. << >> \in Seq(chain)
  BY EmptySeq
<1> QED
  BY <1>1, GoesOn

\* A step of w that moves nothing but its call, and perhaps takes a checkpoint.
Quiet(w) ==
    /\ Moves(w)
    /\ UNCHANGED <<log, outbox, pushed>>
    /\ files' \subseteq File(chain)
    /\ calls' \in 0..MaxCalls /\ failures' \in 0..MaxFailures

(* A step that only reads is quiet when it moves its call legally.         *)
LEMMA ReadsOnly ==
  ASSUME Inv, NEW w \in Worker, Moves(w), Reads(w)
  PROVE  Quiet(w)
  BY Facts DEF Reads, Quiet, boundVars

(* So is one that only counts a failure.                                   *)
LEMMA FailsOnly ==
  ASSUME Inv, NEW w \in Worker, Moves(w), failures < MaxFailures, failures' = failures + 1,
         UNCHANGED <<log, outbox, pushed, files, calls>>
  PROVE  Quiet(w)
<1>1. failures' \in 0..MaxFailures
  BY Facts, ReplicasAssumption
<1> QED
  BY <1>1, Facts DEF Quiet

(* A counter below its bound can be incremented.                           *)
LEMMA Counts ==
  ASSUME NEW bound \in Nat, NEW n \in 0..bound, n < bound
  PROVE  n + 1 \in 0..bound
  OBVIOUS

(* The beginning of any call.                                              *)
LEMMA BeginStep ==
  ASSUME Inv, NEW w \in Worker,
         NEW pc \in Pcs, NEW op \in Ops, NEW from \in Endpoint, NEW to \in Endpoint,
         NEW at \in chain \cup {Genesis}, NEW f \in File(chain),
         pc \notin {"receipt", "replica head", "hashes"},
         pc = "poll" => op = "wait" /\ at \in chain,
         Begin(w, Call(pc, op, from, to, at, f))
  PROVE  Quiet(w)
<1>1. Moves(w)
  BY Starts DEF Begin
<1>2. calls' \in 0..MaxCalls
  <2>1. calls < MaxCalls /\ calls' = calls + 1
    BY DEF Begin
  <2>2. calls \in 0..MaxCalls /\ MaxCalls \in Nat
    BY Facts, ReplicasAssumption
  <2>3. calls + 1 \in 0..MaxCalls
    BY <2>1, <2>2, Counts
  <2> QED
    BY <2>1, <2>3
<1> QED
  BY <1>1, <1>2, Facts DEF Begin, Quiet

(* Each of the six operations begins quietly.                              *)
LEMMA CallsBegin ==
  ASSUME Inv, NEW w \in Worker,
         \/ CallDrain(w) \/ CallReplicate(w) \/ CallWait(w)
         \/ CallCheckpoint(w) \/ CallRestore(w) \/ CallVerify(w)
  PROVE  Quiet(w)
<1> USE DEF Pcs, Ops
<1>1. Active \in Endpoint /\ NoFile \in File(chain) /\ Replica \subseteq Endpoint
      /\ \A n \in Endpoint : ReplicaIDs[n] \subseteq Endpoint
  BY IdleCall, ReplicasAssumption DEF Replica
<1>2. CASE CallDrain(w)
  <2>1. PICK n \in Endpoint : \E r \in ReplicaIDs[n] :
          Begin(w, Call("pending", "drain", n, r, Genesis, NoFile))
    BY <1>2 DEF CallDrain
  <2>2. PICK r \in ReplicaIDs[n] :
          Begin(w, Call("pending", "drain", n, r, Genesis, NoFile))
    BY <2>1
  <2> QED
    BY <2>2, <1>1, BeginStep
<1>3. CASE CallReplicate(w)
  <2>1. PICK n \in Endpoint, r \in Replica :
          Begin(w, Call("source head", "replicate", n, r, Genesis, NoFile))
    BY <1>3 DEF CallReplicate
  <2> QED
    BY <2>1, <1>1, BeginStep
<1>4. CASE CallWait(w)
  <2>1. PICK r \in Replica : log[Active] # <<>> /\
          Begin(w, Call("poll", "wait", Active, r, HeadOf(log[Active]), NoFile))
    BY <1>4 DEF CallWait
  <2>2. HeadOf(log[Active]) \in chain
    BY <2>1, Facts, HeadInLog DEF chain
  <2> QED
    BY <2>1, <2>2, <1>1, BeginStep
<1>5. CASE CallCheckpoint(w)
  <2>1. PICK n \in Endpoint, at \in chain \cup {Genesis} :
          Begin(w, Call("head", "checkpoint", n, n, at, NoFile))
    BY <1>5 DEF CallCheckpoint, chain
  <2> QED
    BY <2>1, <1>1, BeginStep
<1>6. CASE CallRestore(w)
  <2>1. PICK f \in files, n \in Endpoint :
          Begin(w, Call("verify", "restore", n, n, Genesis, f))
    BY <1>6 DEF CallRestore
  <2>2. f \in File(chain)
    BY <2>1, Facts
  <2> QED
    BY <2>1, <2>2, <1>1, BeginStep
<1>7. CASE CallVerify(w)
  <2>1. PICK n \in Endpoint, r \in Replica :
          Begin(w, Call("source head", "verify", n, r, Genesis, NoFile))
    BY <1>7 DEF CallVerify
  <2> QED
    BY <2>1, <1>1, BeginStep
<1> QED
  BY <1>2, <1>3, <1>4, <1>5, <1>6, <1>7

(* Where an endpoint stands in the chain says which events it holds: its   *)
(* events are those of the chain up to its head.                           *)
LEMMA Standing ==
  ASSUME Inv, NEW n \in Endpoint, NEW e \in chain
  PROVE  /\ ~Before(HeadOf(log[n]), e) <=> e \in Events(log[n])
         /\ \A f \in Events(log[n]) : Before(e, f) => e \in Events(log[n])
<1> DEFINE c == log[Active]
           l == log[n]
<1>1. /\ IsLog(c) /\ IsChain(c) /\ Increasing(c) /\ l \in Seq(chain) /\ IsCopy(l, c)
  BY Facts DEF Inv, Chains
<1>2. /\ Len(l) \in Nat /\ DOMAIN l = 1..Len(l) /\ Len(c) \in Nat /\ DOMAIN c = 1..Len(c)
      /\ Len(l) <= Len(c) /\ \A i \in DOMAIN l : l[i] = c[i]
  BY <1>1 DEF IsCopy, IsLog
<1>3. PICK k \in DOMAIN c : e = c[k]
  BY DEF chain, Events
<1> HIDE DEF c, l
<1>4. e \in Events(l) <=> k <= Len(l)
  <2>1. ASSUME k <= Len(l) PROVE e \in Events(l)
    <3>1. k \in DOMAIN l
      BY <1>2, <2>1
    <3> QED
      BY <3>1, <1>2, <1>3 DEF Events
  <2>2. ASSUME e \in Events(l) PROVE k <= Len(l)
    <3>1. PICK i \in DOMAIN l : l[i] = e
      BY <2>2 DEF Events
    <3>2. i \in DOMAIN c /\ c[i] = c[k]
      BY <3>1, <1>2, <1>3
    <3>3. i = k
      BY <3>2, <1>1, ChainOrder
    <3> QED
      BY <3>1, <3>3, <1>2
  <2> QED
    BY <2>1, <2>2
<1>5. ~Before(HeadOf(l), e) <=> k <= Len(l)
  <2>1. CASE l = <<>>
    <3>1. Before(Genesis, e) /\ HeadOf(l) = Genesis /\ Len(l) = 0
      BY <2>1, <1>1, <1>3, ChainOrder DEF HeadOf
    <3> QED
      BY <3>1, <1>2
  <2>2. CASE l # <<>>
    <3>1. Len(l) \in DOMAIN c /\ HeadOf(l) = c[Len(l)]
      BY <2>2, <1>1, <1>2 DEF HeadOf
    <3>2. Before(HeadOf(l), e) <=> Len(l) < k
      BY <3>1, <1>1, <1>3, ChainOrder
    <3> QED
      BY <3>2, <1>2
  <2> QED
    BY <2>1, <2>2
<1>6. ASSUME NEW f \in Events(l), Before(e, f) PROVE k <= Len(l)
  <2>1. PICK i \in DOMAIN l : f = l[i]
    BY DEF Events
  <2>2. i \in DOMAIN c /\ f = c[i]
    BY <2>1, <1>2
  <2>3. k < i
    BY <2>2, <1>1, <1>3, <1>6, ChainOrder
  <2> QED
    BY <2>1, <2>3, <1>2
<1> QED
  BY <1>4, <1>5, <1>6 DEF l

(* The checksum of an endpoint at the cursor of an event it holds is that  *)
(* of the event.                                                           *)
LEMMA HashOfEvent ==
  ASSUME Inv, NEW n \in Endpoint, NEW e \in Events(log[n])
  PROVE  HashAt(n, e) = e
<1> DEFINE found == {f \in Events(log[n]) : ~Before(f, e) /\ ~Before(e, f)}
<1>1. Events(log[n]) \subseteq chain /\ e \in chain
  BY Facts
<1>2. \A f \in chain : ~Before(f, e) /\ ~Before(e, f) <=> f = e
  <2> TAKE f \in chain
  <2>1. PICK i \in DOMAIN log[Active], j \in DOMAIN log[Active] :
          e = log[Active][i] /\ f = log[Active][j]
    BY <1>1 DEF chain, Events
  <2>2. IsLog(log[Active]) /\ IsChain(log[Active]) /\ Increasing(log[Active])
    BY Facts DEF Inv, Chains
  <2>3. i \in Nat /\ j \in Nat
    BY <2>2 DEF IsLog
  <2>4. (Before(e, f) <=> i < j) /\ (Before(f, e) <=> j < i) /\ (e = f => i = j)
    BY <2>1, <2>2, ChainOrder
  <2> QED
    BY <2>1, <2>3, <2>4
<1>3. found = {e}
  BY <1>1, <1>2
<1> HIDE DEF found
<1>4. HashAt(n, e) = IF found = {} THEN Genesis ELSE CHOOSE f \in found : TRUE
  BY DEF HashAt, found
<1> QED
  BY <1>3, <1>4

-----------------------------------------------------------------------------
(* Each step of a worker that leaves logs and rows alone *)

(* ingestEvents, when it stops.                                            *)
LEMMA IngestStopsStep ==
  ASSUME Inv, NEW w \in Worker, NEW r \in {"none", "error", "restored"},
         call[w].pc = "ingest", call[w].op # "verify" \/ r # "restored",
         AfterIngest(w, r)
  PROVE  Moves(w)
<1>1. CASE call[w].op = "drain" /\ call[w].applied # {}
  <2>1. Goto(w, "ack")
    BY <1>1 DEF AfterIngest
  <2>2. call' = [call EXCEPT ![w].pc = "ack"] /\ "ack" \in Pcs
    BY <2>1 DEF Goto, Pcs
  <2>3. PICK at \in chain \cup {Genesis}, es \in Seq(chain) : at = call[w].at /\ es = call[w].events
    BY CallFields
  <2>4. call[w].pc # "done" /\ call[w].op # "verify" /\ "ack" \notin {"poll", "receipt"}
    BY <1>1
  <2> QED
    BY <2>2, <2>3, <2>4, GoesOn
<1>2. CASE ~(call[w].op = "drain" /\ call[w].applied # {})
  <2>1. Return(w, r)
    BY <1>2 DEF AfterIngest
  <2> QED
    BY <2>1, Returns DEF Results
<1> QED
  BY <1>1, <1>2

(* The loop ends, refuses an event, or its process sees an error.          *)
LEMMA IngestStopsQuiet ==
  ASSUME Inv, NEW w \in Worker, IngestStops(w) \/ IngestFails(w)
  PROVE  Quiet(w)
<1>1. CASE IngestStops(w)
  <2> DEFINE r == IF call[w].events # <<>> THEN "error"
                  ELSE IF call[w].op = "restore" THEN "restored" ELSE "none"
  <2>1. /\ call[w].pc = "ingest" /\ AfterIngest(w, r) /\ Reads(w)
    BY <1>1 DEF IngestStops
  <2>2. r \in {"none", "error", "restored"} /\ (call[w].op # "verify" \/ r # "restored")
    OBVIOUS
  <2> HIDE DEF r
  <2>3. Moves(w)
    BY <2>1, <2>2, IngestStopsStep
  <2> QED
    BY <2>1, <2>3, ReadsOnly
<1>2. CASE IngestFails(w)
  <2>1. Moves(w)
    BY <1>2, IngestStopsStep DEF IngestFails
  <2> QED
    BY <1>2, <2>1, FailsOnly DEF IngestFails
<1> QED
  BY <1>1, <1>2

(* A call reads the events it is going to ingest.                          *)
LEMMA IngestStep ==
  ASSUME Inv, NEW w \in Worker, call[w].pc # "done",
         NEW events \in Seq(chain), Ingest(w, events)
  PROVE  Moves(w)
<1>1. call' = [call EXCEPT ![w].pc = "ingest", ![w].events = events] /\ "ingest" \in Pcs
  BY DEF Ingest, Pcs
<1> QED
  BY <1>1, CallFields, GoesOn

(* The three reads whose events ingestEvents will apply.                   *)
LEMMA ReadsEventsQuiet ==
  ASSUME Inv, NEW w \in Worker, ReadPending(w) \/ ReadAfter(w) \/ ReadTarget(w)
  PROVE  Quiet(w)
<1>1. /\ call[w].from \in Endpoint /\ call[w].to \in Endpoint
      /\ call[w].file \in File(chain)
  BY CallFields
<1>2. CASE ReadPending(w)
  <2> DEFINE rows == outbox[call[w].from][call[w].to]
  <2>1. PICK events \in Sortings(rows) : Ingest(w, events)
    BY <1>2 DEF ReadPending
  <2>2. rows \subseteq chain /\ IsFiniteSet(rows)
    BY <1>1, Facts
  <2> HIDE DEF rows
  <2>3. events \in Seq(chain)
    BY <2>1, <2>2, SortingsType, Widens
  <2> QED
    BY <1>2, <2>1, <2>3, IngestStep, ReadsOnly DEF ReadPending
<1>3. CASE ReadAfter(w)
  <2> DEFINE rows == After(log[call[w].from], call[w].at)
  <2>1. PICK events \in Sortings(rows) : Ingest(w, events)
    BY <1>3 DEF ReadAfter
  <2>2. rows \subseteq Events(log[call[w].from])
    BY DEF After
  <2>3. Events(log[call[w].from]) \subseteq chain /\ IsFiniteSet(Events(log[call[w].from]))
    BY <1>1, Facts, EventsFinite
  <2> HIDE DEF rows
  <2>4. IsFiniteSet(rows)
    BY <2>2, <2>3, FS_Subset
  <2>5. events \in Seq(chain)
    BY <2>1, <2>2, <2>3, <2>4, SortingsType, Widens
  <2> QED
    BY <1>3, <2>1, <2>5, IngestStep, ReadsOnly DEF ReadAfter
<1>4. CASE ReadTarget(w)
  <2>1. call[w].file.events \in Seq(chain)
    BY <1>1 DEF File
  <2>2. CASE log[call[w].to] = <<>>
    BY <1>4, <2>1, <2>2, IngestStep, ReadsOnly DEF ReadTarget
  <2>3. CASE log[call[w].to] # <<>>
    BY <1>4, <2>3, Returns, ReadsOnly DEF ReadTarget
  <2> QED
    BY <2>2, <2>3
<1> QED
  BY <1>2, <1>3, <1>4

(* An acknowledgement that fails deletes nothing.                          *)
LEMMA AckFailsQuiet ==
  ASSUME Inv, NEW w \in Worker, AckFails(w)
  PROVE  Quiet(w)
<1>1. Moves(w)
  BY Returns DEF AckFails
<1> QED
  BY <1>1, FailsOnly DEF AckFails

(* A process that ends leaves logs and rows as they are.                   *)
LEMMA EndsQuiet ==
  ASSUME Inv, NEW w \in Worker, Ends(w)
  PROVE  Quiet(w)
<1>1. Moves(w)
  BY IdleCall, IdleOK DEF Ends, Moves
<1> QED
  BY <1>1, FailsOnly DEF Ends

(* The heads of two endpoints, one after the other.                        *)
LEMMA ReadHeadsQuiet ==
  ASSUME Inv, NEW w \in Worker, ReadSourceHead(w) \/ ReadReplicaHead(w) \/ LowerHead(w)
  PROVE  Quiet(w)
<1> DEFINE c == call[w]
<1>1. c.from \in Endpoint /\ c.to \in Endpoint /\ c.at \in chain \cup {Genesis}
  BY CallFields
<1>2. \A n \in Endpoint :
        /\ HeadOf(log[n]) \in chain \cup {Genesis}
        /\ HeadOf(log[n]) \in Events(log[n]) \cup {Genesis}
  BY Facts, Parts DEF HeadOf
<1>3. CASE ReadSourceHead(w)
  <2>1. /\ c.pc = "source head" /\ Reads(w) /\ "replica head" \in Pcs
        /\ call' = [call EXCEPT ![w].pc = "replica head", ![w].at = HeadOf(log[c.from])]
    BY <1>3 DEF ReadSourceHead, Pcs
  <2>2. Moves(w)
    BY <1>1, <1>2, <2>1, GoesOn, CallFields
  <2> QED
    BY <2>1, <2>2, ReadsOnly
<1>4. CASE ReadReplicaHead(w)
  <2> DEFINE head == HeadOf(log[c.to])
             v == HeadsVerdict(head, c.at)
  <2>1. /\ c.pc = "replica head" /\ c.op = "replicate" /\ Reads(w) /\ "after" \in Pcs
        /\ IF v # "ok" THEN Return(w, v)
           ELSE call' = [call EXCEPT ![w].pc = "after", ![w].at = head]
    BY <1>4 DEF ReadReplicaHead, Pcs
  <2>2. head \in chain \cup {Genesis}
    BY <1>1, <1>2
  <2>3. v # "ok" => v \in {"ErrReplicaAhead", "ErrDiverged"}
    BY DEF HeadsVerdict
  <2> HIDE DEF head, v
  <2>4. CASE v = "ok"
    <3>1. Moves(w)
      BY <2>1, <2>2, <2>4, GoesOn, CallFields
    <3> QED
      BY <3>1, <2>1, ReadsOnly
  <2>5. CASE v # "ok"
    <3>1. v \in Results
      BY <2>3, <2>5 DEF Results
    <3>2. Moves(w)
      BY <2>1, <2>3, <2>5, <3>1, Returns
    <3> QED
      BY <3>2, <2>1, ReadsOnly
  <2> QED
    BY <2>4, <2>5
<1>5. CASE LowerHead(w)
  <2> DEFINE head == HeadOf(log[c.to])
             at == IF Before(head, c.at) THEN head ELSE c.at
  <2>1. /\ c.pc = "replica head" /\ c.op = "verify" /\ Reads(w) /\ "hashes" \in Pcs
        /\ IF at = Genesis THEN Return(w, "error")
           ELSE call' = [call EXCEPT ![w].pc = "hashes", ![w].at = at]
    BY <1>5 DEF LowerHead, Pcs
  <2>2. CASE at = Genesis
    BY <2>1, <2>2, Returns, ReadsOnly
  <2>3. CASE at # Genesis
    <3>1. c.at \in Events(log[c.from]) \cup {Genesis}
      BY <2>1, Facts DEF CallOK
    <3>2. CASE Before(head, c.at)
      <4>1. head # Genesis /\ head \in Events(log[c.to]) /\ head \in chain
        BY <1>1, <1>2, <2>3, <3>2
      <4>2. c.at # Genesis
        <5>1. PICK i \in DOMAIN log[Active] : head = log[Active][i]
          BY <4>1 DEF chain, Events
        <5>2. IsLog(log[Active]) /\ IsChain(log[Active]) /\ Increasing(log[Active])
          BY Facts DEF Inv, Chains
        <5>3. ~Before(head, Genesis)
          BY <5>1, <5>2, ChainOrder
        <5> QED
          BY <5>3, <3>2
      <4>3. head \in Events(log[c.from])
        BY <1>1, <3>1, <3>2, <4>1, <4>2, Standing
      <4>4. call' = [call EXCEPT ![w].pc = "hashes", ![w].at = head]
        BY <2>1, <2>3, <3>2
      <4>5. Moves(w)
        BY <2>1, <4>1, <4>3, <4>4, CursorGoesOn
      <4> QED
        BY <4>5, <2>1, ReadsOnly
    <3>3. CASE ~Before(head, c.at)
      <4>1. c.at \in Events(log[c.from]) /\ c.at \in chain
        BY <1>1, <2>3, <3>1, <3>3
      <4>2. c.at \in Events(log[c.to])
        BY <1>1, <3>3, <4>1, Standing
      <4>3. call' = [call EXCEPT ![w].pc = "hashes", ![w].at = c.at]
        BY <2>1, <2>3, <3>3
      <4>4. Moves(w)
        BY <2>1, <4>1, <4>2, <4>3, CursorGoesOn
      <4> QED
        BY <4>4, <2>1, ReadsOnly
    <3> QED
      BY <3>2, <3>3
  <2> QED
    BY <2>2, <2>3
<1> QED
  BY <1>3, <1>4, <1>5

(* The barrier: what was polled, and what its proof showed.                *)
LEMMA WaitQuiet ==
  ASSUME Inv, NEW w \in Worker, Poll(w) \/ RemoteReceipt(w) \/ Expire(w)
  PROVE  Quiet(w)
<1> DEFINE c == call[w]
<1>1. c.from \in Endpoint /\ c.to \in Endpoint /\ CallOK(c, log, pushed)
  BY CallFields, Facts
<1>2. CASE Poll(w)
  <2>1. /\ c.pc = "poll" /\ ~Before(HeadOf(log[c.to]), c.at) /\ Reads(w)
        /\ IF c.to \in RemoteBacked THEN Goto(w, "receipt") ELSE Return(w, "satisfied")
    BY <1>2 DEF Poll
  <2>2. c.op = "wait" /\ c.at \in chain
    BY <1>1, <2>1 DEF CallOK, chain
  <2>3. c.at \in Events(log[c.to])
    BY <1>1, <2>1, <2>2, Standing
  <2>4. CASE c.to \in RemoteBacked
    <3>1. call' = [call EXCEPT ![w].pc = "receipt"] /\ "receipt" \in Pcs
      BY <2>1, <2>4 DEF Goto, Pcs
    <3>2. Moves(w)
      BY <3>1, <2>1, <2>2, <2>3, GoesOn, CallFields
    <3> QED
      BY <3>2, <2>1, ReadsOnly
  <2>5. CASE c.to \notin RemoteBacked
    <3>1. Moves(w)
      BY <2>1, <2>2, <2>3, <2>5, Returns DEF Results
    <3> QED
      BY <3>1, <2>1, ReadsOnly
  <2> QED
    BY <2>4, <2>5
<1>3. CASE RemoteReceipt(w)
  <2>1. /\ c.pc = "receipt" /\ Reads(w)
        /\ IF pushed[c.to] = log[c.to] THEN Return(w, "satisfied") ELSE Goto(w, "poll")
    BY <1>3 DEF RemoteReceipt
  <2>2. c.op = "wait" /\ c.at \in chain /\ c.at \in Events(log[c.to])
    BY <1>1, <2>1 DEF CallOK, chain
  <2>3. CASE pushed[c.to] = log[c.to]
    <3>1. Moves(w)
      BY <2>1, <2>2, <2>3, Returns DEF Results
    <3> QED
      BY <3>1, <2>1, ReadsOnly
  <2>4. CASE pushed[c.to] # log[c.to]
    <3>1. call' = [call EXCEPT ![w].pc = "poll"] /\ "poll" \in Pcs
      BY <2>1, <2>4 DEF Goto, Pcs
    <3>2. c.at \in chain \cup {Genesis} /\ c.events \in Seq(chain)
      BY CallFields
    <3>3. Moves(w)
      BY <3>1, <3>2, <2>1, <2>2, GoesOn
    <3> QED
      BY <3>3, <2>1, ReadsOnly
  <2> QED
    BY <2>3, <2>4
<1>4. CASE Expire(w)
  <2>1. PICK r \in {"BarrierTimeoutError", "canceled"} : Return(w, r)
    BY <1>4 DEF Expire
  <2>2. c.op = "wait" /\ Reads(w) /\ r \in Results /\ r # "satisfied"
    BY <1>4 DEF Expire, Results
  <2>3. Moves(w)
    BY <2>1, <2>2, Returns
  <2> QED
    BY <2>2, <2>3, ReadsOnly
<1> QED
  BY <1>2, <1>3, <1>4

(* Checkpoints.                                                            *)
LEMMA CheckpointQuiet ==
  ASSUME Inv, NEW w \in Worker, ReadCheckpointHead(w) \/ NewCheckpoint(w) \/ VerifyFile(w)
  PROVE  Quiet(w)
<1> DEFINE c == call[w]
<1>1. /\ c.from \in Endpoint /\ c.at \in chain \cup {Genesis}
      /\ log[c.from] \in Seq(chain)
  BY CallFields, Facts
<1>2. CASE ReadCheckpointHead(w)
  <2> DEFINE head == HeadOf(log[c.from])
             at == IF c.at = Genesis THEN head ELSE c.at
  <2>1. /\ c.pc = "head" /\ Reads(w) /\ "snapshot" \in Pcs
        /\ \/ Return(w, "error")
           \/ call' = [call EXCEPT ![w].pc = "snapshot", ![w].at = IF @ = Genesis THEN head ELSE @]
    BY <1>2 DEF ReadCheckpointHead, Pcs
  <2>2. at \in chain \cup {Genesis}
    BY <1>1, Parts
  <2>3. CASE Return(w, "error")
    BY <2>1, <2>3, Returns, ReadsOnly
  <2>4. CASE call' = [call EXCEPT ![w].pc = "snapshot", ![w].at = IF @ = Genesis THEN head ELSE @]
    <3>1. call' = [call EXCEPT ![w].pc = "snapshot", ![w].at = at]
      BY <2>4
    <3> HIDE DEF at, head
    <3>2. Moves(w)
      BY <3>1, <2>1, <2>2, GoesOn, CallFields
    <3> QED
      BY <3>2, <2>1, ReadsOnly
  <2> QED
    BY <2>1, <2>3, <2>4
<1>3. CASE NewCheckpoint(w)
  <2>1. PICK n \in DOMAIN log[c.from] :
          /\ log[c.from][n] = c.at
          /\ files' = files \cup {[events |-> SubSeq(log[c.from], 1, n), at |-> c.at]}
    BY <1>3 DEF NewCheckpoint
  <2>2. Return(w, "none") /\ UNCHANGED <<log, outbox, pushed, boundVars>>
    BY <1>3 DEF NewCheckpoint
  <2>3. SubSeq(log[c.from], 1, n) \in Seq(chain)
    BY <1>1, <2>1, Parts
  <2>4. files' \subseteq File(chain)
    <3>1. [events |-> SubSeq(log[c.from], 1, n), at |-> c.at] \in File(chain)
      BY <1>1, <2>3 DEF File
    <3> QED
      BY <3>1, <2>1, Facts
  <2>5. Moves(w)
    BY <2>2, Returns DEF Results
  <2> QED
    BY <2>2, <2>4, <2>5, Facts DEF Quiet, boundVars
<1>4. CASE VerifyFile(w)
  <2>1. /\ c.pc = "verify" /\ Reads(w) /\ "target" \in Pcs
        /\ Goto(w, "target") \/ Return(w, "error")
    BY <1>4 DEF VerifyFile, Pcs
  <2>2. CASE Goto(w, "target")
    <3>1. call' = [call EXCEPT ![w].pc = "target"]
      BY <2>2 DEF Goto
    <3>2. Moves(w)
      BY <3>1, <2>1, GoesOn, CallFields
    <3> QED
      BY <3>2, <2>1, ReadsOnly
  <2>3. CASE Return(w, "error")
    BY <2>1, <2>3, Returns, ReadsOnly
  <2> QED
    BY <2>1, <2>2, <2>3
<1> QED
  BY <1>2, <1>3, <1>4

(* Two endpoints have the same checksum at a cursor both have reached.     *)
LEMMA CompareQuiet ==
  ASSUME Inv, NEW w \in Worker, CompareHashes(w)
  PROVE  Quiet(w)
<1> DEFINE c == call[w]
           ahead == Before(HeadOf(log[c.from]), c.at) \/ Before(HeadOf(log[c.to]), c.at)
           r == IF ahead THEN "ErrReplicaAhead"
                ELSE IF HashAt(c.from, c.at) = HashAt(c.to, c.at) THEN "equivalent" ELSE "different"
<1>1. c.pc = "hashes" /\ Return(w, r) /\ Reads(w)
  BY DEF CompareHashes
<1>2. r \in {"ErrReplicaAhead", "equivalent", "different"}
  OBVIOUS
<1>3. c.op = "verify" => r = "equivalent"
  <2>1. SUFFICES ASSUME c.op = "verify" PROVE r = "equivalent"
    OBVIOUS
  <2>2. /\ c.from \in Endpoint /\ c.to \in Endpoint
        /\ c.at \in Events(log[c.from]) /\ c.at \in Events(log[c.to])
    BY <1>1, <2>1, CallFields, Facts DEF CallOK
  <2>3. c.at \in chain
    BY <2>2, Facts
  <2>4. ~ahead
    BY <2>2, <2>3, Standing
  <2>5. HashAt(c.from, c.at) = c.at /\ HashAt(c.to, c.at) = c.at
    BY <2>2, HashOfEvent
  <2> QED
    BY <2>4, <2>5
<1> HIDE DEF r
<1>4. Moves(w)
  BY <1>1, <1>2, <1>3, Returns DEF Results
<1> QED
  BY <1>1, <1>4, ReadsOnly

\* The steps of a worker that leave logs and rows alone.
QuietStep(w) ==
    \/ CallDrain(w) \/ CallReplicate(w) \/ CallWait(w)
    \/ CallCheckpoint(w) \/ CallRestore(w) \/ CallVerify(w)
    \/ IngestStops(w) \/ IngestFails(w) \/ ReadPending(w) \/ AckFails(w)
    \/ ReadSourceHead(w) \/ ReadReplicaHead(w) \/ ReadAfter(w)
    \/ Poll(w) \/ RemoteReceipt(w) \/ Expire(w)
    \/ ReadCheckpointHead(w) \/ NewCheckpoint(w)
    \/ VerifyFile(w) \/ ReadTarget(w) \/ LowerHead(w) \/ CompareHashes(w)
    \/ Ends(w)

(* All of them at once.                                                    *)
LEMMA QuietSteps ==
  ASSUME Inv, NEW w \in Worker, QuietStep(w)
  PROVE  Quiet(w)
  BY CallsBegin, IngestStopsQuiet, ReadsEventsQuiet, AckFailsQuiet, ReadHeadsQuiet, WaitQuiet,
     CheckpointQuiet, CompareQuiet, EndsQuiet DEF QuietStep

-----------------------------------------------------------------------------
(* Every step keeps the invariant *)

(* A call loses nothing it established when logs and remotes grow.         *)
LEMMA CallOKGrows ==
  ASSUME NEW c \in Calls(chain), NEW L, NEW P, NEW L2, NEW P2, CallOK(c, L, P),
         \A n \in Endpoint : Events(L[n]) \subseteq Events(L2[n]),
         \A n \in Endpoint : Events(P[n]) \subseteq Events(P2[n])
  PROVE  CallOK(c, L2, P2)
<1>1. c.from \in Endpoint /\ c.to \in Endpoint /\ Active \in Endpoint
  BY ReplicasAssumption DEF Calls
<1> QED
  BY <1>1 DEF CallOK

(* A quiet step keeps the invariant.                                       *)
LEMMA QuietKeepsInv ==
  ASSUME Inv, NEW w \in Worker, Quiet(w)
  PROVE  Inv'
<1>1. log' = log /\ outbox' = outbox /\ pushed' = pushed /\ chain' = chain
  BY DEF Quiet, chain
<1>2. PICK x \in Calls(chain) : CallOK(x, log, pushed) /\ call' = [call EXCEPT ![w] = x]
  BY DEF Quiet, Moves
<1>3. call \in [Worker -> Calls(chain)]
  BY DEF Inv, TypeOK, chain
<1>4. call' \in [Worker -> Calls(chain)]
  BY <1>2, <1>3
<1>5. \A v \in Worker : CallOK(call'[v], log, pushed)
  BY <1>2, <1>3, Facts
<1>6. TypeOK'
  BY <1>1, <1>4 DEF Inv, TypeOK, Quiet, chain
<1>7. Chains' /\ NothingIsLost' /\ \A n \in Endpoint : Events(pushed'[n]) \subseteq Events(log'[n])
  BY <1>1 DEF Inv, Chains, NothingIsLost
<1> QED
  BY <1>1, <1>5, <1>6, <1>7 DEF Inv

(* A remote is brought up to its local log, never past it.                 *)
LEMMA PushMirrorKeepsInv ==
  ASSUME Inv, NEW m \in Endpoint, PushMirror(m)
  PROVE  Inv'
<1>1. /\ pushed' = [pushed EXCEPT ![m] = log[m]]
      /\ log' = log /\ outbox' = outbox /\ files' = files /\ call' = call
      /\ calls' = calls /\ failures' = failures /\ chain' = chain
  BY DEF PushMirror, boundVars, chain
<1>2. pushed \in [Endpoint -> Seq(chain)] /\ log[m] \in Seq(chain)
  BY Facts DEF Inv, TypeOK, chain
<1>3. pushed' \in [Endpoint -> Seq(chain)]
  BY <1>1, <1>2
<1>4. \A n \in Endpoint : /\ Events(pushed[n]) \subseteq Events(pushed'[n])
                          /\ Events(pushed'[n]) \subseteq Events(log[n])
  BY <1>1, <1>2 DEF Inv
<1>5. TypeOK'
  BY <1>1, <1>3 DEF Inv, TypeOK, chain
<1>6. Chains' /\ NothingIsLost'
  BY <1>1 DEF Inv, Chains, NothingIsLost
<1>7. \A w \in Worker : CallOK(call'[w], log', pushed')
  BY <1>1, <1>4, Facts, CallOKGrows
<1> QED
  BY <1>1, <1>4, <1>5, <1>6, <1>7 DEF Inv

(* A damaged checkpoint still holds events of the chain.                   *)
LEMMA DamageFileKeepsInv ==
  ASSUME Inv, DamageFile
  PROVE  Inv'
<1>1. /\ log' = log /\ outbox' = outbox /\ pushed' = pushed /\ call' = call
      /\ calls' = calls /\ chain' = chain /\ failures < MaxFailures /\ failures' = failures + 1
  BY DEF DamageFile, chain
<1>2. PICK f \in files : f.events # <<>> /\
        \E events \in {Front(f.events), Tail(f.events)} : files' = files \cup {[f EXCEPT !.events = events]}
  BY DEF DamageFile
<1>3. f \in File(chain) /\ files \subseteq File(chain)
  BY <1>2, Facts
<1>4. Front(f.events) \in Seq(chain) /\ Tail(f.events) \in Seq(chain)
  BY <1>2, <1>3, Parts DEF File
<1>5. \A events \in Seq(chain) : [f EXCEPT !.events = events] \in File(chain)
  BY <1>3 DEF File
<1>6. files' \subseteq File(chain)
  BY <1>2, <1>3, <1>4, <1>5
<1>7. failures' \in 0..MaxFailures
  BY <1>1, Facts, ReplicasAssumption, Counts
<1>8. TypeOK'
  BY <1>1, <1>6, <1>7 DEF Inv, TypeOK, chain
<1>9. /\ Chains' /\ NothingIsLost'
      /\ \A n \in Endpoint : Events(pushed'[n]) \subseteq Events(log'[n])
      /\ \A w \in Worker : CallOK(call'[w], log', pushed')
  BY <1>1 DEF Inv, Chains, NothingIsLost
<1> QED
  BY <1>8, <1>9 DEF Inv

(* An acknowledgement deletes only rows of events the replica has.         *)
LEMMA AckOutboxKeepsInv ==
  ASSUME Inv, NEW w \in Worker, AckOutbox(w)
  PROVE  Inv'
<1> DEFINE c == call[w]
<1>1. /\ Return(w, "none")
      /\ outbox' = [outbox EXCEPT ![c.from][c.to] = @ \ c.applied]
      /\ log' = log /\ pushed' = pushed /\ files' = files
      /\ calls' = calls /\ failures' = failures /\ chain' = chain
  BY DEF AckOutbox, boundVars, chain
<1>2. Moves(w)
  BY <1>1, Returns DEF Results
<1>3. PICK x \in Calls(chain) : CallOK(x, log, pushed) /\ call' = [call EXCEPT ![w] = x]
  BY <1>2 DEF Moves
<1>4. /\ call \in [Worker -> Calls(chain)]
      /\ outbox \in [Endpoint -> [Endpoint -> SUBSET chain]]
  BY DEF Inv, TypeOK, chain
<1>5. c.from \in Endpoint /\ c.to \in Endpoint /\ c.applied \subseteq Events(log[c.to])
  BY CallFields, Facts DEF CallOK
<1> HIDE DEF c
<1>6. call' \in [Worker -> Calls(chain)] /\ \A v \in Worker : CallOK(call'[v], log, pushed)
  BY <1>3, <1>4, Facts
<1>7. outbox' \in [Endpoint -> [Endpoint -> SUBSET chain]]
  BY <1>1, <1>4
<1>8. \A n, r \in Endpoint : outbox[n][r] \ Events(log[r]) \subseteq outbox'[n][r]
  BY <1>1, <1>4, <1>5
<1>9. NothingIsLost'
  <2> SUFFICES ASSUME NEW n \in Endpoint, NEW r \in ReplicaIDs[n]
               PROVE Events(log[n]) \ Events(log[r]) \subseteq outbox'[n][r]
    BY <1>1 DEF NothingIsLost
  <2>1. r \in Endpoint
    BY ReplicasAssumption
  <2>2. Events(log[n]) \ Events(log[r]) \subseteq outbox[n][r]
    BY DEF Inv, NothingIsLost
  <2> QED
    BY <2>1, <2>2, <1>8
<1>10. TypeOK'
  BY <1>1, <1>6, <1>7 DEF Inv, TypeOK, chain
<1>11. Chains' /\ \A n \in Endpoint : Events(pushed'[n]) \subseteq Events(log'[n])
  BY <1>1 DEF Inv, Chains
<1> QED
  BY <1>1, <1>6, <1>9, <1>10, <1>11 DEF Inv

(* What a commit adds.                                                     *)
LEMMA CommitAdds ==
  ASSUME Inv, NEW n \in Endpoint, NEW e, Commit(n, e)
  PROVE  /\ log'[n] = Append(log[n], e) /\ Events(log'[n]) = Events(log[n]) \cup {e}
         /\ \A m \in Endpoint \ {n} : log'[m] = log[m] /\ Events(log'[m]) = Events(log[m])
         /\ \A m \in Endpoint : Events(log[m]) \subseteq Events(log'[m])
<1>1. log \in [Endpoint -> Seq(chain)] /\ log' = [log EXCEPT ![n] = Append(@, e)]
  BY DEF Inv, TypeOK, chain, Commit
<1>2. log'[n] = Append(log[n], e) /\ \A m \in Endpoint \ {n} : log'[m] = log[m]
  BY <1>1
<1>3. Events(Append(log[n], e)) = Events(log[n]) \cup {e}
  BY <1>1, SequenceIsLog, AppendLog
<1>4. Events(log'[n]) = Events(log[n]) \cup {e}
  BY <1>2, <1>3
<1>5. \A m \in Endpoint \ {n} : Events(log'[m]) = Events(log[m])
  BY <1>2
<1> QED
  BY <1>2, <1>4, <1>5

(* The transaction of an event keeps the invariant when it extends the     *)
(* chain or a copy of it: the row is in the outbox before it is missed.    *)
LEMMA CommitKeepsInv ==
  ASSUME Inv, NEW n \in Endpoint, NEW e, Commit(n, e),
         chain \subseteq chain', e \in chain', Chains',
         call' \in [Worker -> Calls(chain')],
         \A w \in Worker : CallOK(call'[w], log', pushed'),
         UNCHANGED <<pushed, files, calls, failures>>
  PROVE  Inv'
<1>1. Seq(chain) \subseteq Seq(chain') /\ File(chain) \subseteq File(chain')
  BY Widens
<1>2. /\ pushed \in [Endpoint -> Seq(chain)] /\ files \subseteq File(chain)
      /\ outbox \in [Endpoint -> [Endpoint -> SUBSET chain]]
      /\ calls \in 0..MaxCalls /\ failures \in 0..MaxFailures
  BY DEF Inv, TypeOK, chain
<1>3. outbox' = [outbox EXCEPT ![n] =
          [r \in Endpoint |-> IF r \in ReplicaIDs[n] THEN @[r] \cup {e} ELSE @[r]]]
  BY DEF Commit
<1>4. /\ outbox' \in [Endpoint -> [Endpoint -> SUBSET chain']]
      /\ \A m, r \in Endpoint : outbox[m][r] \subseteq outbox'[m][r]
      /\ \A r \in Endpoint : r \in ReplicaIDs[n] => e \in outbox'[n][r]
  <2>1. \A m \in Endpoint : outbox'[m] =
          IF m = n THEN [r \in Endpoint |-> IF r \in ReplicaIDs[n] THEN outbox[n][r] \cup {e} ELSE outbox[n][r]]
          ELSE outbox[m]
    BY <1>2, <1>3
  <2>2. ASSUME NEW m \in Endpoint PROVE outbox'[m] \in [Endpoint -> SUBSET chain']
    <3>1. outbox[m] \in [Endpoint -> SUBSET chain']
      BY <1>2
    <3>2. CASE m = n
      <4>1. \A r \in Endpoint : outbox[n][r] \subseteq chain' /\ {e} \subseteq chain'
        BY <3>1, <3>2
      <4>2. outbox'[m] = [r \in Endpoint |-> IF r \in ReplicaIDs[n] THEN outbox[n][r] \cup {e}
                                             ELSE outbox[n][r]]
        BY <2>1, <3>2
      <4>3. ASSUME NEW r \in Endpoint
            PROVE  (IF r \in ReplicaIDs[n] THEN outbox[n][r] \cup {e} ELSE outbox[n][r])
                      \in SUBSET chain'
        BY <4>1
      <4> QED
        BY <4>2, <4>3
    <3>3. CASE m # n
      BY <2>1, <3>1, <3>3
    <3> QED
      BY <3>2, <3>3
  <2>3. outbox' = [m \in Endpoint |-> outbox'[m]]
    BY <1>2, <1>3
  <2>4. outbox' \in [Endpoint -> [Endpoint -> SUBSET chain']]
    BY <2>2, <2>3
  <2>5. ASSUME NEW m \in Endpoint, NEW r \in Endpoint PROVE outbox[m][r] \subseteq outbox'[m][r]
    BY <2>1
  <2>6. \A r \in Endpoint : r \in ReplicaIDs[n] => e \in outbox'[n][r]
    BY <1>2, <2>1
  <2> QED
    BY <2>4, <2>5, <2>6
<1>5. pushed' \in [Endpoint -> Seq(chain')] /\ files' \subseteq File(chain')
  BY <1>1, <1>2
<1>6. TypeOK'
  BY <1>2, <1>4, <1>5 DEF TypeOK, chain, Chains
<1>7. NothingIsLost'
  <2> SUFFICES ASSUME NEW m \in Endpoint, NEW r \in ReplicaIDs[m],
                      NEW f \in Events(log'[m]), f \notin Events(log'[r])
               PROVE f \in outbox'[m][r]
    BY DEF NothingIsLost
  <2>1. r \in Endpoint
    BY ReplicasAssumption
  <2>2. f \notin Events(log[r])
    BY <2>1, CommitAdds
  <2>3. CASE f \in Events(log[m])
    <3>1. f \in outbox[m][r]
      BY <2>2, <2>3 DEF Inv, NothingIsLost
    <3> QED
      BY <3>1, <2>1, <1>4
  <2>4. CASE f \notin Events(log[m])
    <3>1. m = n /\ f = e
      BY <2>4, CommitAdds
    <3> QED
      BY <3>1, <2>1, <1>4
  <2> QED
    BY <2>3, <2>4
<1>8. \A m \in Endpoint : Events(pushed'[m]) \subseteq Events(log'[m])
  <2> TAKE m \in Endpoint
  <2>1. Events(pushed[m]) \subseteq Events(log[m]) /\ Events(log[m]) \subseteq Events(log'[m])
    BY CommitAdds DEF Inv
  <2> QED
    BY <2>1
<1> QED
  BY <1>6, <1>7, <1>8 DEF Inv

(* The active endpoint extends the chain.                                  *)
LEMMA AppendEventKeepsInv ==
  ASSUME Inv, AppendEvent
  PROVE  Inv'
<1> DEFINE c == log[Active]
<1>1. PICK epoch \in 1..MaxEpoch :
        Verdict(c, NextEvent(epoch)) = "ok" /\ Commit(Active, NextEvent(epoch))
  BY DEF AppendEvent
<1> DEFINE e == NextEvent(epoch)
<1>2. UNCHANGED <<pushed, files, call, calls, failures>>
  BY DEF AppendEvent, boundVars
<1>3. Active \in Endpoint /\ IsLog(c) /\ IsChain(c) /\ Increasing(c)
  BY Facts DEF Inv, Chains
<1>4. e.epoch \in Nat /\ e.seq \in Nat
  <2>1. HeadOf(c).seq \in Nat
    <3>1. CASE c = <<>>
      BY <3>1 DEF HeadOf, Genesis
    <3>2. CASE c # <<>>
      <4>1. PICK i \in DOMAIN c : HeadOf(c) = c[i]
        BY <1>3, <3>2, HeadInLog DEF Events
      <4> QED
        BY <4>1, <1>3 DEF IsChain
    <3> QED
      BY <3>1, <3>2
  <2>2. e.epoch = epoch /\ (e.seq = HeadOf(c).seq + 1 \/ e.seq = 1)
    BY DEF NextEvent
  <2>3. epoch \in Nat
    BY ReplicasAssumption
  <2> QED
    BY <2>1, <2>2, <2>3
<1> HIDE DEF e
<1>5. Verdict(c, e) = "ok" /\ Commit(Active, e)
  BY <1>1 DEF e
<1> HIDE DEF c
<1>6. IsChain(Append(c, e)) /\ Increasing(Append(c, e))
  BY <1>3, <1>4, <1>5, ChainAppend
<1>7. /\ log'[Active] = Append(c, e) /\ chain' = chain \cup {e}
      /\ \A m \in Endpoint \ {Active} : log'[m] = log[m]
  BY <1>3, <1>5, CommitAdds DEF chain, c
<1>8. Seq(chain) \subseteq Seq(chain') /\ Calls(chain) \subseteq Calls(chain')
  BY <1>7, Widens
<1>9. log \in [Endpoint -> Seq(chain)] /\ log' = [log EXCEPT ![Active] = Append(c, e)]
  BY <1>5 DEF Inv, Chains, Commit, c
<1>10. c \in Seq(chain') /\ Append(c, e) \in Seq(chain')
  BY <1>3, <1>7, <1>8, <1>9 DEF c
<1>11. log' \in [Endpoint -> Seq(chain')]
  BY <1>8, <1>9, <1>10
<1>12. \A m \in Endpoint : IsCopy(log'[m], log'[Active])
  <2> SUFFICES ASSUME NEW m \in Endpoint PROVE IsCopy(log'[m], log'[Active])
    OBVIOUS
  <2>1. CASE m = Active
    BY <2>1, <1>7, <1>10 DEF IsCopy
  <2>2. CASE m # Active
    <3>1. log'[m] = log[m] /\ IsCopy(log[m], c) /\ log[m] \in Seq(chain)
      BY <2>2, <1>7, Facts DEF Inv, Chains, c
    <3>2. /\ Len(Append(c, e)) = Len(c) + 1 /\ Len(c) \in Nat
          /\ \A i \in 1..Len(c) : Append(c, e)[i] = c[i]
      BY <1>10
    <3>3. Len(log[m]) \in Nat /\ DOMAIN log[m] = 1..Len(log[m])
      BY <3>1
    <3> QED
      BY <3>1, <3>2, <3>3, <1>7 DEF IsCopy
  <2> QED
    BY <2>1, <2>2
<1>13. Chains'
  BY <1>6, <1>7, <1>11, <1>12 DEF Chains, chain
<1>14. call' \in [Worker -> Calls(chain')]
  BY <1>2, <1>8 DEF Inv, TypeOK, chain
<1>15. \A w \in Worker : CallOK(call'[w], log', pushed')
  <2> TAKE w \in Worker
  <2>1. call[w] \in Calls(chain) /\ CallOK(call[w], log, pushed)
    BY Facts
  <2>2. \A n \in Endpoint : Events(log[n]) \subseteq Events(log'[n])
    BY <1>3, <1>5, CommitAdds
  <2> QED
    BY <2>1, <2>2, <1>2, CallOKGrows
<1> QED
  BY <1>2, <1>3, <1>5, <1>7, <1>13, <1>14, <1>15, CommitKeepsInv

(* A replica takes the next event of the chain or has it already.          *)
LEMMA IngestOneKeepsInv ==
  ASSUME Inv, NEW w \in Worker, IngestOne(w)
  PROVE  Inv'
<1> DEFINE c == call[w]
           e == Head(c.events)
           x == [c EXCEPT !.events = Tail(c.events), !.applied = c.applied \cup {e}]
<1>1. /\ c.pc = "ingest" /\ c.events # <<>>
      /\ c.to # Active /\ Succeeds(log[c.to], e)
      /\ IngestReplica(c.to, e)
      /\ call' = [call EXCEPT ![w].events = Tail(@), ![w].applied = @ \cup {e}]
      /\ UNCHANGED <<pushed, files, calls, failures>>
  BY DEF IngestOne, Accepts, boundVars
<1>2. /\ c.to \in Endpoint /\ c.events \in Seq(chain) /\ c.applied \in SUBSET chain
      /\ c \in Calls(chain) /\ CallOK(c, log, pushed)
      /\ call \in [Worker -> Calls(chain)]
  BY CallFields, Facts DEF Inv, TypeOK, chain
<1>3. e \in chain /\ Tail(c.events) \in Seq(chain)
  BY <1>1, <1>2, Parts
<1>4. x \in Calls(chain) /\ call' = [call EXCEPT ![w] = x]
  <2>1. call' = [call EXCEPT ![w] = x]
    BY <1>1, <1>2
  <2>2. c.applied \cup {e} \in SUBSET chain
    BY <1>2, <1>3
  <2>3. x \in Calls(chain)
    BY <1>2, <1>3, <2>2 DEF Calls
  <2> QED
    BY <2>1, <2>3
<1>5. /\ x.pc = "ingest" /\ x.result = "none" /\ x.to = c.to /\ x.op = c.op
      /\ x.applied = c.applied \cup {e}
  <2>1. c.result = "none"
    BY <1>1, <1>2 DEF CallOK
  <2> QED
    BY <1>1, <1>2, <2>1 DEF Calls
<1>6. c.applied \subseteq Events(log[c.to])
  BY <1>2 DEF CallOK
<1> HIDE DEF c, e, x
<1>7. ASSUME Events(log[c.to]) \cup {e} \subseteq Events(log'[c.to]), chain' = chain,
             \A n \in Endpoint : Events(log[n]) \subseteq Events(log'[n])
      PROVE  /\ call' \in [Worker -> Calls(chain')]
             /\ \A v \in Worker : CallOK(call'[v], log', pushed')
  <2>1. call' \in [Worker -> Calls(chain')]
    BY <1>2, <1>4, <1>7
  <2>2. CallOK(x, log', pushed')
    BY <1>5, <1>6, <1>7 DEF CallOK
  <2>3. \A v \in Worker : CallOK(call[v], log', pushed')
    BY <1>1, <1>7, Facts, CallOKGrows
  <2>4. \A v \in Worker : call'[v] = IF v = w THEN x ELSE call[v]
    BY <1>2, <1>4
  <2> QED
    BY <2>1, <2>2, <2>3, <2>4
<1>8. CASE Verdict(log[c.to], e) = "ok"
  <2>1. Commit(c.to, e)
    BY <1>1, <1>8 DEF IngestReplica
  <2>2. /\ log'[c.to] = Append(log[c.to], e)
        /\ Events(log'[c.to]) = Events(log[c.to]) \cup {e}
        /\ \A m \in Endpoint \ {c.to} : log'[m] = log[m]
        /\ \A m \in Endpoint : Events(log[m]) \subseteq Events(log'[m])
    BY <1>2, <2>1, CommitAdds
  <2>3. log'[Active] = log[Active] /\ chain' = chain
    BY <1>1, <2>2, Facts DEF chain
  <2>4. /\ IsLog(log[Active]) /\ IsChain(log[Active]) /\ Increasing(log[Active])
        /\ log[c.to] \in Seq(chain) /\ IsCopy(log[c.to], log[Active])
    BY <1>2, Facts DEF Inv, Chains
  <2>5. IsCopy(log'[c.to], log'[Active])
    BY <1>3, <1>8, <2>2, <2>3, <2>4, NextOfCopy DEF chain
  <2>6. log' \in [Endpoint -> Seq(chain')]
    <3>1. log \in [Endpoint -> Seq(chain)] /\ log' = [log EXCEPT ![c.to] = Append(@, e)]
      BY <2>1 DEF Inv, Chains, Commit
    <3> QED
      BY <3>1, <1>2, <1>3, <2>3
  <2>7. Chains'
    BY <2>2, <2>3, <2>4, <2>5, <2>6 DEF Inv, Chains, chain
  <2>8. /\ call' \in [Worker -> Calls(chain')]
        /\ \A v \in Worker : CallOK(call'[v], log', pushed')
    BY <1>7, <2>2, <2>3
  <2> QED
    BY <1>1, <1>2, <1>3, <2>1, <2>3, <2>7, <2>8, CommitKeepsInv
<1>9. CASE Verdict(log[c.to], e) # "ok"
  <2>1. log' = log /\ outbox' = outbox /\ chain' = chain
    BY <1>1, <1>9 DEF IngestReplica, chain
  <2>2. e \in Events(log[c.to])
    BY <1>1, <1>9 DEF Succeeds, Verdict, ValidateNext
  <2>3. /\ call' \in [Worker -> Calls(chain')]
        /\ \A v \in Worker : CallOK(call'[v], log', pushed')
    BY <1>7, <2>1, <2>2
  <2>4. TypeOK'
    BY <1>1, <2>1, <2>3 DEF Inv, TypeOK, chain
  <2>5. /\ Chains' /\ NothingIsLost'
        /\ \A n \in Endpoint : Events(pushed'[n]) \subseteq Events(log'[n])
    BY <1>1, <2>1 DEF Inv, Chains, NothingIsLost
  <2> QED
    BY <2>3, <2>4, <2>5 DEF Inv
<1> QED
  BY <1>8, <1>9

(* Empty endpoints satisfy the invariant.                                  *)
LEMMA InitInv == Init => Inv
<1> SUFFICES ASSUME Init PROVE Inv
  OBVIOUS
<1>1. /\ Active \in Endpoint
      /\ log = [n \in Endpoint |-> <<>>] /\ pushed = [n \in Endpoint |-> <<>>]
      /\ outbox = [n \in Endpoint |-> [r \in Endpoint |-> {}]]
      /\ files = {} /\ call = [w \in Worker |-> Idle] /\ calls = 0 /\ failures = 0
      /\ MaxCalls \in Nat /\ MaxFailures \in Nat
  BY ReplicasAssumption DEF Init
<1>2. log[Active] = <<>> /\ \A S : <<>> \in Seq(S) /\ Events(<<>>) = {} /\ DOMAIN <<>> = {}
  BY <1>1, EmptyLog
<1>3. TypeOK
  BY <1>1, <1>2, IdleCall DEF TypeOK
<1>4. Chains
  BY <1>1, <1>2 DEF Chains, IsChain, Increasing, IsCopy, chain
<1>5. NothingIsLost /\ \A n \in Endpoint : Events(pushed[n]) \subseteq Events(log[n])
  BY <1>1, <1>2, ReplicasAssumption DEF NothingIsLost
<1>6. \A w \in Worker : CallOK(call[w], log, pushed)
  BY <1>1, IdleOK
<1> QED
  BY <1>3, <1>4, <1>5, <1>6 DEF Inv

(* A stuttering step keeps it.                                             *)
LEMMA StutterInv ==
  ASSUME Inv, UNCHANGED vars
  PROVE  Inv'
<1>1. /\ log' = log /\ outbox' = outbox /\ pushed' = pushed /\ files' = files
      /\ call' = call /\ calls' = calls /\ failures' = failures
  BY DEF vars, boundVars
<1> QED
  BY <1>1 DEF Inv, TypeOK, Chains, chain, NothingIsLost

\* The steps, by what they do to logs and rows.
LEMMA NextCases ==
  ASSUME Next
  PROVE  \/ AppendEvent \/ DamageFile
         \/ \E n \in Endpoint : PushMirror(n)
         \/ \E w \in Worker : QuietStep(w) \/ IngestOne(w) \/ AckOutbox(w)
  BY DEF Next, QuietStep

(* Every step keeps it.                                                    *)
LEMMA NextInv ==
  ASSUME Inv, [Next]_vars
  PROVE  Inv'
<1>1. CASE AppendEvent
  BY <1>1, AppendEventKeepsInv
<1>2. CASE DamageFile
  BY <1>2, DamageFileKeepsInv
<1>3. CASE \E n \in Endpoint : PushMirror(n)
  BY <1>3, PushMirrorKeepsInv
<1>4. CASE \E w \in Worker : QuietStep(w)
  BY <1>4, QuietSteps, QuietKeepsInv
<1>5. CASE \E w \in Worker : IngestOne(w)
  BY <1>5, IngestOneKeepsInv
<1>6. CASE \E w \in Worker : AckOutbox(w)
  BY <1>6, AckOutboxKeepsInv
<1>7. CASE UNCHANGED vars
  BY <1>7, StutterInv
<1> QED
  BY <1>1, <1>2, <1>3, <1>4, <1>5, <1>6, <1>7, NextCases

(* The inductive invariant holds in every state (log, outbox, pushed,      *)
(* files and call of package replication's delivery seams).                *)
THEOREM Invariance == Spec => []Inv
<1>1. Init => Inv
  BY InitInv
<1>2. Inv /\ [Next]_vars => Inv'
  BY NextInv
<1> QED
  BY <1>1, <1>2, PTL DEF Spec

-----------------------------------------------------------------------------
(* The properties *)

(* Logs, outboxes, remotes, checkpoints and calls hold only events of the  *)
(* authority's chain, however Replicate, DrainOutbox and Restore interleave. *)
THEOREM TypeCorrect == Spec => []TypeOK
<1>1. Inv => TypeOK
  BY DEF Inv
<1> QED
  BY <1>1, Invariance, PTL

(* DrainOutbox loses no delivery: what an endpoint has and one of its      *)
(* replicas has not is in its outbox.                                      *)
THEOREM NothingLost == Spec => []NothingIsLost
<1>1. Inv => NothingIsLost
  BY DEF Inv
<1> QED
  BY <1>1, Invariance, PTL

(* Wait answers "satisfied" only about an event that the replica, and the  *)
(* remote of a git mirror, hold.                                           *)
THEOREM BarrierSound == Spec => []SatisfiedMeansDurable
<1>1. ASSUME Inv PROVE SatisfiedMeansDurable
  BY <1>1, Facts DEF SatisfiedMeansDurable, CallOK
<1> QED
  BY <1>1, Invariance, PTL

(* VerifyConvergence never finds two endpoints of one authority to differ, *)
(* however they move between its reads.                                    *)
THEOREM NoFalseAlarm == Spec => []NoFalseDivergence
<1>1. ASSUME Inv PROVE NoFalseDivergence
  BY <1>1, Facts DEF NoFalseDivergence, CallOK
<1> QED
  BY <1>1, Invariance, PTL

-----------------------------------------------------------------------------
(* The refinement *)

(* Empty endpoints are an empty chain and empty copies.                    *)
LEMMA InitRefines == Init => Mirrored!Init
<1> SUFFICES ASSUME Init PROVE Mirrored!Init
  OBVIOUS
<1>1. log = [n \in Endpoint |-> <<>>] /\ Active \in Endpoint
  BY ReplicasAssumption DEF Init
<1> QED
  BY <1>1 DEF Mirrored!Init, Replica

(* A commit at the active endpoint extends the chain.                      *)
LEMMA AppendRefines ==
  ASSUME Inv, NEW e, Commit(Active, e)
  PROVE  Mirrored!Extend
<1> DEFINE c == log[Active]
<1>1. c \in Seq(chain) /\ Active \in Endpoint
  BY Facts
<1>2. log'[Active] = Append(c, e) /\ \A m \in Endpoint \ {Active} : log'[m] = log[m]
  BY <1>1, CommitAdds
<1> HIDE DEF c
<1>3. Len(Append(c, e)) = Len(c) + 1 /\ SubSeq(Append(c, e), 1, Len(c)) = c
  <2>1. c \in Seq(chain \cup {e})
    BY <1>1, Widens
  <2> QED
    BY <2>1, AppendProperties, SubSeqProperties
<1>4. [r \in Replica |-> log[r]]' = [r \in Replica |-> log[r]]
  BY <1>2 DEF Replica
<1> QED
  BY <1>2, <1>3, <1>4 DEF Mirrored!Extend, c

(* A commit at a replica takes the next event of the chain.                *)
LEMMA CopyRefines ==
  ASSUME Inv, NEW n \in Replica, NEW e \in chain, Verdict(log[n], e) = "ok", Commit(n, e)
  PROVE  Mirrored!Next
<1>1. n \in Endpoint /\ n # Active
  BY DEF Replica
<1>2. /\ IsLog(log[Active]) /\ IsChain(log[Active]) /\ Increasing(log[Active])
      /\ log[n] \in Seq(chain) /\ IsCopy(log[n], log[Active])
  BY <1>1, Facts DEF Inv, Chains
<1>3. Len(log[n]) < Len(log[Active]) /\ e = log[Active][Len(log[n]) + 1]
  BY <1>2, NextOfCopy DEF chain
<1>4. log'[n] = Append(log[n], e) /\ \A m \in Endpoint \ {n} : log'[m] = log[m]
  BY <1>1, CommitAdds
<1> DEFINE copy == [r \in Replica |-> log[r]]
<1>5. copy' = [copy EXCEPT ![n] = Append(copy[n], e)] /\ copy[n] = log[n]
  BY <1>4 DEF Replica
<1>6. log'[Active] = log[Active]
  BY <1>1, <1>4, Facts
<1>7. Mirrored!Copy(n)
  BY <1>3, <1>5, <1>6 DEF Mirrored!Copy
<1> QED
  BY <1>7 DEF Mirrored!Next

(* Every step extends the chain, extends one copy, or changes neither.     *)
LEMMA NextRefines ==
  ASSUME Inv, [Next]_vars
  PROVE  [Mirrored!Next]_<<log[Active], [r \in Replica |-> log[r]]>>
<1>1. CASE AppendEvent
  <2>1. PICK epoch \in 1..MaxEpoch : Commit(Active, NextEvent(epoch))
    BY <1>1 DEF AppendEvent
  <2> QED
    BY <2>1, AppendRefines DEF Mirrored!Next
<1>2. CASE \E w \in Worker : IngestOne(w)
  <2>1. PICK w \in Worker : IngestOne(w)
    BY <1>2
  <2> DEFINE n == call[w].to
             e == Head(call[w].events)
  <2>2. n \in Replica /\ call[w].events # <<>> /\ IngestReplica(n, e)
    BY <2>1, CallFields DEF IngestOne, Accepts, Replica
  <2>3. e \in chain
    BY <2>2, CallFields, Parts
  <2> HIDE DEF n, e
  <2>4. CASE Verdict(log[n], e) = "ok"
    BY <2>2, <2>3, <2>4, CopyRefines DEF IngestReplica
  <2>5. CASE Verdict(log[n], e) # "ok"
    BY <2>2, <2>5 DEF IngestReplica
  <2> QED
    BY <2>4, <2>5
<1>3. CASE log' = log
  BY <1>3
<1>4. \/ AppendEvent \/ log' = log
      \/ \E w \in Worker : IngestOne(w)
  <2>1. ASSUME NEW w \in Worker, QuietStep(w) PROVE log' = log
    BY <2>1, QuietSteps DEF Quiet
  <2>2. ASSUME NEW w \in Worker, AckOutbox(w) PROVE log' = log
    BY <2>2 DEF AckOutbox
  <2>3. DamageFile \/ (\E n \in Endpoint : PushMirror(n)) \/ UNCHANGED vars => log' = log
    BY DEF DamageFile, PushMirror, vars
  <2> QED
    BY <2>1, <2>2, <2>3, NextCases
<1> QED
  BY <1>1, <1>2, <1>3, <1>4

(* Replicate, DrainOutbox and Restore implement the mirrored chain: the    *)
(* authority's log only grows, and a replica takes its next event or none. *)
THEOREM Refinement == Spec => ImplementsMirroredChain
<1>1. Init => Mirrored!Init
  BY InitRefines
<1>2. Inv /\ [Next]_vars => [Mirrored!Next]_<<log[Active], [r \in Replica |-> log[r]]>>
  BY NextRefines
<1> QED
  BY <1>1, <1>2, Invariance, PTL DEF Spec, ImplementsMirroredChain, Mirrored!Spec

-----------------------------------------------------------------------------
(* Restore *)

\* The first k events of s are the beginning of l.
Begins(s, k, l) == k <= Len(l) /\ \A i \in 1..k : l[i] = s[i]

\* What a restore has verified, and how much of its file it has replayed.
Restoring(c, L) ==
    /\ c.result = "restored" => c.op = "restore"
    /\ c.op = "restore" =>
          /\ c.pc \in {"verify", "target", "ingest", "done"}
          /\ c.pc \in {"target", "ingest"} \/ c.result = "restored" => Verified(c.file)
          /\ c.pc = "ingest" =>
                \E k \in 0..Len(c.file.events) :
                    /\ Len(c.events) = Len(c.file.events) - k
                    /\ \A i \in 1..Len(c.events) : c.events[i] = c.file.events[k + i]
                    /\ Begins(c.file.events, k, L[c.to])
                    /\ k # 0 => c.to # Active
          /\ c.result = "restored" =>
                c.to # Active /\ Begins(c.file.events, Len(c.file.events), L[c.to])

Restores == \A w \in Worker : Restoring(call[w], log)

(* A file that verifies is a copy of the beginning of the chain: an empty  *)
(* replica accepts its events one after the other, and each of them is an  *)
(* event of the chain.                                                     *)
LEMMA VerifiedIsCopy ==
  ASSUME Inv, NEW s \in Seq(chain), Replays(s)
  PROVE  IsCopy(s, log[Active])
<1> DEFINE c == log[Active]
           S == {n \in Nat : n <= Len(s) => IsCopy(SubSeq(s, 1, n), c)}
<1>1. IsLog(c) /\ IsChain(c) /\ Increasing(c) /\ chain = Events(c) /\ Len(c) \in Nat
  <2>1. IsLog(c) /\ chain = Events(c)
    BY Facts DEF chain
  <2> QED
    BY <2>1 DEF Inv, Chains, IsLog
<1> HIDE DEF c
<1>2. Len(s) \in Nat /\ DOMAIN s = 1..Len(s)
  OBVIOUS
<1>3. \A n \in 0..Len(s) :
        /\ SubSeq(s, 1, n) \in Seq(chain) /\ Len(SubSeq(s, 1, n)) = n
        /\ DOMAIN SubSeq(s, 1, n) = 1..n
        /\ \A i \in 1..n : SubSeq(s, 1, n)[i] = s[i]
  BY <1>2, SubSeqProperties
<1>4. 0 \in S
  <2>1. Len(SubSeq(s, 1, 0)) = 0 /\ DOMAIN SubSeq(s, 1, 0) = {}
    BY <1>2, <1>3
  <2> QED
    BY <1>1, <2>1 DEF IsCopy
<1>5. ASSUME NEW n \in Nat, n \in S PROVE n + 1 \in S
  <2> SUFFICES ASSUME n + 1 <= Len(s) PROVE IsCopy(SubSeq(s, 1, n + 1), c)
    OBVIOUS
  <2> DEFINE l == SubSeq(s, 1, n)
             e == s[n + 1]
  <2>1. n + 1 \in DOMAIN s /\ (n + 1) - 1 = n /\ n \in 0..Len(s) /\ n + 1 \in 0..Len(s)
    BY <1>2
  <2>2. l \in Seq(chain) /\ Len(l) = n /\ IsCopy(l, c)
    BY <1>3, <1>5, <2>1
  <2>3. e \in chain /\ Verdict(l, e) = "ok"
    BY <1>2, <2>1 DEF Replays
  <2> HIDE DEF l, e
  <2>4. Len(l) < Len(c) /\ e = c[Len(l) + 1]
    BY <1>1, <2>2, <2>3, NextOfCopy
  <2>5. \A i \in 1..n : s[i] = c[i]
    <3>1. DOMAIN l = 1..n /\ \A i \in 1..n : l[i] = s[i]
      BY <1>3, <2>1 DEF l
    <3> QED
      BY <2>2, <3>1 DEF IsCopy
  <2>6. \A i \in 1..(n + 1) : s[i] = c[i]
    BY <2>2, <2>4, <2>5 DEF e
  <2> QED
    BY <1>1, <1>3, <2>1, <2>2, <2>4, <2>6 DEF IsCopy
<1> HIDE DEF S
<1>6. \A n \in Nat : n \in S
  BY <1>4, <1>5, SetInduction
<1>7. IsCopy(SubSeq(s, 1, Len(s)), c)
  BY <1>2, <1>6 DEF S
<1>8. SubSeq(s, 1, Len(s)) = s
  BY <1>2
<1> QED
  BY <1>7, <1>8 DEF c

(* What the beginning of a log is stays so when the log grows.             *)
LEMMA RestoringGrows ==
  ASSUME NEW c \in Calls(chain), NEW L, NEW M, Restoring(c, L),
         \A n \in Endpoint : /\ Len(L[n]) \in Nat /\ Len(M[n]) \in Nat /\ Len(L[n]) <= Len(M[n])
                             /\ \A i \in 1..Len(L[n]) : M[n][i] = L[n][i]
  PROVE  Restoring(c, M)
<1>1. c.to \in Endpoint /\ c.file.events \in Seq(chain) /\ Len(c.file.events) \in Nat
  BY DEF Calls, File
<1>2. ASSUME NEW k \in 0..Len(c.file.events), Begins(c.file.events, k, L[c.to])
      PROVE  Begins(c.file.events, k, M[c.to])
  <2> DEFINE s == c.file.events
             l == L[c.to]
             m == M[c.to]
  <2>1. k \in Nat /\ k <= Len(l) /\ \A i \in 1..k : l[i] = s[i]
    BY <1>1, <1>2 DEF Begins
  <2>2. /\ Len(l) \in Nat /\ Len(m) \in Nat /\ Len(l) <= Len(m)
        /\ \A i \in 1..Len(l) : m[i] = l[i]
    BY <1>1
  <2> HIDE DEF s, l, m
  <2>3. k <= Len(m) /\ \A i \in 1..k : m[i] = s[i]
    BY <2>1, <2>2
  <2> QED
    BY <2>3 DEF Begins, s, m
<1> QED
  BY <1>1, <1>2 DEF Restoring

(* Logs are never cut.                                                     *)
LEMMA LogsGrow ==
  ASSUME Inv, [Next]_vars
  PROVE  \A n \in Endpoint :
            /\ Len(log[n]) \in Nat /\ Len(log'[n]) \in Nat /\ Len(log[n]) <= Len(log'[n])
            /\ \A i \in 1..Len(log[n]) : log'[n][i] = log[n][i]
<1>1. \A n \in Endpoint : log[n] \in Seq(chain) /\ Len(log[n]) \in Nat
  BY Facts
<1>2. ASSUME log' = log PROVE \A n \in Endpoint :
            /\ Len(log[n]) \in Nat /\ Len(log'[n]) \in Nat /\ Len(log[n]) <= Len(log'[n])
            /\ \A i \in 1..Len(log[n]) : log'[n][i] = log[n][i]
  BY <1>1, <1>2
<1>3. ASSUME NEW m \in Endpoint, NEW e, Commit(m, e) PROVE \A n \in Endpoint :
            /\ Len(log[n]) \in Nat /\ Len(log'[n]) \in Nat /\ Len(log[n]) <= Len(log'[n])
            /\ \A i \in 1..Len(log[n]) : log'[n][i] = log[n][i]
  <2>1. log'[m] = Append(log[m], e) /\ \A n \in Endpoint \ {m} : log'[n] = log[n]
    BY <1>3, CommitAdds
  <2>2. log[m] \in Seq(chain \cup {e}) /\ e \in chain \cup {e}
    BY <1>1, Widens
  <2>3. /\ Len(log'[m]) = Len(log[m]) + 1
        /\ \A i \in 1..Len(log[m]) : log'[m][i] = log[m][i]
    BY <2>1, <2>2
  <2> QED
    BY <1>1, <2>1, <2>3
<1>4. CASE AppendEvent
  <2>1. \E e : Commit(Active, e)
    BY <1>4 DEF AppendEvent
  <2> QED
    BY <2>1, <1>3, ReplicasAssumption
<1>5. CASE DamageFile \/ (\E n \in Endpoint : PushMirror(n)) \/ UNCHANGED vars
  BY <1>2, <1>5 DEF DamageFile, PushMirror, vars
<1>6. ASSUME NEW w \in Worker, QuietStep(w) \/ AckOutbox(w)
      PROVE  log' = log
  BY <1>6, QuietSteps DEF Quiet, AckOutbox
<1>7. ASSUME NEW w \in Worker, IngestOne(w)
      PROVE  log' = log \/ \E n \in Endpoint : \E e : Commit(n, e)
  BY <1>7, CallFields DEF IngestOne, IngestReplica
<1> QED
  BY <1>2, <1>3, <1>4, <1>5, <1>6, <1>7, NextCases

(* A call that is not about a checkpoint restores nothing.                 *)
LEMMA NotRestoring ==
  ASSUME NEW c, c.op # "restore", c.result # "restored"
  PROVE  \A L : Restoring(c, L)
  BY DEF Restoring

LEMMA IdleRestoresNothing == \A L : Restoring(Idle, L)
<1>1. Idle.op = "none" /\ Idle.result = "none"
  BY DEF Idle, Call
<1> QED
  BY <1>1, NotRestoring

(* How a call returns.                                                     *)
LEMMA Returned ==
  ASSUME Inv, NEW w \in Worker, NEW r, Return(w, r)
  PROVE  \/ call'[w] = Idle
         \/ /\ r \notin {"none", "error"}
            /\ call'[w].pc = "done" /\ call'[w].result = r
            /\ call'[w].op = call[w].op /\ call'[w].to = call[w].to /\ call'[w].file = call[w].file
<1>1. call \in [Worker -> Calls(chain)]
  BY DEF Inv, TypeOK, chain
<1>2. CASE r \in {"none", "error"}
  BY <1>1, <1>2 DEF Return
<1>3. CASE r \notin {"none", "error"}
  <2> DEFINE c == call[w]
             z == [Call("done", c.op, c.from, c.to, c.at, c.file) EXCEPT !.result = r]
  <2>1. call'[w] = z
    BY <1>1, <1>3 DEF Return
  <2>2. z.pc = "done" /\ z.result = r /\ z.op = c.op /\ z.to = c.to /\ z.file = c.file
    BY DEF Call
  <2> QED
    BY <1>3, <2>1, <2>2
<1> QED
  BY <1>2, <1>3

(* A call that returns anything but "restored" claims nothing of a restore. *)
LEMMA ReturnRestoresNothing ==
  ASSUME Inv, NEW w \in Worker, NEW r, Return(w, r), r # "restored"
  PROVE  Restoring(call'[w], log)
<1>1. CASE call'[w] = Idle
  BY <1>1, IdleRestoresNothing
<1>2. CASE call'[w].pc = "done" /\ call'[w].result = r
  BY <1>2 DEF Restoring
<1> QED
  BY <1>1, <1>2, Returned

(* A call that is not a restore and goes on is still none.                 *)
LEMMA OthersGoOn ==
  ASSUME Inv, NEW w \in Worker, call[w].op # "restore", call[w].pc # "done",
         NEW pc, NEW at, NEW es,
         \/ call' = [call EXCEPT ![w].pc = pc]
         \/ call' = [call EXCEPT ![w].pc = pc, ![w].at = at]
         \/ call' = [call EXCEPT ![w].pc = pc, ![w].events = es]
  PROVE  Restoring(call'[w], log)
<1>1. call \in [Worker -> Calls(chain)] /\ call[w] \in Calls(chain) /\ call[w].result = "none"
  BY Facts DEF Inv, TypeOK, chain, CallOK
<1>2. call'[w].op = call[w].op /\ call'[w].result = call[w].result
  BY <1>1 DEF Calls
<1> QED
  BY <1>1, <1>2, NotRestoring

(* A new call of Restore has verified nothing yet.                         *)
LEMMA BeginsRestore ==
  ASSUME Inv, NEW w \in Worker, NEW pc, NEW op, NEW from, NEW to, NEW at, NEW f,
         Begin(w, Call(pc, op, from, to, at, f)), op = "restore" => pc = "verify"
  PROVE  Restoring(call'[w], log)
<1>1. call'[w] = Call(pc, op, from, to, at, f)
  BY DEF Begin, Inv, TypeOK
<1>2. call'[w].pc = pc /\ call'[w].op = op /\ call'[w].result = "none"
  BY <1>1 DEF Call
<1> QED
  BY <1>2 DEF Restoring

(* The steps of the other operations.                                      *)
LEMMA OthersRestoreNothing ==
  ASSUME Inv, NEW w \in Worker, Restoring(call[w], log),
         \/ ReadPending(w) \/ AckFails(w) \/ AckOutbox(w)
         \/ ReadSourceHead(w) \/ ReadReplicaHead(w) \/ ReadAfter(w)
         \/ Poll(w) \/ RemoteReceipt(w) \/ Expire(w)
         \/ ReadCheckpointHead(w) \/ NewCheckpoint(w)
         \/ LowerHead(w) \/ CompareHashes(w) \/ Ends(w)
  PROVE  Restoring(call'[w], log)
<1> DEFINE c == call[w]
<1>1. ASSUME c.pc \notin {"verify", "target", "ingest", "done"}
      PROVE  c.op # "restore" /\ c.pc # "done"
  BY <1>1 DEF Restoring
<1>2. ASSUME Ends(w) PROVE Restoring(call'[w], log)
  <2>1. call'[w] = Idle
    BY <1>2 DEF Ends, Inv, TypeOK
  <2> QED
    BY <2>1, IdleRestoresNothing
<1>3. ASSUME ReadPending(w) \/ ReadAfter(w) PROVE Restoring(call'[w], log)
  BY <1>1, <1>3, OthersGoOn DEF ReadPending, ReadAfter, Ingest
<1>4. ASSUME AckFails(w) \/ AckOutbox(w) PROVE Restoring(call'[w], log)
  BY <1>4, ReturnRestoresNothing DEF AckFails, AckOutbox
<1>5. ASSUME ReadSourceHead(w) PROVE Restoring(call'[w], log)
  BY <1>1, <1>5, OthersGoOn DEF ReadSourceHead
<1>6. ASSUME ReadReplicaHead(w) PROVE Restoring(call'[w], log)
  <2> DEFINE cursor == HeadOf(log[c.to])
             verdict == HeadsVerdict(cursor, c.at)
  <2>1. verdict # "restored"
    BY DEF HeadsVerdict
  <2>2. /\ c.op # "restore" /\ c.pc # "done"
        /\ \/ Return(w, verdict)
           \/ call' = [call EXCEPT ![w].pc = "after", ![w].at = cursor]
    BY <1>6 DEF ReadReplicaHead
  <2> HIDE DEF cursor, verdict
  <2>3. CASE Return(w, verdict)
    BY <2>1, <2>3, ReturnRestoresNothing
  <2>4. CASE call' = [call EXCEPT ![w].pc = "after", ![w].at = cursor]
    BY <2>2, <2>4, OthersGoOn
  <2> QED
    BY <2>2, <2>3, <2>4
<1>7. ASSUME Poll(w) \/ RemoteReceipt(w) PROVE Restoring(call'[w], log)
  BY <1>1, <1>7, OthersGoOn, ReturnRestoresNothing DEF Poll, RemoteReceipt, Goto
<1>8. ASSUME Expire(w) PROVE Restoring(call'[w], log)
  BY <1>8, ReturnRestoresNothing DEF Expire
<1>9. ASSUME ReadCheckpointHead(w) PROVE Restoring(call'[w], log)
  <2>1. c.pc = "head"
    BY <1>9 DEF ReadCheckpointHead
  <2>2. CASE Return(w, "error")
    BY <2>2, ReturnRestoresNothing
  <2>3. CASE ~Return(w, "error")
    <3>1. PICK at : call' = [call EXCEPT ![w].pc = "snapshot", ![w].at = at]
      BY <1>9, <2>3, Facts DEF ReadCheckpointHead, Inv, TypeOK
    <3> QED
      BY <1>1, <2>1, <3>1, OthersGoOn
  <2> QED
    BY <2>2, <2>3
<1>10. ASSUME NewCheckpoint(w) PROVE Restoring(call'[w], log)
  BY <1>10, ReturnRestoresNothing DEF NewCheckpoint
<1>11. ASSUME LowerHead(w) PROVE Restoring(call'[w], log)
  BY <1>1, <1>11, OthersGoOn, ReturnRestoresNothing DEF LowerHead
<1>12. ASSUME CompareHashes(w) PROVE Restoring(call'[w], log)
  <2>1. \E r \in {"ErrReplicaAhead", "equivalent", "different"} : Return(w, r)
    BY <1>12 DEF CompareHashes
  <2> QED
    BY <2>1, ReturnRestoresNothing
<1> QED
  BY <1>2, <1>3, <1>4, <1>5, <1>6, <1>7, <1>8, <1>9, <1>10, <1>11, <1>12

(* The steps of a restore up to the replay, and the end of any replay.     *)
LEMMA RestoreSteps ==
  ASSUME Inv, NEW w \in Worker, Restoring(call[w], log),
         VerifyFile(w) \/ ReadTarget(w) \/ IngestStops(w) \/ IngestFails(w)
  PROVE  Restoring(call'[w], log)
<1> DEFINE c == call[w]
<1>1. /\ call \in [Worker -> Calls(chain)] /\ c \in Calls(chain) /\ CallOK(c, log, pushed)
      /\ c.file.events \in Seq(chain) /\ c.to \in Endpoint /\ c.events \in Seq(chain)
      /\ \A n \in Endpoint : log[n] \in Seq(chain)
  BY Facts, CallFields DEF Inv, TypeOK, chain, File
<1>2. ASSUME VerifyFile(w) PROVE Restoring(call'[w], log)
  <2>1. CASE Verified(c.file)
    <3>1. c.pc = "verify" /\ call' = [call EXCEPT ![w].pc = "target"] /\ c.result = "none"
      BY <1>1, <1>2, <2>1 DEF VerifyFile, Goto, CallOK
    <3>2. /\ call'[w].pc = "target" /\ call'[w].op = c.op /\ call'[w].file = c.file
          /\ call'[w].result = "none"
      BY <1>1, <3>1 DEF Calls
    <3> QED
      BY <2>1, <3>2 DEF Restoring
  <2>2. CASE ~Verified(c.file)
    BY <1>2, <2>2, ReturnRestoresNothing DEF VerifyFile
  <2> QED
    BY <2>1, <2>2
<1>3. ASSUME ReadTarget(w) PROVE Restoring(call'[w], log)
  <2>1. CASE log[c.to] = <<>>
    <3>1. /\ c.pc = "target" /\ c.result = "none"
          /\ call' = [call EXCEPT ![w].pc = "ingest", ![w].events = c.file.events]
      BY <1>1, <1>3, <2>1 DEF ReadTarget, Ingest, CallOK
    <3>2. /\ call'[w].pc = "ingest" /\ call'[w].op = c.op /\ call'[w].file = c.file
          /\ call'[w].result = "none" /\ call'[w].events = c.file.events /\ call'[w].to = c.to
      BY <1>1, <3>1 DEF Calls
    <3>3. /\ Len(c.file.events) \in Nat /\ Len(c.file.events) = Len(c.file.events) - 0
          /\ \A i \in 1..Len(c.file.events) : c.file.events[i] = c.file.events[0 + i]
          /\ Begins(c.file.events, 0, log[c.to])
      BY <1>1 DEF Begins
    <3>4. c.op = "restore" => Verified(c.file)
      BY <3>1 DEF Restoring
    <3> QED
      BY <3>2, <3>3, <3>4 DEF Restoring
  <2>2. CASE log[c.to] # <<>>
    BY <1>3, <2>2, ReturnRestoresNothing DEF ReadTarget
  <2> QED
    BY <2>1, <2>2
<1>4. ASSUME NEW r, AfterIngest(w, r), r # "restored", c.pc = "ingest"
      PROVE  Restoring(call'[w], log)
  BY <1>4, OthersGoOn, ReturnRestoresNothing DEF AfterIngest, Goto
<1>5. ASSUME IngestFails(w) PROVE Restoring(call'[w], log)
  BY <1>4, <1>5 DEF IngestFails
<1>6. ASSUME IngestStops(w) PROVE Restoring(call'[w], log)
  <2>1. CASE c.events # <<>> \/ c.op # "restore"
    BY <1>4, <1>6, <2>1 DEF IngestStops
  <2>2. CASE c.events = <<>> /\ c.op = "restore"
    <3>1. c.pc = "ingest" /\ Return(w, "restored")
      BY <1>6, <2>2 DEF IngestStops, AfterIngest
    <3>2. CASE call'[w] = Idle
      BY <3>2, IdleRestoresNothing
    <3>3. CASE /\ call'[w].pc = "done" /\ call'[w].result = "restored"
               /\ call'[w].op = c.op /\ call'[w].to = c.to /\ call'[w].file = c.file
      <4>1. PICK k \in 0..Len(c.file.events) :
              /\ Len(c.events) = Len(c.file.events) - k
              /\ Begins(c.file.events, k, log[c.to])
              /\ k # 0 => c.to # Active
        BY <2>2, <3>1 DEF Restoring
      <4>2. Verified(c.file) /\ c.file.events # <<>>
        BY <2>2, <3>1 DEF Restoring, Verified
      <4>3. k = Len(c.file.events) /\ k # 0
        BY <1>1, <2>2, <4>1, <4>2
      <4> QED
        BY <2>2, <3>3, <4>1, <4>2, <4>3 DEF Restoring
    <3> QED
      BY <3>1, <3>2, <3>3, Returned
  <2> QED
    BY <2>1, <2>2
<1> QED
  BY <1>2, <1>3, <1>5, <1>6

(* An event of a verified file that the target accepts, be it new or known *)
(* there, is at its place in the target.                                   *)
LEMMA IngestRestores ==
  ASSUME Inv, NEW w \in Worker, Restoring(call[w], log), IngestOne(w)
  PROVE  Restoring(call'[w], log')
<1> DEFINE c == call[w]
           e == Head(c.events)
           s == c.file.events
           t == log[c.to]
           h == log[Active]
<1>1. /\ call \in [Worker -> Calls(chain)] /\ c \in Calls(chain) /\ CallOK(c, log, pushed)
      /\ s \in Seq(chain) /\ c.to \in Endpoint /\ c.events \in Seq(chain) /\ Active \in Endpoint
      /\ \A n \in Endpoint : log[n] \in Seq(chain) /\ IsCopy(log[n], log[Active])
      /\ IsLog(h) /\ IsChain(h) /\ Increasing(h) /\ chain = Events(h)
  BY Facts, CallFields DEF Inv, TypeOK, chain, File, Chains
<1>2. /\ c.pc = "ingest" /\ c.events # <<>> /\ c.to # Active
      /\ Succeeds(t, e) /\ IngestReplica(c.to, e) /\ c.result = "none"
      /\ call' = [call EXCEPT ![w].events = Tail(@), ![w].applied = @ \cup {Head(c.events)}]
  BY <1>1 DEF IngestOne, Accepts, CallOK
<1>3. /\ call'[w].pc = "ingest" /\ call'[w].op = c.op /\ call'[w].to = c.to
      /\ call'[w].file = c.file /\ call'[w].events = Tail(c.events) /\ call'[w].result = "none"
  BY <1>1, <1>2 DEF Calls
<1>4. CASE c.op # "restore"
  BY <1>3, <1>4, NotRestoring
<1>5. CASE c.op = "restore"
  <2>1. PICK k \in 0..Len(s) :
          /\ Len(c.events) = Len(s) - k
          /\ \A i \in 1..Len(c.events) : c.events[i] = s[k + i]
          /\ Begins(s, k, t)
    BY <1>2, <1>5 DEF Restoring
  <2>2. /\ Len(c.events) \in Nat \ {0} /\ Len(s) \in Nat /\ e = c.events[1]
        /\ Len(Tail(c.events)) = Len(c.events) - 1
        /\ \A i \in 1..(Len(c.events) - 1) : Tail(c.events)[i] = c.events[i + 1]
    BY <1>1, <1>2, HeadTailProperties
  <2>3. k \in Nat /\ k + 1 \in 1..Len(s) /\ e = s[k + 1]
    <3>1. k \in Nat /\ Len(c.events) \in Nat \ {0} /\ Len(s) \in Nat /\ Len(c.events) = Len(s) - k
      BY <2>1, <2>2
    <3>2. c.events[1] = s[k + 1]
      BY <2>1, <3>1
    <3> HIDE DEF s, e, c
    <3> QED
      BY <2>2, <3>1, <3>2
  <2>4. Verified(c.file) /\ Replays(s)
    BY <1>2, <1>5 DEF Restoring, Verified
  <2>5. IsCopy(s, h)
    BY <1>1, <2>4, VerifiedIsCopy
  <2> HIDE DEF s, h, t, e, c
  <2>6. k + 1 \in DOMAIN h /\ e = h[k + 1] /\ e \in Events(h)
    <3>1. DOMAIN s = 1..Len(s) /\ DOMAIN h = 1..Len(h) /\ Len(h) \in Nat
      BY <1>1 DEF IsLog, h
    <3>2. Len(s) <= Len(h) /\ s[k + 1] = h[k + 1]
      BY <2>3, <2>5, <3>1 DEF IsCopy
    <3> QED
      BY <2>3, <3>1, <3>2 DEF Events
  <2>7. t \in Seq(chain) /\ IsCopy(t, h) /\ Len(t) \in Nat /\ DOMAIN t = 1..Len(t)
    BY <1>1 DEF t, h
  <2>8. Begins(s, k + 1, log'[c.to])
    <3>1. CASE Verdict(t, e) = "ok"
      <4>1. Len(t) < Len(h) /\ e = h[Len(t) + 1]
        BY <1>1, <2>6, <2>7, <3>1, NextOfCopy
      <4>2. Len(t) + 1 \in DOMAIN h
        BY <1>1, <2>7, <4>1 DEF IsLog
      <4>3. Len(t) = k
        <5>1. h[Len(t) + 1] = h[k + 1] /\ IsLog(h) /\ IsChain(h) /\ Increasing(h)
          BY <1>1, <2>6, <4>1 DEF h
        <5>2. Len(t) + 1 = k + 1
          BY <2>6, <4>2, <5>1, ChainOrder
        <5>3. Len(t) \in Nat /\ k \in Nat
          BY <2>3, <2>7
        <5> QED
          BY <5>2, <5>3
      <4>4. log'[c.to] = Append(t, e)
        BY <1>1, <1>2, <3>1, CommitAdds DEF IngestReplica, t
      <4>5. /\ Len(log'[c.to]) = k + 1 /\ log'[c.to][k + 1] = e
            /\ \A i \in 1..k : log'[c.to][i] = t[i]
        BY <1>1, <2>6, <2>7, <4>3, <4>4
      <4> QED
        BY <2>1, <2>3, <4>5 DEF Begins
    <3>2. CASE Verdict(t, e) # "ok"
      <4>1. e \in Events(t)
        BY <1>2, <3>2 DEF Succeeds, Verdict, ValidateNext, t, e, c
      <4>2. PICK j \in DOMAIN t : t[j] = e
        BY <4>1 DEF Events
      <4>3. j \in DOMAIN h /\ h[j] = e
        BY <1>1, <2>7, <4>2 DEF IsCopy, IsLog
      <4>4. j = k + 1
        BY <1>1, <2>6, <4>3, ChainOrder
      <4>5. log'[c.to] = t
        BY <1>2, <3>2 DEF IngestReplica, t, e, c
      <4> QED
        BY <2>1, <2>3, <2>7, <4>2, <4>4, <4>5 DEF Begins
    <3> QED
      BY <3>1, <3>2
  <2>9. /\ k + 1 \in 0..Len(s) /\ Len(Tail(c.events)) = Len(s) - (k + 1)
        /\ \A i \in 1..Len(Tail(c.events)) : Tail(c.events)[i] = s[(k + 1) + i]
    <3>1. k + 1 \in 0..Len(s) /\ Len(Tail(c.events)) = Len(s) - (k + 1)
      BY <2>1, <2>2, <2>3
    <3>2. ASSUME NEW i \in 1..Len(Tail(c.events))
          PROVE  Tail(c.events)[i] = s[(k + 1) + i]
      <4>1. i + 1 \in 1..Len(c.events) /\ i \in 1..(Len(c.events) - 1) /\ k + (i + 1) = (k + 1) + i
        BY <2>2, <2>3, <3>2
      <4> QED
        BY <2>1, <2>2, <4>1
    <3> QED
      BY <3>1, <3>2
  <2>10. c.to # Active
    BY <1>2 DEF c
  <2>11. /\ call'[w].pc = "ingest" /\ call'[w].op = "restore" /\ call'[w].to = c.to
         /\ call'[w].file.events = s /\ Verified(call'[w].file)
         /\ call'[w].events = Tail(c.events) /\ call'[w].result = "none"
    BY <1>3, <1>5, <2>4 DEF c, s
  <2> QED
    BY <2>8, <2>9, <2>10, <2>11 DEF Restoring
<1> QED
  BY <1>4, <1>5

(* Every step keeps what the restores have established.                    *)
LEMMA RestoresStep ==
  ASSUME Inv, Restores, [Next]_vars
  PROVE  Restores'
<1>1. call \in [Worker -> Calls(chain)] /\ \A v \in Worker : call[v] \in Calls(chain)
  BY DEF Inv, TypeOK, chain
<1>2. ASSUME NEW v \in Worker, call'[v] = call[v] PROVE Restoring(call'[v], log')
  BY <1>1, <1>2, LogsGrow, RestoringGrows DEF Restores
<1>3. ASSUME call' = call PROVE Restores'
  BY <1>2, <1>3 DEF Restores
<1>4. ASSUME NEW w \in Worker, Restoring(call'[w], log'), \A v \in Worker \ {w} : call'[v] = call[v]
      PROVE  Restores'
  BY <1>2, <1>4 DEF Restores
<1>5. CASE AppendEvent \/ DamageFile \/ (\E n \in Endpoint : PushMirror(n)) \/ UNCHANGED vars
  BY <1>3, <1>5 DEF AppendEvent, DamageFile, PushMirror, vars
<1>6. ASSUME NEW w \in Worker, QuietStep(w) PROVE Restores'
  <2>1. log' = log /\ \A v \in Worker \ {w} : call'[v] = call[v]
    BY <1>1, <1>6, QuietSteps DEF Quiet, Moves
  <2>2. Restoring(call[w], log)
    BY DEF Restores
  <2>3. Restoring(call'[w], log)
    <3>1. CASE CallDrain(w)
      BY <3>1, BeginsRestore DEF CallDrain
    <3>2. CASE CallReplicate(w)
      <4>1. PICK n \in Endpoint, r \in Replica :
              Begin(w, Call("source head", "replicate", n, r, Genesis, NoFile))
        BY <3>2 DEF CallReplicate
      <4>2. "replicate" # "restore"
        OBVIOUS
      <4> QED
        BY <4>1, <4>2, BeginsRestore
    <3>3. CASE CallWait(w)
      BY <3>3, BeginsRestore DEF CallWait
    <3>4. CASE CallCheckpoint(w)
      BY <3>4, BeginsRestore DEF CallCheckpoint
    <3>5. CASE CallRestore(w)
      BY <3>5, BeginsRestore DEF CallRestore
    <3>6. CASE CallVerify(w)
      <4>1. PICK n \in Endpoint, r \in Replica :
              Begin(w, Call("source head", "verify", n, r, Genesis, NoFile))
        BY <3>6 DEF CallVerify
      <4>2. "verify" # "restore"
        OBVIOUS
      <4> QED
        BY <4>1, <4>2, BeginsRestore
    <3> QED
      BY <1>6, <2>2, <3>1, <3>2, <3>3, <3>4, <3>5, <3>6, OthersRestoreNothing, RestoreSteps
         DEF QuietStep
  <2> QED
    BY <1>4, <2>1, <2>3
<1>7. ASSUME NEW w \in Worker, AckOutbox(w) PROVE Restores'
  <2>1. log' = log /\ Restoring(call'[w], log)
    BY <1>7, OthersRestoreNothing DEF AckOutbox, Restores
  <2>2. \A v \in Worker \ {w} : call'[v] = call[v]
    BY <1>1, <1>7 DEF AckOutbox, Return
  <2> QED
    BY <1>4, <2>1, <2>2
<1>8. ASSUME NEW w \in Worker, IngestOne(w) PROVE Restores'
  <2>1. \A v \in Worker \ {w} : call'[v] = call[v]
    BY <1>1, <1>8 DEF IngestOne
  <2> QED
    BY <1>4, <1>8, <2>1, IngestRestores DEF Restores
<1> QED
  BY <1>5, <1>6, <1>7, <1>8, NextCases

(* A restore that succeeds has replayed the whole of a verified checkpoint *)
(* into a replica, whatever else delivered to that replica in between.     *)
THEOREM RestoreSound == Spec => []RestoredMeansReplayed
<1>1. Init => Restores
  BY IdleRestoresNothing DEF Init, Restores
<1>2. Inv /\ Restores /\ [Next]_vars => Restores'
  BY RestoresStep
<1>3. ASSUME Inv, Restores PROVE RestoredMeansReplayed
  <2> SUFFICES ASSUME NEW w \in Worker, call[w].result = "restored"
               PROVE  /\ call[w].to # Active
                      /\ IsPrefix(call[w].file.events, log[call[w].to])
                      /\ call[w].file.at \in Events(log[call[w].to])
    BY DEF RestoredMeansReplayed
  <2> DEFINE s == call[w].file.events
             t == log[call[w].to]
  <2>1. /\ s \in Seq(chain) /\ t \in Seq(chain) /\ Len(s) \in Nat /\ Len(t) \in Nat
        /\ DOMAIN s = 1..Len(s) /\ DOMAIN t = 1..Len(t)
    BY <1>3, CallFields, Facts DEF File
  <2>2. /\ call[w].to # Active /\ Begins(s, Len(s), t) /\ s # <<>> /\ Last(s) = call[w].file.at
    BY <1>3 DEF Restores, Restoring, Verified
  <2> HIDE DEF s, t
  <2>3. Len(s) <= Len(t) /\ \A i \in 1..Len(s) : t[i] = s[i]
    BY <2>2 DEF Begins
  <2>4. SubSeq(s, 1, Len(s)) = SubSeq(t, 1, Len(s))
    BY <2>1, <2>3
  <2>5. Last(s) \in Events(t)
    <3>1. Len(s) # 0 /\ Len(s) \in 1..Len(s) /\ Len(s) \in DOMAIN t /\ Last(s) = s[Len(s)]
      BY <2>1, <2>2, <2>3 DEF Last
    <3> QED
      BY <2>3, <3>1 DEF Events
  <2> QED
    BY <2>2, <2>3, <2>4, <2>5 DEF IsPrefix, s, t
<1> QED
  BY <1>1, <1>2, <1>3, Invariance, PTL DEF Spec
=============================================================================
