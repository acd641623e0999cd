--------------------------- MODULE Promotion_proof ---------------------------
(***************************************************************************)
(* Proofs about Promotion, for any endpoints, operators, keys and bounds.  *)
(*                                                                         *)
(* Who may extend the chain is written in the chain: an event is appended  *)
(* by the endpoint that its predecessor names, and a log that is never cut *)
(* holds whatever its own endpoint has appended.  So an endpoint whose     *)
(* head names it has the longest log (NamedHasAll), whichever promotions   *)
(* failed on the way and whatever restarts have made of the roles.         *)
(***************************************************************************)
EXTENDS Promotion, JournalChain_proof

-----------------------------------------------------------------------------
(* The inductive invariant *)

Chain == Events(Longest)

\* The endpoint that may append the event after h.
Author(h) == IF h = Genesis THEN First ELSE IF h.to # Nobody THEN h.to ELSE h.by

\* Every log is a copy of a beginning of the longest one.
OneChain ==
    /\ log \in [Endpoint -> Seq(Chain)]
    /\ \E n \in Endpoint : log[n] = Longest
    /\ IsChain(Longest) /\ Increasing(Longest)
    /\ \A n \in Endpoint : IsCopy(log[n], Longest)

\* Events are appended by whom their predecessor names; the first epoch has
\* no checkpoint; a sequence number counts domain events.
Authors ==
    \A e \in Chain :
        /\ EventOK(e) /\ e.seq <= issued + 1
        /\ e.by = Author(e.prev) /\ e.to # e.by
        /\ e.epoch = 1 => e.by = First /\ e.to = Nobody

\* Nobody loses an event it has appended.
OwnEventsKept == \A e \in Chain : e \in Events(log[e.by])

\* No process is ahead of its log's epoch, but for the configured epoch.
EpochsFollow == \A n \in Endpoint : epoch[n] = 1 \/ epoch[n] <= HeadOf(log[n]).epoch

\* An endpoint that can write is the one its head names.
WriterIsNamed == \A n \in Endpoint : CanWrite(n) => Author(HeadOf(log[n])) = n

\* The first endpoint became a replica by a fence only.
FirstWasFenced == role[First] = "replica" => HeadOf(log[First]).epoch >= 2

Keys == {<<"promotion", a, b>> : a \in Endpoint, b \in Endpoint} \cup ExplicitKey \cup {Nobody}

CallsOf(S) ==
    [pc : {"idle", "fence", "catchup", "deliver", "promote"},
     active : Endpoint \cup {Nobody}, candidate : Endpoint \cup {Nobody}, key : Keys,
     checkpoint : S \cup {Genesis}, queue : SUBSET S]

\* A call is between two endpoints; once it is past the fence it holds a
\* checkpoint that names its candidate.
CallOK(c) ==
    /\ c.pc # "idle" => c.active \in Endpoint /\ c.candidate \in Endpoint \ {c.active}
    /\ c.pc \in {"catchup", "deliver", "promote"} =>
          c.checkpoint \in Chain /\ c.checkpoint.to = c.candidate

CallsOK ==
    /\ call \in [Operator -> CallsOf(Chain)]
    /\ \A o \in Operator : CallOK(call[o])

IInv ==
    /\ TypeOK /\ OneChain /\ Authors /\ OwnEventsKept
    /\ EpochsFollow /\ WriterIsNamed /\ FirstWasFenced /\ CallsOK

-----------------------------------------------------------------------------
(* The shape of the logs *)

\* The longest of some logs, as Longest is of the present ones.
LongestOf(L) == CHOOSE l \in {L[n] : n \in Endpoint} : \A n \in Endpoint : Len(L[n]) <= Len(l)

(* Sequences that agree at every place are equal.                          *)
LEMMA SameSequence ==
  ASSUME NEW S, NEW s \in Seq(S), NEW t \in Seq(S), IsCopy(s, t), Len(t) <= Len(s)
  PROVE  s = t
<1>1. Len(s) = Len(t) /\ \A i \in 1..Len(s) : s[i] = t[i]
  BY DEF IsCopy
<1> QED
  BY <1>1, SeqEqual

(* A log that all others are copies of is the longest.                     *)
LEMMA LongestIs ==
  ASSUME NEW L, NEW S, NEW m \in Endpoint,
         \A n \in Endpoint : L[n] \in Seq(S) /\ IsCopy(L[n], L[m])
  PROVE  LongestOf(L) = L[m]
<1>1. L[m] \in {L[n] : n \in Endpoint} /\ \A n \in Endpoint : Len(L[n]) <= Len(L[m])
  BY DEF IsCopy
<1>2. /\ LongestOf(L) \in {L[n] : n \in Endpoint}
      /\ \A n \in Endpoint : Len(L[n]) <= Len(LongestOf(L))
  BY <1>1 DEF LongestOf
<1>3. PICK n \in Endpoint : LongestOf(L) = L[n]
  BY <1>2
<1> QED
  BY <1>2, <1>3, SameSequence

(* Logs are copies of a beginning of the chain, made of its events.        *)
LEMMA Shape ==
  ASSUME IInv
  PROVE  /\ IsLog(Longest) /\ IsChain(Longest) /\ Increasing(Longest)
         /\ \E n \in Endpoint : log[n] = Longest
         /\ \A n \in Endpoint :
               /\ log[n] \in Seq(Chain) /\ IsLog(log[n]) /\ IsCopy(log[n], Longest)
               /\ Events(log[n]) \subseteq Chain
<1>1. \A n \in Endpoint : log[n] \in Seq(Chain) /\ IsLog(log[n])
  BY SequenceIsLog DEF IInv, OneChain
<1>2. \A n \in Endpoint : Events(log[n]) \subseteq Chain
  BY <1>1 DEF Events
<1> QED
  BY <1>1, <1>2 DEF IInv, OneChain

(* Where an endpoint stands: its head is the event of the chain at its     *)
(* length, and every event it holds is at its own place.                   *)
LEMMA Standing ==
  ASSUME IInv, NEW n \in Endpoint
  PROVE  /\ Len(log[n]) \in Nat /\ Len(Longest) \in Nat /\ Len(log[n]) <= Len(Longest)
         /\ DOMAIN log[n] = 1..Len(log[n]) /\ DOMAIN Longest = 1..Len(Longest)
         /\ \A i \in 1..Len(log[n]) : log[n][i] = Longest[i]
         /\ log[n] = <<>> => Len(log[n]) = 0 /\ HeadOf(log[n]) = Genesis
         /\ log[n] # <<>> =>
               /\ Len(log[n]) \in DOMAIN Longest
               /\ HeadOf(log[n]) = Longest[Len(log[n])]
               /\ HeadOf(log[n]) \in Chain /\ HeadOf(log[n]) # Genesis
<1>1. /\ Len(log[n]) \in Nat /\ Len(Longest) \in Nat /\ Len(log[n]) <= Len(Longest)
      /\ DOMAIN log[n] = 1..Len(log[n]) /\ DOMAIN Longest = 1..Len(Longest)
      /\ \A i \in 1..Len(log[n]) : log[n][i] = Longest[i]
  BY Shape DEF IsLog, IsCopy
<1>2. log[n] = <<>> => Len(log[n]) = 0 /\ HeadOf(log[n]) = Genesis
  BY DEF HeadOf
<1>3. ASSUME log[n] # <<>>
      PROVE  /\ Len(log[n]) \in DOMAIN Longest
             /\ HeadOf(log[n]) = Longest[Len(log[n])]
             /\ HeadOf(log[n]) \in Chain /\ HeadOf(log[n]) # Genesis
  <2>1. Len(log[n]) # 0
    BY <1>3, Shape
  <2>2. Len(log[n]) \in DOMAIN Longest /\ HeadOf(log[n]) = Longest[Len(log[n])]
    BY <1>1, <1>3, <2>1 DEF HeadOf
  <2>3. Longest[Len(log[n])] # Genesis
    BY <2>2, Shape, ChainOrder
  <2> QED
    BY <2>2, <2>3 DEF Chain, Events
<1> QED
  BY <1>1, <1>2, <1>3

(* An endpoint whose head names it has the whole chain: the next event     *)
(* would be its own, and it keeps its own events.                          *)
LEMMA NamedHasAll ==
  ASSUME IInv, NEW n \in Endpoint, Author(HeadOf(log[n])) = n
  PROVE  log[n] = Longest
<1> DEFINE k == Len(log[n]) + 1
<1>1. SUFFICES ASSUME Len(log[n]) < Len(Longest) PROVE FALSE
  BY Standing, Shape, SameSequence
<1>2. k \in DOMAIN Longest /\ k \in Nat
  BY <1>1, Standing
<1>3. Longest[k].prev = HeadOf(log[n])
  <2>1. CASE log[n] = <<>>
    BY <2>1, <1>2, Shape, Standing DEF IsChain
  <2>2. CASE log[n] # <<>>
    <3>1. k # 1 /\ k - 1 = Len(log[n])
      BY <2>2, Standing
    <3> QED
      BY <3>1, <2>2, <1>2, Shape, Standing DEF IsChain
  <2> QED
    BY <2>1, <2>2
<1>4. Longest[k] \in Chain /\ Longest[k].by = n
  BY <1>2, <1>3 DEF Chain, Events, IInv, Authors
<1>5. PICK i \in DOMAIN log[n] : Longest[k] = log[n][i]
  BY <1>4 DEF IInv, OwnEventsKept, Events
<1>6. i \in DOMAIN Longest /\ i < k /\ Longest[k] = Longest[i]
  BY <1>5, <1>2, Standing
<1> QED
  BY <1>2, <1>6, Shape, ChainOrder

(* A log does not hold the event that would follow its head.               *)
LEMMA SuccessorIsNew ==
  ASSUME IInv, NEW n \in Endpoint, NEW e \in Events(log[n])
  PROVE  e.prev # HeadOf(log[n])
<1>1. PICK i \in DOMAIN log[n] : e = log[n][i]
  BY DEF Events
<1>2. /\ i \in DOMAIN Longest /\ e = Longest[i] /\ i \in Nat /\ log[n] # <<>>
      /\ i <= Len(log[n]) /\ Len(log[n]) \in DOMAIN Longest
      /\ HeadOf(log[n]) = Longest[Len(log[n])] /\ HeadOf(log[n]) # Genesis
  BY <1>1, Standing
<1>3. CASE i = 1
  BY <1>2, <1>3, Shape DEF IsChain
<1>4. CASE i # 1
  <2>1. i - 1 \in DOMAIN Longest /\ e.prev = Longest[i - 1]
    BY <1>2, <1>4, Shape, Standing DEF IsChain
  <2> QED
    BY <2>1, <1>2, Shape, ChainOrder
<1> QED
  BY <1>3, <1>4

-----------------------------------------------------------------------------
(* How a log grows *)

(* A replicated event that is accepted is the next one of the chain.       *)
LEMMA Delivered ==
  ASSUME IInv, NEW n \in Endpoint, NEW e \in Chain, Verdict(log[n], e) = "ok",
         log' = [log EXCEPT ![n] = Append(@, e)]
  PROVE  Longest' = Longest /\ OneChain' /\ OwnEventsKept'
<1>1. /\ Len(log[n]) < Len(Longest)
      /\ IsCopy(Append(log[n], e), Longest)
  BY Shape, NextOfCopy DEF Chain
<1>2. PICK m \in Endpoint : log[m] = Longest
  BY Shape
<1>3. /\ log' \in [Endpoint -> Seq(Chain)]
      /\ log'[n] = Append(log[n], e) /\ \A k \in Endpoint \ {n} : log'[k] = log[k]
  BY DEF IInv, OneChain
<1>4. m # n /\ Len(Longest) \in Nat
  BY <1>1, <1>2, Standing
<1>5. log'[m] = Longest
  BY <1>2, <1>3, <1>4
<1>6. \A k \in Endpoint : IsCopy(log'[k], Longest)
  BY <1>1, <1>3, Shape
<1>7. Longest' = Longest
  <2>1. LongestOf(log') = log'[m]
    BY <1>3, <1>5, <1>6, LongestIs
  <2> QED
    BY <2>1, <1>5 DEF Longest, LongestOf
<1>8. Chain' = Chain
  BY <1>7 DEF Chain
<1>9. OneChain'
  BY <1>3, <1>5, <1>6, <1>7, <1>8, Shape DEF OneChain
<1>10. OwnEventsKept'
  <2> SUFFICES ASSUME NEW f \in Chain PROVE f \in Events(log'[f.by])
    BY <1>8 DEF OwnEventsKept
  <2>1. f \in Events(log[f.by]) /\ f.by \in Endpoint
    BY DEF IInv, OwnEventsKept, Authors, EventOK
  <2>2. Events(log[n]) \subseteq Events(log'[n])
    BY <1>3, Shape, AppendLog
  <2> QED
    BY <2>1, <2>2, <1>3
<1> QED
  BY <1>7, <1>9, <1>10

(* An event of the endpoint that the chain names extends the chain.        *)
LEMMA Written ==
  ASSUME IInv, NEW n \in Endpoint, Author(HeadOf(log[n])) = n,
         NEW e, e.epoch \in Nat, e.seq \in Nat, e.by = n, Verdict(log[n], e) = "ok",
         log' = [log EXCEPT ![n] = Append(@, e)]
  PROVE  /\ Longest' = Append(Longest, e) /\ Chain' = Chain \cup {e}
         /\ e.prev = HeadOf(log[n])
         /\ OneChain' /\ OwnEventsKept'
<1> DEFINE new == Append(Longest, e)
           S == Chain \cup {e}
<1>1. log[n] = Longest
  BY NamedHasAll
<1>2. e.prev = HeadOf(log[n])
  BY AcceptedEvent DEF ValidateNext, IsFirst
<1>3. /\ IsLog(new) /\ IsChain(new) /\ Increasing(new) /\ Events(new) = S
      /\ Len(Longest) \in Nat /\ DOMAIN Longest = 1..Len(Longest)
      /\ \A i \in DOMAIN Longest : new[i] = Longest[i]
      /\ DOMAIN new = 1..(Len(Longest) + 1)
  BY <1>1, Shape, AppendLog, ChainAppend DEF Chain
<1>4. new \in Seq(S) /\ Len(new) = Len(Longest) + 1
  BY <1>3 DEF IsLog
<1>5. Seq(Chain) \subseteq Seq(S)
  BY SeqMonotonic
<1>6. /\ log' \in [Endpoint -> Seq(S)]
      /\ log'[n] = new /\ \A k \in Endpoint \ {n} : log'[k] = log[k]
  BY <1>1, <1>4, <1>5 DEF IInv, OneChain
<1> HIDE DEF new
<1>7. \A k \in Endpoint : IsCopy(log'[k], new)
  <2>1. IsCopy(new, new)
    BY <1>4 DEF IsCopy
  <2>2. ASSUME NEW k \in Endpoint \ {n} PROVE IsCopy(log[k], new)
    <3>1. /\ Len(log[k]) \in Nat /\ Len(log[k]) <= Len(Longest)
          /\ DOMAIN log[k] = 1..Len(log[k])
          /\ \A i \in 1..Len(log[k]) : log[k][i] = Longest[i]
      BY Standing
    <3> QED
      BY <3>1, <1>3, <1>4 DEF IsCopy
  <2> QED
    BY <2>1, <2>2, <1>6
<1>8. Longest' = new
  <2>1. LongestOf(log') = log'[n]
    BY <1>6, <1>7, LongestIs
  <2> QED
    BY <2>1, <1>6 DEF Longest, LongestOf
<1>9. Chain' = S
  BY <1>3, <1>8 DEF Chain
<1>10. OneChain'
  BY <1>3, <1>6, <1>7, <1>8, <1>9 DEF OneChain
<1>11. OwnEventsKept'
  <2> SUFFICES ASSUME NEW f \in S PROVE f \in Events(log'[f.by])
    BY <1>9 DEF OwnEventsKept
  <2>1. Events(log'[n]) = S
    BY <1>3, <1>6
  <2>2. CASE f.by = n
    BY <2>1, <2>2
  <2>3. CASE f.by # n
    <3>1. f \in Events(log[f.by]) /\ f.by \in Endpoint
      BY <2>3 DEF IInv, OwnEventsKept, Authors, EventOK
    <3> QED
      BY <3>1, <2>3, <1>6
  <2> QED
    BY <2>2, <2>3
<1> QED
  BY <1>2, <1>8, <1>9, <1>10, <1>11 DEF new

(* The head moves to the appended event, and no epoch goes back.           *)
LEMMA HeadMoves ==
  ASSUME IInv, NEW n \in Endpoint, NEW e, Verdict(log[n], e) = "ok",
         e.epoch \in Nat \ {0},
         log' = [log EXCEPT ![n] = Append(@, e)]
  PROVE  /\ HeadOf(log'[n]) = e /\ \A k \in Endpoint \ {n} : log'[k] = log[k]
         /\ HeadOf(log[n]).epoch \in Nat /\ HeadOf(log[n]).epoch <= e.epoch
         /\ e # Genesis /\ log'[n] # <<>>
<1>1. log'[n] = Append(log[n], e) /\ \A k \in Endpoint \ {n} : log'[k] = log[k]
  BY DEF IInv, OneChain
<1>2. HeadOf(log'[n]) = e
  BY <1>1, Shape, AppendLog
<1>3. e # Genesis /\ Genesis.epoch = 0
  BY DEF Genesis
<1>4. CASE HeadOf(log[n]) = Genesis
  BY <1>1, <1>2, <1>3, <1>4 DEF HeadOf
<1>5. CASE HeadOf(log[n]) # Genesis
  <2>1. HeadOf(log[n]).epoch \in Nat
    BY <1>5, Standing DEF IInv, Authors, EventOK
  <2>2. ~(e.epoch < HeadOf(log[n]).epoch)
    BY <1>5, AcceptedEvent DEF ValidateNext
  <2> QED
    BY <1>1, <1>2, <1>3, <2>1, <2>2 DEF HeadOf
<1> QED
  BY <1>4, <1>5

-----------------------------------------------------------------------------
(* The parts of the invariant, after a step *)

(* What the other parts say of types.                                      *)
LEMMA Typed ==
  ASSUME OneChain', Authors', CallsOK',
         role' \in [Endpoint -> {"active", "replica"}], epoch' \in [Endpoint -> 1..MaxEpoch],
         issued' \in 0..MaxCommands, restarts' \in 0..MaxRestarts
  PROVE  TypeOK'
<1>1. ASSUME NEW n \in Endpoint, NEW e \in Events(log'[n]) PROVE EventOK(e)
  <2>1. e \in Chain'
    BY DEF OneChain, Events
  <2> QED
    BY <2>1 DEF Authors
<1>2. ASSUME NEW o \in Operator
      PROVE  /\ call'[o].pc \in {"idle", "fence", "catchup", "deliver", "promote"}
             /\ call'[o].pc # "idle" => call'[o].active \in Endpoint /\ call'[o].candidate \in Endpoint
             /\ \A e \in call'[o].queue : EventOK(e)
  <2>1. call'[o] \in CallsOf(Chain') /\ CallOK(call[o])'
    BY DEF CallsOK
  <2>2. call'[o].pc # "idle" => call'[o].active \in Endpoint /\ call'[o].candidate \in Endpoint
    BY <2>1 DEF CallOK
  <2>3. call'[o].queue \subseteq Chain' /\ call'[o].pc \in {"idle", "fence", "catchup", "deliver", "promote"}
    BY <2>1 DEF CallsOf
  <2> QED
    BY <2>2, <2>3 DEF Authors
<1> QED
  BY <1>1, <1>2 DEF TypeOK, At, EventOK

(* A step that appends nothing leaves the chain as it is.                  *)
LEMMA SameLogs ==
  ASSUME IInv, UNCHANGED <<log, issued>>
  PROVE  Longest' = Longest /\ Chain' = Chain /\ OneChain' /\ Authors' /\ OwnEventsKept'
<1>1. Longest' = Longest
  BY DEF Longest
<1>2. Chain' = Chain
  BY <1>1 DEF Chain
<1> QED
  BY <1>1, <1>2 DEF IInv, OneChain, Authors, OwnEventsKept

(* The calls, when the chain has grown and one of them has moved.          *)
LEMMA CallMoves ==
  ASSUME IInv, Chain \subseteq Chain', NEW o \in Operator,
         NEW x \in CallsOf(Chain'), CallOK(x)', call' = [call EXCEPT ![o] = x]
  PROVE  CallsOK'
<1>1. CallsOf(Chain) \subseteq CallsOf(Chain')
  BY DEF CallsOf
<1>2. call' \in [Operator -> CallsOf(Chain')]
  BY <1>1 DEF IInv, CallsOK
<1>3. ASSUME NEW p \in Operator PROVE CallOK(call[p])'
  <2>1. CASE p = o
    BY <2>1 DEF IInv, CallsOK
  <2>2. CASE p # o
    <3>1. call'[p] = call[p] /\ CallOK(call[p])
      BY <2>2 DEF IInv, CallsOK
    <3> QED
      BY <3>1 DEF CallOK
  <2> QED
    BY <2>1, <2>2
<1> QED
  BY <1>2, <1>3 DEF CallsOK

(* The calls, when the chain has grown beside them.                        *)
LEMMA CallsStay ==
  ASSUME IInv, Chain \subseteq Chain', UNCHANGED call
  PROVE  CallsOK'
<1>1. CallsOf(Chain) \subseteq CallsOf(Chain')
  BY DEF CallsOf
<1>2. \A p \in Operator : CallOK(call[p]) => CallOK(call[p])'
  BY DEF CallOK
<1> QED
  BY <1>1, <1>2 DEF IInv, CallsOK

(* A call that ends.                                                       *)
LEMMA Returns ==
  ASSUME NEW S
  PROVE  Idle \in CallsOf(S) /\ CallOK(Idle) /\ CallOK(Idle)'
<1>1. Nobody \in Keys
  BY DEF Keys
<1> QED
  BY <1>1 DEF Idle, CallsOf, CallOK

(* A step of a call that touches no endpoint.                              *)
LEMMA CallOnly ==
  ASSUME IInv, UNCHANGED <<endpointVars, boundVars>>,
         NEW o \in Operator, NEW x \in CallsOf(Chain), CallOK(x), call' = [call EXCEPT ![o] = x]
  PROVE  IInv'
<1>1. UNCHANGED <<role, epoch, log, issued, restarts>>
  BY DEF endpointVars, boundVars
<1>2. Longest' = Longest /\ Chain' = Chain /\ OneChain' /\ Authors' /\ OwnEventsKept'
  BY <1>1, SameLogs
<1>3. CallOK(x)'
  BY <1>2 DEF CallOK
<1>4. CallsOK'
  BY <1>2, <1>3, CallMoves
<1>5. TypeOK'
  BY <1>1, <1>2, <1>4, Typed DEF IInv, TypeOK
<1>6. EpochsFollow' /\ WriterIsNamed' /\ FirstWasFenced'
  BY <1>1 DEF IInv, EpochsFollow, WriterIsNamed, FirstWasFenced, CanWrite
<1> QED
  BY <1>2, <1>4, <1>5, <1>6 DEF IInv

-----------------------------------------------------------------------------
(* The steps of the endpoints *)

(* A replica that takes an event of the chain.                             *)
LEMMA IngestKeeps ==
  ASSUME IInv, NEW n \in Endpoint, NEW e \in Chain, Ingest(n, e),
         UNCHANGED <<role, epoch, issued>>
  PROVE  /\ Longest' = Longest /\ Chain' = Chain /\ OneChain' /\ Authors' /\ OwnEventsKept'
         /\ EpochsFollow' /\ WriterIsNamed' /\ FirstWasFenced'
<1>1. CASE Verdict(log[n], e) # "ok"
  <2>1. log' = log
    <3>1. log' = [log EXCEPT ![n] = log[n]]
      BY <1>1 DEF Ingest, AppendData
    <3> QED
      BY <3>1 DEF IInv, OneChain
  <2>2. Longest' = Longest /\ Chain' = Chain /\ OneChain' /\ Authors' /\ OwnEventsKept'
    BY <2>1, SameLogs
  <2> QED
    BY <2>1, <2>2 DEF IInv, EpochsFollow, WriterIsNamed, FirstWasFenced, CanWrite
<1>2. CASE Verdict(log[n], e) = "ok"
  <2>1. log' = [log EXCEPT ![n] = Append(@, e)] /\ role[n] = "replica"
    BY <1>2 DEF Ingest, AppendData
  <2>2. Longest' = Longest /\ OneChain' /\ OwnEventsKept'
    BY <1>2, <2>1, Delivered
  <2>3. Chain' = Chain
    BY <2>2 DEF Chain
  <2>4. Authors'
    BY <2>3 DEF IInv, Authors
  <2>5. /\ HeadOf(log'[n]) = e /\ \A k \in Endpoint \ {n} : log'[k] = log[k]
        /\ e.epoch \in Nat /\ HeadOf(log[n]).epoch \in Nat /\ HeadOf(log[n]).epoch <= e.epoch
    <3>1. e.epoch \in Nat \ {0}
      BY DEF IInv, Authors, EventOK
    <3> QED
      BY <1>2, <2>1, <3>1, HeadMoves
  <2>6. EpochsFollow'
    <3>1. epoch[n] \in Nat
      BY DEF IInv, TypeOK
    <3> QED
      BY <2>5, <3>1 DEF IInv, EpochsFollow
  <2>7. WriterIsNamed'
    BY <2>1, <2>5 DEF IInv, WriterIsNamed, CanWrite
  <2>8. FirstWasFenced'
    BY <2>5, TopologyAssumption DEF IInv, FirstWasFenced
  <2> QED
    BY <2>2, <2>3, <2>4, <2>6, <2>7, <2>8
<1> QED
  BY <1>1, <1>2

(* Deliver.                                                                *)
LEMMA DeliverKeepsInv ==
  ASSUME IInv, NEW n \in Endpoint, Deliver(n)
  PROVE  IInv'
<1>1. UNCHANGED <<role, epoch, call, issued, restarts>>
  BY DEF Deliver, boundVars
<1>2. PICK m \in Endpoint : \E f \in Events(log[m]) : Ingest(n, f)
  BY DEF Deliver
<1> PICK e \in Events(log[m]) : Ingest(n, e)
  BY <1>2
<1>3. e \in Chain
  BY Shape
<1>4. /\ Chain' = Chain /\ OneChain' /\ Authors' /\ OwnEventsKept'
      /\ EpochsFollow' /\ WriterIsNamed' /\ FirstWasFenced'
  BY <1>1, <1>3, IngestKeeps
<1>5. CallsOK'
  BY <1>1, <1>4, CallsStay
<1>6. TypeOK'
  BY <1>1, <1>4, <1>5, Typed DEF IInv, TypeOK
<1> QED
  BY <1>4, <1>5, <1>6 DEF IInv

(* An endpoint whose own append is accepted can write.                     *)
LEMMA AcceptedCanWrite ==
  ASSUME IInv, NEW n \in Endpoint, role[n] = "active",
         NEW e, e.epoch = epoch[n] \/ (e.epoch = epoch[n] + 1 /\ e.seq = 1),
         Verdict(log[n], e) = "ok"
  PROVE  CanWrite(n) /\ Author(HeadOf(log[n])) = n /\ (log[n] = <<>> => e.epoch = 1)
<1>1. epoch[n] \in Nat \ {0}
  BY DEF IInv, TypeOK
<1>2. CASE log[n] = <<>>
  <2>1. HeadOf(log[n]) = Genesis /\ IsFirst(e)
    BY <1>2, AcceptedEvent, Standing DEF ValidateNext
  <2>2. CanWrite(n)
    BY <2>1, <1>1 DEF CanWrite, Genesis
  <2> QED
    BY <2>1, <2>2 DEF IInv, WriterIsNamed, IsFirst
<1>3. CASE log[n] # <<>>
  <2>1. /\ HeadOf(log[n]) # Genesis
        /\ HeadOf(log[n]).epoch \in Nat /\ HeadOf(log[n]).seq \in Nat \ {0}
    BY <1>3, Standing DEF IInv, Authors, EventOK
  <2>2. Contiguous(HeadOf(log[n]), e)
    BY <2>1, AcceptedEvent DEF ValidateNext
  <2>3. epoch[n] >= HeadOf(log[n]).epoch
    BY <2>1, <2>2, <1>1 DEF Contiguous
  <2>4. CanWrite(n)
    BY <2>3 DEF CanWrite
  <2> QED
    BY <1>3, <2>4 DEF IInv, WriterIsNamed
<1> QED
  BY <1>2, <1>3

(* AppendEvent.                                                            *)
LEMMA AppendEventKeepsInv ==
  ASSUME IInv, NEW n \in Endpoint, AppendEvent(n)
  PROVE  IInv'
<1> DEFINE head == HeadOf(log[n])
<1> PICK e : e = DomainEvent(n)
  OBVIOUS
<1>1. /\ UNCHANGED <<role, epoch, call, restarts>> /\ issued' = issued + 1 /\ issued < MaxCommands
      /\ role[n] = "active" /\ Verdict(log[n], e) = "ok"
      /\ log' = [log EXCEPT ![n] = Append(@, e)]
  BY DEF AppendEvent
<1>2. /\ e.epoch = epoch[n] /\ e.by = n /\ e.to = Nobody /\ e.prev = head
      /\ e.seq = IF head.epoch = epoch[n] THEN head.seq + 1 ELSE 1
  BY DEF DomainEvent
<1>3. issued \in Nat /\ MaxCommands \in Nat /\ epoch[n] \in 1..MaxEpoch
  BY TopologyAssumption DEF IInv, TypeOK
<1>4. e.seq \in 1..(issued' + 1)
  <2>1. head # Genesis => head.seq \in 1..(issued + 1)
    BY Standing DEF IInv, Authors, EventOK
  <2>2. head = Genesis => head.epoch = 0
    BY DEF Genesis
  <2> QED
    BY <2>1, <2>2, <1>1, <1>2, <1>3
<1>5. CanWrite(n) /\ Author(head) = n
  BY <1>1, <1>2, AcceptedCanWrite
<1>5a. e.epoch \in Nat \ {0} /\ e.seq \in Nat
  BY <1>1, <1>2, <1>3, <1>4
<1>6. Longest' = Append(Longest, e) /\ Chain' = Chain \cup {e} /\ OneChain' /\ OwnEventsKept'
  BY <1>1, <1>2, <1>5, <1>5a, Written
<1>7. Authors'
  <2>1. /\ EventOK(e) /\ e.seq <= issued' + 1 /\ e.by = Author(e.prev) /\ e.to # e.by
    BY <1>1, <1>2, <1>3, <1>4, <1>5, TopologyAssumption DEF EventOK
  <2>2. e.epoch = 1 => e.by = First /\ e.to = Nobody
    <3>1. CASE head = Genesis
      BY <3>1, <1>2, <1>5 DEF Author
    <3>2. CASE head # Genesis
      <4>1. head \in Chain
        BY <3>2, Standing
      <4>2. head.epoch \in Nat \ {0} /\ head.epoch <= epoch[n]
        BY <4>1, <1>5 DEF CanWrite, IInv, Authors, EventOK
      <4>3. e.epoch = 1 => head.by = First /\ head.to = Nobody
        BY <4>1, <4>2, <1>2, <1>3 DEF IInv, Authors
      <4> QED
        BY <4>3, <3>2, <1>2, <1>5 DEF Author
    <3> QED
      BY <3>1, <3>2
  <2>3. \A f \in Chain : f.seq \in Nat /\ f.seq <= issued' + 1
    BY <1>1, <1>3 DEF IInv, Authors, EventOK
  <2> QED
    BY <2>1, <2>2, <2>3, <1>6 DEF IInv, Authors
<1>8. /\ HeadOf(log'[n]) = e /\ \A k \in Endpoint \ {n} : log'[k] = log[k]
      /\ head.epoch \in Nat /\ head.epoch <= e.epoch /\ e # Genesis
  BY <1>1, <1>5a, HeadMoves
<1>9. EpochsFollow'
  BY <1>1, <1>2, <1>3, <1>8 DEF IInv, EpochsFollow
<1>10. WriterIsNamed'
  <2>1. Author(e) = n
    BY <1>2, <1>8 DEF Author
  <2> QED
    BY <2>1, <1>1, <1>8 DEF IInv, WriterIsNamed, CanWrite
<1>11. FirstWasFenced'
  BY <1>1, <1>8, TopologyAssumption DEF IInv, FirstWasFenced
<1>12. CallsOK'
  BY <1>1, <1>6, CallsStay
<1>13. TypeOK'
  BY <1>1, <1>3, <1>6, <1>7, <1>12, Typed DEF IInv, TypeOK
<1> QED
  BY <1>6, <1>7, <1>9, <1>10, <1>11, <1>12, <1>13 DEF IInv

(* Restart: only the first endpoint comes back active, and it can write    *)
(* only while the chain is in its first epoch.                             *)
LEMMA RestartKeepsInv ==
  ASSUME IInv, NEW n \in Endpoint, Restart(n)
  PROVE  IInv'
<1>1. /\ UNCHANGED <<log, call, issued>>
      /\ role' = [role EXCEPT ![n] = ConfiguredRole(n)] /\ epoch' = [epoch EXCEPT ![n] = 1]
      /\ restarts' = restarts + 1 /\ restarts < MaxRestarts
  BY DEF Restart
<1>2. Longest' = Longest /\ Chain' = Chain /\ OneChain' /\ Authors' /\ OwnEventsKept'
  BY <1>1, SameLogs
<1>3. CallsOK'
  BY <1>1, <1>2, CallsStay
<1>4. /\ role' \in [Endpoint -> {"active", "replica"}] /\ epoch' \in [Endpoint -> 1..MaxEpoch]
      /\ restarts' \in 0..MaxRestarts
  <2>1. ConfiguredRole(n) \in {"active", "replica"}
    BY DEF ConfiguredRole
  <2>2. 1 \in 1..MaxEpoch
    <3>1. epoch[n] \in 1..MaxEpoch /\ MaxEpoch \in Nat
      BY TopologyAssumption DEF IInv, TypeOK
    <3> QED
      BY <3>1
  <2> QED
    BY <1>1, <2>1, <2>2, TopologyAssumption DEF IInv, TypeOK
<1>5. TypeOK'
  BY <1>1, <1>2, <1>3, <1>4, Typed DEF IInv, TypeOK
<1>6. role'[n] = ConfiguredRole(n) /\ epoch'[n] = 1
      /\ \A k \in Endpoint \ {n} : role'[k] = role[k] /\ epoch'[k] = epoch[k]
  BY <1>1 DEF IInv, TypeOK
<1>7. EpochsFollow'
  BY <1>1, <1>6 DEF IInv, EpochsFollow
<1>8. WriterIsNamed'
  <2>1. ASSUME n = First, HeadOf(log[n]).epoch <= 1 PROVE Author(HeadOf(log[n])) = n
    <3>1. CASE HeadOf(log[n]) = Genesis
      BY <3>1, <2>1 DEF Author
    <3>2. CASE HeadOf(log[n]) # Genesis
      <4>1. HeadOf(log[n]) \in Chain
        BY <3>2, Standing
      <4>2. HeadOf(log[n]).epoch = 1
        BY <4>1, <2>1 DEF IInv, Authors, EventOK
      <4>3. HeadOf(log[n]).by = First /\ HeadOf(log[n]).to = Nobody
        BY <4>1, <4>2 DEF IInv, Authors
      <4> QED
        BY <4>3, <3>2, <2>1 DEF Author
    <3> QED
      BY <3>1, <3>2
  <2>2. HeadOf(log[n]).epoch \in Nat
    BY Standing DEF IInv, Authors, EventOK, Genesis
  <2>3. CanWrite(n)' => n = First /\ HeadOf(log[n]).epoch <= 1
    BY <1>1, <1>6, <2>2 DEF CanWrite, ConfiguredRole
  <2> QED
    BY <2>1, <2>3, <1>1, <1>6 DEF IInv, WriterIsNamed, CanWrite
<1>9. FirstWasFenced'
  BY <1>1, <1>6, TopologyAssumption DEF IInv, FirstWasFenced, ConfiguredRole
<1> QED
  BY <1>2, <1>3, <1>5, <1>7, <1>8, <1>9 DEF IInv

-----------------------------------------------------------------------------
(* The steps of Promote *)

(* What the invariant says of a call.                                      *)
LEMMA CallFacts ==
  ASSUME IInv, NEW o \in Operator
  PROVE  /\ call[o] \in CallsOf(Chain) /\ CallOK(call[o])
         /\ call[o].queue \subseteq Chain /\ call[o].checkpoint \in Chain \cup {Genesis}
         /\ call \in [Operator -> CallsOf(Chain)]
  BY DEF IInv, CallsOK, CallsOf

(* The steps of a call that leave every endpoint alone.                    *)
LEMMA CallOnlySteps ==
  ASSUME IInv, NEW o \in Operator,
         PromoteBegin(o) \/ FenceResumed(o) \/ CatchUp(o) \/ CaughtUp(o) \/ PromoteFails(o)
  PROVE  IInv'
<1> DEFINE c == call[o]
<1>1. c \in CallsOf(Chain) /\ CallOK(c) /\ call \in [Operator -> CallsOf(Chain)]
  BY CallFacts
<1>2. UNCHANGED <<endpointVars, boundVars>>
  BY DEF PromoteBegin, FenceResumed, CatchUp, CaughtUp, PromoteFails
<1>3. ASSUME Return(o) PROVE IInv'
  BY <1>2, <1>3, Returns, CallOnly DEF Return
<1>4. CASE PromoteBegin(o)
  <2>1. PICK a \in Endpoint : \E b \in Endpoint \ {a} : \E k \in KeysFor(a, b) :
           call' = [call EXCEPT ![o] = [Idle EXCEPT !.pc = "fence", !.active = a,
                                                    !.candidate = b, !.key = k]]
    BY <1>4 DEF PromoteBegin
  <2>2. PICK b \in Endpoint \ {a} : \E k \in KeysFor(a, b) :
           call' = [call EXCEPT ![o] = [Idle EXCEPT !.pc = "fence", !.active = a,
                                                    !.candidate = b, !.key = k]]
    BY <2>1
  <2>3. PICK k \in KeysFor(a, b) :
           call' = [call EXCEPT ![o] = [Idle EXCEPT !.pc = "fence", !.active = a,
                                                    !.candidate = b, !.key = k]]
    BY <2>2
  <2> DEFINE x == [Idle EXCEPT !.pc = "fence", !.active = a, !.candidate = b, !.key = k]
  <2>4. k \in Keys
    BY DEF KeysFor, Keys
  <2>5. x \in CallsOf(Chain) /\ CallOK(x)
    BY <2>4 DEF Idle, CallsOf, CallOK
  <2> QED
    BY <1>2, <2>3, <2>5, CallOnly
<1>5. CASE FenceResumed(o)
  <2> DEFINE head == HeadOf(log[c.active])
             x == [c EXCEPT !.pc = "catchup", !.checkpoint = head]
  <2>1. CASE ~FencedFor(c, head)
    BY <2>1, <1>3, <1>5 DEF FenceResumed
  <2>2. CASE FencedFor(c, head)
    <3>1. c.pc = "fence" /\ Fenced(o, head)
      BY <2>2, <1>5 DEF FenceResumed, At
    <3>2. c.active \in Endpoint /\ c.candidate \in Endpoint \ {c.active}
      BY <3>1, <1>1 DEF CallOK
    <3>3. head \in Chain /\ head.to = c.candidate
      BY <2>2, <3>2, Standing DEF FencedFor
    <3>4. call' = [call EXCEPT ![o] = x]
      BY <3>1, <1>1 DEF Fenced
    <3> HIDE DEF head
    <3>5. x \in CallsOf(Chain) /\ CallOK(x)
      BY <1>1, <3>2, <3>3 DEF CallsOf, CallOK
    <3> QED
      BY <1>2, <3>4, <3>5, CallOnly
  <2> QED
    BY <2>1, <2>2
<1>6. CASE CatchUp(o)
  <2> DEFINE source == log[c.active]
             head == HeadOf(log[c.candidate])
             x == [c EXCEPT !.pc = "promote"]
             y == [c EXCEPT !.pc = "deliver", !.queue = After(source, head)]
  <2>1. /\ c.pc = "catchup"
        /\ \/ call' = [call EXCEPT ![o].pc = "promote"]
           \/ Return(o)
           \/ call' = [call EXCEPT ![o].pc = "deliver", ![o].queue = After(source, head)]
    BY <1>6 DEF CatchUp, At
  <2>2. CASE call' = [call EXCEPT ![o].pc = "promote"]
    <3>1. call' = [call EXCEPT ![o] = x]
      BY <2>2, <1>1
    <3>2. x \in CallsOf(Chain) /\ CallOK(x)
      BY <1>1, <2>1 DEF CallsOf, CallOK
    <3> QED
      BY <1>2, <3>1, <3>2, CallOnly
  <2>3. CASE call' = [call EXCEPT ![o].pc = "deliver", ![o].queue = After(source, head)]
    <3>1. call' = [call EXCEPT ![o] = y]
      BY <2>3, <1>1
    <3>2. c.active \in Endpoint
      BY <2>1, <1>1 DEF CallOK
    <3>3. After(source, head) \subseteq Chain
      BY <3>2, Shape DEF After
    <3>4. y \in CallsOf(Chain) /\ CallOK(y)
      BY <1>1, <2>1, <3>3 DEF CallsOf, CallOK
    <3> QED
      BY <1>2, <3>1, <3>4, CallOnly
  <2> QED
    BY <1>3, <2>1, <2>2, <2>3
<1>7. CASE CaughtUp(o)
  <2> DEFINE x == [c EXCEPT !.pc = "promote"]
  <2>1. call' = [call EXCEPT ![o] = x] /\ c.pc = "deliver"
    BY <1>1, <1>7 DEF CaughtUp, At
  <2>2. x \in CallsOf(Chain) /\ CallOK(x)
    BY <1>1, <2>1 DEF CallsOf, CallOK
  <2> QED
    BY <1>2, <2>1, <2>2, CallOnly
<1>8. CASE PromoteFails(o)
  BY <1>3, <1>8 DEF PromoteFails
<1> QED
  BY <1>4, <1>5, <1>6, <1>7, <1>8

(* FenceFresh, when the checkpoint is recorded: the endpoint could write,  *)
(* the checkpoint is new and extends the chain.                            *)
LEMMA FenceAppends ==
  ASSUME IInv, NEW o \in Operator, FenceFresh(o),
         Succeeds(log[call[o].active], Checkpoint(call[o]))
  PROVE  LET a == call[o].active  k == Checkpoint(call[o]) IN
         /\ a \in Endpoint /\ call[o].candidate \in Endpoint \ {a}
         /\ role[a] = "active" /\ CanWrite(a) /\ Author(HeadOf(log[a])) = a
         /\ epoch[a] \in 1..MaxEpoch /\ epoch[a] < MaxEpoch /\ log[a] # <<>>
         /\ k.epoch = epoch[a] + 1 /\ k.seq = 1 /\ k.by = a /\ k.to = call[o].candidate
         /\ Verdict(log[a], k) = "ok"
         /\ log' = [log EXCEPT ![a] = Append(@, k)]
         /\ role' = [role EXCEPT ![a] = "replica"] /\ epoch' = [epoch EXCEPT ![a] = k.epoch]
         /\ call' = [call EXCEPT ![o] = [call[o] EXCEPT !.pc = "catchup", !.checkpoint = k]]
         /\ UNCHANGED <<issued, restarts>>
<1> DEFINE c == call[o]
           a == c.active
<1> PICK k : k = Checkpoint(c)
  OBVIOUS
<1>1. /\ c.pc = "fence" /\ role[a] = "active" /\ epoch[a] < MaxEpoch
      /\ log' = [log EXCEPT ![a] = AppendData(@, k)]
      /\ role' = [role EXCEPT ![a] = "replica"] /\ epoch' = [epoch EXCEPT ![a] = @ + 1]
      /\ Fenced(o, k) /\ UNCHANGED <<issued, restarts>>
  BY DEF FenceFresh, At, boundVars
<1>2. a \in Endpoint /\ c.candidate \in Endpoint \ {a}
  BY <1>1, CallFacts DEF CallOK
<1>3. k.epoch = epoch[a] + 1 /\ k.seq = 1 /\ k.by = a /\ k.to = c.candidate /\ k.prev = HeadOf(log[a])
  BY DEF Checkpoint
<1>4. k \notin Events(log[a])
  BY <1>2, <1>3, SuccessorIsNew
<1>5. Verdict(log[a], k) = "ok"
  BY <1>4, AcceptedEvent DEF Succeeds, Verdict, ValidateNext
<1>6. CanWrite(a) /\ Author(HeadOf(log[a])) = a /\ (log[a] = <<>> => k.epoch = 1)
  BY <1>1, <1>2, <1>3, <1>5, AcceptedCanWrite
<1>7. epoch[a] \in 1..MaxEpoch /\ role \in [Endpoint -> {"active", "replica"}]
      /\ epoch \in [Endpoint -> 1..MaxEpoch]
  BY <1>2 DEF IInv, TypeOK
<1>8. log[a] # <<>>
  BY <1>3, <1>6, <1>7
<1>9. log' = [log EXCEPT ![a] = Append(@, k)] /\ epoch' = [epoch EXCEPT ![a] = k.epoch]
  BY <1>1, <1>2, <1>3, <1>5, <1>7 DEF AppendData, IInv, OneChain
<1>10. call' = [call EXCEPT ![o] = [c EXCEPT !.pc = "catchup", !.checkpoint = k]]
  BY <1>1, CallFacts DEF Fenced
<1> QED
  BY <1>1, <1>2, <1>3, <1>5, <1>6, <1>7, <1>8, <1>9, <1>10

(* FenceFresh.                                                             *)
LEMMA FenceFreshKeepsInv ==
  ASSUME IInv, NEW o \in Operator, FenceFresh(o)
  PROVE  IInv'
<1> PICK c : c = call[o]
  OBVIOUS
<1> PICK a : a = c.active
  OBVIOUS
<1> PICK k : k = Checkpoint(c)
  OBVIOUS
<1> DEFINE head == HeadOf(log[a])
<1>1. CASE ~Succeeds(log[a], k)
  <2>1. Return(o) /\ UNCHANGED <<endpointVars, boundVars>>
    BY <1>1 DEF FenceFresh
  <2> QED
    BY <2>1, Returns, CallOnly DEF Return
<1>2. CASE Succeeds(log[a], k)
  <2>1. /\ a \in Endpoint /\ c.candidate \in Endpoint \ {a}
        /\ role[a] = "active" /\ CanWrite(a) /\ Author(head) = a
        /\ epoch[a] \in 1..MaxEpoch /\ epoch[a] < MaxEpoch /\ log[a] # <<>>
        /\ k.epoch = epoch[a] + 1 /\ k.seq = 1 /\ k.by = a /\ k.to = c.candidate
        /\ Verdict(log[a], k) = "ok"
        /\ log' = [log EXCEPT ![a] = Append(@, k)]
        /\ role' = [role EXCEPT ![a] = "replica"] /\ epoch' = [epoch EXCEPT ![a] = k.epoch]
        /\ call' = [call EXCEPT ![o] = [c EXCEPT !.pc = "catchup", !.checkpoint = k]]
        /\ UNCHANGED <<issued, restarts>>
    BY <1>2, FenceAppends
  <2>2. issued \in Nat /\ issued <= MaxCommands /\ MaxCommands \in Nat /\ MaxEpoch \in Nat
    BY TopologyAssumption DEF IInv, TypeOK
  <2>3. k.epoch \in 1..MaxEpoch /\ k.epoch # 1 /\ k.epoch \in Nat \ {0} /\ k.seq \in Nat
    BY <2>1, <2>2
  <2>4. /\ Longest' = Append(Longest, k) /\ Chain' = Chain \cup {k} /\ k.prev = head
        /\ OneChain' /\ OwnEventsKept'
    <3>1. k.epoch \in Nat /\ k.seq \in Nat /\ k.by = a /\ Author(HeadOf(log[a])) = a
      BY <2>1, <2>3
    <3> QED
      BY <2>1, <3>1, Written
  <2>5. Authors'
    <3>1. EventOK(k) /\ k.seq <= issued' + 1 /\ k.by = Author(k.prev) /\ k.to # k.by
      BY <2>1, <2>2, <2>3, <2>4 DEF EventOK
    <3> QED
      BY <3>1, <2>1, <2>3, <2>4 DEF IInv, Authors
  <2>6. /\ HeadOf(log'[a]) = k /\ \A n \in Endpoint \ {a} : log'[n] = log[n]
        /\ head.epoch \in Nat /\ head.epoch <= k.epoch
    <3>1. a \in Endpoint /\ k.epoch \in Nat \ {0} /\ Verdict(log[a], k) = "ok"
      BY <2>1, <2>3
    <3>2. log' = [log EXCEPT ![a] = Append(@, k)]
      BY <2>1
    <3> QED
      BY <3>1, <3>2, HeadMoves
  <2>7. /\ role'[a] = "replica" /\ epoch'[a] = k.epoch
        /\ \A n \in Endpoint \ {a} : role'[n] = role[n] /\ epoch'[n] = epoch[n]
        /\ role' \in [Endpoint -> {"active", "replica"}] /\ epoch' \in [Endpoint -> 1..MaxEpoch]
    BY <2>1, <2>3 DEF IInv, TypeOK
  <2>8. EpochsFollow'
    BY <2>3, <2>6, <2>7 DEF IInv, EpochsFollow
  <2>9. WriterIsNamed'
    BY <2>6, <2>7 DEF IInv, WriterIsNamed, CanWrite
  <2>10. FirstWasFenced'
    BY <2>3, <2>6, <2>7, TopologyAssumption DEF IInv, FirstWasFenced
  <2>11. CallsOK'
    <3> PICK x : x = [c EXCEPT !.pc = "catchup", !.checkpoint = k]
      OBVIOUS
    <3>1. c \in CallsOf(Chain')
      BY <2>4, CallFacts DEF CallsOf
    <3>2. x \in CallsOf(Chain')
      BY <3>1, <2>4 DEF CallsOf
    <3>3. x.pc = "catchup" /\ x.active = a /\ x.candidate = c.candidate /\ x.checkpoint = k
      BY <3>1 DEF CallsOf
    <3>4. CallOK(x)'
      BY <3>3, <2>1, <2>4 DEF CallOK
    <3>5. call' = [call EXCEPT ![o] = x]
      BY <2>1
    <3> QED
      BY <3>2, <3>4, <3>5, <2>4, CallMoves
  <2>12. TypeOK'
    BY <2>1, <2>4, <2>5, <2>7, <2>11, Typed DEF IInv, TypeOK
  <2> QED
    BY <2>4, <2>5, <2>8, <2>9, <2>10, <2>11, <2>12 DEF IInv
<1> QED
  BY <1>1, <1>2

(* Among some events of the chain one is before all others.                *)
LEMMA Earliest ==
  ASSUME IInv, NEW q \in SUBSET Chain, q # {}
  PROVE  \E e \in q : \A f \in q \ {e} : ~Before(f, e)
<1> DEFINE places == {i \in DOMAIN Longest : Longest[i] \in q}
           R == OpToRel(<, Nat)
<1>1. DOMAIN Longest \subseteq Nat
  BY Shape DEF IsLog
<1>2. \A e \in q : \E i \in places : e = Longest[i]
  BY DEF Chain, Events
<1>3. places \subseteq Nat /\ places # {}
  BY <1>1, <1>2
<1>4. IsWellFoundedOn(R, Nat)
  BY NatLessThanWellFounded
<1> HIDE DEF places
<1>5. PICK i \in places : \A j \in places : <<j, i>> \notin R
  <2> HIDE DEF R
  <2> QED
    BY <1>3, <1>4, WFMin
<1>6. \A j \in places : ~(j < i)
  BY <1>3, <1>5 DEF OpToRel
<1>7. Longest[i] \in q /\ \A j \in places : i \in DOMAIN Longest /\ j \in DOMAIN Longest
  BY DEF places
<1>8. \A j \in places : ~Before(Longest[j], Longest[i])
  BY <1>6, <1>7, Shape, ChainOrder
<1> QED
  BY <1>2, <1>7, <1>8

(* CatchUpOne.                                                             *)
LEMMA CatchUpOneKeepsInv ==
  ASSUME IInv, NEW o \in Operator, CatchUpOne(o)
  PROVE  IInv'
<1> PICK c : c = call[o]
  OBVIOUS
<1> PICK e : e = CHOOSE x \in c.queue : \A y \in c.queue \ {x} : ~Before(y, x)
  OBVIOUS
<1>1. /\ c.pc = "deliver" /\ c.queue # {} /\ UNCHANGED <<role, epoch, issued, restarts>>
      /\ \/ Ingest(c.candidate, e) /\ call' = [call EXCEPT ![o].queue = @ \ {e}]
         \/ Return(o) /\ UNCHANGED log
  BY DEF CatchUpOne, At, boundVars
<1>2. /\ c \in CallsOf(Chain) /\ CallOK(c) /\ call \in [Operator -> CallsOf(Chain)]
      /\ c.queue \in SUBSET Chain
  BY CallFacts
<1>3. e \in Chain
  BY <1>1, <1>2, Earliest
<1>4. CASE Return(o) /\ UNCHANGED log
  <2>1. UNCHANGED <<endpointVars, boundVars>>
    BY <1>1, <1>4 DEF endpointVars, boundVars
  <2> QED
    BY <1>4, <2>1, Returns, CallOnly DEF Return
<1>5. CASE Ingest(c.candidate, e) /\ call' = [call EXCEPT ![o].queue = @ \ {e}]
  <2> PICK x : x = [c EXCEPT !.queue = @ \ {e}]
    OBVIOUS
  <2>1. c.candidate \in Endpoint
    BY <1>1, <1>2 DEF CallOK
  <2>2. /\ Chain' = Chain /\ OneChain' /\ Authors' /\ OwnEventsKept'
        /\ EpochsFollow' /\ WriterIsNamed' /\ FirstWasFenced'
    BY <1>1, <1>3, <1>5, <2>1, IngestKeeps
  <2>3. call' = [call EXCEPT ![o] = x]
    BY <1>2, <1>5
  <2>4. x \in CallsOf(Chain)
    BY <1>2 DEF CallsOf
  <2>5. x.pc = c.pc /\ x.active = c.active /\ x.candidate = c.candidate /\ x.checkpoint = c.checkpoint
    BY <1>2 DEF CallsOf
  <2>6. CallOK(x)'
    BY <1>2, <2>2, <2>5 DEF CallOK
  <2>7. CallsOK'
    BY <2>2, <2>3, <2>4, <2>6, CallMoves
  <2>8. TypeOK'
    BY <1>1, <2>2, <2>7, Typed DEF IInv, TypeOK
  <2> QED
    BY <2>2, <2>7, <2>8 DEF IInv
<1> QED
  BY <1>1, <1>4, <1>5

(* PromoteCandidate: the candidate's head is the checkpoint, and names it. *)
LEMMA PromoteCandidateKeepsInv ==
  ASSUME IInv, NEW o \in Operator, PromoteCandidate(o)
  PROVE  IInv'
<1> DEFINE c == call[o]
           b == c.candidate
           k == c.checkpoint
<1>1. c.pc = "promote" /\ Return(o) /\ UNCHANGED <<log, issued, restarts>>
  BY DEF PromoteCandidate, At, boundVars
<1>2. CASE UNCHANGED <<role, epoch>>
  <2>1. UNCHANGED <<endpointVars, boundVars>>
    BY <1>1, <1>2 DEF endpointVars, boundVars
  <2> QED
    BY <1>1, <2>1, Returns, CallOnly DEF Return
<1>3. CASE /\ HeadOf(log[b]) = k /\ role[b] = "replica"
           /\ role' = [role EXCEPT ![b] = "active"] /\ epoch' = [epoch EXCEPT ![b] = k.epoch]
  <2>1. b \in Endpoint /\ k \in Chain /\ k.to = b
    BY <1>1, CallFacts DEF CallOK
  <2>2. k.epoch \in 1..MaxEpoch /\ k # Genesis /\ b # Nobody
    BY <2>1, <1>3, TopologyAssumption DEF IInv, Authors, EventOK, Genesis
  <2>3. Longest' = Longest /\ Chain' = Chain /\ OneChain' /\ Authors' /\ OwnEventsKept'
    BY <1>1, SameLogs
  <2>4. /\ role'[b] = "active" /\ epoch'[b] = k.epoch
        /\ \A n \in Endpoint \ {b} : role'[n] = role[n] /\ epoch'[n] = epoch[n]
        /\ role' \in [Endpoint -> {"active", "replica"}] /\ epoch' \in [Endpoint -> 1..MaxEpoch]
    BY <1>3, <2>1, <2>2 DEF IInv, TypeOK
  <2>5. EpochsFollow'
    BY <1>1, <1>3, <2>2, <2>4 DEF IInv, EpochsFollow
  <2>6. WriterIsNamed'
    <3>1. Author(HeadOf(log[b])) = b
      BY <1>3, <2>1, <2>2 DEF Author
    <3> QED
      BY <3>1, <1>1, <2>4 DEF IInv, WriterIsNamed, CanWrite
  <2>7. FirstWasFenced'
    BY <1>1, <2>4, TopologyAssumption DEF IInv, FirstWasFenced
  <2>8. CallsOK'
    BY <1>1, <2>3, Returns, CallMoves DEF Return
  <2>9. TypeOK'
    BY <1>1, <2>3, <2>4, <2>8, Typed DEF IInv, TypeOK
  <2> QED
    BY <2>3, <2>5, <2>6, <2>7, <2>8, <2>9 DEF IInv
<1> QED
  BY <1>2, <1>3 DEF PromoteCandidate

-----------------------------------------------------------------------------
(* The invariant *)

(* The initial state: no events, no calls, one active endpoint.            *)
LEMMA InitInv == Init => IInv
<1> SUFFICES ASSUME Init PROVE IInv
  OBVIOUS
<1>1. First \in Endpoint /\ MaxEpoch \in Nat /\ MaxCommands \in Nat /\ MaxRestarts \in Nat
  BY TopologyAssumption
<1>2. /\ role = [n \in Endpoint |-> ConfiguredRole(n)] /\ epoch = [n \in Endpoint |-> 1]
      /\ log = [n \in Endpoint |-> <<>>] /\ call = [o \in Operator |-> Idle]
      /\ issued = 0 /\ restarts = 0
  BY DEF Init
<1>3. \A n \in Endpoint : log[n] \in Seq({}) /\ IsCopy(log[n], log[First])
  BY <1>1, <1>2, EmptySeq DEF IsCopy
<1>4. Longest = <<>>
  <2>1. LongestOf(log) = log[First]
    BY <1>1, <1>3, LongestIs
  <2> QED
    BY <2>1, <1>1, <1>2 DEF Longest, LongestOf
<1>5. Chain = {}
  BY <1>4, EmptyLog DEF Chain
<1>6. OneChain
  <2>1. IsChain(<<>>) /\ Increasing(<<>>)
    BY DEF IsChain, Increasing
  <2> QED
    BY <2>1, <1>1, <1>2, <1>3, <1>4, <1>5 DEF OneChain
<1>7. Authors /\ OwnEventsKept
  BY <1>5 DEF Authors, OwnEventsKept
<1>8. \A n \in Endpoint : HeadOf(log[n]) = Genesis
  BY <1>2 DEF HeadOf
<1>9. EpochsFollow /\ WriterIsNamed /\ FirstWasFenced
  <2>1. \A n \in Endpoint : role[n] = "active" <=> n = First
    BY <1>2 DEF ConfiguredRole
  <2> QED
    BY <2>1, <1>1, <1>2, <1>8 DEF EpochsFollow, WriterIsNamed, FirstWasFenced, CanWrite, Author
<1>10. CallsOK
  BY <1>2, Returns DEF CallsOK
<1>11. TypeOK
  <2>1. \A n \in Endpoint : Events(log[n]) = {}
    BY <1>2, EmptyLog
  <2>2. \A o \in Operator : call[o].pc = "idle" /\ call[o].queue = {}
    BY <1>2 DEF Idle
  <2>3. 1 \in 1..MaxEpoch
    BY TopologyAssumption
  <2>4. epoch \in [Endpoint -> 1..MaxEpoch]
    BY <2>3, <1>2
  <2>5. role \in [Endpoint -> {"active", "replica"}]
    BY <1>2 DEF ConfiguredRole
  <2> QED
    BY <2>1, <2>2, <2>4, <2>5, <1>1, <1>2 DEF TypeOK, At
<1> QED
  BY <1>6, <1>7, <1>9, <1>10, <1>11 DEF IInv

(* Every step keeps the invariant.                                         *)
LEMMA NextInv == IInv /\ [Next]_vars => IInv'
<1> SUFFICES ASSUME IInv, [Next]_vars PROVE IInv'
  OBVIOUS
<1>1. ASSUME NEW n \in Endpoint, AppendEvent(n) \/ Deliver(n) \/ Restart(n) PROVE IInv'
  BY <1>1, AppendEventKeepsInv, DeliverKeepsInv, RestartKeepsInv
<1>2. ASSUME NEW o \in Operator, PromoteBegin(o) \/ PromoteStep(o) \/ PromoteFails(o) PROVE IInv'
  BY <1>2, CallOnlySteps, FenceFreshKeepsInv, CatchUpOneKeepsInv, PromoteCandidateKeepsInv
     DEF PromoteStep
<1>3. ASSUME UNCHANGED vars PROVE IInv'
  <2>1. UNCHANGED <<role, epoch, log, call, issued, restarts>>
    BY <1>3 DEF vars, endpointVars, boundVars
  <2>2. Chain' = Chain /\ OneChain' /\ Authors' /\ OwnEventsKept'
    BY <2>1, SameLogs
  <2>3. CallsOK'
    BY <2>1, <2>2, CallsStay
  <2>4. TypeOK'
    BY <2>1, <2>2, <2>3, Typed DEF IInv, TypeOK
  <2> QED
    BY <2>1, <2>2, <2>3, <2>4 DEF IInv, EpochsFollow, WriterIsNamed, FirstWasFenced, CanWrite
<1> QED
  BY <1>1, <1>2, <1>3 DEF Next

(* What the invariant says of writers: one that can write has the whole    *)
(* chain and is the only one.                                              *)
LEMMA Consequences ==
  IInv => /\ AtMostOneWriter /\ NoDivergence /\ WriterHasEverything
          /\ \A n \in Endpoint : CanWrite(n) => log[n] = Longest
<1> SUFFICES ASSUME IInv
             PROVE  /\ AtMostOneWriter /\ NoDivergence /\ WriterHasEverything
                    /\ \A n \in Endpoint : CanWrite(n) => log[n] = Longest
  OBVIOUS
<1>1. ASSUME NEW n \in Endpoint, CanWrite(n)
      PROVE  log[n] = Longest /\ Author(HeadOf(Longest)) = n
  <2>1. Author(HeadOf(log[n])) = n
    BY <1>1 DEF IInv, WriterIsNamed
  <2> QED
    BY <2>1, NamedHasAll
<1>2. AtMostOneWriter
  BY <1>1 DEF AtMostOneWriter
<1>3. NoDivergence
  <2> SUFFICES ASSUME NEW m \in Endpoint, NEW n \in Endpoint,
                      NEW i \in DOMAIN log[m] \cap DOMAIN log[n]
               PROVE  log[m][i] = log[n][i]
    BY DEF NoDivergence
  <2>1. log[m][i] = Longest[i] /\ log[n][i] = Longest[i]
    BY Standing
  <2> QED
    BY <2>1
<1>4. WriterHasEverything
  BY <1>1, Standing DEF WriterHasEverything
<1> QED
  BY <1>1, <1>2, <1>3, <1>4

(* The inductive invariant holds, for any endpoints, operators and bounds. *)
THEOREM Invariance == Spec => []IInv
<1>1. Init => IInv
  BY InitInv
<1>2. IInv /\ [Next]_vars => IInv'
  BY NextInv
<1> QED
  BY <1>1, <1>2, PTL DEF Spec

(* The types: roles, epochs and sequence numbers within their bounds.      *)
THEOREM TypeCorrect == Spec => []TypeOK
<1>1. IInv => TypeOK
  BY DEF IInv
<1> QED
  BY <1>1, Invariance, PTL

(* Whatever promotions race, fail and resume and whichever endpoints       *)
(* restart, two endpoints never both accept an append.                     *)
THEOREM OneWriter == Spec => []AtMostOneWriter
<1>1. IInv => AtMostOneWriter
  BY Consequences
<1> QED
  BY <1>1, Invariance, PTL

(* No two logs diverge.                                                    *)
THEOREM NoFork == Spec => []NoDivergence
<1>1. IInv => NoDivergence
  BY Consequences
<1> QED
  BY <1>1, Invariance, PTL

(* An endpoint that can write lacks no event of any endpoint: a promotion  *)
(* never loses one.                                                        *)
THEOREM WriterIsComplete == Spec => []WriterHasEverything
<1>1. IInv => WriterHasEverything
  BY Consequences
<1> QED
  BY <1>1, Invariance, PTL

-----------------------------------------------------------------------------
(* The refinement of Authority *)

\* Writer is the endpoint that can write, or Nobody.
WriterOK ==
    /\ \A n \in Endpoint : CanWrite(n) => Writer = n
    /\ (\A n \in Endpoint : ~CanWrite(n)) => Writer = Nobody

(* At most one endpoint can write, so Writer says which.                   *)
LEMMA WriterIs == IInv => WriterOK
<1> SUFFICES ASSUME IInv PROVE WriterOK
  OBVIOUS
<1>1. AtMostOneWriter
  BY Consequences
<1>2. ASSUME NEW n \in Endpoint, CanWrite(n) PROVE Writer = n
  <2>1. \A m \in Endpoint : CanWrite(m) => m = n
    BY <1>1, <1>2 DEF AtMostOneWriter
  <2> QED
    BY <2>1, <1>2 DEF Writer
<1>3. ASSUME \A n \in Endpoint : ~CanWrite(n) PROVE Writer = Nobody
  BY <1>3 DEF Writer
<1> QED
  BY <1>2, <1>3 DEF WriterOK

(* A step that leaves the logs, and who can write, leaves both as they are.*)
LEMMA SameWriter ==
  ASSUME WriterOK, WriterOK', \A n \in Endpoint : CanWrite(n)' <=> CanWrite(n)
  PROVE  Writer' = Writer
<1>1. CASE \E n \in Endpoint : CanWrite(n)
  BY <1>1 DEF WriterOK
<1>2. CASE \A n \in Endpoint : ~CanWrite(n)
  BY <1>2 DEF WriterOK
<1> QED
  BY <1>1, <1>2

(* Authority reads the head of a chain as the journals do.                 *)
LEMMA SameHead == \A l : Abstract!HeadOf(l) = HeadOf(l)
  BY DEF Abstract!HeadOf, HeadOf, Abstract!Genesis, Genesis

(* Appending to the chain.                                                 *)
LEMMA ChainGrows ==
  ASSUME IInv, NEW e, Longest' = Append(Longest, e)
  PROVE  Abstract!Grows /\ HeadOf(Longest') = e
<1>1. Longest \in Seq(Chain \cup {e}) /\ IsLog(Longest)
  <2>1. Longest \in Seq(Chain) /\ IsLog(Longest)
    BY Shape
  <2>2. Seq(Chain) \subseteq Seq(Chain \cup {e})
    BY SeqMonotonic
  <2> QED
    BY <2>1, <2>2
<1>2. Len(Append(Longest, e)) = Len(Longest) + 1 /\ SubSeq(Append(Longest, e), 1, Len(Longest)) = Longest
  BY <1>1, AppendProperties, SubSeqProperties
<1>3. HeadOf(Append(Longest, e)) = e
  BY <1>1, AppendLog
<1> QED
  BY <1>2, <1>3 DEF Abstract!Grows

(* A domain event of the writer.                                           *)
LEMMA AppendRefines ==
  ASSUME IInv, WriterOK, WriterOK', NEW n \in Endpoint, AppendEvent(n)
  PROVE  Abstract!Write
<1> PICK e : e = DomainEvent(n)
  OBVIOUS
<1>1. /\ UNCHANGED <<role, epoch>> /\ role[n] = "active" /\ Verdict(log[n], e) = "ok"
      /\ log' = [log EXCEPT ![n] = Append(@, e)]
  BY DEF AppendEvent
<1>2. e.epoch = epoch[n] /\ e.by = n /\ e.to = Nobody
  BY DEF DomainEvent
<1>3. CanWrite(n) /\ Author(HeadOf(log[n])) = n
  BY <1>1, <1>2, AcceptedCanWrite
<1>4. e.epoch \in Nat \ {0} /\ e.seq \in Nat
  <2>1. epoch[n] \in 1..MaxEpoch
    BY DEF IInv, TypeOK
  <2>2. HeadOf(log[n]).seq \in Nat
    BY Standing DEF IInv, Authors, EventOK, Genesis
  <2>3. e.seq = IF HeadOf(log[n]).epoch = epoch[n] THEN HeadOf(log[n]).seq + 1 ELSE 1
    BY DEF DomainEvent
  <2> QED
    BY <1>2, <2>1, <2>2, <2>3
<1>5. Longest' = Append(Longest, e) /\ e.prev = HeadOf(log[n])
  BY <1>1, <1>2, <1>3, <1>4, Written
<1>6. log[n] = Longest
  BY <1>3, NamedHasAll
<1>7. HeadOf(log'[n]) = e
  BY <1>1, <1>4, HeadMoves
<1>8. CanWrite(n)'
  BY <1>1, <1>2, <1>4, <1>7 DEF CanWrite
<1>9. Writer = n /\ Writer' = n /\ n # Nobody
  BY <1>3, <1>8, TopologyAssumption DEF WriterOK
<1> QED
  BY <1>2, <1>5, <1>6, <1>9, ChainGrows, SameHead DEF Abstract!Write

(* An event that a replica takes is in the chain already.                  *)
LEMMA IngestRefines ==
  ASSUME IInv, WriterOK, WriterOK', NEW n \in Endpoint, NEW e \in Chain, Ingest(n, e),
         UNCHANGED <<role, epoch, issued>>
  PROVE  UNCHANGED <<Longest, Writer>>
<1>1. Longest' = Longest
  BY IngestKeeps
<1>2. role[n] = "replica" /\ \A k \in Endpoint \ {n} : log'[k] = log[k]
  BY DEF Ingest, IInv, OneChain
<1>3. \A k \in Endpoint : CanWrite(k)' <=> CanWrite(k)
  BY <1>2 DEF CanWrite
<1> QED
  BY <1>1, <1>3, SameWriter

(* A restart gives nobody authority.                                       *)
LEMMA RestartRefines ==
  ASSUME IInv, WriterOK, WriterOK', NEW n \in Endpoint, Restart(n)
  PROVE  Abstract!Lose \/ UNCHANGED <<Longest, Writer>>
<1>1. UNCHANGED log /\ Longest' = Longest
  BY DEF Restart, Longest
<1>2. /\ role'[n] = ConfiguredRole(n) /\ epoch'[n] = 1
      /\ \A k \in Endpoint \ {n} : role'[k] = role[k] /\ epoch'[k] = epoch[k]
  BY DEF Restart, IInv, TypeOK
<1>3. ASSUME CanWrite(n)' PROVE CanWrite(n)
  <2>1. HeadOf(log[n]).epoch \in Nat /\ epoch[n] \in Nat \ {0}
    BY Standing DEF IInv, Authors, EventOK, Genesis, TypeOK
  <2>2. n = First /\ HeadOf(log[n]).epoch <= 1
    BY <1>1, <1>2, <1>3, <2>1 DEF CanWrite, ConfiguredRole
  <2>3. role[n] = "active"
    BY <2>1, <2>2 DEF IInv, FirstWasFenced, TypeOK
  <2> QED
    BY <2>1, <2>2, <2>3 DEF CanWrite
<1>4. ASSUME NEW k \in Endpoint, CanWrite(k)' PROVE Writer' = Writer
  <2>1. CanWrite(k)
    BY <1>1, <1>2, <1>3, <1>4 DEF CanWrite
  <2> QED
    BY <2>1, <1>4 DEF WriterOK
<1>5. (\A k \in Endpoint : ~CanWrite(k)') => Writer' = Nobody
  BY DEF WriterOK
<1> QED
  BY <1>1, <1>4, <1>5 DEF Abstract!Lose

(* The fence: the writer names its successor and stops.                    *)
LEMMA FenceRefines ==
  ASSUME IInv, WriterOK, WriterOK', NEW o \in Operator, FenceFresh(o)
  PROVE  Abstract!HandOver \/ UNCHANGED <<Longest, Writer>>
<1> PICK c : c = call[o]
  OBVIOUS
<1> PICK a : a = c.active
  OBVIOUS
<1> PICK k : k = Checkpoint(c)
  OBVIOUS
<1>1. CASE ~Succeeds(log[a], k)
  <2>1. UNCHANGED <<role, epoch, log>>
    BY <1>1 DEF FenceFresh, endpointVars
  <2>2. Longest' = Longest /\ \A n \in Endpoint : CanWrite(n)' <=> CanWrite(n)
    BY <2>1 DEF Longest, CanWrite
  <2> QED
    BY <2>2, SameWriter
<1>2. CASE Succeeds(log[a], k)
  <2>1. /\ a \in Endpoint /\ c.candidate \in Endpoint \ {a}
        /\ CanWrite(a) /\ Author(HeadOf(log[a])) = a
        /\ epoch[a] \in 1..MaxEpoch /\ log[a] # <<>>
        /\ k.epoch = epoch[a] + 1 /\ k.seq = 1 /\ k.by = a /\ k.to = c.candidate
        /\ Verdict(log[a], k) = "ok"
        /\ log' = [log EXCEPT ![a] = Append(@, k)]
        /\ role' = [role EXCEPT ![a] = "replica"] /\ epoch' = [epoch EXCEPT ![a] = k.epoch]
    BY <1>2, FenceAppends
  <2>2. k.epoch \in Nat \ {0} /\ k.seq \in Nat
    BY <2>1
  <2>3. Longest' = Append(Longest, k) /\ k.prev = HeadOf(log[a])
    <3>1. k.epoch \in Nat /\ k.seq \in Nat /\ k.by = a /\ Author(HeadOf(log[a])) = a
      BY <2>1, <2>2
    <3> QED
      BY <2>1, <3>1, Written
  <2>4. log[a] = Longest
    BY <2>1, NamedHasAll
  <2>5. k.epoch = HeadOf(Longest).epoch + 1
    <3>1. epoch[a] >= HeadOf(log[a]).epoch
      BY <2>1 DEF CanWrite
    <3>2. epoch[a] = 1 \/ epoch[a] <= HeadOf(log[a]).epoch
      BY <2>1 DEF IInv, EpochsFollow
    <3>3. HeadOf(log[a]).epoch \in Nat \ {0}
      BY <2>1, Standing DEF IInv, Authors, EventOK
    <3>4. epoch[a] = HeadOf(log[a]).epoch
      BY <2>1, <3>1, <3>2, <3>3
    <3> QED
      BY <2>1, <2>4, <3>4
  <2>6. Writer = a /\ a # Nobody
    BY <2>1, TopologyAssumption DEF WriterOK
  <2>7. Writer' = Nobody
    <3>1. role'[a] = "replica" /\ \A n \in Endpoint \ {a} : role'[n] = role[n] /\ epoch'[n] = epoch[n]
      BY <2>1 DEF IInv, TypeOK
    <3>2. \A n \in Endpoint \ {a} : log'[n] = log[n]
      BY <2>1, <2>2, HeadMoves
    <3>3. \A n \in Endpoint \ {a} : ~CanWrite(n)
      BY <2>6 DEF WriterOK
    <3>4. \A n \in Endpoint : ~CanWrite(n)'
      BY <3>1, <3>2, <3>3 DEF CanWrite
    <3> QED
      BY <3>4 DEF WriterOK
  <2>8. Abstract!Grows /\ HeadOf(Longest') = k
    BY <2>3, ChainGrows
  <2> QED
    BY <2>1, <2>3, <2>4, <2>5, <2>6, <2>7, <2>8, SameHead DEF Abstract!HandOver
<1> QED
  BY <1>1, <1>2

(* A promotion that succeeds grants authority to the endpoint that the end *)
(* of the chain names, when nobody has it.                                 *)
LEMMA PromoteRefines ==
  ASSUME IInv, WriterOK, WriterOK', NEW o \in Operator, PromoteCandidate(o)
  PROVE  Abstract!Grant \/ UNCHANGED <<Longest, Writer>>
<1> PICK c : c = call[o]
  OBVIOUS
<1> PICK b : b = c.candidate
  OBVIOUS
<1> PICK k : k = c.checkpoint
  OBVIOUS
<1>1. c.pc = "promote" /\ UNCHANGED log /\ Longest' = Longest
  BY DEF PromoteCandidate, At, Longest
<1>2. CASE UNCHANGED <<role, epoch>>
  <2>1. \A n \in Endpoint : CanWrite(n)' <=> CanWrite(n)
    BY <1>1, <1>2 DEF CanWrite
  <2> QED
    BY <1>1, <2>1, SameWriter
<1>3. CASE /\ HeadOf(log[b]) = k /\ role[b] = "replica"
           /\ role' = [role EXCEPT ![b] = "active"] /\ epoch' = [epoch EXCEPT ![b] = k.epoch]
  <2>1. b \in Endpoint /\ k \in Chain /\ k.to = b
    BY <1>1, CallFacts DEF CallOK
  <2>2. k.epoch \in Nat /\ k # Genesis /\ b # Nobody
    BY <2>1, TopologyAssumption DEF IInv, Authors, EventOK, Genesis
  <2>3. Author(k) = b /\ log[b] = Longest /\ Longest # <<>>
    <3>1. Author(k) = b
      BY <2>1, <2>2 DEF Author
    <3> QED
      BY <3>1, <1>3, <2>1, <2>2, NamedHasAll DEF HeadOf
  <2>4. \A n \in Endpoint : ~CanWrite(n)
    <3> SUFFICES ASSUME NEW n \in Endpoint, CanWrite(n) PROVE FALSE
      OBVIOUS
    <3>1. log[n] = Longest /\ Author(HeadOf(log[n])) = n
      BY Consequences DEF IInv, WriterIsNamed
    <3>2. n = b
      BY <3>1, <2>3, <1>3
    <3> QED
      BY <3>2, <1>3 DEF CanWrite
  <2>5. CanWrite(b)'
    <3>1. role'[b] = "active" /\ epoch'[b] = k.epoch
      BY <1>3, <2>1 DEF IInv, TypeOK
    <3> QED
      BY <3>1, <1>1, <1>3, <2>2 DEF CanWrite
  <2>6. Writer = Nobody /\ Writer' = b
    BY <2>1, <2>4, <2>5 DEF WriterOK
  <2> QED
    BY <1>1, <1>3, <2>1, <2>3, <2>6, SameHead DEF Abstract!Grant
<1> QED
  BY <1>2, <1>3 DEF PromoteCandidate

(* Every step is one of Authority, or changes neither chain nor holder.    *)
LEMMA NextRefines ==
  ASSUME IInv, WriterOK, WriterOK', [Next]_vars
  PROVE  [Abstract!Next]_<<Longest, Writer>>
<1>1. ASSUME UNCHANGED <<role, epoch, log>> PROVE UNCHANGED <<Longest, Writer>>
  <2>1. \A n \in Endpoint : CanWrite(n)' <=> CanWrite(n)
    BY <1>1 DEF CanWrite
  <2> QED
    BY <1>1, <2>1, SameWriter DEF Longest
<1>2. CASE \E n \in Endpoint : AppendEvent(n)
  BY <1>2, AppendRefines DEF Abstract!Next
<1>3. ASSUME NEW n \in Endpoint, Deliver(n) PROVE UNCHANGED <<Longest, Writer>>
  <2>1. PICK m \in Endpoint : \E f \in Events(log[m]) : Ingest(n, f)
    BY <1>3 DEF Deliver
  <2>2. PICK e \in Events(log[m]) : Ingest(n, e)
    BY <2>1
  <2>3. e \in Chain /\ UNCHANGED <<role, epoch, issued>>
    BY <1>3, Shape DEF Deliver, boundVars
  <2> QED
    BY <2>2, <2>3, IngestRefines
<1>4. CASE \E n \in Endpoint : Restart(n)
  BY <1>4, RestartRefines DEF Abstract!Next
<1>5. ASSUME NEW o \in Operator,
             PromoteBegin(o) \/ FenceResumed(o) \/ CatchUp(o) \/ CaughtUp(o) \/ PromoteFails(o)
      PROVE  UNCHANGED <<Longest, Writer>>
  <2>1. UNCHANGED <<role, epoch, log>>
    BY <1>5 DEF PromoteBegin, FenceResumed, CatchUp, CaughtUp, PromoteFails, endpointVars
  <2> QED
    BY <2>1, <1>1
<1>6. CASE \E o \in Operator : FenceFresh(o)
  BY <1>6, FenceRefines DEF Abstract!Next
<1>7. ASSUME NEW o \in Operator, CatchUpOne(o) PROVE UNCHANGED <<Longest, Writer>>
  <2> PICK c : c = call[o]
    OBVIOUS
  <2> PICK e : e = CHOOSE x \in c.queue : \A y \in c.queue \ {x} : ~Before(y, x)
    OBVIOUS
  <2>1. /\ c.pc = "deliver" /\ c.queue # {} /\ UNCHANGED <<role, epoch, issued>>
        /\ Ingest(c.candidate, e) \/ UNCHANGED log
    BY <1>7 DEF CatchUpOne, At, boundVars
  <2>2. c.candidate \in Endpoint /\ c.queue \in SUBSET Chain
    BY <2>1, CallFacts DEF CallOK
  <2>3. e \in Chain
    BY <2>1, <2>2, Earliest
  <2> QED
    BY <1>1, <2>1, <2>2, <2>3, IngestRefines
<1>8. CASE \E o \in Operator : PromoteCandidate(o)
  BY <1>8, PromoteRefines DEF Abstract!Next
<1> QED
  <2>1. Next => \/ \E n \in Endpoint : AppendEvent(n) \/ Deliver(n) \/ Restart(n)
                \/ \E o \in Operator :
                      \/ PromoteBegin(o) \/ FenceResumed(o) \/ CatchUp(o) \/ CaughtUp(o) \/ PromoteFails(o)
                      \/ FenceFresh(o) \/ CatchUpOne(o) \/ PromoteCandidate(o)
    BY DEF Next, PromoteStep
  <2>2. UNCHANGED vars => UNCHANGED <<Longest, Writer>>
    BY <1>1 DEF vars, endpointVars
  <2> QED
    BY <2>1, <2>2, <1>2, <1>3, <1>4, <1>5, <1>6, <1>7, <1>8

(* One chain, and the first endpoint may extend it.                        *)
LEMMA InitRefines == Init => Abstract!Init
<1> SUFFICES ASSUME Init PROVE Abstract!Init
  OBVIOUS
<1>1. IInv
  BY InitInv
<1>2. First \in Endpoint /\ log[First] = <<>> /\ role[First] = "active" /\ epoch[First] = 1
  BY TopologyAssumption DEF Init, ConfiguredRole
<1>3. CanWrite(First)
  BY <1>2 DEF CanWrite, HeadOf, Genesis
<1>4. Longest = <<>> /\ Writer = First
  BY <1>1, <1>2, <1>3, Consequences, WriterIs DEF WriterOK
<1> QED
  BY <1>4 DEF Abstract!Init

(* The endpoints implement Authority: one chain, extended by one holder at *)
(* a time, whose authority moves only by a checkpoint that names the next. *)
THEOREM Refinement == Spec => ImplementsAuthority
<1>1. Init => Abstract!Init
  BY InitRefines
<1>2. IInv => WriterOK
  BY WriterIs
<1>3. IInv /\ WriterOK /\ WriterOK' /\ [Next]_vars => [Abstract!Next]_<<Longest, Writer>>
  BY NextRefines
<1> QED
  BY <1>1, <1>2, <1>3, Invariance, PTL
     DEF Spec, ImplementsAuthority, Abstract!Spec, Abstract!vars
=============================================================================
