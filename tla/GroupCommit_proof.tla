-------------------------- MODULE GroupCommit_proof --------------------------
(***************************************************************************)
(* The safety of the append path, for every set of appenders and closers   *)
(* and every batch setting.                                                *)
(*                                                                         *)
(* IInv is the inductive invariant.  Its parts:                            *)
(*   TypeOK           the types;                                           *)
(*   EventsTyped      the events that are staged or on their way;          *)
(*   ItemsMatch       an item of a window or a flight is the submission    *)
(*                    its caller waits for, or an older one of that caller *)
(*   OldEpochOnly     nothing on its way was built for a later epoch than  *)
(*                    the first;                                           *)
(*   TxExtends        the open transaction loses nothing of the log, its   *)
(*                    results are true of it, and behind a fence it adds   *)
(*                    nothing;                                             *)
(*   FenceState       what the progress of the fence says about the role,  *)
(*                    the window and the head of the log;                  *)
(*   CloseState       a Close that has begun has shut the door, one that    *)
(*                    has swept left the window empty.                     *)
(*                                                                         *)
(* Two properties need more, proved on top of it: CountState, what the     *)
(* generation an appender has seen says of the window, and TryInv, where   *)
(* the only submission of a command is and what has become of it.          *)
(***************************************************************************)
EXTENDS GroupCommit, JournalChain_proof

Items(f) == {f.items[i] : i \in DOMAIN f.items}

\* Every item that has been enqueued and not yet answered.
InTransit == {window[i] : i \in DOMAIN window} \cup UNION {Items(f) : f \in flights}

EventsTyped ==
    /\ DOMAIN event = Appender
    /\ \A a \in Appender : pc[a] # "idle" => EventOK(event[a]) /\ event[a].epoch = 1
    /\ \A e \in Events(txLog) : EventOK(e)
    /\ \A it \in InTransit : EventOK(it.event)

Matches(it) ==
    /\ it.by \in Appender
    /\ it.sub <= sub[it.by]
    /\ it.sub = sub[it.by] => pc[it.by] # "staged" /\ it.event = event[it.by]

ItemsMatch ==
    /\ window \in Seq({window[i] : i \in DOMAIN window})
    /\ \A it \in InTransit : Matches(it) /\ it.sub \in Nat
    /\ \A a \in Appender : sub[a] <= retries + (IF pc[a] = "idle" THEN 0 ELSE 1)

OldEpochOnly == \A it \in InTransit : it.event.epoch = 1

TxExtends ==
    /\ IsLog(log) /\ UniqueKeys(log)
    /\ IsLog(txLog) /\ UniqueKeys(txLog)
    /\ flights # {} \/ window # <<>> => Batched
    /\ \A f \in committing :
          /\ Events(log) \subseteq Events(txLog)
          /\ role = "replica" => txLog = log
          /\ role = "active" => \A e \in Events(txLog) : e.epoch = 1
          /\ txLeft \subseteq DOMAIN f.items
          /\ DOMAIN txVerdict = DOMAIN f.items
          /\ \A i \in DOMAIN f.items :
                /\ txVerdict[i] \in Replies
                /\ txVerdict[i] = "nil" => f.items[i].event \in Events(txLog)

FenceState ==
    /\ role = "replica" <=> fence = "done"
    /\ role = "active" => epoch = 1 /\ \A e \in Events(log) : e.epoch = 1
    /\ role = "replica" => epoch = 2 /\ log # <<>> /\ HeadOf(log).epoch = 2
    /\ fence # "idle" => window = <<>>

CloseState ==
    /\ \A c \in Closer : closer[c] \in {"closing", "flushing"} => closed
    /\ NothingPendingAfterClose

IInv ==
    /\ TypeOK
    /\ EventsTyped
    /\ ItemsMatch
    /\ OldEpochOnly
    /\ TxExtends
    /\ FenceState
    /\ CloseState
    /\ NilMeansDurable

(* What an attempt can answer. *)
LEMMA VerdictRange ==
  ASSUME NEW l, NEW e
  PROVE  Verdict(l, e) \in {"ok", "duplicate"} \cup Refusals
  BY DEF Verdict, ValidateNext, Refusals

(* An item that joins the window is the only new one in transit. *)
LEMMA Joined ==
  ASSUME window \in Seq({window[i] : i \in DOMAIN window}),
         NEW it, window' = Append(window, it), flights' = flights
  PROVE  /\ window' \in Seq({window'[i] : i \in DOMAIN window'})
         /\ InTransit' \subseteq InTransit \cup {it}
<1> DEFINE W == {window[i] : i \in DOMAIN window}
<1>1. /\ window' \in Seq(W \cup {it}) /\ DOMAIN window' = 1..(Len(window) + 1)
      /\ DOMAIN window = 1..Len(window) /\ Len(window) \in Nat
      /\ \A i \in 1..Len(window) : window'[i] = window[i]
      /\ window'[Len(window) + 1] = it
  <2>1. window \in Seq(W \cup {it}) /\ it \in W \cup {it}
    OBVIOUS
  <2> QED
    BY <2>1
<1>2. {window'[i] : i \in DOMAIN window'} = W \cup {it}
  BY <1>1
<1> QED
  BY <1>1, <1>2 DEF InTransit, Items

(* A drain moves the window's items into a flight and loses none. *)
LEMMA Drained ==
  ASSUME TypeOK, NEW trigger, NEW running, running \subseteq timers,
         DrainBody(trigger, running)
  PROVE  /\ generation' \in Nat /\ timers' \subseteq 0..generation'
         /\ flights \subseteq flights'
         /\ InTransit' \subseteq InTransit
         /\ window' \in Seq({window'[i] : i \in DOMAIN window'})
<1>1. generation' \in Nat /\ timers' \subseteq 0..generation' /\ flights \subseteq flights'
  BY DEF TypeOK, DrainBody
<1>2. InTransit' \subseteq InTransit
  BY DEF DrainBody, Flight, InTransit, Items
<1> QED
  BY <1>1, <1>2 DEF DrainBody

(* Nor does a trigger that came too late. *)
LEMMA NotDrained ==
  ASSUME UNCHANGED <<flights, window>>
  PROVE  InTransit' = InTransit
  BY DEF InTransit, Items

(* What the waiting calls of a batch receive. *)
LEMMA Notified ==
  ASSUME NEW f, NEW answers, Notify(f, answers), NEW a \in Appender
  PROVE  \/ reply'[a] = reply[a]
         \/ \E i \in DOMAIN f.items : Awaits(a, f.items[i]) /\ reply'[a] = answers[i]
  BY DEF Notify

(* The initial states satisfy the invariant. *)
LEMMA Initial == Init => IInv
<1> SUFFICES ASSUME Init PROVE IInv
  OBVIOUS
<1> USE BatchAssumption DEF Init
<1>1. TypeOK
  <2>1. Events(log) = {} /\ "none" \in Replies /\ 0 \in 0..MaxRetries + 1
    BY EmptyLog DEF Replies
  <2>2. /\ pc \in [Appender -> {"idle", "staged", "flushing", "committing", "waiting", "returned"}]
        /\ sub \in [Appender -> 0..MaxRetries + 1] /\ retries \in 0..MaxRetries
        /\ reply \in [Appender -> Replies]
        /\ closer \in [Closer -> {"open", "closing", "flushing", "returned"}]
    BY <2>1
  <2> QED
    BY <2>1, <2>2 DEF TypeOK, Fencing
<1>2. EventsTyped
  BY EmptyLog DEF EventsTyped, InTransit
<1>3. ItemsMatch /\ OldEpochOnly
  BY DEF ItemsMatch, OldEpochOnly, InTransit
<1>4. TxExtends /\ FenceState
  BY EmptyLog DEF TxExtends, FenceState, Batched
<1>5. CloseState /\ NilMeansDurable
  BY DEF CloseState, NothingPendingAfterClose, NilMeansDurable
<1> QED
  BY <1>1, <1>2, <1>3, <1>4, <1>5 DEF IInv

(* Every step keeps it. *)
LEMMA Step == IInv /\ [Next]_vars /\ settings' = settings => IInv'
<1> SUFFICES ASSUME IInv, [Next]_vars, settings' = settings PROVE IInv'
  OBVIOUS
<1>a. settings' = settings /\ (Batched' <=> Batched)
  BY DEF Batched
<1> USE <1>a
<1>b. MaxRetries \in Nat /\ Promoter \notin Appender
  BY BatchAssumption
<1> USE <1>b DEF endpointVars, windowVars, txVars, appenderVars, closerVars
<1>0. TypeOK /\ EventsTyped /\ ItemsMatch /\ OldEpochOnly /\ TxExtends /\ FenceState /\ CloseState /\ NilMeansDurable
  BY DEF IInv
<1> USE <1>0
<1>1. ASSUME NEW a \in Appender, Stage(a) PROVE IInv'
  <2>1. TypeOK'
    <3>1. sub[a] + 1 \in 0..MaxRetries + 1
      BY <1>1 DEF Stage, ItemsMatch, TypeOK
    <3> QED
      BY <1>1, <3>1 DEF Stage, TypeOK, Replies
  <2>2. EventsTyped'
    <3>1. PICK head \in {HeadOf(log)} \cup {e \in Staged : e.key # a} :
               event' = [event EXCEPT ![a] = EventOn(a, head)]
      BY <1>1 DEF Stage
    <3>2. head = Genesis \/ EventOK(head)
      BY <3>1, HeadInLog DEF HeadOf, Staged, EventsTyped, TypeOK, TxExtends
    <3>3. head.seq \in Nat
      BY <3>2 DEF Genesis, EventOK
    <3>4. EventOK(EventOn(a, head)) /\ EventOn(a, head).epoch = 1
      BY <3>3 DEF EventOK, EventOn, NextSequence, Ids, TypeOK
    <3> QED
      <4>1. \A b \in Appender : pc'[b] # "idle" => EventOK(event'[b]) /\ event'[b].epoch = 1
        BY <1>1, <3>1, <3>4 DEF Stage, EventsTyped, TypeOK
      <4>2. txLog' = txLog /\ InTransit' = InTransit /\ DOMAIN event' = Appender
        BY <1>1, <3>1 DEF Stage, EventsTyped, InTransit
      <4> QED
        BY <4>1, <4>2 DEF EventsTyped, EventOK, Ids
  <2>3. ItemsMatch'
    BY <1>1 DEF Stage, EventOn, NextSequence, Staged, HeadOf, Genesis, ItemsMatch, InTransit,
       Items, Matches, TypeOK
  <2>4. NilMeansDurable'
    BY <1>1 DEF Stage, EventOn, NextSequence, Staged, HeadOf, Genesis, NilMeansDurable, TypeOK
  <2>5. OldEpochOnly' /\ TxExtends' /\ FenceState' /\ CloseState'
    BY <1>1 DEF Stage, OldEpochOnly, TxExtends, FenceState, CloseState, NothingPendingAfterClose,
       InTransit, Items
  <2> QED
    BY <2>1, <2>2, <2>3, <2>4, <2>5 DEF IInv
<1>2. ASSUME NEW a \in Appender, Resubmit(a) PROVE IInv'
  <2>1. TypeOK'
    <3>1. sub[a] + 1 \in 0..MaxRetries + 1 /\ retries + 1 \in 0..MaxRetries
      <4>1. retries < MaxRetries /\ retries \in Nat /\ MaxRetries \in Nat
        BY <1>2 DEF Resubmit, Retry, TypeOK
      <4>2. sub[a] <= retries + 1 /\ sub[a] \in Nat
        BY <1>2 DEF Resubmit, ItemsMatch, TypeOK
      <4> QED
        BY <4>1, <4>2
    <3> QED
      BY <1>2, <3>1 DEF Resubmit, Retry, TypeOK, Replies
  <2>2. EventsTyped'
    BY <1>2 DEF Resubmit, Retry, EventsTyped, InTransit, Items, EventOK, TypeOK, Ids
  <2>3. ItemsMatch'
    BY <1>2 DEF Resubmit, Retry, ItemsMatch, InTransit, Items, Matches, TypeOK
  <2>4. NilMeansDurable'
    BY <1>2 DEF Resubmit, Retry, NilMeansDurable, TypeOK
  <2>5. OldEpochOnly' /\ TxExtends' /\ FenceState' /\ CloseState'
    BY <1>2 DEF Resubmit, OldEpochOnly, TxExtends, FenceState, CloseState,
       NothingPendingAfterClose, InTransit, Items
  <2> QED
    BY <2>1, <2>2, <2>3, <2>4, <2>5 DEF IInv
<1>3. ASSUME NEW a \in Appender, Restage(a) PROVE IInv'
  <2>1. TypeOK'
    BY <1>3 DEF Restage, Retry, TypeOK, Fencing, EventOK, Ids
  <2>2. EventsTyped'
    BY <1>3 DEF Restage, Retry, EventsTyped, InTransit, Items, EventOK, TypeOK, Ids
  <2>3. ItemsMatch'
    BY <1>3 DEF Restage, Retry, ItemsMatch, InTransit, Items, Matches, TypeOK
  <2>4. OldEpochOnly' /\ TxExtends' /\ FenceState' /\ CloseState'
    BY <1>3 DEF Restage, OldEpochOnly, TxExtends, FenceState, CloseState,
       NothingPendingAfterClose, InTransit, Items
  <2>5. NilMeansDurable'
    BY <1>3 DEF Restage, NilMeansDurable
  <2> QED
    BY <2>1, <2>2, <2>3, <2>4, <2>5 DEF IInv
<1>4. ASSUME NEW a \in Appender, AppendRefused(a) PROVE IInv'
  <2>1. TypeOK'
    BY <1>4 DEF AppendRefused, Return, TypeOK, Replies
  <2>2. EventsTyped'
    BY <1>4 DEF AppendRefused, Return, EventsTyped, InTransit, Items, EventOK, TypeOK, Ids
  <2>3. ItemsMatch'
    BY <1>4 DEF AppendRefused, Return, ItemsMatch, InTransit, Items, Matches, TypeOK
  <2>4. NilMeansDurable'
    BY <1>4 DEF AppendRefused, Return, NilMeansDurable, TypeOK
  <2>5. OldEpochOnly' /\ TxExtends' /\ FenceState' /\ CloseState'
    BY <1>4 DEF AppendRefused, OldEpochOnly, TxExtends, FenceState, CloseState,
       NothingPendingAfterClose, InTransit, Items
  <2> QED
    BY <2>1, <2>2, <2>3, <2>4, <2>5 DEF IInv
<1>5. ASSUME NEW a \in Appender, AppendUnbatched(a) PROVE IInv'
  <2>1. TypeOK'
    <3>1. Events(log') \subseteq Events(log) \cup {event[a]} /\ EventOK(event[a])
      BY <1>5, AppendDataLog DEF AppendUnbatched, TxExtends, EventsTyped
    <3>2. Verdict(log, event[a]) \in Replies \/ Succeeds(log, event[a])
      BY VerdictRange DEF Succeeds, Replies, Refusals
    <3> QED
      BY <1>5, <3>1, <3>2 DEF AppendUnbatched, Return, TypeOK, Replies, EventOK, Ids
  <2>2. EventsTyped'
    BY <1>5 DEF AppendUnbatched, Return, MuFree, EventsTyped, InTransit, Items, EventOK, TypeOK, Ids
  <2>3. ItemsMatch'
    BY <1>5 DEF AppendUnbatched, Return, MuFree, ItemsMatch, InTransit, Items, Matches, TypeOK
  <2>4. TxExtends'
    <3>1. committing = {} /\ committing' = {}
      BY <1>5 DEF AppendUnbatched, TxExtends, TypeOK
    <3>2. IsLog(log') /\ UniqueKeys(log')
      BY <1>5, AppendDataLog, AppendDataKeys DEF AppendUnbatched, TxExtends
    <3> QED
      BY <1>5, <3>1, <3>2 DEF AppendUnbatched, TxExtends
  <2>5. FenceState'
    <3>1. Events(log') \subseteq Events(log) \cup {event[a]} /\ event[a].epoch = 1
      BY <1>5, AppendDataLog DEF AppendUnbatched, TxExtends, EventsTyped
    <3> QED
      BY <1>5, <3>1 DEF AppendUnbatched, RoleAllows, FenceState
  <2>6. NilMeansDurable'
    <3>1. Events(log) \subseteq Events(log') /\ (Succeeds(log, event[a]) => event[a] \in Events(log'))
      BY <1>5, AppendDataLog DEF AppendUnbatched, TxExtends
    <3>2. ~Succeeds(log, event[a]) => Verdict(log, event[a]) # "nil"
      BY VerdictRange DEF Succeeds, Refusals
    <3> QED
      BY <1>5, <3>1, <3>2 DEF AppendUnbatched, Return, NilMeansDurable, TypeOK
  <2>7. OldEpochOnly' /\ CloseState'
    BY <1>5 DEF AppendUnbatched, OldEpochOnly, CloseState, NothingPendingAfterClose, InTransit,
       Items
  <2> QED
    BY <2>1, <2>2, <2>3, <2>4, <2>5, <2>6, <2>7 DEF IInv
<1>6. ASSUME NEW a \in Appender, Enqueue(a) PROVE IInv'
  <2>1. TypeOK'
    <3>1. timers' \subseteq 0..generation
      BY <1>6 DEF Enqueue, ArmTimer, TypeOK
    <3> QED
      BY <1>6, <3>1 DEF Enqueue, TypeOK
  <2>2. EventsTyped'
    <3>1. InTransit' \subseteq InTransit \cup {[by |-> a, sub |-> sub[a], event |-> event[a]]}
      BY <1>6, Joined DEF Enqueue, ItemsMatch
    <3>2. \A it \in InTransit' : EventOK(it.event)
      BY <1>6, <3>1 DEF Enqueue, EventsTyped
    <3> QED
      BY <1>6, <3>2 DEF Enqueue, EventsTyped, TypeOK, EventOK, Ids
  <2>3. ItemsMatch'
    <3> DEFINE new == [by |-> a, sub |-> sub[a], event |-> event[a]]
    <3>1. /\ window' \in Seq({window'[i] : i \in DOMAIN window'})
          /\ InTransit' \subseteq InTransit \cup {new}
      BY <1>6, Joined DEF Enqueue, ItemsMatch
    <3>2. \A it \in InTransit : Matches(it)' /\ it.sub \in Nat
      BY <1>6 DEF Enqueue, ItemsMatch, Matches, TypeOK
    <3>3. \A it : it = new => Matches(it)' /\ it.sub \in Nat
      BY <1>6 DEF Enqueue, Matches, TypeOK
    <3>4. \A b \in Appender : sub[b] <= retries + (IF pc'[b] = "idle" THEN 0 ELSE 1)
      BY <1>6 DEF Enqueue, ItemsMatch, TypeOK
    <3>5. \A it \in InTransit' : Matches(it)' /\ it.sub \in Nat
      BY <3>1, <3>2, <3>3
    <3> QED
      BY <1>6, <3>1, <3>4, <3>5 DEF Enqueue, ItemsMatch
  <2>4. OldEpochOnly'
    <3>1. InTransit' \subseteq InTransit \cup {[by |-> a, sub |-> sub[a], event |-> event[a]]}
      BY <1>6, Joined DEF Enqueue, ItemsMatch
    <3> QED
      BY <1>6, <3>1 DEF Enqueue, EventsTyped, OldEpochOnly
  <2>5. TxExtends'
    BY <1>6 DEF Enqueue, MuFree, ArmTimer, TxExtends, TypeOK
  <2>6. FenceState'
    BY <1>6 DEF Enqueue, MuFree, RoleAllows, ArmTimer, FenceState, Fencing, TypeOK
  <2>7. CloseState'
    BY <1>6 DEF Enqueue, MuFree, ArmTimer, CloseState, NothingPendingAfterClose, TypeOK
  <2>8. NilMeansDurable'
    BY <1>6 DEF Enqueue, NilMeansDurable
  <2> QED
    BY <2>1, <2>2, <2>3, <2>4, <2>5, <2>6, <2>7, <2>8 DEF IInv
<1>7. ASSUME NEW a \in Appender, FlushFull(a) PROVE IInv'
  <2>1. TypeOK'
    <3>1. CASE MayDrain(joined[a])
      <4>1. generation' \in Nat /\ timers' \subseteq 0..generation' /\ flights \subseteq flights'
        BY <1>7, <3>1, Drained DEF FlushFull
      <4> QED
        BY <1>7, <3>1, <4>1 DEF FlushFull, TypeOK, Fencing
    <3>2. CASE ~(MayDrain(joined[a]))
      BY <1>7, <3>2 DEF FlushFull, TypeOK, Fencing
    <3> QED
      BY <3>1, <3>2
  <2>2. EventsTyped'
    <3>1. InTransit' \subseteq InTransit
      BY <1>7, Drained, NotDrained DEF FlushFull
    <3> QED
      BY <1>7, <3>1 DEF FlushFull, EventsTyped, TypeOK, EventOK, Ids
  <2>3. ItemsMatch'
    <3>1. InTransit' \subseteq InTransit /\ window' \in Seq({window'[i] : i \in DOMAIN window'})
      BY <1>7, Drained, NotDrained DEF FlushFull, ItemsMatch
    <3>2. \A it \in InTransit : Matches(it)' /\ it.sub \in Nat
      BY <1>7 DEF FlushFull, ItemsMatch, Matches, TypeOK
    <3>3. \A b \in Appender : sub'[b] <= retries' + (IF pc'[b] = "idle" THEN 0 ELSE 1)
      BY <1>7 DEF FlushFull, ItemsMatch, TypeOK
    <3> QED
      BY <3>1, <3>2, <3>3 DEF ItemsMatch
  <2>4. OldEpochOnly'
    <3>1. InTransit' \subseteq InTransit
      BY <1>7, Drained, NotDrained DEF FlushFull
    <3> QED
      BY <3>1 DEF OldEpochOnly
  <2>5. TxExtends'
    BY <1>7 DEF FlushFull, MayDrain, DrainBody, Flight, TxExtends, TypeOK
  <2>6. FenceState'
    BY <1>7 DEF FlushFull, MayDrain, DrainBody, Flight, FenceState, Fencing, TypeOK
  <2>7. CloseState'
    BY <1>7 DEF FlushFull, MayDrain, DrainBody, Flight, CloseState, NothingPendingAfterClose, TypeOK
  <2>8. NilMeansDurable'
    BY <1>7 DEF FlushFull, NilMeansDurable
  <2> QED
    BY <2>1, <2>2, <2>3, <2>4, <2>5, <2>6, <2>7, <2>8 DEF IInv
<1>8. ASSUME NEW a \in Appender, Receive(a) PROVE IInv'
  <2>1. TypeOK'
    BY <1>8 DEF Receive, TypeOK, Fencing, EventOK, Ids
  <2>2. EventsTyped'
    BY <1>8 DEF Receive, EventsTyped, InTransit, Items, EventOK, TypeOK, Ids
  <2>3. ItemsMatch'
    <3>1. InTransit' = InTransit
      BY <1>8 DEF Receive, InTransit
    <3>2. \A it \in InTransit : Matches(it)'
      BY <1>8 DEF Receive, ItemsMatch, Matches, TypeOK
    <3> QED
      BY <1>8, <3>1, <3>2 DEF Receive, ItemsMatch, TypeOK
  <2>4. OldEpochOnly' /\ TxExtends' /\ FenceState' /\ CloseState'
    BY <1>8 DEF Receive, OldEpochOnly, TxExtends, FenceState, CloseState,
       NothingPendingAfterClose, InTransit, Items
  <2>5. NilMeansDurable'
    BY <1>8 DEF Receive, NilMeansDurable
  <2> QED
    BY <2>1, <2>2, <2>3, <2>4, <2>5 DEF IInv
<1>9. ASSUME NEW a \in Appender, Cancel(a) PROVE IInv'
  <2>1. TypeOK'
    BY <1>9 DEF Cancel, Return, Replies, Refusals, TypeOK, Fencing, EventOK, Ids
  <2>2. EventsTyped'
    BY <1>9 DEF Cancel, Return, EventsTyped, InTransit, Items, EventOK, TypeOK, Ids
  <2>3. ItemsMatch'
    BY <1>9 DEF Cancel, Return, ItemsMatch, InTransit, Items, Matches, TypeOK
  <2>4. NilMeansDurable'
    BY <1>9 DEF Cancel, Return, NilMeansDurable, TypeOK
  <2>5. OldEpochOnly' /\ TxExtends' /\ FenceState' /\ CloseState'
    BY <1>9 DEF Cancel, OldEpochOnly, TxExtends, FenceState, CloseState, NothingPendingAfterClose,
       InTransit, Items
  <2> QED
    BY <2>1, <2>2, <2>3, <2>4, <2>5 DEF IInv
<1>10. ASSUME NEW g \in timers, TimerFires(g) PROVE IInv'
  <2>1. TypeOK'
    <3>1. CASE MayDrain(g)
      <4>1. generation' \in Nat /\ timers' \subseteq 0..generation' /\ flights \subseteq flights'
        BY <1>10, <3>1, Drained DEF TimerFires
      <4> QED
        BY <1>10, <3>1, <4>1 DEF TimerFires, TypeOK, Fencing
    <3>2. CASE ~(MayDrain(g))
      BY <1>10, <3>2 DEF TimerFires, TypeOK, Fencing
    <3> QED
      BY <3>1, <3>2
  <2>2. EventsTyped'
    <3>1. InTransit' \subseteq InTransit
      BY <1>10, Drained, NotDrained DEF TimerFires
    <3> QED
      BY <1>10, <3>1 DEF TimerFires, EventsTyped, TypeOK, EventOK, Ids
  <2>3. ItemsMatch'
    <3>1. InTransit' \subseteq InTransit /\ window' \in Seq({window'[i] : i \in DOMAIN window'})
      BY <1>10, Drained, NotDrained DEF TimerFires, ItemsMatch
    <3>2. \A it \in InTransit : Matches(it)' /\ it.sub \in Nat
      BY <1>10 DEF TimerFires, ItemsMatch, Matches, TypeOK
    <3>3. \A b \in Appender : sub'[b] <= retries' + (IF pc'[b] = "idle" THEN 0 ELSE 1)
      BY <1>10 DEF TimerFires, ItemsMatch, TypeOK
    <3> QED
      BY <3>1, <3>2, <3>3 DEF ItemsMatch
  <2>4. OldEpochOnly'
    <3>1. InTransit' \subseteq InTransit
      BY <1>10, Drained, NotDrained DEF TimerFires
    <3> QED
      BY <3>1 DEF OldEpochOnly
  <2>5. TxExtends'
    BY <1>10 DEF TimerFires, MayDrain, DrainBody, Flight, TxExtends, TypeOK
  <2>6. FenceState'
    BY <1>10 DEF TimerFires, MayDrain, DrainBody, Flight, FenceState, Fencing, TypeOK
  <2>7. CloseState'
    BY <1>10 DEF TimerFires, MayDrain, DrainBody, Flight, CloseState, NothingPendingAfterClose,
       TypeOK
  <2>8. NilMeansDurable'
    BY <1>10 DEF TimerFires, NilMeansDurable
  <2> QED
    BY <2>1, <2>2, <2>3, <2>4, <2>5, <2>6, <2>7, <2>8 DEF IInv
<1>11. ASSUME NEW f \in flights, TxBegin(f) PROVE IInv'
  <2>1. TypeOK'
    BY <1>11 DEF TxBegin, TypeOK, Fencing, EventOK, Ids
  <2>2. EventsTyped'
    BY <1>11 DEF TxBegin, EventsTyped, InTransit, Items, EventOK, TypeOK, Ids
  <2>3. TxExtends'
    <3>1. /\ \A h \in committing' : h = f
          /\ txLog' = log /\ txLeft' = DOMAIN f.items
          /\ txVerdict' = [i \in DOMAIN f.items |-> "none"]
      BY <1>11 DEF TxBegin
    <3>2. "none" \in Replies /\ role \in {"active", "replica"}
      BY DEF Replies, TypeOK
    <3> QED
      BY <1>11, <3>1, <3>2 DEF TxBegin, TxExtends, FenceState
  <2>4. ItemsMatch' /\ OldEpochOnly' /\ FenceState' /\ CloseState'
    BY <1>11 DEF TxBegin, ItemsMatch, Matches, OldEpochOnly, FenceState, CloseState,
       NothingPendingAfterClose, InTransit, Items
  <2>5. NilMeansDurable'
    BY <1>11 DEF TxBegin, NilMeansDurable
  <2> QED
    BY <2>1, <2>2, <2>3, <2>4, <2>5 DEF IInv
<1>12. ASSUME NEW f \in flights, TxCommit(f) PROVE IInv'
  <2>1. TypeOK'
    <3>1. \A i \in DOMAIN f.items : txVerdict[i] \in Replies
      BY <1>12 DEF TxCommit, TxExtends, TypeOK, Replies
    <3>2. reply' \in [Appender -> Replies]
      <4>1. \A a \in Appender : reply'[a] \in Replies
        BY <1>12, <3>1, Notified DEF TxCommit, TypeOK
      <4> QED
        BY <1>12, <4>1 DEF TxCommit, Notify
    <3>3. \A e \in Events(log') : EventOK(e)
      BY <1>12 DEF TxCommit, EventsTyped, TypeOK
    <3> QED
      BY <1>12, <3>2, <3>3 DEF TxCommit, EndTx, TypeOK, EventOK, Ids
  <2>2. EventsTyped'
    <3>1. InTransit' \subseteq InTransit /\ Events(txLog') = {}
      BY <1>12, EmptyLog DEF TxCommit, EndTx, InTransit
    <3> QED
      BY <1>12, <3>1 DEF TxCommit, EndTx, EventsTyped, TypeOK, EventOK, Ids
  <2>3. ItemsMatch'
    BY <1>12 DEF TxCommit, Notify, EndTx, Awaits, ItemsMatch, InTransit, Items, Matches, TypeOK
  <2>4. OldEpochOnly'
    BY <1>12 DEF TxCommit, Notify, EndTx, Awaits, OldEpochOnly, InTransit, Items, EventsTyped
  <2>5. TxExtends'
    <3>1. IsLog(log') /\ UniqueKeys(log')
      BY <1>12 DEF TxCommit, TxExtends
    <3>2. flights' \subseteq flights /\ window' = window /\ committing' = {} /\ txLog' = <<>>
      BY <1>12 DEF TxCommit, EndTx
    <3> QED
      BY <3>1, <3>2, EmptyLog DEF TxExtends
  <2>6. FenceState'
    <3>1. (role = "replica" => log' = log) /\ (role = "active" => \A e \in Events(log') : e.epoch = 1)
      BY <1>12 DEF TxCommit, TxExtends
    <3> QED
      BY <1>12, <3>1 DEF TxCommit, EndTx, FenceState
  <2>7. NilMeansDurable'
    <3> SUFFICES ASSUME NEW a \in Appender, reply'[a] = "nil" PROVE event'[a] \in Events(log')
      BY DEF NilMeansDurable
    <3>1. event' = event /\ Events(log) \subseteq Events(log') /\ log' = txLog
      BY <1>12 DEF TxCommit, EndTx, TxExtends
    <3>2. CASE reply'[a] = reply[a]
      BY <3>1, <3>2 DEF NilMeansDurable
    <3>3. CASE \E i \in DOMAIN f.items : Awaits(a, f.items[i]) /\ reply'[a] = txVerdict[i]
      <4>1. PICK i \in DOMAIN f.items : Awaits(a, f.items[i]) /\ txVerdict[i] = "nil"
        BY <3>3
      <4>2. f.items[i].event \in Events(txLog)
        BY <1>12, <4>1 DEF TxCommit, TxExtends
      <4>3. f.items[i] \in InTransit
        BY DEF InTransit, Items
      <4>4. f.items[i].event = event[a]
        BY <4>1, <4>3 DEF ItemsMatch, Matches, Awaits
      <4> QED
        BY <3>1, <4>2, <4>4
    <3> QED
      BY <1>12, <3>2, <3>3, Notified DEF TxCommit
  <2>8. CloseState'
    BY <1>12 DEF TxCommit, EndTx, CloseState, NothingPendingAfterClose
  <2> QED
    BY <2>1, <2>2, <2>3, <2>4, <2>5, <2>6, <2>7, <2>8 DEF IInv
<1>13. ASSUME NEW f \in flights, TxAbort(f) PROVE IInv'
  <2>1. TypeOK'
    <3>1. \A i \in DOMAIN f.items : [j \in DOMAIN f.items |-> "infra"][i] \in Replies
      BY <1>13 DEF TxAbort, TxExtends, TypeOK, Replies
    <3>2. reply' \in [Appender -> Replies]
      <4>1. \A a \in Appender : reply'[a] \in Replies
        BY <1>13, <3>1, Notified DEF TxAbort, TypeOK
      <4> QED
        BY <1>13, <4>1 DEF TxAbort, Notify
    <3>3. \A e \in Events(log') : EventOK(e)
      BY <1>13 DEF TxAbort, EventsTyped, TypeOK
    <3> QED
      BY <1>13, <3>2, <3>3 DEF TxAbort, EndTx, TypeOK, EventOK, Ids
  <2>2. EventsTyped'
    <3>1. InTransit' \subseteq InTransit /\ Events(txLog') = {}
      BY <1>13, EmptyLog DEF TxAbort, EndTx, InTransit
    <3> QED
      BY <1>13, <3>1 DEF TxAbort, EndTx, EventsTyped, TypeOK, EventOK, Ids
  <2>3. ItemsMatch'
    BY <1>13 DEF TxAbort, Notify, EndTx, Awaits, ItemsMatch, InTransit, Items, Matches, TypeOK
  <2>4. OldEpochOnly'
    BY <1>13 DEF TxAbort, Notify, EndTx, Awaits, OldEpochOnly, InTransit, Items, EventsTyped
  <2>5. TxExtends'
    <3>1. IsLog(log') /\ UniqueKeys(log')
      BY <1>13 DEF TxAbort, TxExtends
    <3>2. flights' \subseteq flights /\ window' = window /\ committing' = {} /\ txLog' = <<>>
      BY <1>13 DEF TxAbort, EndTx
    <3> QED
      BY <3>1, <3>2, EmptyLog DEF TxExtends
  <2>6. NilMeansDurable'
    <3>1. \A a \in Appender : reply'[a] = reply[a] \/ reply'[a] = "infra"
      BY <1>13 DEF TxAbort, Notify
    <3> QED
      BY <1>13, <3>1 DEF TxAbort, EndTx, NilMeansDurable
  <2>7. FenceState' /\ CloseState'
    BY <1>13 DEF TxAbort, EndTx, FenceState, CloseState, NothingPendingAfterClose
  <2> QED
    BY <2>1, <2>2, <2>3, <2>4, <2>5, <2>6, <2>7 DEF IInv
<1>14. ASSUME NEW f \in flights, NEW i \in txLeft, TxApply(f, i) PROVE IInv'
  <2>1. EventsTyped'
    <3>1. f.items[i] \in InTransit
      BY <1>14 DEF TxApply, TxExtends, InTransit, Items
    <3>2. Events(txLog') \subseteq Events(txLog) \cup {f.items[i].event}
      BY <1>14, AppendDataLog DEF TxApply, TxExtends
    <3>3. \A e \in Events(txLog') : EventOK(e)
      BY <3>1, <3>2 DEF EventsTyped
    <3>4. InTransit' = InTransit
      BY <1>14 DEF TxApply, InTransit
    <3> QED
      BY <1>14, <3>3, <3>4 DEF TxApply, EventsTyped, EventOK, Ids
  <2>2. TxExtends'
    <3> DEFINE e == f.items[i].event
    <3>1. f.items[i] \in InTransit /\ e.epoch = 1
      BY <1>14 DEF TxApply, TxExtends, InTransit, Items, OldEpochOnly
    <3>2. /\ IsLog(txLog') /\ UniqueKeys(txLog')
          /\ Events(txLog) \subseteq Events(txLog')
          /\ Events(txLog') \subseteq Events(txLog) \cup {e}
          /\ Succeeds(txLog, e) => e \in Events(txLog')
      BY <1>14, AppendDataLog, AppendDataKeys DEF TxApply, TxExtends
    <3>3. role = "replica" => txLog' = log
      <4> SUFFICES ASSUME role = "replica" PROVE txLog' = log
        OBVIOUS
      <4>1. txLog = log /\ HeadOf(txLog).epoch = 2 /\ HeadOf(txLog) # Genesis
        BY <1>14 DEF TxApply, TxExtends, FenceState, Genesis
      <4> QED
        BY <1>14, <3>1, <4>1, EpochFence DEF TxApply
    <3>4. \A j \in DOMAIN f.items :
             txVerdict'[j] \in Replies /\ (txVerdict'[j] = "nil" => f.items[j].event \in Events(txLog'))
      <4>1. txVerdict' = [txVerdict EXCEPT ![i] = Answer(txLog, e)] /\ DOMAIN txVerdict = DOMAIN f.items
        BY <1>14 DEF TxApply, TxExtends
      <4>2. Answer(txLog, e) \in Replies /\ (Answer(txLog, e) = "nil" => Succeeds(txLog, e))
        BY VerdictRange DEF Answer, Succeeds, Replies, Refusals
      <4>3. \A j \in DOMAIN f.items :
               txVerdict[j] \in Replies /\ (txVerdict[j] = "nil" => f.items[j].event \in Events(txLog))
        BY <1>14 DEF TxApply, TxExtends
      <4> QED
        BY <3>2, <4>1, <4>2, <4>3
    <3>5. \A h \in committing' : h = f
      BY <1>14 DEF TxApply, TypeOK
    <3>6. DOMAIN txVerdict' = DOMAIN f.items /\ txLeft' \subseteq DOMAIN f.items
      BY <1>14 DEF TxApply, TxExtends
    <3>7. role = "active" => \A x \in Events(txLog') : x.epoch = 1
      BY <1>14, <3>1, <3>2 DEF TxApply, TxExtends
    <3>8. Events(log) \subseteq Events(txLog')
      BY <1>14, <3>2 DEF TxApply, TxExtends
    <3> QED
      BY <1>14, <3>2, <3>3, <3>4, <3>5, <3>6, <3>7, <3>8 DEF TxApply, TxExtends
  <2>3. TypeOK' /\ ItemsMatch' /\ OldEpochOnly' /\ FenceState'
    <3>1. /\ UNCHANGED <<endpointVars, log, windowVars, flights, committing>>
          /\ UNCHANGED <<appenderVars, closerVars>>
      BY <1>14 DEF TxApply
    <3>2. TypeOK'
      BY <3>1 DEF TypeOK, EventOK, endpointVars, windowVars, appenderVars, closerVars
    <3>3. InTransit' = InTransit
      BY <3>1 DEF InTransit, Items, windowVars
    <3>4. ItemsMatch' /\ OldEpochOnly'
      BY <3>1, <3>3 DEF ItemsMatch, Matches, OldEpochOnly, windowVars, appenderVars
    <3>5. FenceState'
      BY <3>1 DEF FenceState, endpointVars, windowVars
    <3> QED
      BY <3>2, <3>4, <3>5
  <2>4. CloseState' /\ NilMeansDurable'
    BY <1>14 DEF TxApply, CloseState, NothingPendingAfterClose, NilMeansDurable
  <2> QED
    BY <2>1, <2>2, <2>3, <2>4 DEF IInv
<1>15. ASSUME FenceBegin PROVE IInv'
  <2>1. TypeOK'
    <3>1. CASE window # <<>>
      <4>1. generation' \in Nat /\ timers' \subseteq 0..generation' /\ flights \subseteq flights'
        BY <1>15, <3>1, Drained DEF FenceBegin
      <4> QED
        BY <1>15, <3>1, <4>1 DEF FenceBegin, TypeOK, Fencing
    <3>2. CASE ~(window # <<>>)
      BY <1>15, <3>2 DEF FenceBegin, TypeOK, Fencing
    <3> QED
      BY <3>1, <3>2
  <2>2. EventsTyped'
    <3>1. InTransit' \subseteq InTransit
      BY <1>15, Drained, NotDrained DEF FenceBegin
    <3> QED
      BY <1>15, <3>1 DEF FenceBegin, EventsTyped, TypeOK, EventOK, Ids
  <2>3. ItemsMatch'
    <3>1. InTransit' \subseteq InTransit /\ window' \in Seq({window'[i] : i \in DOMAIN window'})
      BY <1>15, Drained, NotDrained DEF FenceBegin, ItemsMatch
    <3>2. \A it \in InTransit : Matches(it)' /\ it.sub \in Nat
      BY <1>15 DEF FenceBegin, ItemsMatch, Matches, TypeOK
    <3>3. \A b \in Appender : sub'[b] <= retries' + (IF pc'[b] = "idle" THEN 0 ELSE 1)
      BY <1>15 DEF FenceBegin, ItemsMatch, TypeOK
    <3> QED
      BY <3>1, <3>2, <3>3 DEF ItemsMatch
  <2>4. OldEpochOnly'
    <3>1. InTransit' \subseteq InTransit
      BY <1>15, Drained, NotDrained DEF FenceBegin
    <3> QED
      BY <3>1 DEF OldEpochOnly
  <2>5. TxExtends'
    BY <1>15 DEF FenceBegin, DrainBody, Flight, TxExtends, TypeOK
  <2>6. FenceState'
    BY <1>15 DEF FenceBegin, DrainBody, Flight, FenceState, Fencing, TypeOK
  <2>7. CloseState'
    BY <1>15 DEF FenceBegin, DrainBody, Flight, CloseState, NothingPendingAfterClose, TypeOK
  <2>8. NilMeansDurable'
    BY <1>15 DEF FenceBegin, NilMeansDurable
  <2> QED
    BY <2>1, <2>2, <2>3, <2>4, <2>5, <2>6, <2>7, <2>8 DEF IInv
<1>16. ASSUME FenceReadHead PROVE IInv'
  <2>1. TypeOK'
    BY <1>16 DEF FenceReadHead, TypeOK, Fencing, EventOK, Ids
  <2>2. FenceState'
    BY <1>16 DEF FenceReadHead, FenceState, Fencing, TypeOK
  <2>3. EventsTyped' /\ ItemsMatch' /\ OldEpochOnly' /\ TxExtends'
    BY <1>16 DEF FenceReadHead, EventsTyped, EventOK, Ids, ItemsMatch, Matches, OldEpochOnly,
       TxExtends, InTransit, Items
  <2>4. CloseState' /\ NilMeansDurable'
    BY <1>16 DEF FenceReadHead, CloseState, NothingPendingAfterClose, NilMeansDurable
  <2> QED
    BY <2>1, <2>2, <2>3, <2>4 DEF IInv
<1>17. ASSUME FenceAppend PROVE IInv'
  <2>1. TypeOK'
    <3>1. /\ IsLog(log') /\ UniqueKeys(log')
          /\ Events(log) \subseteq Events(log')
          /\ Events(log') \subseteq Events(log) \cup {Checkpoint}
      BY <1>17, AppendDataLog, AppendDataKeys DEF FenceAppend, TxExtends
    <3>2. Checkpoint.epoch = 2 /\ EventOK(Checkpoint)
      BY <1>17 DEF FenceAppend, FenceState, Fencing, TypeOK, Checkpoint, EventOK, Ids
    <3> QED
      BY <1>17, <3>1, <3>2 DEF FenceAppend, TypeOK, Fencing, EventOK, Ids
  <2>2. TxExtends'
    <3>1. /\ IsLog(log') /\ UniqueKeys(log')
          /\ Events(log) \subseteq Events(log')
          /\ Events(log') \subseteq Events(log) \cup {Checkpoint}
      BY <1>17, AppendDataLog, AppendDataKeys DEF FenceAppend, TxExtends
    <3> QED
      BY <1>17, <3>1 DEF FenceAppend, TxExtends
  <2>3. FenceState'
    <3>1. role = "active" /\ epoch = 1 /\ window = <<>> /\ \A e \in Events(log) : e.epoch = 1
      BY <1>17 DEF FenceAppend, FenceState, TypeOK, Fencing
    <3>2. Checkpoint.epoch = 2 /\ Checkpoint \notin Events(log)
      BY <3>1 DEF Checkpoint
    <3>3. CASE Succeeds(log, Checkpoint)
      <4>1. log' = Append(log, Checkpoint)
        BY <1>17, <3>2, <3>3 DEF FenceAppend, Succeeds, AppendData, Verdict, ValidateNext
      <4>2. HeadOf(log') = Checkpoint /\ log' # <<>>
        BY <4>1, AppendLog DEF TxExtends
      <4> QED
        BY <1>17, <3>1, <3>2, <3>3, <4>2 DEF FenceAppend, FenceState
    <3>4. CASE ~Succeeds(log, Checkpoint)
      <4>1. log' = log
        BY <1>17, <3>4 DEF FenceAppend, Succeeds, AppendData
      <4> QED
        BY <1>17, <3>1, <3>4, <4>1 DEF FenceAppend, FenceState
    <3> QED
      BY <3>3, <3>4
  <2>4. NilMeansDurable'
    <3>1. /\ IsLog(log') /\ UniqueKeys(log')
          /\ Events(log) \subseteq Events(log')
          /\ Events(log') \subseteq Events(log) \cup {Checkpoint}
      BY <1>17, AppendDataLog, AppendDataKeys DEF FenceAppend, TxExtends
    <3> QED
      BY <1>17, <3>1 DEF FenceAppend, NilMeansDurable
  <2>5. EventsTyped' /\ ItemsMatch' /\ OldEpochOnly' /\ CloseState'
    BY <1>17 DEF FenceAppend, EventsTyped, EventOK, Ids, ItemsMatch, Matches, OldEpochOnly,
       CloseState, NothingPendingAfterClose, InTransit, Items
  <2> QED
    BY <2>1, <2>2, <2>3, <2>4, <2>5 DEF IInv
<1>18. ASSUME FenceFails PROVE IInv'
  <2>1. TypeOK'
    BY <1>18 DEF FenceFails, TypeOK, Fencing, EventOK, Ids
  <2>2. FenceState'
    BY <1>18 DEF FenceFails, FenceState, Fencing, TypeOK
  <2>3. EventsTyped' /\ ItemsMatch' /\ OldEpochOnly' /\ TxExtends'
    BY <1>18 DEF FenceFails, EventsTyped, EventOK, Ids, ItemsMatch, Matches, OldEpochOnly,
       TxExtends, InTransit, Items
  <2>4. CloseState' /\ NilMeansDurable'
    BY <1>18 DEF FenceFails, CloseState, NothingPendingAfterClose, NilMeansDurable
  <2> QED
    BY <2>1, <2>2, <2>3, <2>4 DEF IInv
<1>19. ASSUME NEW c \in Closer, CloseBegin(c) PROVE IInv'
  <2>1. TypeOK'
    BY <1>19 DEF CloseBegin, TypeOK, Fencing, EventOK, Ids
  <2>2. CloseState'
    BY <1>19 DEF CloseBegin, CloseState, NothingPendingAfterClose, TypeOK
  <2>3. EventsTyped' /\ ItemsMatch' /\ OldEpochOnly' /\ TxExtends'
    BY <1>19 DEF CloseBegin, EventsTyped, EventOK, Ids, ItemsMatch, Matches, OldEpochOnly,
       TxExtends, InTransit, Items
  <2>4. FenceState' /\ NilMeansDurable'
    BY <1>19 DEF CloseBegin, FenceState, NilMeansDurable
  <2> QED
    BY <2>1, <2>2, <2>3, <2>4 DEF IInv
<1>20. ASSUME NEW c \in Closer, CloseFlush(c) PROVE IInv'
  <2>1. TypeOK'
    <3>1. CASE window # <<>>
      <4>1. generation' \in Nat /\ timers' \subseteq 0..generation' /\ flights \subseteq flights'
        BY <1>20, <3>1, Drained DEF CloseFlush
      <4> QED
        BY <1>20, <3>1, <4>1 DEF CloseFlush, TypeOK, Fencing
    <3>2. CASE ~(window # <<>>)
      BY <1>20, <3>2 DEF CloseFlush, TypeOK, Fencing
    <3> QED
      BY <3>1, <3>2
  <2>2. EventsTyped'
    <3>1. InTransit' \subseteq InTransit
      BY <1>20, Drained, NotDrained DEF CloseFlush
    <3> QED
      BY <1>20, <3>1 DEF CloseFlush, EventsTyped, TypeOK, EventOK, Ids
  <2>3. ItemsMatch'
    <3>1. InTransit' \subseteq InTransit /\ window' \in Seq({window'[i] : i \in DOMAIN window'})
      BY <1>20, Drained, NotDrained DEF CloseFlush, ItemsMatch
    <3>2. \A it \in InTransit : Matches(it)' /\ it.sub \in Nat
      BY <1>20 DEF CloseFlush, ItemsMatch, Matches, TypeOK
    <3>3. \A b \in Appender : sub'[b] <= retries' + (IF pc'[b] = "idle" THEN 0 ELSE 1)
      BY <1>20 DEF CloseFlush, ItemsMatch, TypeOK
    <3> QED
      BY <3>1, <3>2, <3>3 DEF ItemsMatch
  <2>4. OldEpochOnly'
    <3>1. InTransit' \subseteq InTransit
      BY <1>20, Drained, NotDrained DEF CloseFlush
    <3> QED
      BY <3>1 DEF OldEpochOnly
  <2>5. TxExtends'
    BY <1>20 DEF CloseFlush, DrainBody, Flight, TxExtends, TypeOK
  <2>6. FenceState'
    BY <1>20 DEF CloseFlush, DrainBody, Flight, FenceState, Fencing, TypeOK
  <2>7. CloseState'
    BY <1>20 DEF CloseFlush, DrainBody, Flight, CloseState, NothingPendingAfterClose, TypeOK
  <2>8. NilMeansDurable'
    BY <1>20 DEF CloseFlush, NilMeansDurable
  <2> QED
    BY <2>1, <2>2, <2>3, <2>4, <2>5, <2>6, <2>7, <2>8 DEF IInv
<1>21. ASSUME NEW c \in Closer, CloseReturns(c) PROVE IInv'
  <2>1. TypeOK'
    BY <1>21 DEF CloseReturns, TypeOK, Fencing, EventOK, Ids
  <2>2. CloseState'
    BY <1>21 DEF CloseReturns, CloseState, NothingPendingAfterClose, TypeOK
  <2>3. EventsTyped' /\ ItemsMatch' /\ OldEpochOnly'
    BY <1>21 DEF CloseReturns, EventsTyped, EventOK, Ids, ItemsMatch, Matches, OldEpochOnly,
       InTransit, Items
  <2>4. TxExtends' /\ FenceState' /\ NilMeansDurable'
    BY <1>21 DEF CloseReturns, TxExtends, FenceState, NilMeansDurable
  <2> QED
    BY <2>1, <2>2, <2>3, <2>4 DEF IInv
<1>22. ASSUME NEW c \in Closer, CloseAgain(c) PROVE IInv'
  <2>1. TypeOK'
    BY <1>22 DEF CloseAgain, TypeOK, Fencing, EventOK, Ids
  <2>2. CloseState'
    BY <1>22 DEF CloseAgain, CloseState, NothingPendingAfterClose, TypeOK
  <2>3. EventsTyped' /\ ItemsMatch' /\ OldEpochOnly' /\ TxExtends'
    BY <1>22 DEF CloseAgain, EventsTyped, EventOK, Ids, ItemsMatch, Matches, OldEpochOnly,
       TxExtends, InTransit, Items
  <2>4. FenceState' /\ NilMeansDurable'
    BY <1>22 DEF CloseAgain, FenceState, NilMeansDurable
  <2> QED
    BY <2>1, <2>2, <2>3, <2>4 DEF IInv
<1>23. CASE UNCHANGED vars
  <2>1. TypeOK'
    BY <1>23 DEF vars, TypeOK, EventOK, Ids
  <2>2. EventsTyped'
    BY <1>23 DEF vars, EventsTyped, EventOK, Ids, InTransit, Items
  <2>3. ItemsMatch'
    BY <1>23 DEF vars, ItemsMatch, Matches, InTransit, Items
  <2>4. OldEpochOnly'
    BY <1>23 DEF vars, OldEpochOnly, InTransit, Items
  <2>5. TxExtends'
    BY <1>23 DEF vars, TxExtends
  <2>6. FenceState'
    BY <1>23 DEF vars, FenceState
  <2>7. CloseState'
    BY <1>23 DEF vars, CloseState, NothingPendingAfterClose
  <2>8. NilMeansDurable'
    BY <1>23 DEF vars, NilMeansDurable
  <2> QED
    BY <2>1, <2>2, <2>3, <2>4, <2>5, <2>6, <2>7, <2>8 DEF IInv
<1> QED
  BY <1>1, <1>2, <1>3, <1>4, <1>5, <1>6, <1>7, <1>8, <1>9, <1>10, <1>11, <1>12, <1>13, <1>14,
     <1>15, <1>16, <1>17, <1>18, <1>19, <1>20, <1>21, <1>22, <1>23 DEF Next, AppenderStep, TxStep,
     FenceStep, CloseStep

(* The invariant holds in every reachable state. *)
THEOREM Safety == Spec => []IInv
<1>1. IInv /\ [Next /\ UNCHANGED settings]_<<vars, settings>> => IInv'
  BY Step
<1> QED
  BY Initial, <1>1, PTL DEF Spec

(* The types, whatever the number of appenders and closers. *)
THEOREM TypeCorrect == Spec => []TypeOK
<1>1. IInv => TypeOK
  BY DEF IInv
<1> QED
  BY Safety, <1>1, PTL

(* Append acknowledges only durable commits (batch.go, "Durability"). *)
THEOREM Durability == Spec => []NilMeansDurable
<1>1. IInv => NilMeansDurable
  BY DEF IInv
<1> QED
  BY Safety, <1>1, PTL

(* A command is recorded at most once, however often it is retried. *)
THEOREM AtMostOnce == Spec => []CommandAtMostOnce
<1>1. IInv => CommandAtMostOnce
  BY DEF IInv, TxExtends, UniqueKeys, CommandAtMostOnce
<1> QED
  BY Safety, <1>1, PTL

(* Flush-then-fence leaves nothing behind in the window. *)
THEOREM FlushThenFence == Spec => []NothingPendingBehindFence
<1>1. IInv => NothingPendingBehindFence
  BY DEF IInv, FenceState, NothingPendingBehindFence
<1> QED
  BY Safety, <1>1, PTL

(* Close strands no append in a window that no trigger will flush. *)
THEOREM CloseSweeps == Spec => []NothingPendingAfterClose
<1>1. IInv => NothingPendingAfterClose
  BY DEF IInv, CloseState
<1> QED
  BY Safety, <1>1, PTL

(* Behind the fence no batch in flight changes the log.  The fence's       *)
(* checkpoint raises the head's epoch, so the transaction of such a batch  *)
(* validates every item against it and refuses them all.                   *)
THEOREM FencedLog == Spec => FencedLogIsFrozen
<1>1. IInv /\ [Next /\ UNCHANGED settings]_<<vars, settings>>
        => [role = "replica" => UNCHANGED log]_vars
  <2> SUFFICES ASSUME IInv, Next, role = "replica" PROVE log' = log
    BY DEF vars
  <2>1. ASSUME NEW a \in Appender, AppenderStep(a) PROVE log' = log
    BY <2>1 DEF AppenderStep, Stage, Resubmit, Restage, AppendRefused, AppendUnbatched,
       RoleAllows, Enqueue, FlushFull, Receive, Cancel
  <2>2. ASSUME NEW g \in timers, TimerFires(g) PROVE log' = log
    BY <2>2 DEF TimerFires
  <2>3. ASSUME TxStep PROVE log' = log
    BY <2>3 DEF TxStep, TxBegin, TxCommit, TxAbort, TxApply, IInv, TxExtends
  <2>4. ASSUME FenceStep PROVE log' = log
    BY <2>4 DEF FenceStep, FenceBegin, FenceReadHead, FenceAppend, FenceFails, IInv, FenceState
  <2>5. ASSUME CloseStep PROVE log' = log
    BY <2>5 DEF CloseStep, CloseBegin, CloseFlush, CloseReturns, CloseAgain
  <2> QED
    BY <2>1, <2>2, <2>3, <2>4, <2>5 DEF Next
<1> QED
  BY Safety, <1>1, PTL DEF Spec, FencedLogIsFrozen

-----------------------------------------------------------------------------
(* What a full window's own appender flushes.                              *)

\* An appender that filled a window has seen the generation it filled, and
\* the window is still full unless somebody has drained it.
CountState ==
    /\ DOMAIN joined = Appender
    /\ \A a \in Appender :
          pc[a] = "flushing" =>
             /\ joined[a] \in 0..generation
             /\ joined[a] = generation => Len(window) >= settings.items
    /\ CountFlushesFullWindow

(* A drain starts a new generation; a count trigger's flight is as long as *)
(* the window it was drained from.                                         *)
LEMMA CountDrained ==
  ASSUME IInv, CountState, NEW trigger, NEW running, DrainBody(trigger, running),
         trigger = "count" => Len(window) >= settings.items,
         settings' = settings, NEW a \in Appender,
         pc'[a] = "flushing" => pc[a] = "flushing" /\ joined'[a] = joined[a]
  PROVE  /\ CountFlushesFullWindow'
         /\ pc'[a] = "flushing" => joined'[a] \in 0..generation' /\ joined'[a] # generation'
<1>1. generation \in Nat /\ generation' = generation + 1
  BY DEF IInv, TypeOK, DrainBody
<1>2. pc'[a] = "flushing" => joined'[a] \in 0..generation
  BY DEF CountState
<1>3. CountFlushesFullWindow'
  <2> SUFFICES ASSUME NEW f \in flights', f.trigger = "count"
               PROVE  Len(f.items) >= settings.items
    BY DEF CountFlushesFullWindow
  <2>1. CASE f \in flights
    BY <2>1 DEF CountState, CountFlushesFullWindow
  <2>2. CASE f = Flight(trigger)
    BY <2>2 DEF Flight
  <2> QED
    BY <2>1, <2>2 DEF DrainBody
<1> QED
  BY <1>1, <1>2, <1>3

LEMMA CountInitial == Init => CountState
  BY DEF Init, CountState, CountFlushesFullWindow

(* Every step keeps it.                                                    *)
LEMMA CountStep ==
  ASSUME IInv, CountState, [Next]_vars, settings' = settings
  PROVE  CountState'
<1> USE DEF endpointVars, windowVars, txVars, appenderVars, closerVars
<1>0. /\ pc \in [Appender -> {"idle", "staged", "flushing", "committing", "waiting", "returned"}]
      /\ generation \in Nat
  BY DEF IInv, TypeOK
<1>1. ASSUME UNCHANGED <<window, generation>>, flights' \subseteq flights, UNCHANGED joined,
             \A a \in Appender : pc'[a] = "flushing" => pc[a] = "flushing"
      PROVE  CountState'
  BY <1>1 DEF CountState, CountFlushesFullWindow
<1>2. ASSUME NEW a \in Appender, Enqueue(a) PROVE CountState'
  <2>1. /\ settings.items \in Nat /\ Len(window) \in Nat
        /\ Len(window') = Len(window) + 1
    <3>1. settings.items \in Nat
      BY BatchAssumption DEF IInv, TypeOK
    <3>2. window \in Seq({window[i] : i \in DOMAIN window})
      BY DEF IInv, ItemsMatch
    <3>3. PICK W : window \in Seq(W)
      BY <3>2
    <3>4. window \in Seq(W \cup {[by |-> a, sub |-> sub[a], event |-> event[a]]})
      BY <3>3
    <3> QED
      BY <1>2, <3>1, <3>4 DEF Enqueue
  <2>2. CASE settings.items > 0 /\ Len(window) + 1 >= settings.items
    BY <1>0, <1>2, <2>1, <2>2 DEF Enqueue, CountState, CountFlushesFullWindow
  <2>3. CASE ~(settings.items > 0 /\ Len(window) + 1 >= settings.items)
    BY <1>0, <1>2, <2>1, <2>3 DEF Enqueue, CountState, CountFlushesFullWindow
  <2> QED
    BY <2>2, <2>3
<1>3. ASSUME NEW a \in Appender, FlushFull(a) PROVE CountState'
  <2>1. CASE MayDrain(joined[a])
    <3>1. DrainBody("count", timers) /\ Len(window) >= settings.items
      BY <1>3, <2>1 DEF FlushFull, MayDrain, CountState
    <3>2. \A b \in Appender : pc'[b] = "flushing" => pc[b] = "flushing" /\ joined'[b] = joined[b]
      BY <1>0, <1>3, <2>1 DEF FlushFull
    <3>3. DOMAIN joined' = Appender
      BY <1>3 DEF FlushFull, CountState
    <3> QED
      BY <3>1, <3>2, <3>3, CountDrained, <1>3 DEF CountState
  <2>2. CASE ~MayDrain(joined[a])
    BY <1>0, <1>3, <2>2 DEF FlushFull, CountState, CountFlushesFullWindow
  <2> QED
    BY <2>1, <2>2
<1>4. ASSUME NEW trigger, NEW running, DrainBody(trigger, running), trigger # "count",
             UNCHANGED <<pc, joined>>
      PROVE  CountState'
  <2>1. \A b \in Appender :
           /\ CountFlushesFullWindow'
           /\ pc'[b] = "flushing" => joined'[b] \in 0..generation' /\ joined'[b] # generation'
    BY <1>4, CountDrained
  <2>2. CASE Appender = {}
    BY <1>4, <2>2 DEF CountState, CountFlushesFullWindow, DrainBody, Flight
  <2>3. CASE Appender # {}
    BY <1>4, <2>1, <2>3 DEF CountState
  <2> QED
    BY <2>2, <2>3
<1>5. ASSUME NEW g \in timers, TimerFires(g) PROVE CountState'
  BY <1>1, <1>4, <1>5 DEF TimerFires
<1>6. ASSUME FenceBegin PROVE CountState'
  BY <1>1, <1>4, <1>6 DEF FenceBegin
<1>7. ASSUME NEW c \in Closer, CloseFlush(c) PROVE CountState'
  BY <1>1, <1>4, <1>7 DEF CloseFlush
<1>8. ASSUME NEW a \in Appender, Stage(a) \/ Resubmit(a) \/ Restage(a) \/ AppendRefused(a)
                \/ AppendUnbatched(a) \/ Receive(a) \/ Cancel(a)
      PROVE CountState'
  <2>1. UNCHANGED <<window, generation, flights, joined>>
    BY <1>8 DEF Stage, Resubmit, Restage, AppendRefused, AppendUnbatched, Receive, Cancel
  <2>2. \E p \in {"idle", "staged", "returned"} : pc' = [pc EXCEPT ![a] = p]
    BY <1>8 DEF Stage, Resubmit, Restage, AppendRefused, AppendUnbatched, Receive, Cancel, Return
  <2> QED
    BY <1>0, <1>1, <2>1, <2>2
<1>9. ASSUME TxStep PROVE CountState'
  BY <1>1, <1>9 DEF TxStep, TxBegin, TxApply, TxCommit, TxAbort, EndTx
<1>10. ASSUME FenceReadHead \/ FenceAppend \/ FenceFails PROVE CountState'
  BY <1>1, <1>10 DEF FenceReadHead, FenceAppend, FenceFails
<1>11. ASSUME NEW c \in Closer, CloseBegin(c) \/ CloseReturns(c) \/ CloseAgain(c) PROVE CountState'
  BY <1>1, <1>11 DEF CloseBegin, CloseReturns, CloseAgain
<1>12. CASE UNCHANGED vars
  BY <1>1, <1>12 DEF vars
<1> QED
  BY <1>2, <1>3, <1>5, <1>6, <1>7, <1>8, <1>9, <1>10, <1>11, <1>12
     DEF Next, AppenderStep, FenceStep, CloseStep

(* A stale trigger never cuts a later window short.                        *)
THEOREM FullWindows == Spec => []CountFlushesFullWindow
<1>1. CountState /\ IInv /\ [Next /\ UNCHANGED settings]_<<vars, settings>> => CountState'
  BY CountStep
<1>2. CountState => CountFlushesFullWindow
  BY DEF CountState
<1> QED
  BY CountInitial, <1>1, <1>2, Safety, PTL DEF Spec

-----------------------------------------------------------------------------
(* What an error says of the only submission of a command.                 *)

\* A command's key is its appender's; its first submission is number one.
OwnKeys ==
    /\ \A a \in Appender : sub[a] >= 1 => event[a].key = a
    /\ \A a \in Appender : pc[a] # "idle" => sub[a] >= 1
    /\ \A it \in InTransit : it.event.key = it.by /\ it.sub >= 1

Recorded(l, a) == \E e \in Events(l) : e.key = a

Holds(items, a) == \E i \in DOMAIN items : items[i].by = a

\* A command that is submitted once is at one place at most.
OneItem(a) ==
    /\ \A i, j \in DOMAIN window : window[i].by = a /\ window[j].by = a => i = j
    /\ \A f \in flights :
          /\ \A i, j \in DOMAIN f.items : f.items[i].by = a /\ f.items[j].by = a => i = j
          /\ Holds(f.items, a) => ~Holds(window, a)
    /\ \A f, g \in flights : Holds(f.items, a) /\ Holds(g.items, a) => f = g

NoItem(a) == \A it \in InTransit : it.by # a

\* If the open transaction has recorded the command, it has done so for its
\* one item, to which it will answer nil.
TxKnows(a) ==
    \A f \in committing : Recorded(txLog, a) =>
        \E i \in DOMAIN f.items \ txLeft : f.items[i].by = a /\ txVerdict[i] = "nil"

FirstTry(a) ==
    /\ sub[a] = 0 => pc[a] = "idle" /\ reply[a] = "none"
    /\ reply[a] = "none" => sub[a] = 0 \/ pc[a] \in {"staged", "flushing", "waiting", "committing"}
    /\ pc[a] = "staged" => reply[a] = "none"
    /\ reply[a] = "ctx.Err" => pc[a] \in {"returned", "idle"}
    /\ OneItem(a)
    /\ (reply[a] \notin {"none", "ctx.Err"} \/ sub[a] = 0 \/ pc[a] = "staged") => NoItem(a)
    /\ reply[a] \notin {"nil", "ctx.Err"} => ~Recorded(log, a) /\ TxKnows(a)

FirstTries == \A a \in Appender : sub[a] <= 1 => FirstTry(a)

\* An item the open transaction has been through has its answer.
TxAnswers ==
    \A f \in committing : \A i \in DOMAIN f.items \ txLeft : txVerdict[i] \in Refusals \cup {"nil"}

TryInv == IInv /\ OwnKeys /\ TxAnswers /\ FirstTries

(* A call that waits alone for its item receives that item's answer; the   *)
(* other calls keep what they have.                                        *)
LEMMA NotifiedOne ==
  ASSUME TryInv, NEW f \in flights, NEW answers, Notify(f, answers),
         NEW a \in Appender, sub[a] = 1, FirstTry(a)
  PROVE  /\ ~Holds(f.items, a) => reply'[a] = reply[a]
         /\ reply[a] # "none" => reply'[a] = reply[a]
         /\ \A i \in DOMAIN f.items :
               f.items[i].by = a /\ reply[a] = "none" => reply'[a] = answers[i]
<1>1. \A i \in DOMAIN f.items : f.items[i] \in InTransit
  BY DEF InTransit, Items
<1>2. ~Holds(f.items, a) => reply'[a] = reply[a]
  BY DEF Notify, Holds, Awaits
<1>3. reply[a] # "none" => reply'[a] = reply[a]
  <2> SUFFICES ASSUME reply[a] # "none" PROVE ~\E i \in DOMAIN f.items : Awaits(a, f.items[i])
    BY DEF Notify
  <2>1. CASE reply[a] = "ctx.Err"
    BY <2>1 DEF FirstTry, Awaits
  <2>2. CASE reply[a] # "ctx.Err"
    BY <1>1, <2>2 DEF FirstTry, NoItem, Awaits
  <2> QED
    BY <2>1, <2>2
<1>4. ASSUME NEW i \in DOMAIN f.items, f.items[i].by = a, reply[a] = "none"
      PROVE  reply'[a] = answers[i]
  <2>1. f.items[i] \in InTransit /\ f.items[i].sub >= 1 /\ f.items[i].sub <= sub[a] /\ f.items[i].sub \in Nat
    BY <1>1, <1>4 DEF TryInv, IInv, OwnKeys, ItemsMatch, Matches
  <2>2. pc[a] # "staged"
    BY <1>4, <2>1 DEF FirstTry, NoItem
  <2>3. Awaits(a, f.items[i])
    BY <1>4, <2>1, <2>2 DEF FirstTry, Awaits
  <2>4. \A j \in DOMAIN f.items : Awaits(a, f.items[j]) => j = i
    BY <1>4 DEF Awaits, FirstTry, OneItem
  <2>5. (CHOOSE j \in DOMAIN f.items : Awaits(a, f.items[j])) = i
    BY <2>3, <2>4
  <2> QED
    BY <2>3, <2>5 DEF Notify
<1> QED
  BY <1>2, <1>3, <1>4

(* What moves only from the window to a flight stays at one place.         *)
LEMMA DrainedOne ==
  ASSUME NEW trigger, NEW running, DrainBody(trigger, running), NEW a, OneItem(a)
  PROVE  OneItem(a)' /\ (NoItem(a) => NoItem(a)')
<1>1. /\ flights' = flights \cup {Flight(trigger)} /\ window' = <<>>
      /\ Flight(trigger).items = window
  BY DEF DrainBody, Flight
<1>2. NoItem(a) => NoItem(a)'
  BY <1>1 DEF NoItem, InTransit, Items
<1>3. ~Holds(window', a) /\ \A i \in DOMAIN window' : FALSE
  BY <1>1 DEF Holds
<1>4. ASSUME NEW f \in flights', NEW i \in DOMAIN f.items, NEW j \in DOMAIN f.items,
             f.items[i].by = a, f.items[j].by = a
      PROVE  i = j
  <2>1. CASE f \in flights
    BY <1>4, <2>1 DEF OneItem
  <2>2. CASE f = Flight(trigger)
    BY <1>1, <1>4, <2>2 DEF OneItem
  <2> QED
    BY <1>1, <2>1, <2>2
<1>5. ASSUME NEW f \in flights', NEW g \in flights', Holds(f.items, a), Holds(g.items, a)
      PROVE  f = g
  BY <1>1, <1>5 DEF OneItem
<1> QED
  BY <1>2, <1>3, <1>4, <1>5 DEF OneItem

(* Steps that move no item and no transaction.                             *)
LEMMA SamePlaces ==
  ASSUME UNCHANGED <<window, flights>>, NEW a
  PROVE  OneItem(a)' = OneItem(a) /\ NoItem(a)' = NoItem(a)
  BY DEF OneItem, NoItem, InTransit, Items, Holds

(* A command does not get into the log by another one's append.            *)
LEMMA NotByOthers ==
  ASSUME NEW l, IsLog(l), NEW e, NEW a, e.key # a
  PROVE  Recorded(AppendData(l, e), a) => Recorded(l, a)
  BY AppendDataLog DEF Recorded

LEMMA TryInitial == Init => OwnKeys /\ TxAnswers /\ FirstTries
<1> SUFFICES ASSUME Init PROVE OwnKeys /\ TxAnswers /\ FirstTries
  OBVIOUS
<1>1. InTransit = {} /\ Events(log) = {}
  BY EmptyLog DEF Init, InTransit
<1>2. OwnKeys
  BY <1>1 DEF Init, OwnKeys
<1>3. ASSUME NEW a \in Appender PROVE FirstTry(a)
  <2>1. OneItem(a) /\ NoItem(a)
    BY <1>1 DEF Init, OneItem, NoItem, Holds
  <2>2. ~Recorded(log, a) /\ TxKnows(a)
    BY <1>1 DEF Init, Recorded, TxKnows
  <2> QED
    BY <2>1, <2>2 DEF Init, FirstTry
<1>4. TxAnswers
  BY DEF Init, TxAnswers
<1> QED
  BY <1>2, <1>3, <1>4 DEF FirstTries

(* Every step keeps the keys.                                              *)
LEMMA KeysStep ==
  ASSUME IInv, OwnKeys, [Next]_vars
  PROVE  OwnKeys'
<1> USE DEF endpointVars, windowVars, txVars, appenderVars, closerVars
<1>0. /\ pc \in [Appender -> {"idle", "staged", "flushing", "committing", "waiting", "returned"}]
      /\ sub \in [Appender -> 0..MaxRetries + 1] /\ DOMAIN event = Appender
      /\ MaxRetries \in Nat
  BY BatchAssumption DEF IInv, TypeOK, EventsTyped
<1>1. ASSUME InTransit' \subseteq InTransit, UNCHANGED <<event, sub>>,
             \A a \in Appender : pc'[a] # "idle" => pc[a] # "idle"
      PROVE  OwnKeys'
  BY <1>1 DEF OwnKeys
<1>2. ASSUME UNCHANGED <<window, flights>> PROVE InTransit' = InTransit
  BY <1>2, NotDrained
<1>3. ASSUME NEW a \in Appender, Stage(a) PROVE OwnKeys'
  <2>1. PICK head : event' = [event EXCEPT ![a] = EventOn(a, head)]
    BY <1>3 DEF Stage
  <2>2. EventOn(a, head).key = a
    BY DEF EventOn
  <2> QED
    BY <1>0, <1>2, <1>3, <2>1, <2>2 DEF Stage, OwnKeys
<1>4. ASSUME NEW a \in Appender, Resubmit(a) PROVE OwnKeys'
  BY <1>0, <1>2, <1>4 DEF Resubmit, OwnKeys
<1>5. ASSUME NEW a \in Appender, Restage(a) \/ AppendRefused(a) \/ AppendUnbatched(a)
                \/ Receive(a) \/ Cancel(a)
      PROVE  OwnKeys'
  <2>1. UNCHANGED <<window, flights, event, sub>>
    BY <1>5 DEF Restage, AppendRefused, AppendUnbatched, Receive, Cancel
  <2>2. pc[a] # "idle" /\ \E p : pc' = [pc EXCEPT ![a] = p]
    BY <1>5 DEF Restage, AppendRefused, AppendUnbatched, Receive, Cancel, Return
  <2> QED
    BY <1>0, <1>1, <1>2, <2>1, <2>2
<1>6. ASSUME NEW a \in Appender, Enqueue(a) PROVE OwnKeys'
  <2> DEFINE new == [by |-> a, sub |-> sub[a], event |-> event[a]]
  <2>1. InTransit' \subseteq InTransit \cup {new}
    BY <1>6, Joined DEF Enqueue, IInv, ItemsMatch
  <2>2. new.event.key = new.by /\ new.sub >= 1
    BY <1>6 DEF Enqueue, OwnKeys
  <2>3. \A it \in InTransit' : it.event.key = it.by /\ it.sub >= 1
    BY <2>1, <2>2 DEF OwnKeys
  <2>4. \A b \in Appender : pc'[b] # "idle" => pc[b] # "idle"
    BY <1>0, <1>6 DEF Enqueue
  <2> QED
    BY <1>6, <2>3, <2>4 DEF Enqueue, OwnKeys
<1>7. ASSUME NEW a \in Appender, FlushFull(a) PROVE OwnKeys'
  <2>1. InTransit' \subseteq InTransit
    BY <1>7, Drained, NotDrained DEF FlushFull, IInv
  <2>2. \A b \in Appender : pc'[b] # "idle" => pc[b] # "idle"
    BY <1>0, <1>7 DEF FlushFull
  <2> QED
    BY <1>1, <1>7, <2>1, <2>2 DEF FlushFull
<1>8. ASSUME NEW g \in timers, TimerFires(g) PROVE OwnKeys'
  <2>1. InTransit' \subseteq InTransit
    BY <1>8, Drained, NotDrained DEF TimerFires, IInv
  <2> QED
    BY <1>1, <1>8, <2>1 DEF TimerFires
<1>9. ASSUME TxStep PROVE OwnKeys'
  <2>1. UNCHANGED <<window, pc, event, sub>> /\ flights' \subseteq flights
    BY <1>9 DEF TxStep, TxBegin, TxApply, TxCommit, TxAbort, EndTx
  <2>2. InTransit' \subseteq InTransit
    BY <2>1 DEF InTransit
  <2> QED
    BY <1>1, <2>1, <2>2
<1>10. ASSUME FenceBegin PROVE OwnKeys'
  <2>1. InTransit' \subseteq InTransit
    BY <1>10, Drained, NotDrained DEF FenceBegin, IInv
  <2> QED
    BY <1>1, <1>10, <2>1 DEF FenceBegin
<1>11. ASSUME NEW c \in Closer, CloseFlush(c) PROVE OwnKeys'
  <2>1. InTransit' \subseteq InTransit
    BY <1>11, Drained, NotDrained DEF CloseFlush, IInv
  <2> QED
    BY <1>1, <1>11, <2>1 DEF CloseFlush
<1>12. ASSUME FenceReadHead \/ FenceAppend \/ FenceFails PROVE OwnKeys'
  BY <1>1, <1>2, <1>12 DEF FenceReadHead, FenceAppend, FenceFails
<1>13. ASSUME NEW c \in Closer, CloseBegin(c) \/ CloseReturns(c) \/ CloseAgain(c) PROVE OwnKeys'
  BY <1>1, <1>2, <1>13 DEF CloseBegin, CloseReturns, CloseAgain
<1>14. CASE UNCHANGED vars
  BY <1>1, <1>2, <1>14 DEF vars
<1> QED
  BY <1>3, <1>4, <1>5, <1>6, <1>7, <1>8, <1>9, <1>10, <1>11, <1>12, <1>13, <1>14
     DEF Next, AppenderStep, FenceStep, CloseStep

(* Steps of other appenders, of the timer, the fence and Close that leave  *)
(* the log, the transaction and the items where they are.                  *)
LEMMA TryFrame ==
  ASSUME TryInv, NEW a \in Appender, sub[a] <= 1,
         UNCHANGED <<pc[a], sub[a], reply[a]>>, UNCHANGED <<log, txVars>>,
         OneItem(a)', NoItem(a) => NoItem(a)'
  PROVE  FirstTry(a)'
<1>1. FirstTry(a)
  BY DEF TryInv, FirstTries
<1>2. TxKnows(a)' = TxKnows(a) /\ Recorded(log, a)' = Recorded(log, a)
  BY DEF TxKnows, Recorded, Events, txVars
<1> QED
  BY <1>1, <1>2 DEF FirstTry

(* A step of the appender itself that moves no item and no transaction.    *)
LEMMA TryMoves ==
  ASSUME TryInv, NEW a \in Appender, UNCHANGED <<window, flights, txVars>>,
         \/ Stage(a) \/ Resubmit(a) \/ Restage(a) \/ AppendRefused(a) \/ Receive(a) \/ Cancel(a),
         sub'[a] <= 1
  PROVE  FirstTry(a)'
<1>0. /\ pc[a] \in {"idle", "staged", "flushing", "committing", "waiting", "returned"}
      /\ a \in DOMAIN pc /\ a \in DOMAIN sub /\ a \in DOMAIN reply
      /\ sub[a] \in Nat /\ (pc[a] # "idle" => sub[a] >= 1)
  BY BatchAssumption DEF TryInv, IInv, TypeOK, OwnKeys
<1>1. /\ OneItem(a)' = OneItem(a) /\ NoItem(a)' = NoItem(a)
      /\ log' = log
  BY SamePlaces DEF Stage, Resubmit, Restage, AppendRefused, Receive, Cancel
<1>2. TxKnows(a)' = TxKnows(a) /\ Recorded(log, a)' = Recorded(log, a)
  BY <1>1 DEF TxKnows, Recorded, Events, txVars
<1>3. CASE Stage(a)
  <2>1. /\ pc[a] = "idle" /\ sub[a] = 0 /\ sub'[a] = 1 /\ pc'[a] = "staged" /\ reply'[a] = "none"
        /\ FirstTry(a)
    BY <1>0, <1>3 DEF Stage, TryInv, FirstTries
  <2> QED
    BY <1>1, <1>2, <2>1 DEF FirstTry
<1>4. CASE Resubmit(a)
  BY <1>0, <1>4 DEF Resubmit
<1>5. CASE Restage(a)
  <2>1. /\ pc'[a] = "idle" /\ sub'[a] = sub[a] /\ reply'[a] = reply[a] /\ sub[a] >= 1
        /\ reply[a] # "none" /\ FirstTry(a)
    BY <1>0, <1>5 DEF Restage, TryInv, FirstTries
  <2> QED
    BY <1>1, <1>2, <2>1 DEF FirstTry
<1>6. CASE AppendRefused(a)
  <2>1. /\ pc'[a] = "returned" /\ sub'[a] = sub[a] /\ pc[a] = "staged" /\ sub[a] >= 1
        /\ reply'[a] \in {"RoleFenceError", "ErrJournalClosed", "infra"} /\ FirstTry(a)
    BY <1>0, <1>6 DEF AppendRefused, Return, TryInv, FirstTries
  <2>2. reply[a] = "none"
    BY <2>1 DEF FirstTry
  <2> QED
    BY <1>1, <1>2, <2>1, <2>2 DEF FirstTry
<1>7. CASE Receive(a)
  <2>1. /\ pc'[a] = "returned" /\ sub'[a] = sub[a] /\ reply'[a] = reply[a] /\ sub[a] >= 1
        /\ reply[a] # "none" /\ FirstTry(a)
    BY <1>0, <1>7 DEF Receive, TryInv, FirstTries
  <2> QED
    BY <1>1, <1>2, <2>1 DEF FirstTry
<1>8. CASE Cancel(a)
  <2>1. /\ pc'[a] = "returned" /\ sub'[a] = sub[a] /\ reply'[a] = "ctx.Err" /\ sub[a] >= 1
        /\ FirstTry(a)
    BY <1>0, <1>8 DEF Cancel, Return, TryInv, FirstTries
  <2> QED
    BY <1>1, <1>2, <2>1 DEF FirstTry
<1> QED
  BY <1>3, <1>4, <1>5, <1>6, <1>7, <1>8

(* Without a batcher the answer is that of the one attempt.                *)
LEMMA TryUnbatched ==
  ASSUME TryInv, NEW a \in Appender, NEW b \in Appender, AppendUnbatched(b), sub'[a] <= 1
  PROVE  FirstTry(a)'
<1>0. /\ sub' = sub /\ FirstTry(a)
      /\ pc \in [Appender -> {"idle", "staged", "flushing", "committing", "waiting", "returned"}]
      /\ reply \in [Appender -> Replies]
  BY DEF AppendUnbatched, TryInv, IInv, TypeOK, FirstTries
<1>1. /\ OneItem(a)' = OneItem(a) /\ NoItem(a)' = NoItem(a)
  BY SamePlaces DEF AppendUnbatched, windowVars
<1>2. flights = {} /\ window = <<>> /\ committing = {} /\ committing' = {}
  BY DEF AppendUnbatched, TryInv, IInv, TxExtends, TypeOK, txVars
<1>3. NoItem(a) /\ TxKnows(a)'
  BY <1>2 DEF NoItem, InTransit, TxKnows
<1>4. IsLog(log) /\ event[b].key = b /\ log' = AppendData(log, event[b])
  BY DEF AppendUnbatched, TryInv, IInv, TxExtends, OwnKeys
<1>5. CASE a = b
  <2>1. /\ pc'[a] = "returned" /\ pc[a] = "staged" /\ reply[a] = "none" /\ sub[a] # 0
        /\ reply'[a] = IF Succeeds(log, event[a]) THEN "nil" ELSE Verdict(log, event[a])
    BY <1>0, <1>5 DEF AppendUnbatched, Return, FirstTry
  <2>2. CASE Succeeds(log, event[a])
    BY <1>0, <1>1, <1>3, <2>1, <2>2 DEF FirstTry
  <2>3. CASE ~Succeeds(log, event[a])
    <3>1. log' = log /\ reply'[a] \in Refusals
      BY <1>4, <1>5, <2>1, <2>3, VerdictRange DEF AppendData, Succeeds
    <3>2. ~Recorded(log', a)
      BY <1>0, <2>1, <3>1 DEF FirstTry
    <3> QED
      BY <1>0, <1>1, <1>3, <2>1, <3>1, <3>2 DEF FirstTry, Refusals
  <2> QED
    BY <2>2, <2>3
<1>6. CASE a # b
  <2>1. pc'[a] = pc[a] /\ reply'[a] = reply[a]
    BY <1>0, <1>6 DEF AppendUnbatched, Return
  <2>2. Recorded(log', a) => Recorded(log, a)
    BY <1>4, <1>6, NotByOthers
  <2> QED
    BY <1>0, <1>1, <1>3, <2>1, <2>2 DEF FirstTry
<1> QED
  BY <1>5, <1>6

(* The item of a first submission is the only one of its command.          *)
LEMMA TryEnqueue ==
  ASSUME TryInv, NEW a \in Appender, NEW b \in Appender, Enqueue(b), sub'[a] <= 1
  PROVE  FirstTry(a)'
<1> DEFINE new == [by |-> b, sub |-> sub[b], event |-> event[b]]
<1>0. /\ sub' = sub /\ FirstTry(a) /\ reply' = reply
      /\ pc \in [Appender -> {"idle", "staged", "flushing", "committing", "waiting", "returned"}]
      /\ sub[b] \in Nat /\ sub[b] >= 1
  BY BatchAssumption DEF Enqueue, TryInv, IInv, TypeOK, FirstTries, OwnKeys
<1>1. /\ Len(window) \in Nat /\ DOMAIN window = 1..Len(window)
      /\ DOMAIN window' = 1..(Len(window) + 1)
      /\ \A i \in 1..Len(window) : window'[i] = window[i]
      /\ window'[Len(window) + 1] = new
      /\ flights' = flights
  <2>1. window \in Seq({window[i] : i \in DOMAIN window})
    BY DEF TryInv, IInv, ItemsMatch
  <2>2. PICK W : window \in Seq(W)
    BY <2>1
  <2>3. window \in Seq(W \cup {new}) /\ new \in W \cup {new}
    BY <2>2
  <2> QED
    BY <2>3 DEF Enqueue
<1>2. \A i \in DOMAIN window : window[i] \in InTransit
  BY DEF InTransit
<1>3. \A f \in flights : \A i \in DOMAIN f.items : f.items[i] \in InTransit
  BY DEF InTransit, Items
<1>4. OneItem(a)'
  <2>1. CASE a = b
    <3>1. NoItem(a)
      BY <1>0, <2>1 DEF Enqueue, FirstTry
    <3>2. /\ \A i \in DOMAIN window : window[i].by # a
          /\ \A f \in flights : \A i \in DOMAIN f.items : f.items[i].by # a
      BY <1>2, <1>3, <3>1 DEF NoItem
    <3>3. \A f \in flights : ~Holds(f.items, a)
      BY <3>2 DEF Holds
    <3>4. \A i, j \in DOMAIN window' : window'[i].by = a /\ window'[j].by = a => i = j
      BY <1>1, <3>2
    <3> QED
      BY <1>1, <3>2, <3>3, <3>4 DEF OneItem
  <2>2. CASE a # b
    <3>1. new.by # a
      BY <2>2
    <3>2. \A i \in DOMAIN window' : window'[i].by = a => i \in DOMAIN window /\ window[i].by = a
      BY <1>1, <3>1
    <3>3. Holds(window', a) => Holds(window, a)
      BY <3>2 DEF Holds
    <3>4. OneItem(a)
      BY <1>0 DEF FirstTry
    <3>5. \A i, j \in DOMAIN window' : window'[i].by = a /\ window'[j].by = a => i = j
      BY <3>2, <3>4 DEF OneItem
    <3> QED
      BY <1>1, <3>3, <3>4, <3>5 DEF OneItem
  <2> QED
    BY <2>1, <2>2
<1>5. a # b => (NoItem(a) => NoItem(a)')
  <2>1. InTransit' \subseteq InTransit \cup {new}
    BY Joined DEF Enqueue, TryInv, IInv, ItemsMatch
  <2> QED
    BY <2>1 DEF NoItem
<1>6. TxKnows(a)' = TxKnows(a) /\ Recorded(log, a)' = Recorded(log, a)
  BY DEF Enqueue, TxKnows, Recorded, Events, txVars
<1>7. CASE a = b
  <2>1. /\ pc[a] = "staged" /\ reply[a] = "none" /\ pc'[a] \in {"flushing", "waiting"} /\ sub[a] # 0
    BY <1>0, <1>7 DEF Enqueue, FirstTry
  <2> QED
    BY <1>0, <1>4, <1>6, <2>1 DEF FirstTry
<1>8. CASE a # b
  <2>1. pc'[a] = pc[a]
    BY <1>0, <1>8 DEF Enqueue
  <2> QED
    BY <1>0, <1>4, <1>5, <1>6, <1>8, <2>1 DEF FirstTry
<1> QED
  BY <1>7, <1>8

(* A transaction answers nil to the item by which it records a command.    *)
LEMMA TryApply ==
  ASSUME TryInv, NEW f \in flights, NEW i \in txLeft, TxApply(f, i),
         NEW a \in Appender, sub'[a] <= 1
  PROVE  FirstTry(a)'
<1>0. /\ UNCHANGED <<window, flights, log, pc, sub, reply, committing>> /\ FirstTry(a)
      /\ f \in committing /\ \A g \in committing : g = f
  BY DEF TxApply, windowVars, appenderVars, TryInv, IInv, TypeOK, FirstTries
<1>1. OneItem(a)' = OneItem(a) /\ NoItem(a)' = NoItem(a)
  BY <1>0, SamePlaces
<1>2. Recorded(log, a)' = Recorded(log, a)
  BY <1>0 DEF Recorded, Events
<1>3. /\ i \in DOMAIN f.items /\ DOMAIN txVerdict = DOMAIN f.items /\ IsLog(txLog)
      /\ f.items[i] \in InTransit
      /\ txLog' = AppendData(txLog, f.items[i].event) /\ txLeft' = txLeft \ {i}
      /\ txVerdict' = [txVerdict EXCEPT ![i] = Answer(txLog, f.items[i].event)]
  BY <1>0 DEF TxApply, TryInv, IInv, TxExtends, InTransit, Items
<1>4. f.items[i].event.key = f.items[i].by
  BY <1>3 DEF TryInv, OwnKeys
<1>5. ASSUME TxKnows(a), Recorded(txLog', a)
      PROVE  \E j \in DOMAIN f.items \ txLeft' : f.items[j].by = a /\ txVerdict'[j] = "nil"
  <2>1. CASE Recorded(txLog, a)
    <3>1. PICK j \in DOMAIN f.items \ txLeft : f.items[j].by = a /\ txVerdict[j] = "nil"
      BY <1>0, <1>5, <2>1 DEF TxKnows
    <3>2. j # i
      BY <3>1
    <3> QED
      BY <1>3, <3>1, <3>2
  <2>2. CASE ~Recorded(txLog, a)
    <3>1. f.items[i].by = a
      BY <1>3, <1>4, <1>5, <2>2, NotByOthers
    <3>2. Verdict(txLog, f.items[i].event) = "ok"
      BY <1>3, <1>5, <2>2 DEF AppendData
    <3>3. txVerdict'[i] = "nil"
      BY <1>3, <3>2 DEF Answer, Succeeds
    <3> QED
      BY <1>3, <3>1, <3>3
  <2> QED
    BY <2>1, <2>2
<1>6. TxKnows(a) => TxKnows(a)'
  BY <1>0, <1>5 DEF TxKnows
<1> QED
  BY <1>0, <1>1, <1>2, <1>6 DEF FirstTry

(* When the transaction has ended, the item of a flight is at no place.    *)
LEMMA TryEnds ==
  ASSUME TryInv, NEW f \in flights, TxCommit(f) \/ TxAbort(f),
         NEW a \in Appender, sub'[a] <= 1
  PROVE  FirstTry(a)'
<1>0. /\ UNCHANGED <<window, pc, sub>> /\ flights' = flights \ {f} /\ committing' = {}
      /\ f \in committing /\ FirstTry(a)
      /\ sub[a] \in Nat
  BY BatchAssumption DEF TxCommit, TxAbort, EndTx, windowVars, TryInv, IInv, TypeOK, FirstTries
<1>1. OneItem(a)' /\ TxKnows(a)' /\ (NoItem(a) => NoItem(a)')
  <2>1. OneItem(a)'
    BY <1>0 DEF FirstTry, OneItem, Holds
  <2>2. InTransit' \subseteq InTransit
    BY <1>0 DEF InTransit
  <2> QED
    BY <1>0, <2>1, <2>2 DEF TxKnows, NoItem
<1>2. Holds(f.items, a) => NoItem(a)'
  <2> SUFFICES ASSUME Holds(f.items, a), NEW it \in InTransit', it.by = a PROVE FALSE
    BY DEF NoItem
  <2>1. OneItem(a)
    BY <1>0 DEF FirstTry
  <2>2. CASE \E i \in DOMAIN window : it = window[i]
    BY <2>1, <2>2 DEF OneItem, Holds
  <2>3. CASE \E g \in flights' : it \in Items(g)
    <3>1. PICK g \in flights : g # f /\ it \in Items(g)
      BY <1>0, <2>3
    <3>2. Holds(g.items, a)
      BY <3>1 DEF Items, Holds
    <3> QED
      BY <2>1, <3>1, <3>2 DEF OneItem
  <2> QED
    BY <1>0, <2>2, <2>3 DEF InTransit
<1>3. CASE sub[a] = 0
  <2>1. ~Holds(f.items, a) /\ reply[a] = "none" /\ pc[a] = "idle" /\ NoItem(a)
    BY <1>0, <1>3 DEF FirstTry, NoItem, InTransit, Items, Holds
  <2>2. reply'[a] = reply[a]
    BY <2>1 DEF TxCommit, TxAbort, Notify, Awaits
  <2>3. ~Recorded(log', a)
    <3>1. ~Recorded(log, a) /\ ~Recorded(txLog, a)
      BY <1>0, <2>1 DEF FirstTry, TxKnows, Holds
    <3> QED
      BY <3>1 DEF TxCommit, TxAbort
  <2> QED
    BY <1>0, <1>1, <2>1, <2>2, <2>3 DEF FirstTry
<1>4. CASE sub[a] = 1
  <2>1. CASE reply[a] # "none"
    <3>1. reply'[a] = reply[a]
      BY <1>0, <1>4, <2>1, NotifiedOne DEF TxCommit, TxAbort
    <3>2. reply[a] \notin {"nil", "ctx.Err"} => ~Recorded(log', a)
      <4> SUFFICES ASSUME reply[a] \notin {"nil", "ctx.Err"} PROVE ~Recorded(log', a)
        OBVIOUS
      <4>1. NoItem(a) /\ ~Recorded(log, a) /\ TxKnows(a)
        BY <1>0, <2>1 DEF FirstTry
      <4>2. \A i \in DOMAIN f.items : f.items[i].by # a
        BY <4>1 DEF NoItem, InTransit, Items
      <4>3. ~Recorded(txLog, a)
        BY <1>0, <4>1, <4>2 DEF TxKnows
      <4> QED
        BY <4>1, <4>3 DEF TxCommit, TxAbort
    <3> QED
      BY <1>0, <1>1, <3>1, <3>2 DEF FirstTry
  <2>2. CASE reply[a] = "none" /\ ~Holds(f.items, a)
    <3>1. reply'[a] = "none"
      BY <1>0, <1>4, <2>2, NotifiedOne DEF TxCommit, TxAbort
    <3>2. ~Recorded(log, a) /\ ~Recorded(txLog, a)
      BY <1>0, <2>2 DEF FirstTry, TxKnows, Holds
    <3>3. ~Recorded(log', a)
      BY <3>2 DEF TxCommit, TxAbort
    <3> QED
      BY <1>0, <1>1, <2>2, <3>1, <3>3 DEF FirstTry
  <2>3. CASE reply[a] = "none" /\ Holds(f.items, a)
    <3>1. PICK i \in DOMAIN f.items : f.items[i].by = a
      BY <2>3 DEF Holds
    <3>2. /\ \A j \in DOMAIN f.items : f.items[j].by = a => j = i
          /\ ~Recorded(log, a) /\ TxKnows(a)
      BY <1>0, <2>3, <3>1 DEF FirstTry, OneItem
    <3>3. /\ pc[a] # "staged" /\ pc[a] \notin {"returned", "idle"}
      <4>1. ~NoItem(a)
        BY <3>1 DEF NoItem, InTransit, Items
      <4> QED
        BY <1>0, <1>4, <2>3, <4>1 DEF FirstTry
    <3>4. CASE TxAbort(f)
      <4>1. reply'[a] = "infra" /\ log' = log
        BY <1>0, <1>4, <2>3, <3>1, <3>4, NotifiedOne DEF TxAbort
      <4>2. ~Recorded(log', a)
        BY <3>2, <4>1
      <4> QED
        BY <1>0, <1>1, <1>2, <1>4, <2>3, <3>3, <4>1, <4>2 DEF FirstTry
    <3>5. CASE TxCommit(f)
      <4>1. reply'[a] = txVerdict[i] /\ log' = txLog /\ txLeft = {}
        BY <1>0, <1>4, <2>3, <3>1, <3>5, NotifiedOne DEF TxCommit
      <4>2. txVerdict[i] \notin {"none", "ctx.Err"}
        BY <1>0, <3>1, <4>1 DEF TryInv, TxAnswers, Refusals
      <4>3. txVerdict[i] # "nil" => ~Recorded(log', a)
        BY <1>0, <3>2, <4>1 DEF TxKnows
      <4> QED
        BY <1>0, <1>1, <1>2, <1>4, <2>3, <3>3, <4>1, <4>2, <4>3 DEF FirstTry
    <3> QED
      BY <3>4, <3>5
  <2> QED
    BY <2>1, <2>2, <2>3
<1> QED
  BY <1>0, <1>3, <1>4

(* A transaction begins with what the log has.                             *)
LEMMA TryBegins ==
  ASSUME TryInv, NEW f \in flights, TxBegin(f), NEW a \in Appender, sub'[a] <= 1
  PROVE  FirstTry(a)'
<1>1. /\ UNCHANGED <<window, flights, log, pc, sub, reply>> /\ txLog' = log /\ FirstTry(a)
  BY DEF TxBegin, windowVars, appenderVars, TryInv, FirstTries
<1>2. /\ OneItem(a)' = OneItem(a) /\ NoItem(a)' = NoItem(a)
  BY <1>1, SamePlaces
<1>3. ~Recorded(log, a) => ~Recorded(log', a) /\ TxKnows(a)'
  BY <1>1 DEF TxKnows
<1> QED
  BY <1>1, <1>2, <1>3 DEF FirstTry

LEMMA AnswersStep ==
  ASSUME TryInv, [Next]_vars
  PROVE  TxAnswers'
<1>1. ASSUME UNCHANGED txVars PROVE TxAnswers'
  BY <1>1 DEF txVars, TryInv, TxAnswers
<1>2. ASSUME NEW a \in Appender, AppenderStep(a) PROVE TxAnswers'
  BY <1>1, <1>2 DEF AppenderStep, Stage, Resubmit, Restage, AppendRefused, AppendUnbatched, Enqueue,
     FlushFull, Receive, Cancel
<1>3. ASSUME NEW f \in flights, TxBegin(f) \/ TxCommit(f) \/ TxAbort(f) PROVE TxAnswers'
  BY <1>3 DEF TxBegin, TxCommit, TxAbort, EndTx, TxAnswers
<1>4. ASSUME NEW f \in flights, NEW i \in txLeft, TxApply(f, i) PROVE TxAnswers'
  <2>1. /\ committing' = committing /\ f \in committing /\ \A g \in committing : g = f
        /\ DOMAIN txVerdict = DOMAIN f.items
        /\ txVerdict' = [txVerdict EXCEPT ![i] = Answer(txLog, f.items[i].event)]
        /\ txLeft' = txLeft \ {i}
    BY <1>4 DEF TxApply, TryInv, IInv, TypeOK, TxExtends
  <2>2. Answer(txLog, f.items[i].event) \in Refusals \cup {"nil"}
    BY VerdictRange DEF Answer, Succeeds
  <2>3. \A j \in DOMAIN f.items \ txLeft : txVerdict[j] \in Refusals \cup {"nil"}
    BY <2>1 DEF TryInv, TxAnswers
  <2> QED
    BY <2>1, <2>2, <2>3 DEF TxAnswers
<1>5. ASSUME (\E g \in timers : TimerFires(g)) \/ FenceStep \/ CloseStep PROVE TxAnswers'
  BY <1>1, <1>5 DEF TimerFires, FenceStep, FenceBegin, FenceReadHead, FenceAppend, FenceFails,
     CloseStep, CloseBegin, CloseFlush, CloseReturns, CloseAgain
<1>6. CASE UNCHANGED vars
  BY <1>1, <1>6 DEF vars
<1> QED
  BY <1>2, <1>3, <1>4, <1>5, <1>6 DEF Next, TxStep

(* Every step keeps what is known of a first submission.                   *)
LEMMA TryStep ==
  ASSUME TryInv, [Next]_vars, settings' = settings
  PROVE  FirstTries'
<1> SUFFICES ASSUME NEW a \in Appender, sub'[a] <= 1 PROVE FirstTry(a)'
  BY DEF FirstTries
<1> USE DEF endpointVars, windowVars, appenderVars, closerVars
<1>0. /\ pc \in [Appender -> {"idle", "staged", "flushing", "committing", "waiting", "returned"}]
      /\ sub \in [Appender -> 0..MaxRetries + 1] /\ reply \in [Appender -> Replies]
      /\ MaxRetries \in Nat /\ TypeOK /\ IInv
  BY BatchAssumption DEF TryInv, IInv, TypeOK
<1>1. ASSUME UNCHANGED <<window, flights, log, txVars>>, UNCHANGED <<pc[a], sub[a], reply[a]>>
      PROVE  FirstTry(a)'
  BY <1>1, SamePlaces, TryFrame DEF TryInv, FirstTries, FirstTry
<1>2. ASSUME NEW trigger, NEW running, DrainBody(trigger, running),
             UNCHANGED <<log, txVars>>, UNCHANGED <<pc[a], sub[a], reply[a]>>
      PROVE  FirstTry(a)'
  BY <1>2, DrainedOne, TryFrame DEF TryInv, FirstTries, FirstTry
<1>3. ASSUME NEW b \in Appender, Stage(b) \/ Resubmit(b) \/ Restage(b) \/ AppendRefused(b)
                \/ Receive(b) \/ Cancel(b)
      PROVE  FirstTry(a)'
  <2>1. UNCHANGED <<window, flights, log, txVars>>
    BY <1>3 DEF Stage, Resubmit, Restage, AppendRefused, Receive, Cancel
  <2>2. CASE a = b
    BY <1>3, <2>1, <2>2, TryMoves
  <2>3. CASE a # b
    <3>1. UNCHANGED <<pc[a], sub[a], reply[a]>>
      BY <1>0, <1>3, <2>3 DEF Stage, Resubmit, Restage, AppendRefused, Receive, Cancel, Return
    <3> QED
      BY <1>1, <2>1, <3>1
  <2> QED
    BY <2>2, <2>3
<1>4. ASSUME NEW b \in Appender, FlushFull(b) PROVE FirstTry(a)'
  <2>1. /\ UNCHANGED <<log, txVars, sub, reply>> /\ pc[b] = "flushing"
        /\ pc'[b] \in {"committing", "waiting"} /\ (a # b => pc'[a] = pc[a])
    BY <1>0, <1>4 DEF FlushFull
  <2>2. FirstTry(a)
    BY <2>1 DEF TryInv, FirstTries
  <2>3. OneItem(a)' /\ (NoItem(a) => NoItem(a)')
    BY <1>4, <2>2, DrainedOne, SamePlaces DEF FlushFull, FirstTry
  <2>4. TxKnows(a)' = TxKnows(a) /\ Recorded(log, a)' = Recorded(log, a)
    BY <2>1 DEF TxKnows, Recorded, Events, txVars
  <2> QED
    BY <2>1, <2>2, <2>3, <2>4 DEF FirstTry
<1>5. ASSUME NEW b \in Appender, AppendUnbatched(b) \/ Enqueue(b) PROVE FirstTry(a)'
  BY <1>5, TryUnbatched, TryEnqueue
<1>6. ASSUME NEW g \in timers, TimerFires(g) PROVE FirstTry(a)'
  BY <1>1, <1>2, <1>6 DEF TimerFires
<1>7. ASSUME TxStep PROVE FirstTry(a)'
  BY <1>7, TryBegins, TryApply, TryEnds DEF TxStep
<1>8. ASSUME FenceBegin PROVE FirstTry(a)'
  BY <1>1, <1>2, <1>8 DEF FenceBegin
<1>9. ASSUME FenceReadHead \/ FenceFails PROVE FirstTry(a)'
  BY <1>1, <1>9 DEF FenceReadHead, FenceFails
<1>10. ASSUME FenceAppend PROVE FirstTry(a)'
  <2>1. /\ UNCHANGED <<window, flights, txVars, pc, sub, reply>> /\ committing = {}
        /\ log' = AppendData(log, Checkpoint) /\ IsLog(log)
    BY <1>10 DEF FenceAppend, TryInv, IInv, TxExtends
  <2>2. OneItem(a)' = OneItem(a) /\ NoItem(a)' = NoItem(a) /\ FirstTry(a)
    BY <2>1, SamePlaces DEF TryInv, FirstTries
  <2>3. Checkpoint.key # a
    BY BatchAssumption DEF Checkpoint
  <2>4. Recorded(log', a) => Recorded(log, a)
    BY <2>1, <2>3, NotByOthers
  <2>5. TxKnows(a)'
    BY <2>1 DEF TxKnows, txVars
  <2> QED
    BY <2>1, <2>2, <2>4, <2>5 DEF FirstTry
<1>11. ASSUME NEW c \in Closer, CloseFlush(c) PROVE FirstTry(a)'
  BY <1>1, <1>2, <1>11 DEF CloseFlush
<1>12. ASSUME NEW c \in Closer, CloseBegin(c) \/ CloseReturns(c) \/ CloseAgain(c) PROVE FirstTry(a)'
  BY <1>1, <1>12 DEF CloseBegin, CloseReturns, CloseAgain
<1>13. CASE UNCHANGED vars
  BY <1>1, <1>13 DEF vars
<1> QED
  BY <1>3, <1>4, <1>5, <1>6, <1>7, <1>8, <1>9, <1>10, <1>11, <1>12, <1>13
     DEF Next, AppenderStep, FenceStep, CloseStep

(* An error of the only submission means that nothing was recorded.        *)
THEOREM ErrorsAreTrue == Spec => []ErrorMeansAbsent
<1>1. Init => TryInv
  BY Initial, TryInitial DEF TryInv
<1>2. TryInv /\ [Next /\ UNCHANGED settings]_<<vars, settings>> => TryInv'
  <2> SUFFICES ASSUME TryInv, [Next]_vars, settings' = settings PROVE TryInv'
    OBVIOUS
  <2> QED
    BY Step, KeysStep, AnswersStep, TryStep DEF TryInv
<1>3. TryInv => ErrorMeansAbsent
  BY DEF TryInv, FirstTries, FirstTry, OwnKeys, Recorded, ErrorMeansAbsent
<1> QED
  BY <1>1, <1>2, <1>3, PTL DEF Spec
=============================================================================
