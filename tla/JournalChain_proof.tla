------------------------- MODULE JournalChain_proof -------------------------
(* Lemmas about the event chain, cited by the proofs of the modules that   *)
(* are built on it.                                                        *)
EXTENDS JournalChain, SequenceTheorems, WellFoundedInduction, TLAPS

\* A log is a sequence of its own events.
IsLog(log) == log \in Seq(Events(log))

\* No two events of a log share an idempotency key.
UniqueKeys(log) == \A i, j \in DOMAIN log : log[i].key = log[j].key => i = j

(* The empty log is a log. *)
LEMMA EmptyLog == IsLog(<<>>) /\ Events(<<>>) = {} /\ UniqueKeys(<<>>)
  BY DEF IsLog, Events, UniqueKeys

(* Appending an event adds it, at the head, and moves nothing. *)
LEMMA AppendLog ==
  ASSUME NEW log, IsLog(log), NEW e
  PROVE  /\ IsLog(Append(log, e))
         /\ Events(Append(log, e)) = Events(log) \cup {e}
         /\ HeadOf(Append(log, e)) = e
         /\ DOMAIN log = 1..Len(log) /\ Len(log) \in Nat
         /\ DOMAIN Append(log, e) = 1..(Len(log) + 1)
         /\ \A i \in DOMAIN log : Append(log, e)[i] = log[i]
         /\ Append(log, e)[Len(log) + 1] = e
<1> DEFINE S == Events(log) \cup {e}
           new == Append(log, e)
<1>1. log \in Seq(S) /\ e \in S
  BY DEF IsLog
<1>2. /\ new \in Seq(S) /\ Len(new) = Len(log) + 1 /\ Len(log) \in Nat
      /\ DOMAIN new = 1..(Len(log) + 1) /\ DOMAIN log = 1..Len(log)
      /\ \A i \in 1..Len(log) : new[i] = log[i]
      /\ new[Len(log) + 1] = e
  BY <1>1
<1>3. Events(new) = S
  BY <1>2 DEF Events
<1>4. HeadOf(new) = e
  BY <1>2 DEF HeadOf
<1> QED
  BY <1>2, <1>3, <1>4 DEF IsLog

(* A log that holds an event has a head among its events. *)
LEMMA HeadInLog ==
  ASSUME NEW log, IsLog(log), log # <<>>
  PROVE  HeadOf(log) \in Events(log)
<1>1. Len(log) \in Nat /\ Len(log) # 0 /\ DOMAIN log = 1..Len(log)
  BY DEF IsLog
<1> QED
  BY <1>1 DEF HeadOf, Events

(* An attempt leaves the log as it is, or appends an accepted event. *)
LEMMA AppendDataCases ==
  ASSUME NEW log, NEW e
  PROVE  \/ AppendData(log, e) = log
         \/ Verdict(log, e) = "ok" /\ AppendData(log, e) = Append(log, e)
  BY DEF AppendData

(* What an accepted event has passed. *)
LEMMA AcceptedEvent ==
  ASSUME NEW log, NEW e, Verdict(log, e) = "ok"
  PROVE  /\ ValidateNext(HeadOf(log), e) = "ok"
         /\ e \notin Events(log)
         /\ \A f \in Events(log) : f.id # e.id /\ f.key # e.key
  BY DEF Verdict

(* The attempt keeps a log a log, loses nothing and adds at most e. *)
LEMMA AppendDataLog ==
  ASSUME NEW log, IsLog(log), NEW e
  PROVE  /\ IsLog(AppendData(log, e))
         /\ Events(log) \subseteq Events(AppendData(log, e))
         /\ Events(AppendData(log, e)) \subseteq Events(log) \cup {e}
         /\ Succeeds(log, e) => e \in Events(AppendData(log, e))
<1>1. CASE Verdict(log, e) = "ok"
  BY <1>1, AppendLog DEF AppendData
<1>2. CASE Verdict(log, e) # "ok"
  <2>1. AppendData(log, e) = log
    BY <1>2 DEF AppendData
  <2>2. Succeeds(log, e) => e \in Events(log)
    BY <1>2 DEF Succeeds, Verdict, ValidateNext
  <2> QED
    BY <2>1, <2>2
<1> QED
  BY <1>1, <1>2

(* Idempotency keys stay unique. *)
LEMMA AppendDataKeys ==
  ASSUME NEW log, IsLog(log), UniqueKeys(log), NEW e
  PROVE  UniqueKeys(AppendData(log, e))
<1>1. CASE Verdict(log, e) = "ok"
  <2>1. AppendData(log, e) = Append(log, e)
    BY <1>1 DEF AppendData
  <2>2. \A i \in DOMAIN log : log[i].key # e.key
    BY <1>1, AcceptedEvent DEF Events
  <2> QED
    BY <2>1, <2>2, AppendLog DEF UniqueKeys
<1>2. CASE Verdict(log, e) # "ok"
  BY <1>2 DEF AppendData
<1> QED
  BY <1>1, <1>2

(* The epoch fence: no event of an earlier epoch than the head's is ever   *)
(* accepted.                                                               *)
LEMMA EpochFence ==
  ASSUME NEW log, NEW e, HeadOf(log) # Genesis, e.epoch < HeadOf(log).epoch
  PROVE  AppendData(log, e) = log
<1>1. ValidateNext(HeadOf(log), e) # "ok"
  BY DEF ValidateNext
<1>2. Verdict(log, e) # "ok"
  BY <1>1, AcceptedEvent
<1> QED
  BY <1>2 DEF AppendData

(* A sequence is a log of its own events.                                  *)
LEMMA SequenceIsLog ==
  ASSUME NEW S, NEW s \in Seq(S)
  PROVE  IsLog(s)
<1>1. Len(s) \in Nat /\ s = [i \in 1..Len(s) |-> s[i]] /\ DOMAIN s = 1..Len(s)
  OBVIOUS
<1>2. \A i \in 1..Len(s) : s[i] \in Events(s)
  BY <1>1 DEF Events
<1>3. [i \in 1..Len(s) |-> s[i]] \in Seq(Events(s))
  BY <1>1, <1>2, IsASeq
<1> QED
  BY <1>1, <1>3 DEF IsLog

-----------------------------------------------------------------------------
(* Chains and copies *)

\* Each event names the event before it.
IsChain(c) ==
    \A i \in DOMAIN c :
        /\ c[i].epoch \in Nat \ {0} /\ c[i].seq \in Nat
        /\ i = 1 => c[i].prev = Genesis
        /\ i # 1 => c[i].prev = c[i - 1]

Increasing(c) == \A i, j \in DOMAIN c : i < j => Before(c[i], c[j])

IsCopy(l, c) == Len(l) <= Len(c) /\ \A i \in DOMAIN l : l[i] = c[i]

(* Cursor order is a strict order on the events of a chain.                *)
LEMMA BeforeOrder ==
  ASSUME NEW a, NEW b, NEW c,
         a.epoch \in Nat, b.epoch \in Nat, c.epoch \in Nat,
         a.seq \in Nat, b.seq \in Nat, c.seq \in Nat
  PROVE  /\ ~Before(a, a)
         /\ Before(a, b) /\ Before(b, c) => Before(a, c)
         /\ Before(a, b) => ~Before(b, a)
  BY DEF Before

(* An accepted event extends a chain.                                      *)
LEMMA ChainAppend ==
  ASSUME NEW c, IsLog(c), IsChain(c), Increasing(c),
         NEW e, e.epoch \in Nat, e.seq \in Nat, Verdict(c, e) = "ok"
  PROVE  IsChain(Append(c, e)) /\ Increasing(Append(c, e))
<1> DEFINE n == Len(c)
           d == Append(c, e)
<1>1. /\ n \in Nat /\ DOMAIN c = 1..n /\ DOMAIN d = 1..(n + 1)
      /\ \A i \in 1..n : d[i] = c[i]
      /\ d[n + 1] = e
  BY AppendLog
<1>2. ValidateNext(HeadOf(c), e) = "ok"
  BY AcceptedEvent
<1>3. CASE c = <<>>
  <2>1. n = 0 /\ IsFirst(e)
    BY <1>2, <1>3 DEF HeadOf, ValidateNext
  <2>2. e.epoch \in Nat \ {0} /\ e.seq \in Nat /\ e.prev = Genesis
    BY <2>1 DEF IsFirst
  <2> HIDE DEF n, d
  <2>3. \A i \in DOMAIN d : i = 1 /\ d[i] = e
    BY <1>1, <2>1
  <2>4. IsChain(d) /\ Increasing(d)
    BY <2>2, <2>3 DEF IsChain, Increasing
  <2> QED
    BY <2>4 DEF d
<1>4. CASE c # <<>>
  <2>1. n \in DOMAIN c /\ HeadOf(c) = c[n]
    BY <1>1, <1>4 DEF HeadOf, IsLog
  <2>2. c[n].epoch \in Nat \ {0} /\ c[n].seq \in Nat
    BY <2>1 DEF IsChain
  <2>3. c[n] # Genesis
    BY <2>2 DEF Genesis
  <2>4. Contiguous(c[n], e) /\ e.prev = c[n]
    BY <1>2, <2>1, <2>3 DEF ValidateNext
  <2>5. e.epoch \in Nat \ {0} /\ Before(c[n], e)
    BY <2>2, <2>4 DEF Contiguous, Before
  <2>6. \A i \in DOMAIN c : Before(c[i], e)
    <3> SUFFICES ASSUME NEW i \in DOMAIN c, i # n PROVE Before(c[i], e)
      BY <2>5
    <3>1. Before(c[i], c[n]) /\ c[i].epoch \in Nat /\ c[i].seq \in Nat
      BY <1>1, <2>1 DEF Increasing, IsChain
    <3> QED
      BY <3>1, <2>2, <2>5 DEF Before
  <2> HIDE DEF n, d
  <2>7. IsChain(d)
    BY <1>1, <2>1, <2>4, <2>5 DEF IsChain
  <2>8. Increasing(d)
    BY <1>1, <2>6 DEF Increasing
  <2> QED
    BY <2>7, <2>8 DEF d
<1> QED
  BY <1>3, <1>4

(* The events of a chain are beyond Genesis, and the order of two of them  *)
(* is the order of their cursors.                                          *)
LEMMA ChainOrder ==
  ASSUME NEW c, IsLog(c), IsChain(c), Increasing(c),
         NEW i \in DOMAIN c, NEW j \in DOMAIN c
  PROVE  /\ c[i] # Genesis /\ Before(Genesis, c[i]) /\ ~Before(c[i], Genesis)
         /\ Before(c[i], c[j]) <=> i < j
         /\ c[i] = c[j] => i = j
<1>1. i \in Nat /\ j \in Nat
  BY DEF IsLog
<1>2. /\ c[i].epoch \in Nat \ {0} /\ c[i].seq \in Nat
      /\ c[j].epoch \in Nat \ {0} /\ c[j].seq \in Nat
  BY DEF IsChain
<1>3. c[i] # Genesis /\ Before(Genesis, c[i]) /\ ~Before(c[i], Genesis)
  BY <1>2 DEF Before, Genesis
<1>4. /\ i < j => Before(c[i], c[j])
      /\ j < i => Before(c[j], c[i])
  BY DEF Increasing
<1>5. /\ ~Before(c[i], c[i])
      /\ Before(c[j], c[i]) => ~Before(c[i], c[j])
  BY <1>2, BeforeOrder
<1>6. i < j \/ j < i \/ i = j
  BY <1>1
<1>7. i = j => c[i] = c[j]
  OBVIOUS
<1>8. c[i] = c[j] => i = j
  BY <1>4, <1>5, <1>6
<1> QED
  BY <1>1, <1>3, <1>4, <1>5, <1>6, <1>7, <1>8

(* The only event of a chain that a copy accepts is the next one.          *)
LEMMA NextOfCopy ==
  ASSUME NEW c, IsLog(c), IsChain(c), Increasing(c),
         NEW l \in Seq(Events(c)), IsCopy(l, c),
         NEW e \in Events(c), Verdict(l, e) = "ok"
  PROVE  /\ Len(l) < Len(c) /\ e = c[Len(l) + 1]
         /\ IsCopy(Append(l, e), c)
<1> DEFINE n == Len(l)
<1>1. /\ n \in Nat /\ DOMAIN l = 1..n /\ Len(c) \in Nat /\ DOMAIN c = 1..Len(c)
      /\ n <= Len(c) /\ \A i \in 1..n : l[i] = c[i]
  BY DEF IsLog, IsCopy
<1>2. PICK k \in DOMAIN c : e = c[k]
  BY DEF Events
<1>3. ValidateNext(HeadOf(l), e) = "ok" /\ e \notin Events(l)
  BY AcceptedEvent
<1>4. k \notin DOMAIN l
  BY <1>1, <1>2, <1>3 DEF Events
<1>5. k \in Nat /\ n < k /\ k <= Len(c)
  BY <1>1, <1>2, <1>4
<1>6. k # 1 => k - 1 \in DOMAIN c /\ e.prev = c[k - 1]
  BY <1>1, <1>2, <1>5 DEF IsChain
<1>7. k = n + 1
  <2>1. CASE n = 0
    <3>1. e.prev = Genesis
      BY <2>1, <1>3 DEF HeadOf, ValidateNext, IsFirst
    <3>2. k # 1 => c[k - 1] # Genesis
      BY <1>6, ChainOrder
    <3> QED
      BY <2>1, <3>1, <3>2, <1>5, <1>6
  <2>2. CASE n # 0
    <3>1. n \in DOMAIN c /\ HeadOf(l) = c[n]
      BY <2>2, <1>1 DEF HeadOf
    <3>2. c[n] # Genesis
      BY <3>1, ChainOrder
    <3>3. e.prev = c[n]
      BY <3>1, <3>2, <1>3 DEF ValidateNext
    <3>4. k # 1 /\ c[k - 1] = c[n]
      BY <3>3, <2>2, <1>5, <1>6, <1>1
    <3>5. k - 1 = n
      BY <3>1, <3>4, <1>6, ChainOrder
    <3> QED
      BY <3>5, <1>5, <1>1
  <2> QED
    BY <2>1, <2>2
<1>8. /\ Append(l, e) \in Seq(Events(c)) /\ Len(Append(l, e)) = n + 1
      /\ DOMAIN Append(l, e) = 1..(n + 1)
      /\ \A i \in 1..n : Append(l, e)[i] = l[i]
      /\ Append(l, e)[n + 1] = e
  OBVIOUS
<1> QED
  BY <1>1, <1>2, <1>5, <1>7, <1>8 DEF IsCopy

(* Induction over the numbers, for a set.                                  *)
LEMMA SetInduction ==
  ASSUME NEW S, 0 \in S, \A n \in Nat : n \in S => n + 1 \in S
  PROVE  \A n \in Nat : n \in S
<1> SUFFICES ASSUME NEW m \in Nat \ S PROVE FALSE
  OBVIOUS
<1>1. IsWellFoundedOn(OpToRel(<, Nat), Nat)
  BY NatLessThanWellFounded
<1>2. PICK n \in Nat \ S : \A k \in Nat \ S : ~(<<k, n>> \in OpToRel(<, Nat))
  BY <1>1, WFMin
<1>3. \A k \in Nat \ S : ~(k < n)
  BY <1>2 DEF OpToRel
<1>4. n \in Nat /\ n \notin S /\ n # 0
  BY <1>2
<1> HIDE <1>1, <1>2
<1>5. n - 1 \in Nat /\ n - 1 < n /\ (n - 1) + 1 = n
  BY <1>4
<1>6. n - 1 \in S
  BY <1>3, <1>5
<1> QED
  BY <1>4, <1>5, <1>6
=============================================================================
