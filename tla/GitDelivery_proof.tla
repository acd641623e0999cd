-------------------------- MODULE GitDelivery_proof --------------------------
(***************************************************************************)
(* What a receipt of the git-push journal is worth, for any clones,        *)
(* envelopes, crashes and bounds.                                          *)
(*                                                                         *)
(* The branches only grow (each new head has the old one as a prefix), and *)
(* no head records a body twice.  So a commit that has reached the remote  *)
(* stays there, a body names one index of its branch, and what was said of *)
(* a receipt, of a call or of a file stays true while others move on.      *)
(* IInv is the inductive invariant:                                        *)
(*   HeadOK     a head holds typed commits and no body twice;              *)
(*   ReceiptOK  an intent's base is on the remote, a pending receipt names *)
(*              a commit of the local branch that holds its operation;     *)
(*   CallOK     the same of the receipt the running call works on, and     *)
(*              once it is past the read-back its commit is on the remote; *)
(*   Explained  a commit not on the remote has a file, whoever is running. *)
(***************************************************************************)
EXTENDS GitDelivery, JournalChain_proof

\* What is committed to a branch or named by a file.
OpOK(op) ==
    /\ op.kind = "fallback" => op.body \in Envelope
    /\ op.kind # "fallback" => "epoch" \in DOMAIN op.body /\ op.body.epoch \in Nat \ {0}

CommitOK(k) == k = [op |-> k.op, by |-> k.by] /\ k.by \in Clone /\ OpOK(k.op)

HeadOK(h) ==
    /\ IsLog(h)
    /\ \A i \in DOMAIN h : CommitOK(h[i])
    /\ \A i, j \in DOMAIN h : h[i].op.body = h[j].op.body => i = j

\* A receipt bound to a commit of the branch l.
Bound(f, l) ==
    /\ IsLog(f.commit) /\ IsPrefix(f.commit, l)
    /\ Recorded(f.commit, f.op)
    /\ f.base # <<>> => IsPrefix(f.base, f.commit) /\ Len(f.commit) <= Len(f.base) + 1

\* A file, when l is the local head and m the remote.
ReceiptOK(f, l, m) ==
    /\ f.phase \in {"intent", "pending"} /\ OpOK(f.op) /\ IsLog(f.base)
    /\ f.phase = "intent" => IsPrefix(f.base, m)
    /\ f.phase = "pending" => Bound(f, l)

Pushing   == {"check", "push", "pushed", "sync", "clear", "clearIntent"}
Published == {"sync", "clear", "clearIntent"}

\* A call, when R are the files.
CallOK(k, l, m, R) ==
    /\ k = [pc |-> k.pc, receipt |-> k.receipt, target |-> k.target]
    /\ k.pc = "intent" => k.receipt \in R /\ k.receipt.phase = "intent"
    /\ k.pc \in {"applied", "latest"} \cup Pushing => OpOK(k.receipt.op) /\ IsLog(k.receipt.base)
    /\ k.pc = "latest" => Recorded(l, k.receipt.op)
    /\ k.pc \in Pushing => Bound(k.receipt, l)
    /\ k.pc \in Published => IsPrefix(k.receipt.commit, m)
    /\ k.pc = "sync" => IsLog(k.target) /\ IsPrefix(k.target, m)

Explained(l, m, R) ==
    \A i \in DOMAIN l :
        \/ IsPrefix(SubSeq(l, 1, i), m)
        \/ \E f \in R : f.op = l[i].op
        \/ l[i].op.kind = "fence"

CloneOK(l, m, R, k) ==
    /\ HeadOK(l)
    /\ \A f \in R : ReceiptOK(f, l, m)
    /\ CallOK(k, l, m, R)
    /\ Explained(l, m, R)

Shaped ==
    /\ local = [c \in Clone |-> local[c]]
    /\ receipts = [c \in Clone |-> receipts[c]]
    /\ call = [c \in Clone |-> call[c]]
    /\ configured \in [Clone -> {"active", "replica"}]
    /\ role \in [Clone -> {"active", "replica"}]
    /\ epoch \in [Clone -> Nat \ {0}]

IInv ==
    /\ Shaped
    /\ HeadOK(remote)
    /\ remote # <<>> => \E c \in Clone : IsPrefix(remote, local[c])
    /\ \A c \in Clone : CloneOK(local[c], remote, receipts[c], call[c])

-----------------------------------------------------------------------------
(* Prefixes *)

(* A log agrees with what it is a prefix of.                               *)
LEMMA PrefixIs ==
  ASSUME NEW s, IsLog(s), NEW t, IsLog(t)
  PROVE  /\ Len(s) \in Nat /\ DOMAIN s = 1..Len(s) /\ DOMAIN t = 1..Len(t) /\ Len(t) \in Nat
         /\ IsPrefix(s, t) <=> Len(s) <= Len(t) /\ \A i \in 1..Len(s) : s[i] = t[i]
<1> DEFINE S == Events(s) \cup Events(t)
<1>1. s \in Seq(S) /\ t \in Seq(S)
  BY DEF IsLog
<1> HIDE DEF S
<1>2. /\ Len(s) \in Nat /\ Len(t) \in Nat /\ DOMAIN s = 1..Len(s) /\ DOMAIN t = 1..Len(t)
  BY <1>1
<1>3. ASSUME Len(s) <= Len(t)
      PROVE  SubSeq(s, 1, Len(s)) = SubSeq(t, 1, Len(s)) <=> \A i \in 1..Len(s) : s[i] = t[i]
  <2>1. /\ SubSeq(s, 1, Len(s)) = [i \in 1..Len(s) |-> s[i]]
        /\ SubSeq(t, 1, Len(s)) = [i \in 1..Len(s) |-> t[i]]
    BY <1>1, <1>2, <1>3
  <2> QED
    BY <2>1
<1> QED
  BY <1>2, <1>3 DEF IsPrefix

LEMMA PrefixSelf ==
  ASSUME NEW s, IsLog(s)
  PROVE  IsPrefix(s, s)
  BY PrefixIs

LEMMA PrefixTrans ==
  ASSUME NEW s, IsLog(s), NEW t, IsLog(t), NEW u, IsLog(u), IsPrefix(s, t), IsPrefix(t, u)
  PROVE  IsPrefix(s, u)
<1>1. /\ Len(s) \in Nat /\ Len(t) \in Nat /\ Len(u) \in Nat
      /\ Len(s) <= Len(t) /\ \A i \in 1..Len(s) : s[i] = t[i]
      /\ Len(t) <= Len(u) /\ \A i \in 1..Len(t) : t[i] = u[i]
  BY PrefixIs
<1>2. Len(s) <= Len(u) /\ \A i \in 1..Len(s) : s[i] = u[i]
  BY <1>1
<1> QED
  BY <1>2, PrefixIs

(* Two logs that are prefixes of one are prefixes of each other.           *)
LEMMA PrefixCut ==
  ASSUME NEW h, IsLog(h), NEW n \in 0..Len(h)
  PROVE  /\ IsLog(SubSeq(h, 1, n)) /\ Len(SubSeq(h, 1, n)) = n
         /\ \A i \in 1..n : SubSeq(h, 1, n)[i] = h[i]
         /\ IsPrefix(SubSeq(h, 1, n), h)
<1> DEFINE S == Events(h)
<1>1. h \in Seq(S)
  BY DEF IsLog
<1> HIDE DEF S
<1>2. Len(h) \in Nat
  BY <1>1
<1>3. /\ SubSeq(h, 1, n) \in Seq(S) /\ Len(SubSeq(h, 1, n)) = n
      /\ \A i \in 1..n : SubSeq(h, 1, n)[i] = h[i]
  BY <1>1, <1>2
<1>4. IsLog(SubSeq(h, 1, n))
  BY <1>3, SequenceIsLog
<1>5. n <= Len(h)
  BY <1>2
<1> QED
  BY <1>3, <1>4, <1>5, PrefixIs

LEMMA PrefixAppend ==
  ASSUME NEW h, IsLog(h), NEW k
  PROVE  IsPrefix(h, Append(h, k)) /\ IsLog(Append(h, k))
<1>1. /\ IsLog(Append(h, k)) /\ Len(h) \in Nat /\ DOMAIN h = 1..Len(h)
      /\ DOMAIN Append(h, k) = 1..(Len(h) + 1)
      /\ \A i \in DOMAIN h : Append(h, k)[i] = h[i]
  BY AppendLog
<1>2. Len(Append(h, k)) \in Nat /\ DOMAIN Append(h, k) = 1..Len(Append(h, k))
  BY <1>1, PrefixIs
<1>3. Len(h) <= Len(Append(h, k))
  BY <1>1, <1>2
<1> QED
  BY <1>1, <1>3, PrefixIs

-----------------------------------------------------------------------------
(* The journal of a head *)

\* The bodies of the first n commits of h that are not envelopes.
BodiesTo(h, n) == {h[i].op.body : i \in {j \in 1..n : h[j].op.kind # "fallback"}}

\* f gives the journal after each of the commits of h.
JournalsOf(h, N, f) ==
    f = [n \in 0..N |->
            IF n = 0 THEN <<>>
            ELSE IF h[n].op.kind = "fallback" THEN f[n - 1]
            ELSE Append(f[n - 1], h[n].op.body)]

\* The journal after one more commit.
Extended(log, k) == IF k.op.kind = "fallback" THEN log ELSE Append(log, k.op.body)

LEMMA JournalsAre ==
  ASSUME NEW h, NEW N \in Nat, NEW f, JournalsOf(h, N, f)
  PROVE  f[0] = <<>> /\ \A n \in 1..N : f[n] = Extended(f[n - 1], h[n])
<1> DEFINE G(n) == IF n = 0 THEN <<>> ELSE Extended(f[n - 1], h[n])
<1>1. f = [n \in 0..N |-> G(n)]
  BY DEF JournalsOf, Extended
<1>2. \A n \in 0..N : f[n] = G(n)
  <2> HIDE DEF G
  <2> QED
    BY <1>1
<1> QED
  BY <1>2

LEMMA JournalsMake ==
  ASSUME NEW h, NEW N \in Nat, NEW f, f = [n \in 0..N |-> f[n]],
         f[0] = <<>>, \A n \in 1..N : f[n] = Extended(f[n - 1], h[n])
  PROVE  JournalsOf(h, N, f)
<1> DEFINE G(n) == IF n = 0 THEN <<>> ELSE Extended(f[n - 1], h[n])
<1>1. \A n \in 0..N : f[n] = G(n)
  <2>1. TAKE n \in 0..N
  <2>2. n = 0 \/ n \in 1..N
    OBVIOUS
  <2> QED
    BY <2>2
<1>2. f = [n \in 0..N |-> G(n)]
  <2> HIDE DEF G
  <2> QED
    BY <1>1
<1> QED
  BY <1>2 DEF JournalsOf, Extended

LEMMA JournalsExist ==
  ASSUME NEW h
  PROVE  \A N \in Nat : \E f : JournalsOf(h, N, f)
<1> DEFINE S == {N \in Nat : \E f : JournalsOf(h, N, f)}
<1>1. 0 \in S
  <2>1. PICK f : f = [n \in 0..0 |-> <<>>]
    OBVIOUS
  <2>2. f[0] = <<>> /\ f = [n \in 0..0 |-> f[n]]
    BY <2>1
  <2>3. \A n \in 1..0 : f[n] = Extended(f[n - 1], h[n])
    OBVIOUS
  <2>4. JournalsOf(h, 0, f)
    BY <2>2, <2>3, JournalsMake
  <2> QED
    BY <2>4
<1>2. ASSUME NEW N \in Nat, N \in S PROVE N + 1 \in S
  <2>1. PICK f : JournalsOf(h, N, f)
    BY <1>2
  <2>2. PICK r : r = Extended(f[N], h[N + 1])
    OBVIOUS
  <2>3. PICK g : g = [n \in 0..N + 1 |-> IF n = N + 1 THEN r ELSE f[n]]
    OBVIOUS
  <2>4. g = [n \in 0..N + 1 |-> g[n]] /\ g[0] = f[0] /\ g[N + 1] = r
    BY <2>3
  <2>5. \A n \in 0..N : g[n] = f[n]
    BY <2>3
  <2>6. \A n \in 1..N + 1 : g[n] = Extended(g[n - 1], h[n])
    <3>1. TAKE n \in 1..N + 1
    <3>2. CASE n = N + 1
      <4>1. n - 1 = N /\ N \in 0..N
        BY <3>2
      <4>2. g[n - 1] = f[N]
        BY <2>5, <4>1
      <4>3. g[n] = r
        BY <2>4, <3>2
      <4> QED
        BY <2>2, <3>2, <4>2, <4>3
    <3>3. CASE n # N + 1
      <4>1. n \in 1..N /\ n - 1 \in 0..N /\ n \in 0..N
        BY <3>3
      <4>2. g[n] = f[n] /\ g[n - 1] = f[n - 1]
        BY <2>5, <4>1
      <4>3. f[n] = Extended(f[n - 1], h[n])
        BY <2>1, <4>1, JournalsAre
      <4> QED
        BY <4>2, <4>3
    <3> QED
      BY <3>2, <3>3
  <2>7. f[0] = <<>>
    BY <2>1, JournalsAre
  <2>8. N + 1 \in Nat
    OBVIOUS
  <2>9. JournalsOf(h, N + 1, g)
    BY <2>4, <2>6, <2>7, <2>8, JournalsMake
  <2> QED
    BY <2>9
<1>3. \A N \in Nat : N \in S
  <2> HIDE DEF S
  <2> QED
    BY <1>1, <1>2, SetInduction
<1> QED
  BY <1>3

(* The function that JournalOf defines.                                    *)
LEMMA JournalIs ==
  ASSUME NEW h, Len(h) \in Nat
  PROVE  \E f : JournalsOf(h, Len(h), f) /\ JournalOf(h) = f[Len(h)]
<1>1. PICK f : f = CHOOSE g : JournalsOf(h, Len(h), g)
  OBVIOUS
<1>2. \E g : JournalsOf(h, Len(h), g)
  BY JournalsExist
<1>3. JournalsOf(h, Len(h), f)
  BY <1>1, <1>2
<1>4. JournalOf(h) = f[Len(h)]
  BY <1>1 DEF JournalOf, JournalsOf
<1> QED
  BY <1>3, <1>4

(* A journal holds the bodies of the commits that are not envelopes.       *)
LEMMA JournalHolds ==
  ASSUME NEW h, Len(h) \in Nat
  PROVE  Events(JournalOf(h)) = BodiesTo(h, Len(h))
<1>1. PICK f : JournalsOf(h, Len(h), f) /\ JournalOf(h) = f[Len(h)]
  BY JournalIs
<1>2. f[0] = <<>> /\ \A n \in 1..Len(h) : f[n] = Extended(f[n - 1], h[n])
  BY <1>1, JournalsAre
<1> DEFINE S == {n \in Nat : n <= Len(h) => IsLog(f[n]) /\ Events(f[n]) = BodiesTo(h, n)}
<1>3. 0 \in S
  <2>1. BodiesTo(h, 0) = {}
    BY DEF BodiesTo
  <2> QED
    BY <1>2, <2>1, EmptyLog
<1>4. ASSUME NEW n \in Nat, n \in S PROVE n + 1 \in S
  <2> SUFFICES ASSUME n + 1 <= Len(h)
               PROVE  IsLog(f[n + 1]) /\ Events(f[n + 1]) = BodiesTo(h, n + 1)
    OBVIOUS
  <2>1. PICK m \in Nat : m = n + 1
    OBVIOUS
  <2>2. m \in 1..Len(h) /\ m - 1 = n /\ n <= Len(h)
    BY <2>1
  <2>3. f[m] = Extended(f[n], h[m])
    BY <1>2, <2>2
  <2>4. IsLog(f[n]) /\ Events(f[n]) = BodiesTo(h, n)
    BY <1>4, <2>2
  <2>5. 1..m = 1..n \cup {m}
    BY <2>1
  <2>6. BodiesTo(h, m) = IF h[m].op.kind = "fallback" THEN BodiesTo(h, n)
                         ELSE BodiesTo(h, n) \cup {h[m].op.body}
    BY <2>5 DEF BodiesTo
  <2>7. IsLog(f[m]) /\ Events(f[m]) = BodiesTo(h, m)
    <3>1. CASE h[m].op.kind = "fallback"
      BY <2>3, <2>4, <2>6, <3>1 DEF Extended
    <3>2. CASE h[m].op.kind # "fallback"
      <4>1. f[m] = Append(f[n], h[m].op.body)
        BY <2>3, <3>2 DEF Extended
      <4> QED
        BY <2>4, <2>6, <3>2, <4>1, AppendLog
    <3> QED
      BY <3>1, <3>2
  <2> QED
    BY <2>1, <2>7
<1>5. \A n \in Nat : n \in S
  <2> HIDE DEF S
  <2> QED
    BY <1>3, <1>4, SetInduction
<1> QED
  BY <1>1, <1>5

(* What is recorded in a head.                                             *)
LEMMA RecordedIs ==
  ASSUME NEW h, IsLog(h), NEW op
  PROVE  Recorded(h, op) <=>
           \E i \in DOMAIN h : /\ h[i].op.body = op.body
                               /\ h[i].op.kind = "fallback" <=> op.kind = "fallback"
<1>1. Len(h) \in Nat /\ DOMAIN h = 1..Len(h)
  BY PrefixIs
<1>2. Events(JournalOf(h)) = BodiesTo(h, Len(h))
  BY <1>1, JournalHolds
<1>3. CASE op.kind = "fallback"
  BY <1>3 DEF Recorded, InboxOf, Operations
<1>4. CASE op.kind # "fallback"
  BY <1>1, <1>2, <1>4 DEF Recorded, BodiesTo
<1> QED
  BY <1>3, <1>4

(* What is recorded stays recorded while the branch grows.                 *)
LEMMA RecordedGrows ==
  ASSUME NEW g, IsLog(g), NEW h, IsLog(h), IsPrefix(g, h), NEW op, Recorded(g, op)
  PROVE  Recorded(h, op)
<1>1. PICK i \in DOMAIN g : /\ g[i].op.body = op.body
                            /\ g[i].op.kind = "fallback" <=> op.kind = "fallback"
  BY RecordedIs
<1>2. i \in DOMAIN h /\ h[i] = g[i]
  BY PrefixIs
<1> QED
  BY <1>1, <1>2, RecordedIs

-----------------------------------------------------------------------------
(* Heads *)

LEMMA HeadCut ==
  ASSUME NEW g, IsLog(g), NEW h, HeadOK(h), IsPrefix(g, h)
  PROVE  HeadOK(g)
<1>1. IsLog(h)
  BY DEF HeadOK
<1>2. \A i \in DOMAIN g : i \in DOMAIN h /\ g[i] = h[i]
  BY <1>1, PrefixIs
<1> QED
  BY <1>2 DEF HeadOK

\* A body that no commit of h has.
New(h, op) == \A i \in DOMAIN h : h[i].op.body # op.body

LEMMA HeadAppend ==
  ASSUME NEW h, HeadOK(h), NEW c \in Clone, NEW op, OpOK(op), New(h, op)
  PROVE  HeadOK(Append(h, [op |-> op, by |-> c]))
<1> DEFINE k == [op |-> op, by |-> c]
           g == Append(h, k)
<1>1. k.op = op /\ k.by = c /\ CommitOK(k)
  BY DEF CommitOK
<1> HIDE DEF k
<1>2. /\ IsLog(g) /\ DOMAIN h = 1..Len(h) /\ Len(h) \in Nat
      /\ DOMAIN g = 1..(Len(h) + 1)
      /\ \A i \in DOMAIN h : g[i] = h[i]
      /\ g[Len(h) + 1] = k
  BY AppendLog DEF HeadOK
<1> HIDE DEF g
<1>3. \A i \in DOMAIN g : i \in DOMAIN h \/ i = Len(h) + 1
  BY <1>2
<1>4. \A i \in DOMAIN g : CommitOK(g[i])
  BY <1>1, <1>2, <1>3 DEF HeadOK
<1>5. ASSUME NEW i \in DOMAIN g, NEW j \in DOMAIN g, g[i].op.body = g[j].op.body
      PROVE  i = j
  BY <1>1, <1>2, <1>3, <1>5 DEF HeadOK, New
<1> QED
  BY <1>2, <1>4, <1>5 DEF HeadOK, g, k

-----------------------------------------------------------------------------
(* What others say of a clone while the branches grow.                     *)

LEMMA BoundGrows ==
  ASSUME NEW l, IsLog(l), NEW g, IsLog(g), IsPrefix(l, g), NEW f, Bound(f, l)
  PROVE  Bound(f, g)
  BY PrefixTrans DEF Bound

LEMMA ReceiptGrows ==
  ASSUME NEW l, IsLog(l), NEW g, IsLog(g), IsPrefix(l, g),
         NEW m, IsLog(m), NEW n, IsLog(n), IsPrefix(m, n),
         NEW f, ReceiptOK(f, l, m)
  PROVE  ReceiptOK(f, g, n)
<1>1. f.phase = "intent" => IsPrefix(f.base, n)
  BY PrefixTrans DEF ReceiptOK
<1>2. f.phase = "pending" => Bound(f, g)
  BY BoundGrows DEF ReceiptOK
<1> QED
  BY <1>1, <1>2 DEF ReceiptOK

LEMMA CallGrows ==
  ASSUME NEW l, IsLog(l), NEW g, IsLog(g), IsPrefix(l, g),
         NEW m, IsLog(m), NEW n, IsLog(n), IsPrefix(m, n),
         NEW R, NEW k, CallOK(k, l, m, R)
  PROVE  CallOK(k, g, n, R)
<1>1. k.pc = "latest" => Recorded(g, k.receipt.op)
  BY RecordedGrows DEF CallOK
<1>2. k.pc \in Pushing => Bound(k.receipt, g)
  BY BoundGrows DEF CallOK
<1>3. k.pc \in Published => IsPrefix(k.receipt.commit, n)
  <2>1. k.pc \in Published => Bound(k.receipt, l) /\ IsPrefix(k.receipt.commit, m)
    BY DEF CallOK, Published, Pushing
  <2> QED
    BY <2>1, PrefixTrans DEF Bound
<1>4. k.pc = "sync" => IsLog(k.target) /\ IsPrefix(k.target, n)
  BY PrefixTrans DEF CallOK
<1> QED
  BY <1>1, <1>2, <1>3, <1>4 DEF CallOK

LEMMA ExplainedGrows ==
  ASSUME NEW l, IsLog(l), NEW m, IsLog(m), NEW n, IsLog(n), IsPrefix(m, n),
         NEW R, Explained(l, m, R)
  PROVE  Explained(l, n, R)
<1> SUFFICES ASSUME NEW i \in DOMAIN l, IsPrefix(SubSeq(l, 1, i), m)
             PROVE  IsPrefix(SubSeq(l, 1, i), n)
  BY DEF Explained
<1>1. i \in 0..Len(l)
  BY PrefixIs
<1>2. IsLog(SubSeq(l, 1, i))
  BY <1>1, PrefixCut
<1> QED
  BY <1>2, PrefixTrans

(* Nothing needs an explanation on a branch that the remote holds.         *)
LEMMA ExplainedByRemote ==
  ASSUME NEW l, IsLog(l), NEW m, IsLog(m), IsPrefix(l, m), NEW R
  PROVE  Explained(l, m, R)
<1> SUFFICES ASSUME NEW i \in DOMAIN l
             PROVE  IsPrefix(SubSeq(l, 1, i), m)
  BY DEF Explained
<1>1. i \in 0..Len(l)
  BY PrefixIs
<1>2. IsLog(SubSeq(l, 1, i)) /\ IsPrefix(SubSeq(l, 1, i), l)
  BY <1>1, PrefixCut
<1> QED
  BY <1>2, PrefixTrans

(* The files of an operation that the remote holds can go.                 *)
LEMMA ExplainedWithout ==
  ASSUME NEW l, HeadOK(l), NEW m, IsLog(m), NEW R, NEW Q, Explained(l, m, R),
         NEW b, IsLog(b), IsPrefix(b, l), IsPrefix(b, m),
         NEW op, Recorded(b, op), \A f \in R \ Q : f.op = op
  PROVE  Explained(l, m, Q)
<1> SUFFICES ASSUME NEW i \in DOMAIN l, NEW f \in R \ Q, f.op = l[i].op
             PROVE  IsPrefix(SubSeq(l, 1, i), m)
  BY DEF Explained
<1>1. IsLog(l) /\ f.op = op
  BY DEF HeadOK
<1>2. PICK j \in DOMAIN b : b[j].op.body = op.body
  BY RecordedIs
<1>3. j \in DOMAIN l /\ l[j] = b[j] /\ j \in 0..Len(b) /\ j \in 0..Len(l)
  BY <1>1, PrefixIs
<1>4. i = j
  BY <1>1, <1>2, <1>3 DEF HeadOK
<1>5. /\ IsLog(SubSeq(l, 1, j)) /\ Len(SubSeq(l, 1, j)) = j
      /\ \A x \in 1..j : SubSeq(l, 1, j)[x] = l[x]
  BY <1>1, <1>3, PrefixCut
<1>6. \A x \in 1..Len(b) : b[x] = l[x]
  BY <1>1, PrefixIs
<1>7. IsPrefix(SubSeq(l, 1, j), b)
  <2>1. Len(b) \in Nat /\ j <= Len(b) /\ j \in Nat
    BY <1>3, PrefixIs
  <2>2. \A x \in 1..j : SubSeq(l, 1, j)[x] = b[x]
    BY <1>5, <1>6, <2>1
  <2> QED
    BY <1>5, <2>1, <2>2, PrefixIs
<1> QED
  BY <1>4, <1>5, <1>7, PrefixTrans

(* One more commit with a file, or a fence.                                *)
LEMMA ExplainedAppend ==
  ASSUME NEW l, IsLog(l), NEW m, NEW R, Explained(l, m, R), NEW op, NEW c,
         op.kind = "fence" \/ \E f \in R : f.op = op
  PROVE  Explained(Append(l, [op |-> op, by |-> c]), m, R)
<1>1. PICK g : g = Append(l, [op |-> op, by |-> c])
  OBVIOUS
<1>2. /\ IsLog(g) /\ DOMAIN l = 1..Len(l) /\ Len(l) \in Nat
      /\ DOMAIN g = 1..(Len(l) + 1)
      /\ \A i \in DOMAIN l : g[i] = l[i]
      /\ g[Len(l) + 1].op = op
  BY <1>1, AppendLog
<1>3. Len(g) = Len(l) + 1
  BY <1>2, PrefixIs
<1> SUFFICES ASSUME NEW i \in DOMAIN g
             PROVE  \/ IsPrefix(SubSeq(g, 1, i), m)
                    \/ \E f \in R : f.op = g[i].op
                    \/ g[i].op.kind = "fence"
  BY <1>1 DEF Explained
<1>4. CASE i = Len(l) + 1
  BY <1>2, <1>4
<1>5. CASE i # Len(l) + 1
  <2>1. i \in DOMAIN l /\ g[i] = l[i] /\ i \in 0..Len(l) /\ i \in 0..Len(g)
    BY <1>2, <1>3, <1>5
  <2>2. SubSeq(g, 1, i) = SubSeq(l, 1, i)
    <3>1. /\ IsLog(SubSeq(g, 1, i)) /\ Len(SubSeq(g, 1, i)) = i
          /\ \A x \in 1..i : SubSeq(g, 1, i)[x] = g[x]
      BY <1>2, <2>1, PrefixCut
    <3>2. /\ IsLog(SubSeq(l, 1, i)) /\ Len(SubSeq(l, 1, i)) = i
          /\ \A x \in 1..i : SubSeq(l, 1, i)[x] = l[x]
      BY <2>1, PrefixCut
    <3>3. \A x \in 1..i : SubSeq(g, 1, i)[x] = SubSeq(l, 1, i)[x]
      BY <1>2, <2>1, <3>1, <3>2
    <3>4. /\ SubSeq(g, 1, i) = [x \in 1..i |-> SubSeq(g, 1, i)[x]]
          /\ SubSeq(l, 1, i) = [x \in 1..i |-> SubSeq(l, 1, i)[x]]
      BY <3>1, <3>2 DEF IsLog
    <3> QED
      BY <3>3, <3>4
  <2> QED
    BY <2>1, <2>2 DEF Explained
<1> QED
  BY <1>4, <1>5

-----------------------------------------------------------------------------
(* A step of one clone *)

LEMMA Standing ==
  ASSUME IInv, NEW c \in Clone
  PROVE  /\ IsLog(remote) /\ IsLog(local[c]) /\ HeadOK(local[c])
         /\ \A f \in receipts[c] : ReceiptOK(f, local[c], remote)
         /\ CallOK(call[c], local[c], remote, receipts[c])
         /\ Explained(local[c], remote, receipts[c])
  BY DEF IInv, CloneOK, HeadOK

(* A step of a clone keeps the invariant when it leaves the clone in order,*)
(* its branch extended, and the remote extended to no more than that.      *)
LEMMA StepAt ==
  ASSUME IInv, NEW c \in Clone, NEW l, NEW m, NEW R, NEW k,
         local' = [local EXCEPT ![c] = l], remote' = m,
         receipts' = [receipts EXCEPT ![c] = R], call' = [call EXCEPT ![c] = k],
         configured' \in [Clone -> {"active", "replica"}],
         role' \in [Clone -> {"active", "replica"}], epoch' \in [Clone -> Nat \ {0}],
         IsPrefix(local[c], l), CloneOK(l, m, R, k),
         m = remote \/ (HeadOK(m) /\ IsPrefix(remote, m) /\ IsPrefix(m, l))
  PROVE  IInv'
<1>1. Shaped
  BY DEF IInv
<1>2. Shaped'
  BY <1>1 DEF Shaped
<1>3. /\ local'[c] = l /\ receipts'[c] = R /\ call'[c] = k
      /\ \A d \in Clone : d # c => /\ local'[d] = local[d] /\ receipts'[d] = receipts[d]
                                   /\ call'[d] = call[d]
  BY <1>1 DEF Shaped
<1>4. HeadOK(l) /\ HeadOK(remote) /\ HeadOK(m) /\ IsLog(l) /\ IsLog(remote) /\ IsLog(m)
  BY DEF IInv, CloneOK, HeadOK
<1>5. IsPrefix(remote, m)
  BY <1>4, PrefixSelf
<1>6. ASSUME NEW d \in Clone PROVE CloneOK(local'[d], remote', receipts'[d], call'[d])
  <2>1. CASE d = c
    BY <1>3, <2>1
  <2>2. CASE d # c
    <3>1. local'[d] = local[d] /\ receipts'[d] = receipts[d] /\ call'[d] = call[d]
      BY <1>3, <2>2
    <3>2. /\ IsLog(local[d]) /\ HeadOK(local[d])
          /\ \A f \in receipts[d] : ReceiptOK(f, local[d], remote)
          /\ CallOK(call[d], local[d], remote, receipts[d])
          /\ Explained(local[d], remote, receipts[d])
      BY Standing
    <3>3. IsPrefix(local[d], local[d])
      BY <3>2, PrefixSelf
    <3>4. \A f \in receipts[d] : ReceiptOK(f, local[d], m)
      BY <1>4, <1>5, <3>2, <3>3, ReceiptGrows
    <3>5. CallOK(call[d], local[d], m, receipts[d])
      BY <1>4, <1>5, <3>2, <3>3, CallGrows
    <3>6. Explained(local[d], m, receipts[d])
      BY <1>4, <1>5, <3>2, ExplainedGrows
    <3> QED
      BY <3>1, <3>2, <3>4, <3>5, <3>6 DEF CloneOK
  <2> QED
    BY <2>1, <2>2
<1>7. ASSUME remote' # <<>> PROVE \E d \in Clone : IsPrefix(remote', local'[d])
  <2>1. CASE m = remote
    <3>1. PICK d \in Clone : IsPrefix(remote, local[d])
      BY <1>7, <2>1 DEF IInv
    <3>2. CASE d = c
      <4>1. IsLog(local[c])
        BY Standing
      <4>2. IsPrefix(remote, l)
        BY <1>4, <3>1, <3>2, <4>1, PrefixTrans
      <4> QED
        BY <1>3, <2>1, <4>2
    <3>3. CASE d # c
      BY <1>3, <2>1, <3>1, <3>3
    <3> QED
      BY <3>2, <3>3
  <2>2. CASE IsPrefix(m, l)
    BY <1>3, <2>2
  <2> QED
    BY <2>1, <2>2
<1> QED
  BY <1>2, <1>4, <1>6, <1>7 DEF IInv

(* A step that leaves the branches alone.                                  *)
LEMMA FilesAt ==
  ASSUME IInv, NEW c \in Clone, NEW R, NEW k,
         local' = local, remote' = remote,
         receipts' = [receipts EXCEPT ![c] = R], call' = [call EXCEPT ![c] = k],
         configured' \in [Clone -> {"active", "replica"}],
         role' \in [Clone -> {"active", "replica"}], epoch' \in [Clone -> Nat \ {0}],
         \A f \in R \ receipts[c] : ReceiptOK(f, local[c], remote),
         receipts[c] \subseteq R \/ Explained(local[c], remote, R),
         CallOK(k, local[c], remote, R)
  PROVE  IInv'
<1>1. local' = [local EXCEPT ![c] = local[c]]
  BY DEF IInv, Shaped
<1>2. /\ IsLog(local[c]) /\ HeadOK(local[c])
      /\ \A f \in receipts[c] : ReceiptOK(f, local[c], remote)
      /\ Explained(local[c], remote, receipts[c])
  BY Standing
<1>3. IsPrefix(local[c], local[c])
  BY <1>2, PrefixSelf
<1>4. Explained(local[c], remote, R)
  BY <1>2 DEF Explained
<1>5. CloneOK(local[c], remote, R, k)
  BY <1>2, <1>4 DEF CloneOK
<1> QED
  BY <1>1, <1>3, <1>5, StepAt

(* A step that changes only the call, or the process.                      *)
LEMMA CallAt ==
  ASSUME IInv, NEW c \in Clone, NEW k,
         local' = local, remote' = remote, receipts' = receipts,
         call' = [call EXCEPT ![c] = k],
         configured' \in [Clone -> {"active", "replica"}],
         role' \in [Clone -> {"active", "replica"}], epoch' \in [Clone -> Nat \ {0}],
         CallOK(k, local[c], remote, receipts[c])
  PROVE  IInv'
<1>1. receipts' = [receipts EXCEPT ![c] = receipts[c]]
  BY DEF IInv, Shaped
<1> QED
  BY <1>1, FilesAt

(* Role and epoch, when a step leaves the process alone.                   *)
LEMMA Process ==
  ASSUME IInv, UNCHANGED <<configured, memory>>
  PROVE  /\ configured' \in [Clone -> {"active", "replica"}]
         /\ role' \in [Clone -> {"active", "replica"}] /\ epoch' \in [Clone -> Nat \ {0}]
  BY DEF IInv, Shaped, memory

\* The call of c at another step.
At(c, pc) == [pc |-> pc, receipt |-> call[c].receipt, target |-> call[c].target]

LEMMA GotoIs ==
  ASSUME IInv, NEW c \in Clone, NEW pc
  PROVE  [call EXCEPT ![c].pc = pc] = [call EXCEPT ![c] = At(c, pc)]
<1>1. call[c] = [pc |-> call[c].pc, receipt |-> call[c].receipt, target |-> call[c].target]
  BY Standing DEF CallOK
<1>2. [call[c] EXCEPT !.pc = pc] = At(c, pc)
  BY <1>1 DEF At
<1> QED
  BY <1>2

(* The end of a call.                                                      *)
LEMMA IdleOK ==
  \A l, m, R : CallOK(Idle, l, m, R)
  BY DEF CallOK, Idle, Pushing, Published

-----------------------------------------------------------------------------
(* The actions *)

LEMMA InitialState == Init => IInv
<1> SUFFICES ASSUME Init PROVE IInv
  OBVIOUS
<1>1. Shaped
  BY DEF Init, Shaped
<1>2. HeadOK(<<>>) /\ Explained(<<>>, <<>>, {})
  BY EmptyLog DEF HeadOK, Explained
<1>3. \A c \in Clone : /\ local[c] = <<>> /\ receipts[c] = {} /\ call[c] = Idle
  BY DEF Init
<1>4. \A c \in Clone : CloneOK(local[c], remote, receipts[c], call[c])
  BY <1>2, <1>3, IdleOK DEF Init, CloneOK
<1> QED
  BY <1>1, <1>2, <1>4 DEF IInv, Init

(* A first call writes its intent: the base is the remote's head.          *)
LEMMA WriteIntentStep ==
  ASSUME IInv, NEW c \in Clone, NEW op, OpOK(op), WriteIntent(c, op),
         UNCHANGED <<configured, remote, local, memory>>
  PROVE  IInv'
<1>1. PICK f : f = Receipt("intent", op, local[c], <<>>)
  OBVIOUS
<1>2. PICK k : k = [pc |-> "intent", receipt |-> f, target |-> <<>>]
  OBVIOUS
<1>3. PICK R : R = receipts[c] \cup {f}
  OBVIOUS
<1>4. /\ local[c] = remote
      /\ receipts' = [receipts EXCEPT ![c] = R]
      /\ call' = [call EXCEPT ![c] = k]
  BY <1>1, <1>2, <1>3 DEF WriteIntent, Synced
<1>5. f.phase = "intent" /\ f.op = op /\ f.base = local[c]
  BY <1>1 DEF Receipt
<1>6. IsLog(local[c]) /\ IsPrefix(local[c], remote)
  BY <1>4, Standing, PrefixSelf
<1>7. ReceiptOK(f, local[c], remote)
  BY <1>5, <1>6 DEF ReceiptOK
<1>8. CallOK(k, local[c], remote, R)
  BY <1>2, <1>3, <1>5 DEF CallOK, Pushing, Published
<1>9. \A g \in R \ receipts[c] : ReceiptOK(g, local[c], remote)
  BY <1>3, <1>7
<1>10. receipts[c] \subseteq R
  BY <1>3
<1>11. local' = local /\ remote' = remote
  OBVIOUS
<1> QED
  BY <1>4, <1>8, <1>9, <1>10, <1>11, Process, FilesAt

LEMMA PickUpStep ==
  ASSUME IInv, NEW c \in Clone, NEW op, PickUp(c, op),
         UNCHANGED <<configured, remote, local, memory>>
  PROVE  IInv'
<1>1. PICK pc, f : /\ call' = [call EXCEPT ![c] = [pc |-> pc, receipt |-> f, target |-> <<>>]]
                   /\ f \in receipts[c]
                   /\ \/ pc = "check" /\ f.phase = "pending"
                      \/ pc = "intent" /\ f.phase = "intent"
  BY DEF PickUp, Phase, FilesOf
<1>2. PICK k : k = [pc |-> pc, receipt |-> f, target |-> <<>>]
  OBVIOUS
<1>3. ReceiptOK(f, local[c], remote)
  BY <1>1, Standing
<1>4. CallOK(k, local[c], remote, receipts[c])
  BY <1>1, <1>2, <1>3 DEF CallOK, ReceiptOK, Pushing, Published
<1>5. local' = local /\ remote' = remote /\ receipts' = receipts
  BY DEF PickUp
<1> QED
  BY <1>1, <1>2, <1>4, <1>5, Process, CallAt

LEMMA RunStep ==
  ASSUME IInv, NEW c \in Clone, NEW op, OpOK(op), Run(c, op)
  PROVE  IInv'
  BY WriteIntentStep, PickUpStep DEF Run

LEMMA RunJournalStep ==
  ASSUME IInv, NEW c \in Clone, RunJournal(c)
  PROVE  IInv'
<1>1. PICK id, key, seq, prev :
        Run(c, [kind |-> "journal",
                body |-> [id |-> id, key |-> key, epoch |-> epoch[c], seq |-> seq, prev |-> prev]])
  BY DEF RunJournal
<1>2. epoch[c] \in Nat \ {0}
  BY DEF IInv, Shaped
<1>3. OpOK([kind |-> "journal",
            body |-> [id |-> id, key |-> key, epoch |-> epoch[c], seq |-> seq, prev |-> prev]])
  BY <1>2 DEF OpOK
<1> QED
  BY <1>1, <1>3, RunStep

LEMMA SourceTyped ==
  ASSUME NEW i \in 1..MaxSource
  PROVE  "epoch" \in DOMAIN Source[i] /\ Source[i].epoch \in Nat \ {0}
<1>1. i = 1 \/ i = 2
  BY DeliveryAssumption DEF DeliveryAssumption
<1> QED
  BY <1>1 DEF Source

LEMMA RunReplicaStep ==
  ASSUME IInv, NEW c \in Clone, RunReplica(c)
  PROVE  IInv'
<1>1. PICK i \in 1..MaxSource : Run(c, [kind |-> "replica", body |-> Source[i]])
  BY DEF RunReplica
<1>2. OpOK([kind |-> "replica", body |-> Source[i]])
  BY SourceTyped DEF OpOK
<1> QED
  BY <1>1, <1>2, RunStep

LEMMA RunFallbackStep ==
  ASSUME IInv, NEW c \in Clone, RunFallback(c)
  PROVE  IInv'
<1>1. PICK x \in Envelope : Run(c, [kind |-> "fallback", body |-> x])
  BY DEF RunFallback
<1>2. OpOK([kind |-> "fallback", body |-> x])
  BY DEF OpOK
<1> QED
  BY <1>1, <1>2, RunStep

LEMMA ResumeStep ==
  ASSUME IInv, NEW c \in Clone, NEW kinds, Resume(c, kinds)
  PROVE  IInv'
<1>1. PICK f \in receipts[c] : PickUp(c, f.op)
  BY DEF Resume
<1> QED
  BY <1>1, PickUpStep DEF Resume

(* What is not recorded is new: an envelope is no event.                   *)
LEMMA NewBody ==
  ASSUME NEW h, HeadOK(h), NEW op, OpOK(op), ~Recorded(h, op)
  PROVE  New(h, op)
<1> SUFFICES ASSUME NEW i \in DOMAIN h, h[i].op.body = op.body PROVE FALSE
  BY DEF New
<1>1. IsLog(h) /\ OpOK(h[i].op)
  BY DEF HeadOK, CommitOK
<1>2. ~(h[i].op.kind = "fallback" <=> op.kind = "fallback")
  BY <1>1, RecordedIs
<1>3. op.body \in Envelope /\ "epoch" \in DOMAIN op.body
  BY <1>1, <1>2 DEF OpOK
<1>4. DOMAIN op.body = {"id", "key"}
  BY <1>3, DeliveryAssumption DEF DeliveryAssumption
<1> QED
  BY <1>3, <1>4

LEMMA VerdictNew ==
  ASSUME NEW log, NEW e, Verdict(log, e) = "ok"
  PROVE  e \notin Events(log)
  BY DEF Verdict

LEMMA AcceptedIsNew ==
  ASSUME NEW c, NEW op, AppendVerdict(c, op) = "ok"
  PROVE  ~Recorded(local[c], op)
<1>1. CASE op.kind = "fallback"
  BY <1>1 DEF AppendVerdict, InboxVerdict, Recorded
<1>2. CASE op.kind # "fallback"
  <2>1. Verdict(JournalOf(local[c]), op.body) = "ok"
    BY <1>2 DEF AppendVerdict
  <2> QED
    BY <1>2, <2>1, VerdictNew DEF Recorded
<1> QED
  BY <1>1, <1>2

(* One commit more on the branch of c.                                     *)
LEMMA CommitStep ==
  ASSUME IInv, NEW c \in Clone, NEW op, OpOK(op), ~Recorded(local[c], op), NEW k,
         Commit(c, op), remote' = remote, receipts' = receipts,
         call' = [call EXCEPT ![c] = k],
         configured' \in [Clone -> {"active", "replica"}],
         role' \in [Clone -> {"active", "replica"}], epoch' \in [Clone -> Nat \ {0}],
         op.kind = "fence" \/ \E f \in receipts[c] : f.op = op,
         \A l : /\ IsLog(l) /\ IsPrefix(local[c], l) /\ Recorded(l, op)
                => CallOK(k, l, remote, receipts[c])
  PROVE  IInv'
<1>1. PICK l : l = Append(local[c], [op |-> op, by |-> c])
  OBVIOUS
<1>2. local' = [local EXCEPT ![c] = l]
  BY <1>1 DEF Commit
<1>3. /\ IsLog(remote) /\ IsLog(local[c]) /\ HeadOK(local[c])
      /\ \A f \in receipts[c] : ReceiptOK(f, local[c], remote)
      /\ Explained(local[c], remote, receipts[c])
  BY Standing
<1>4. IsLog(l) /\ IsPrefix(local[c], l)
  BY <1>1, <1>3, PrefixAppend
<1>5. HeadOK(l)
  BY <1>1, <1>3, NewBody, HeadAppend
<1>6. Recorded(l, op)
  <2>1. Len(local[c]) + 1 \in DOMAIN l /\ l[Len(local[c]) + 1].op = op
    <3>1. /\ DOMAIN l = 1..(Len(local[c]) + 1) /\ Len(local[c]) \in Nat
          /\ l[Len(local[c]) + 1] = [op |-> op, by |-> c]
      BY <1>1, <1>3, AppendLog
    <3> QED
      BY <3>1
  <2> QED
    BY <1>4, <2>1, RecordedIs
<1>7. Explained(l, remote, receipts[c])
  BY <1>1, <1>3, ExplainedAppend
<1>8. \A f \in receipts[c] : ReceiptOK(f, l, remote)
  BY <1>3, <1>4, PrefixSelf, ReceiptGrows
<1>9. CloneOK(l, remote, receipts[c], k)
  BY <1>4, <1>5, <1>6, <1>7, <1>8 DEF CloneOK
<1>10. receipts' = [receipts EXCEPT ![c] = receipts[c]]
  BY DEF IInv, Shaped
<1> QED
  BY <1>2, <1>4, <1>9, <1>10, StepAt

LEMMA ApplyStep ==
  ASSUME IInv, NEW c \in Clone, Apply(c)
  PROVE  IInv'
<1>1. PICK r : r = call[c].receipt
  OBVIOUS
<1>2. call[c].pc = "intent" /\ r \in receipts[c] /\ r.phase = "intent"
  BY <1>1, Standing DEF CallOK, Apply
<1>3. ReceiptOK(r, local[c], remote)
  BY <1>2, Standing
<1>4. OpOK(r.op) /\ IsLog(r.base) /\ IsPrefix(r.base, remote)
  BY <1>2, <1>3 DEF ReceiptOK
<1>5. PICK k : k = At(c, "applied")
  OBVIOUS
<1>6. \A l, m, R : CallOK(k, l, m, R)
  BY <1>1, <1>4, <1>5 DEF CallOK, At, Pushing, Published
<1>7. remote' = remote /\ UNCHANGED <<configured, memory>>
  BY DEF Apply
<1>8. Goto(c, "applied") => call' = [call EXCEPT ![c] = k]
  BY <1>5, GotoIs DEF Goto
<1>9. CASE Goto(c, "applied") /\ UNCHANGED <<local, receipts>>
  <2>1. local' = local /\ receipts' = receipts /\ call' = [call EXCEPT ![c] = k]
    BY <1>8, <1>9
  <2>2. CallOK(k, local[c], remote, receipts[c])
    BY <1>6
  <2> QED
    BY <1>7, <2>1, <2>2, Process, CallAt
<1>10. CASE /\ AppendVerdict(c, r.op) = "ok" /\ Commit(c, r.op)
            /\ Goto(c, "applied") /\ receipts' = receipts
  <2>1. ~Recorded(local[c], r.op)
    BY <1>10, AcceptedIsNew
  <2>2. \E f \in receipts[c] : f.op = r.op
    BY <1>2
  <2>3. call' = [call EXCEPT ![c] = k]
    BY <1>8, <1>10
  <2> QED
    BY <1>4, <1>6, <1>7, <1>10, <2>1, <2>2, <2>3, Process, CommitStep
<1>11. CASE /\ local[c] = r.base
            /\ receipts' = [receipts EXCEPT ![c] = @ \ FilesOf(c, r.op)]
            /\ Return(c) /\ local' = local
  <2>1. PICK R : R = receipts[c] \ FilesOf(c, r.op)
    OBVIOUS
  <2>2. receipts' = [receipts EXCEPT ![c] = R] /\ R \ receipts[c] = {}
    BY <1>11, <2>1
  <2>3. call' = [call EXCEPT ![c] = Idle]
    BY <1>11 DEF Return
  <2>4. Explained(local[c], remote, R)
    BY <1>4, <1>11, Standing, ExplainedByRemote
  <2>5. CallOK(Idle, local[c], remote, R)
    BY IdleOK
  <2>6. \A f \in R \ receipts[c] : ReceiptOK(f, local[c], remote)
    BY <2>2
  <2> QED
    BY <1>7, <1>11, <2>2, <2>3, <2>4, <2>5, <2>6, Process, FilesAt
<1> QED
  BY <1>1, <1>9, <1>10, <1>11 DEF Apply

(* activateReceipt: the receipt is bound to a commit of the local branch.  *)
LEMMA ActivateStep ==
  ASSUME IInv, NEW c \in Clone, NEW f, ReceiptOK(f, local[c], remote), f.phase = "pending",
         Activate(c, f), UNCHANGED <<configured, remote, local, memory>>
  PROVE  IInv'
<1>1. local' = local /\ remote' = remote
  OBVIOUS
<1>2. CASE /\ receipts' = [receipts EXCEPT ![c] = @ \cup {f}]
           /\ call' = [call EXCEPT ![c] = [pc |-> "check", receipt |-> f, target |-> <<>>]]
  <2>1. PICK R : R = receipts[c] \cup {f}
    OBVIOUS
  <2>2. PICK k : k = [pc |-> "check", receipt |-> f, target |-> <<>>]
    OBVIOUS
  <2>3. CallOK(k, local[c], remote, R)
    BY <2>2 DEF CallOK, ReceiptOK, Pushing, Published
  <2>4. receipts[c] \subseteq R /\ \A g \in R \ receipts[c] : ReceiptOK(g, local[c], remote)
    BY <2>1
  <2>5. receipts' = [receipts EXCEPT ![c] = R] /\ call' = [call EXCEPT ![c] = k]
    BY <1>2, <2>1, <2>2
  <2> QED
    BY <1>1, <2>3, <2>4, <2>5, Process, FilesAt
<1>3. CASE Return(c) /\ receipts' = receipts
  <2>1. call' = [call EXCEPT ![c] = Idle]
    BY <1>3 DEF Return
  <2>2. CallOK(Idle, local[c], remote, receipts[c])
    BY IdleOK
  <2> QED
    BY <1>1, <1>3, <2>1, <2>2, Process, CallAt
<1> QED
  BY <1>2, <1>3 DEF Activate

(* A call that only returns.                                               *)
LEMMA ReturnStep ==
  ASSUME IInv, NEW c \in Clone, Return(c), UNCHANGED <<remote, local, receipts>>,
         configured' \in [Clone -> {"active", "replica"}],
         role' \in [Clone -> {"active", "replica"}], epoch' \in [Clone -> Nat \ {0}]
  PROVE  IInv'
<1>1. call' = [call EXCEPT ![c] = Idle]
  BY DEF Return
<1>2. CallOK(Idle, local[c], remote, receipts[c])
  BY IdleOK
<1>3. remote' = remote /\ local' = local /\ receipts' = receipts
  OBVIOUS
<1> QED
  BY <1>1, <1>2, <1>3, CallAt

LEMMA FinaliseStep ==
  ASSUME IInv, NEW c \in Clone, Finalise(c)
  PROVE  IInv'
<1>1. PICK r : r = call[c].receipt
  OBVIOUS
<1>2. OpOK(r.op) /\ IsLog(r.base) /\ IsLog(local[c]) /\ IsLog(remote)
  BY <1>1, Standing DEF Finalise, CallOK
<1>3. UNCHANGED <<configured, remote, local, memory>>
  BY DEF Finalise
<1>4. CASE Bindable(c, r)
  <2>1. PICK f : f = Receipt("pending", r.op, r.base, local[c])
    OBVIOUS
  <2>2. /\ f.phase = "pending" /\ f.op = r.op /\ f.base = r.base /\ f.commit = local[c]
    BY <2>1 DEF Receipt
  <2>3. f.base # <<>> => IsPrefix(f.base, f.commit) /\ Len(f.commit) <= Len(f.base) + 1
    <3> SUFFICES ASSUME f.base # <<>>
                 PROVE  IsPrefix(f.base, f.commit) /\ Len(f.commit) <= Len(f.base) + 1
      OBVIOUS
    <3>1. IsPrefix(r.base, local[c]) /\ Len(local[c]) - Len(r.base) <= 1
      BY <1>4, <2>2 DEF Bindable, proveLocalAncestor, commitCount
    <3>2. Len(r.base) \in Nat /\ Len(local[c]) \in Nat
      BY <1>2, PrefixIs
    <3> QED
      BY <2>2, <3>1, <3>2
  <2>4. Bound(f, local[c])
    BY <1>2, <1>4, <2>2, <2>3, PrefixSelf DEF Bound, Bindable
  <2>5. ReceiptOK(f, local[c], remote)
    BY <1>2, <2>2, <2>4 DEF ReceiptOK
  <2>6. Activate(c, f)
    BY <1>1, <1>4, <2>1 DEF Finalise
  <2> QED
    BY <1>3, <2>2, <2>5, <2>6, ActivateStep
<1>5. CASE ~Bindable(c, r)
  <2>1. Return(c) /\ UNCHANGED <<remote, local, receipts>>
    BY <1>1, <1>5 DEF Finalise
  <2> QED
    BY <1>3, <2>1, Process, ReturnStep
<1> QED
  BY <1>4, <1>5

(* A receipt that is being pushed, at another step.                        *)
LEMMA AtOK ==
  ASSUME IInv, NEW c \in Clone, call[c].pc \in Pushing, NEW pc \in Pushing, pc # "sync",
         NEW m, pc \in Published => IsPrefix(call[c].receipt.commit, m), NEW R
  PROVE  CallOK(At(c, pc), local[c], m, R)
<1>1. CallOK(call[c], local[c], remote, receipts[c])
  BY Standing
<1> QED
  BY <1>1 DEF CallOK, At, Pushing

(* The read-back of the remote: its head is the target to move to.         *)
LEMMA SyncOK ==
  ASSUME IInv, NEW c \in Clone, call[c].pc \in Pushing, IsPrefix(call[c].receipt.commit, remote)
  PROVE  \E k : /\ [call EXCEPT ![c].pc = "sync", ![c].target = remote] = [call EXCEPT ![c] = k]
                /\ CallOK(k, local[c], remote, receipts[c])
<1>1. CallOK(call[c], local[c], remote, receipts[c]) /\ IsLog(remote)
  BY Standing
<1>2. PICK k : k = [pc |-> "sync", receipt |-> call[c].receipt, target |-> remote]
  OBVIOUS
<1>3. call[c] = [pc |-> call[c].pc, receipt |-> call[c].receipt, target |-> call[c].target]
  BY <1>1 DEF CallOK
<1>4. call = [d \in Clone |-> call[d]]
  BY DEF IInv, Shaped
<1>5. [call EXCEPT ![c].pc = "sync", ![c].target = remote] = [call EXCEPT ![c] = k]
  <2>1. PICK f : f = [call EXCEPT ![c].pc = "sync"]
    OBVIOUS
  <2>2. f = [call EXCEPT ![c] = At(c, "sync")]
    BY <2>1, GotoIs
  <2>3. f[c] = At(c, "sync") /\ \A d \in Clone : d # c => f[d] = call[d]
    BY <1>4, <2>2
  <2>4. f = [d \in Clone |-> f[d]]
    BY <1>4, <2>2
  <2>5. [f[c] EXCEPT !.target = remote] = k
    BY <1>2, <2>3 DEF At
  <2>6. [f EXCEPT ![c].target = remote] = [call EXCEPT ![c] = k]
    BY <1>4, <2>3, <2>4, <2>5
  <2> QED
    BY <2>1, <2>6
<1>6. IsPrefix(remote, remote)
  BY <1>1, PrefixSelf
<1>7. CallOK(k, local[c], remote, receipts[c])
  BY <1>1, <1>2, <1>6 DEF CallOK, Pushing, Published
<1> QED
  BY <1>5, <1>7

LEMMA CheckStep ==
  ASSUME IInv, NEW c \in Clone, Check(c) \/ CheckFails(c)
  PROVE  IInv'
<1>1. /\ call[c].pc \in Pushing
      /\ local' = local /\ remote' = remote /\ receipts' = receipts
      /\ UNCHANGED <<configured, memory>>
  BY DEF Check, CheckFails, Pushing
<1>2. CASE /\ IsPrefix(call[c].receipt.commit, remote)
           /\ call' = [call EXCEPT ![c].pc = "sync", ![c].target = remote]
  BY <1>1, <1>2, SyncOK, Process, CallAt
<1>3. CASE Goto(c, "push")
  <2>1. call' = [call EXCEPT ![c] = At(c, "push")]
    BY <1>3, GotoIs DEF Goto
  <2>2. "push" \in Pushing /\ "push" \notin Published
    BY DEF Pushing, Published
  <2>3. CallOK(At(c, "push"), local[c], remote, receipts[c])
    BY <1>1, <2>2, AtOK
  <2> QED
    BY <1>1, <2>1, <2>3, Process, CallAt
<1> QED
  BY <1>2, <1>3 DEF Check, CheckFails, remoteContains

(* The compare-and-set: the remote moves to a commit of the local branch,  *)
(* which has what the remote had before it.                                *)
LEMMA PushStep ==
  ASSUME IInv, NEW c \in Clone, Push(c)
  PROVE  IInv'
<1>1. PICK r : r = call[c].receipt
  OBVIOUS
<1>2. /\ call[c].pc \in Pushing
      /\ local' = local /\ receipts' = receipts /\ UNCHANGED <<configured, memory>>
  BY DEF Push, Pushing
<1>3. /\ IsLog(remote) /\ IsLog(local[c]) /\ HeadOK(local[c])
      /\ \A f \in receipts[c] : ReceiptOK(f, local[c], remote)
      /\ CallOK(call[c], local[c], remote, receipts[c])
      /\ Explained(local[c], remote, receipts[c])
  BY Standing
<1>4. Bound(r, local[c])
  BY <1>1, <1>2, <1>3 DEF CallOK
<1>5. IsLog(r.commit) /\ IsPrefix(r.commit, local[c])
  BY <1>4 DEF Bound
<1>6. CASE /\ IsPrefix(r.base, r.commit) /\ remote \in {r.base, r.commit}
           /\ remote' = r.commit /\ Goto(c, "pushed")
  <2>1. IsPrefix(remote, r.commit)
    BY <1>5, <1>6, PrefixSelf
  <2>2. HeadOK(r.commit)
    BY <1>3, <1>5, HeadCut
  <2>3. call' = [call EXCEPT ![c] = At(c, "pushed")]
    BY <1>6, GotoIs DEF Goto
  <2>4. "pushed" \in Pushing /\ "pushed" \notin Published
    BY DEF Pushing, Published
  <2>5. CallOK(At(c, "pushed"), local[c], r.commit, receipts[c])
    BY <1>2, <2>4, AtOK
  <2>6. IsPrefix(local[c], local[c])
    BY <1>3, PrefixSelf
  <2>7. \A f \in receipts[c] : ReceiptOK(f, local[c], r.commit)
    BY <1>3, <1>5, <2>1, <2>6, ReceiptGrows
  <2>8. Explained(local[c], r.commit, receipts[c])
    BY <1>3, <1>5, <2>1, ExplainedGrows
  <2>9. CloneOK(local[c], r.commit, receipts[c], At(c, "pushed"))
    BY <1>3, <2>5, <2>7, <2>8 DEF CloneOK
  <2>10. local' = [local EXCEPT ![c] = local[c]] /\ receipts' = [receipts EXCEPT ![c] = receipts[c]]
    BY <1>2 DEF IInv, Shaped
  <2>11. remote' = r.commit
    BY <1>6
  <2> QED
    BY <1>2, <1>5, <2>1, <2>2, <2>3, <2>6, <2>9, <2>10, <2>11, Process, StepAt
<1>7. CASE Return(c) /\ remote' = remote
  BY <1>2, <1>7, Process, ReturnStep
<1> QED
  BY <1>1, <1>6, <1>7 DEF Push, proveLocalAncestor

LEMMA ReadBackStep ==
  ASSUME IInv, NEW c \in Clone, ReadBack(c)
  PROVE  IInv'
<1>1. /\ call[c].pc \in Pushing
      /\ local' = local /\ remote' = remote /\ receipts' = receipts
      /\ UNCHANGED <<configured, memory>>
  BY DEF ReadBack, Pushing
<1>2. CASE /\ IsPrefix(call[c].receipt.commit, remote)
           /\ call' = [call EXCEPT ![c].pc = "sync", ![c].target = remote]
  BY <1>1, <1>2, SyncOK, Process, CallAt
<1>3. CASE Return(c)
  BY <1>1, <1>3, Process, ReturnStep
<1> QED
  BY <1>2, <1>3 DEF ReadBack, remoteContains

(* The branch fast-forwards to a head the remote has.                      *)
LEMMA ForwardStep ==
  ASSUME IInv, NEW c \in Clone, NEW h, IsLog(h), IsPrefix(h, remote), IsPrefix(local[c], h),
         local' = [local EXCEPT ![c] = h], remote' = remote, receipts' = receipts,
         UNCHANGED <<configured, memory>>,
         NEW k, call' = [call EXCEPT ![c] = k], CallOK(k, local[c], remote, receipts[c])
  PROVE  IInv'
<1>1. /\ IsLog(remote) /\ IsLog(local[c])
      /\ \A f \in receipts[c] : ReceiptOK(f, local[c], remote)
  BY Standing
<1>2. HeadOK(h)
  BY HeadCut DEF IInv
<1>3. IsPrefix(remote, remote)
  BY <1>1, PrefixSelf
<1>4. \A f \in receipts[c] : ReceiptOK(f, h, remote)
  BY <1>1, <1>3, ReceiptGrows
<1>5. CallOK(k, h, remote, receipts[c])
  BY <1>1, <1>3, CallGrows
<1>6. Explained(h, remote, receipts[c])
  BY <1>1, ExplainedByRemote
<1>7. CloneOK(h, remote, receipts[c], k)
  BY <1>2, <1>4, <1>5, <1>6 DEF CloneOK
<1>8. receipts' = [receipts EXCEPT ![c] = receipts[c]]
  BY DEF IInv, Shaped
<1> QED
  BY <1>7, <1>8, Process, StepAt

LEMMA SynchronizeStep ==
  ASSUME IInv, NEW c \in Clone, Synchronize(c)
  PROVE  IInv'
<1>1. PICK h : h = call[c].target
  OBVIOUS
<1>2. /\ call[c].pc = "sync" /\ call[c].pc \in Pushing
      /\ remote' = remote /\ receipts' = receipts /\ UNCHANGED <<configured, memory>>
  BY DEF Synchronize, Pushing
<1>3. CallOK(call[c], local[c], remote, receipts[c])
  BY Standing
<1>4. IsLog(h) /\ IsPrefix(h, remote) /\ IsPrefix(call[c].receipt.commit, remote)
  BY <1>1, <1>2, <1>3 DEF CallOK, Published
<1>5. CASE IsPrefix(local[c], h) /\ local' = [local EXCEPT ![c] = h] /\ Goto(c, "clear")
  <2>1. call' = [call EXCEPT ![c] = At(c, "clear")]
    BY <1>5, GotoIs DEF Goto
  <2>2. "clear" \in Pushing /\ "clear" # "sync"
    BY DEF Pushing
  <2>3. CallOK(At(c, "clear"), local[c], remote, receipts[c])
    BY <1>2, <1>4, <2>2, AtOK
  <2> QED
    BY <1>2, <1>4, <1>5, <2>1, <2>3, ForwardStep
<1>6. CASE Return(c) /\ local' = local
  BY <1>2, <1>6, Process, ReturnStep
<1> QED
  BY <1>1, <1>5, <1>6 DEF Synchronize, proveLocalAncestor

(* Files go only when the remote holds the operation.                      *)
LEMMA ClearStep ==
  ASSUME IInv, NEW c \in Clone, ClearReceipt(c) \/ ClearIntent(c)
  PROVE  IInv'
<1>1. PICK r : r = call[c].receipt
  OBVIOUS
<1>2. /\ call[c].pc \in Pushing /\ call[c].pc \in Published
      /\ local' = local /\ remote' = remote /\ UNCHANGED <<configured, memory>>
  BY DEF ClearReceipt, ClearIntent, Pushing, Published
<1>3. /\ IsLog(remote) /\ IsLog(local[c]) /\ HeadOK(local[c])
      /\ CallOK(call[c], local[c], remote, receipts[c])
      /\ Explained(local[c], remote, receipts[c])
  BY Standing
<1>4. Bound(r, local[c]) /\ IsPrefix(r.commit, remote)
  BY <1>1, <1>2, <1>3 DEF CallOK
<1>5. PICK R, k : /\ receipts' = [receipts EXCEPT ![c] = R]
                  /\ call' = [call EXCEPT ![c] = k]
                  /\ R \subseteq receipts[c] /\ \A f \in receipts[c] \ R : f.op = r.op
                  /\ CallOK(k, local[c], remote, R)
  <2>1. CASE ClearReceipt(c)
    <3>1. receipts' = [receipts EXCEPT ![c] = receipts[c] \ Phase(c, r.op, "pending")]
      BY <1>1, <2>1 DEF ClearReceipt
    <3>2. call' = [call EXCEPT ![c] = At(c, "clearIntent")]
      BY <2>1, GotoIs DEF ClearReceipt, Goto
    <3>3. "clearIntent" \in Pushing /\ "clearIntent" # "sync"
      BY DEF Pushing
    <3>4. \A R : CallOK(At(c, "clearIntent"), local[c], remote, R)
      BY <1>1, <1>2, <1>4, <3>3, AtOK
    <3> QED
      BY <3>1, <3>2, <3>4 DEF Phase, FilesOf
  <2>2. CASE ClearIntent(c)
    <3>1. receipts' = [receipts EXCEPT ![c] = receipts[c] \ Phase(c, r.op, "intent")]
      BY <1>1, <2>2 DEF ClearIntent
    <3>2. call' = [call EXCEPT ![c] = Idle]
      BY <2>2 DEF ClearIntent, Return
    <3> QED
      BY <3>1, <3>2, IdleOK DEF Phase, FilesOf
  <2> QED
    BY <2>1, <2>2
<1>6. Explained(local[c], remote, R)
  BY <1>3, <1>4, <1>5, ExplainedWithout DEF Bound
<1>7. \A f \in R \ receipts[c] : ReceiptOK(f, local[c], remote)
  BY <1>5
<1> QED
  BY <1>2, <1>5, <1>6, <1>7, Process, FilesAt

LEMMA FenceStep ==
  ASSUME IInv, NEW c \in Clone, Fence(c)
  PROVE  IInv'
<1> DEFINE Checkpoint(id) == [id |-> id, key |-> id, epoch |-> epoch[c] + 1, seq |-> 1,
                               prev |-> HeadOf(JournalOf(local[c]))]
           Op(id) == [kind |-> "fence", body |-> Checkpoint(id)]
<1>0. PICK id \in FenceKey :
        /\ Verdict(JournalOf(local[c]), Checkpoint(id)) = "ok"
        /\ Commit(c, Op(id))
        /\ role' = [role EXCEPT ![c] = "replica"]
        /\ epoch' = [epoch EXCEPT ![c] = Checkpoint(id).epoch]
        /\ call' = [call EXCEPT ![c] =
             [pc |-> "latest", receipt |-> Receipt("pending", Op(id), <<>>, <<>>), target |-> <<>>]]
  BY DEF Fence
<1>1. PICK e, op :
        /\ "epoch" \in DOMAIN e /\ e.epoch = epoch[c] + 1
        /\ op = [kind |-> "fence", body |-> e]
        /\ Verdict(JournalOf(local[c]), e) = "ok"
        /\ Commit(c, op)
        /\ role' = [role EXCEPT ![c] = "replica"]
        /\ epoch' = [epoch EXCEPT ![c] = e.epoch]
        /\ call' = [call EXCEPT ![c] =
             [pc |-> "latest", receipt |-> Receipt("pending", op, <<>>, <<>>), target |-> <<>>]]
  <2>1. PICK e : e = Checkpoint(id)
    OBVIOUS
  <2>2. "epoch" \in DOMAIN e /\ e.epoch = epoch[c] + 1
    BY <2>1
  <2> HIDE DEF Checkpoint
  <2> QED
    BY <1>0, <2>1, <2>2
<1> HIDE <1>0
<1>2. PICK k : k = [pc |-> "latest", receipt |-> Receipt("pending", op, <<>>, <<>>), target |-> <<>>]
  OBVIOUS
<1>3. e.epoch \in Nat \ {0} /\ Shaped
  BY <1>1 DEF IInv, Shaped
<1>4. op.kind = "fence" /\ op.body = e /\ OpOK(op)
  BY <1>1, <1>3 DEF OpOK
<1>5. ~Recorded(local[c], op)
  BY <1>1, <1>4, VerdictNew DEF Recorded
<1>6. /\ configured' \in [Clone -> {"active", "replica"}]
      /\ role' \in [Clone -> {"active", "replica"}] /\ epoch' \in [Clone -> Nat \ {0}]
  BY <1>1, <1>3 DEF Fence, Shaped
<1>7. \A l : Recorded(l, op) => CallOK(k, l, remote, receipts[c])
  BY <1>2, <1>4, EmptyLog DEF CallOK, Receipt, Pushing, Published
<1>8. remote' = remote /\ receipts' = receipts
  BY DEF Fence
<1>9. call' = [call EXCEPT ![c] = k]
  BY <1>1, <1>2
<1> QED
  BY <1>1, <1>4, <1>5, <1>6, <1>7, <1>8, <1>9, CommitStep

LEMMA PromoteStep ==
  ASSUME IInv, NEW c \in Clone, PromoteToActive(c)
  PROVE  IInv'
<1>1. PICK e \in Events(JournalOf(local[c])) :
        /\ role' = [role EXCEPT ![c] = "active"]
        /\ epoch' = [epoch EXCEPT ![c] = e.epoch]
        /\ call' = [call EXCEPT ![c] =
              [pc |-> "latest", target |-> <<>>,
               receipt |-> Receipt("pending", [kind |-> "promote", body |-> e], <<>>, <<>>)]]
  BY DEF PromoteToActive
<1>2. PICK op : op = [kind |-> "promote", body |-> e]
  OBVIOUS
<1>3. PICK k : k = [pc |-> "latest", target |-> <<>>, receipt |-> Receipt("pending", op, <<>>, <<>>)]
  OBVIOUS
<1>4. Recorded(local[c], op)
  BY <1>2 DEF Recorded
<1>5. IsLog(local[c]) /\ HeadOK(local[c]) /\ Shaped
  BY Standing DEF IInv
<1>6. PICK i \in DOMAIN local[c] : local[c][i].op.body = e /\ local[c][i].op.kind # "fallback"
  BY <1>2, <1>4, <1>5, RecordedIs
<1>7. OpOK(op) /\ e.epoch \in Nat \ {0}
  BY <1>2, <1>5, <1>6 DEF HeadOK, CommitOK, OpOK
<1>8. CallOK(k, local[c], remote, receipts[c])
  BY <1>3, <1>4, <1>7, EmptyLog DEF CallOK, Receipt, Pushing, Published
<1>9. /\ configured' \in [Clone -> {"active", "replica"}]
      /\ role' \in [Clone -> {"active", "replica"}] /\ epoch' \in [Clone -> Nat \ {0}]
  BY <1>1, <1>5, <1>7 DEF PromoteToActive, Shaped
<1>10. remote' = remote /\ receipts' = receipts /\ local' = local
  BY DEF PromoteToActive
<1>11. call' = [call EXCEPT ![c] = k]
  BY <1>1, <1>2, <1>3
<1> QED
  BY <1>8, <1>9, <1>10, <1>11, CallAt

(* pushLatestCommit: the parent of the local head is the base.             *)
LEMMA LatestStep ==
  ASSUME IInv, NEW c \in Clone, Latest(c)
  PROVE  IInv'
<1>1. PICK op : op = call[c].receipt.op
  OBVIOUS
<1>2. /\ call[c].pc = "latest" /\ UNCHANGED <<configured, remote, local, memory>>
  BY DEF Latest
<1>3. IsLog(local[c]) /\ OpOK(op) /\ Recorded(local[c], op)
  BY <1>1, <1>2, Standing DEF CallOK
<1>4. CASE local[c] = <<>> /\ Return(c) /\ receipts' = receipts
  BY <1>2, <1>4, Process, ReturnStep
<1>5. CASE /\ local[c] # <<>>
           /\ Activate(c, Receipt("pending", op, Front(local[c]), local[c]))
  <2>1. PICK f : f = Receipt("pending", op, Front(local[c]), local[c])
    OBVIOUS
  <2>2. f.phase = "pending" /\ f.op = op /\ f.base = Front(local[c]) /\ f.commit = local[c]
    BY <2>1 DEF Receipt
  <2>3. Len(local[c]) \in Nat /\ Len(local[c]) # 0
    BY <1>3, <1>5 DEF IsLog
  <2>4. PICK n : n = Len(local[c]) - 1
    OBVIOUS
  <2>5. n \in 0..Len(local[c]) /\ Len(local[c]) = n + 1
    BY <2>3, <2>4
  <2>6. IsLog(f.base) /\ IsPrefix(f.base, f.commit) /\ Len(f.commit) <= Len(f.base) + 1
    <3>1. f.base = SubSeq(local[c], 1, n)
      BY <2>2, <2>4 DEF Front
    <3>2. IsLog(f.base) /\ Len(f.base) = n /\ IsPrefix(f.base, f.commit)
      BY <1>3, <2>2, <2>5, <3>1, PrefixCut
    <3> QED
      BY <2>2, <2>5, <3>2
  <2>7. Bound(f, local[c])
    BY <1>3, <2>2, <2>6, PrefixSelf DEF Bound
  <2>8. ReceiptOK(f, local[c], remote)
    BY <1>3, <2>2, <2>6, <2>7 DEF ReceiptOK
  <2> QED
    BY <1>2, <1>5, <2>1, <2>2, <2>8, ActivateStep
<1> QED
  BY <1>1, <1>4, <1>5 DEF Latest

LEMMA PullStep ==
  ASSUME IInv, NEW c \in Clone, Pull(c)
  PROVE  IInv'
<1>1. /\ IsLog(remote) /\ CallOK(call[c], local[c], remote, receipts[c])
  BY Standing
<1>2. IsPrefix(remote, remote)
  BY <1>1, PrefixSelf
<1>3. call' = [call EXCEPT ![c] = call[c]]
  BY DEF Pull, IInv, Shaped
<1> QED
  BY <1>1, <1>2, <1>3, ForwardStep DEF Pull

LEMMA RestartStep ==
  ASSUME IInv, NEW c \in Clone, Restart(c)
  PROVE  IInv'
<1>1. /\ configured' \in [Clone -> {"active", "replica"}]
      /\ role' \in [Clone -> {"active", "replica"}] /\ epoch' \in [Clone -> Nat \ {0}]
  BY DEF Restart, IInv, Shaped
<1> QED
  BY <1>1, ReturnStep DEF Restart

LEMMA FailStep ==
  ASSUME IInv, NEW c \in Clone, Fail(c)
  PROVE  IInv'
  BY Process, ReturnStep DEF Fail

LEMMA NextInv == IInv /\ [Next]_vars => IInv'
<1> SUFFICES ASSUME IInv, [Next]_vars PROVE IInv'
  OBVIOUS
<1>1. CASE UNCHANGED vars
  BY <1>1 DEF vars, memory, IInv, Shaped
<1>2. ASSUME NEW c \in Clone,
             RunJournal(c) \/ RunReplica(c) \/ Fence(c) \/ PromoteToActive(c)
      PROVE  IInv'
  BY <1>2, RunJournalStep, RunReplicaStep, FenceStep, PromoteStep
<1>3. ASSUME NEW c \in Clone, RunFallback(c) \/ ResumeJournal(c) \/ ResumeFallback(c)
      PROVE  IInv'
  BY <1>3, RunFallbackStep, ResumeStep DEF ResumeJournal, ResumeFallback
<1>4. ASSUME NEW c \in Clone, Step(c)
      PROVE  IInv'
  BY <1>4, ApplyStep, FinaliseStep, CheckStep, PushStep, ReadBackStep, SynchronizeStep,
     ClearStep, LatestStep DEF Step
<1>5. ASSUME NEW c \in Clone, Pull(c) \/ CheckFails(c) \/ Fail(c) \/ Restart(c)
      PROVE  IInv'
  BY <1>5, PullStep, CheckStep, FailStep, RestartStep
<1>6. Endpoint \subseteq Clone
  BY DeliveryAssumption DEF DeliveryAssumption
<1> QED
  BY <1>1, <1>2, <1>3, <1>4, <1>5, <1>6 DEF Next

-----------------------------------------------------------------------------
(* The invariant holds in every reachable state, for any clones, envelopes *)
(* and bounds.                                                             *)
THEOREM Invariance == Spec => []IInv
  BY InitialState, NextInv, PTL DEF Spec

(* Types: what is on the remote was committed at some clone, and a process *)
(* is never at epoch 0.                                                    *)
THEOREM TypeCorrect == Spec => []TypeOK
<1>1. IInv => TypeOK
  <2> SUFFICES ASSUME IInv PROVE TypeOK
    OBVIOUS
  <2>1. ASSUME NEW c \in Clone
        PROVE  /\ IsLog(local[c])
               /\ \A i \in DOMAIN local[c] : local[c][i] \in [op : Bodies, by : Clone]
    <3>1. IsLog(local[c]) /\ HeadOK(local[c])
      BY <2>1, Standing
    <3>2. ASSUME NEW i \in DOMAIN local[c] PROVE local[c][i] \in [op : Bodies, by : Clone]
      <4>1. CommitOK(local[c][i])
        BY <3>1 DEF HeadOK
      <4>2. local[c][i].op \in Operations(local[c])
        BY DEF Operations
      <4>3. local[c][i].op \in UNION {Operations(local[d]) : d \in Clone}
        BY <4>2
      <4>4. local[c][i].op \in Bodies
        BY <4>3 DEF Bodies
      <4> QED
        BY <4>1, <4>4 DEF CommitOK
    <3> QED
      BY <3>1, <3>2
  <2>2. ASSUME NEW h, IsLog(h), \A i \in DOMAIN h : h[i] \in [op : Bodies, by : Clone]
        PROVE  h \in Seq([op : Bodies, by : Clone])
    <3>1. PICK S : S = [op : Bodies, by : Clone]
      OBVIOUS
    <3>2. /\ Len(h) \in Nat /\ h = [i \in 1..Len(h) |-> h[i]]
          /\ \A i \in 1..Len(h) : h[i] \in S
      BY <2>2, <3>1 DEF IsLog
    <3>3. [i \in 1..Len(h) |-> h[i]] \in Seq(S)
      BY <3>2, IsASeq
    <3> QED
      BY <3>1, <3>2, <3>3
  <2>3. remote \in Seq([op : Bodies, by : Clone])
    <3>1. IsLog(remote)
      BY DEF IInv, HeadOK
    <3>2. ASSUME remote # <<>>, NEW i \in DOMAIN remote
          PROVE  remote[i] \in [op : Bodies, by : Clone]
      <4>1. PICK c \in Clone : IsPrefix(remote, local[c])
        BY <3>2 DEF IInv
      <4>2. i \in DOMAIN local[c] /\ local[c][i] = remote[i]
        BY <2>1, <3>1, <3>2, <4>1, PrefixIs
      <4> QED
        BY <2>1, <4>2
    <3>3. remote = <<>> => DOMAIN remote = {}
      OBVIOUS
    <3> QED
      BY <2>2, <3>1, <3>2, <3>3
  <2>4. ASSUME NEW c \in Clone
        PROVE  /\ role[c] \in {"active", "replica"} /\ epoch[c] \in Nat \ {0}
               /\ \A f \in receipts[c] : f.phase \in {"intent", "pending"}
    BY <2>4, Standing DEF IInv, Shaped, ReceiptOK
  <2> QED
    BY <2>1, <2>2, <2>3, <2>4 DEF TypeOK
<1> QED
  BY <1>1, Invariance, PTL

(* A call that is about to return nil has its operation on the remote, and *)
(* a RemoteReceipt says no more than the remote has, whatever process ended*)
(* in between and whatever the other clones pushed                         *)
(* (git_push_journal.go:250, :493).                                        *)
THEOREM DurableRemote == Spec => []DurableMeansRemote
<1>1. IInv => DurableMeansRemote
  <2> SUFFICES ASSUME IInv PROVE DurableMeansRemote
    OBVIOUS
  <2>1. ASSUME NEW c \in Clone, call[c].pc \in {"clear", "clearIntent"}
        PROVE  Recorded(remote, call[c].receipt.op)
    <3>1. CallOK(call[c], local[c], remote, receipts[c]) /\ IsLog(remote)
      BY <2>1, Standing
    <3>2. Bound(call[c].receipt, local[c]) /\ IsPrefix(call[c].receipt.commit, remote)
      BY <2>1, <3>1 DEF CallOK, Pushing, Published
    <3> QED
      BY <3>1, <3>2, RecordedGrows DEF Bound
  <2>2. ASSUME NEW c \in Clone, NEW e \in Events(JournalOf(local[c])), RemoteReceipt(c, e)
        PROVE  e \in Events(JournalOf(remote))
    <3>1. IsLog(local[c]) /\ IsLog(remote)
      BY <2>2, Standing
    <3>2. IsPrefix(local[c], remote)
      BY <2>2 DEF RemoteReceipt, VerifyLocalHeadDurable, remoteContains
    <3>3. PICK op : op = [kind |-> "journal", body |-> e]
      OBVIOUS
    <3>4. op.kind # "fallback" /\ op.body = e
      BY <3>3
    <3>5. Recorded(local[c], op)
      BY <2>2, <3>4 DEF Recorded
    <3>6. Recorded(remote, op)
      BY <3>1, <3>2, <3>5, RecordedGrows
    <3> QED
      BY <3>4, <3>6 DEF Recorded
  <2> QED
    BY <2>1, <2>2, DeliveryAssumption DEF DeliveryAssumption, DurableMeansRemote
<1> QED
  BY <1>1, Invariance, PTL

(* However often an operation is repeated, resumed or taken over after a   *)
(* crash, no branch records its body twice (git_push_journal.go:432).      *)
THEOREM OnceRecorded == Spec => []RecordedOnce
<1>1. IInv => RecordedOnce
  <2> SUFFICES ASSUME IInv, NEW c \in Clone, NEW h \in {remote, local[c]}
               PROVE  \A i, j \in DOMAIN h : h[i].op.body = h[j].op.body => i = j
    BY DEF RecordedOnce
  <2>1. HeadOK(h)
    BY Standing DEF IInv
  <2> QED
    BY <2>1 DEF HeadOK
<1> QED
  BY <1>1, Invariance, PTL

(* A commit that the remote has not is explained by a file that names its  *)
(* operation, or it is a fence that failed before its receipt              *)
(* (git_push_journal.go:312).                                              *)
THEOREM Explanation == Spec => []UnpushedIsExplained
<1>1. IInv => UnpushedIsExplained
  <2> SUFFICES ASSUME IInv, NEW c \in Clone, NEW i \in DOMAIN local[c]
               PROVE  \/ IsPrefix(SubSeq(local[c], 1, i), remote)
                      \/ FilesOf(c, local[c][i].op) # {}
                      \/ local[c][i].op.kind = "fence"
    BY DEF UnpushedIsExplained
  <2>1. Explained(local[c], remote, receipts[c])
    BY Standing
  <2> QED
    BY <2>1 DEF Explained, FilesOf
<1> QED
  BY <1>1, Invariance, PTL

(* A pending receipt names a commit of the local branch that holds its     *)
(* operation and is at most one commit beyond its base                     *)
(* (git_push_journal.go:452).                                              *)
THEOREM ReceiptSound == Spec => []ReceiptNamesItsCommit
<1>1. IInv => ReceiptNamesItsCommit
  <2> SUFFICES ASSUME IInv, NEW c \in Clone, NEW f \in receipts[c], f.phase = "pending"
               PROVE  /\ IsPrefix(f.commit, local[c])
                      /\ Recorded(f.commit, f.op)
                      /\ f.base # <<>> => IsPrefix(f.base, f.commit) /\ Len(f.commit) <= Len(f.base) + 1
    BY DEF ReceiptNamesItsCommit
  <2>1. ReceiptOK(f, local[c], remote)
    BY Standing
  <2> QED
    BY <2>1 DEF ReceiptOK, Bound
<1> QED
  BY <1>1, Invariance, PTL
=============================================================================
