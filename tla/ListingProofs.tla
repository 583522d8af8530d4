---------------------------- MODULE ListingProofs ----------------------------
(***************************************************************************)
(* Theorems about Listing for any rows, requests and changes by others:    *)
(* bulk requests, envelopes and walks.  A page is a slice of an order of   *)
(* the rows listed.  For the loop of SQLiteStore over the runs of one      *)
(* status this takes an induction over the rows it passes (ScanIsSlice).   *)
(***************************************************************************)
EXTENDS Listing, FiniteSetTheorems, TLAPS

Bulks == {"cancel", "requeue"}
Reads == {"walk", "page"}
Statuses == Lifecycle!JobStatuses \cup RunEnds \cup {"RUNNING", NoStatus}
Rows == Nat \X Jobs

Request ==
    [op : Reads \cup Bulks \cup {"none"},
     pc : {"idle", "list", "count", "next", "move", "reread", "answered"},
     status : Filters \cup Lifecycle!JobStatuses \cup {NoStatus},
     scope : SUBSET Jobs, limit : Nat, offset : Nat, desc : BOOLEAN,
     got : Seq(Jobs), total : Nat, pos : Nat, done : Seq(Jobs), failed : SUBSET Jobs,
     left : SUBSET Rows, came : SUBSET Rows, steady : SUBSET Jobs,
     moved : SUBSET Jobs, gone : SUBSET Jobs, mistold : SUBSET Jobs]

(* The rows: a stamp exactly where there is a row, and job statuses in the *)
(* tables of jobs.                                                         *)
TableInv ==
    /\ table \in Tables
    /\ status \in [Jobs -> Statuses]
    /\ stamp \in [Jobs -> Stamps \cup {0}]
    /\ \A j \in Jobs : stamp[j] = 0 <=> status[j] = NoStatus
    /\ table \in JobTables => \A j \in Jobs : status[j] \in Lifecycle!JobStatuses \cup {NoStatus}
    /\ changes \in Nat

(* Where a request can be, and what it has not touched yet. *)
Fresh(r) == r.pos = 1 /\ r.done = << >> /\ r.failed = {} /\ r.moved = {}

PhaseInv ==
    /\ req.pc = "idle" <=> req.op = "none"
    /\ req.op \in Reads => /\ req.pc \in {"idle", "list", "count", "answered"}
                           /\ req.limit >= 1 /\ Fresh(req)
    /\ req.pc = "count" => req.op = "page"
    /\ req.pc = "idle" => Fresh(req) /\ req.got = << >>
    /\ req.pc = "list" /\ req.op # "walk" => Fresh(req) /\ req.got = << >>
    /\ req.op \in Bulks => table \in JobTables
    /\ req.pc = "move" => req.op = "requeue"
    /\ req.pos \in 1 .. Len(req.got) + 1
    /\ req.pc \in {"move", "reread"} => req.pos <= Len(req.got)

RequestInv == req \in Request /\ PhaseInv

ListingInv == TableInv /\ RequestInv

-----------------------------------------------------------------------------
(* Pages. *)

LEMMA JobsFinite ==
    ASSUME NEW S \in SUBSET Jobs
    PROVE  IsFiniteSet(S) /\ Cardinality(S) \in Nat
BY ListAssumption, FS_Subset, FS_CardinalityType

(* An order of S is a sequence that holds each member of S once. *)
LEMMA OrderFacts ==
    ASSUME NEW S \in SUBSET Jobs, NEW s \in Orders(S)
    PROVE  /\ s \in Seq(S) /\ Len(s) = Cardinality(S) /\ DOMAIN s = 1 .. Cardinality(S)
           /\ \A i, k \in DOMAIN s : s[i] = s[k] => i = k
           /\ \A j \in S : \E i \in DOMAIN s : s[i] = j
           /\ \A i, k \in DOMAIN s : i < k => Precedes(Row(s[i]), Row(s[k]))
<1> DEFINE n == Cardinality(S)
<1>1. IsFiniteSet(S) /\ n \in Nat
  BY JobsFinite
<1>2. /\ s \in [1 .. n -> S]
      /\ \A i, k \in 1 .. n : i # k => s[i] # s[k]
      /\ \A i, k \in DOMAIN s : i < k => Precedes(Row(s[i]), Row(s[k]))
  BY DEF Orders, SetToSeqs
<1> HIDE DEF n
<1>3. s \in Seq(S) /\ Len(s) = n /\ DOMAIN s = 1 .. n
  BY <1>1, <1>2
<1>4. s \in Injection(1 .. n, S)
  BY <1>2 DEF Injection, IsInjective
<1>5. Cardinality(1 .. n) = n
  BY <1>1, FS_Interval
<1>6. s \in Surjection(1 .. n, S)
  BY <1>1, <1>4, <1>5, FS_Injection DEF n
<1>7. \A j \in S : \E i \in DOMAIN s : s[i] = j
  BY <1>3, <1>6 DEF Surjection
<1> QED BY <1>2, <1>3, <1>7 DEF n

(* items[offset:end]. *)
LEMMA SliceFacts ==
    ASSUME NEW S, NEW s \in Seq(S), NEW limit \in Nat, NEW offset \in Nat
    PROVE  /\ Slice(s, limit, offset) \in Seq(S)
           /\ offset >= Len(s) => Len(Slice(s, limit, offset)) = 0
           /\ offset < Len(s) /\ offset + limit > Len(s) =>
                 Len(Slice(s, limit, offset)) = Len(s) - offset
           /\ offset < Len(s) /\ offset + limit <= Len(s) => Len(Slice(s, limit, offset)) = limit
           /\ \A i \in 1 .. Len(Slice(s, limit, offset)) :
                 /\ offset + i \in 1 .. Len(s)
                 /\ Slice(s, limit, offset)[i] = s[offset + i]
<1>1. CASE offset >= Len(s)
  BY <1>1 DEF Slice
<1>2. CASE offset < Len(s)
  <2> DEFINE e == IF offset + limit > Len(s) THEN Len(s) ELSE offset + limit
  <2>1. Slice(s, limit, offset) = SubSeq(s, offset + 1, e)
    BY <1>2 DEF Slice
  <2>2. e \in Nat /\ e >= offset /\ e <= Len(s)
    BY <1>2
  <2>3. /\ offset + limit > Len(s) => e = Len(s)
        /\ offset + limit <= Len(s) => e = offset + limit
    BY <1>2
  <2> HIDE DEF e
  <2>4. /\ SubSeq(s, offset + 1, e) \in Seq(S) /\ Len(SubSeq(s, offset + 1, e)) = e - offset
        /\ \A i \in 1 .. e - offset : SubSeq(s, offset + 1, e)[i] = s[offset + i]
    BY <1>2, <2>2
  <2> QED BY <1>2, <2>1, <2>2, <2>3, <2>4
<1> QED BY <1>1, <1>2

(* Induction: a set of numbers that is not empty has a least member.  The   *)
(* library has it with an operator as parameter; for sets it follows from   *)
(* the well-foundedness of inclusion on the initial intervals.              *)
LEMMA LeastNumber ==
    ASSUME NEW T \in SUBSET Nat, T # {}
    PROVE  \E x \in T : \A y \in T : x <= y
<1> DEFINE U == {0 .. n : n \in T}
<1>1. U \subseteq FiniteSubsetsOf(Nat)
  <2> SUFFICES ASSUME NEW n \in T PROVE 0 .. n \in FiniteSubsetsOf(Nat)
    OBVIOUS
  <2>1. IsFiniteSet(0 .. n) /\ 0 .. n \subseteq Nat
    BY FS_Interval
  <2> QED BY <2>1 DEF FiniteSubsetsOf
<1>2. U # {}
  OBVIOUS
<1>3. IsWellFoundedOn(StrictSubsetOrdering(Nat), FiniteSubsetsOf(Nat))
  BY FS_StrictSubsetOrderingWellFounded
<1> HIDE DEF U
<1>4. PICK A \in U : \A B \in U : ~(<<B, A>> \in StrictSubsetOrdering(Nat))
  BY <1>1, <1>2, <1>3, WFMin
<1>5. PICK x \in T : A = 0 .. x
  BY DEF U
<1>6. ASSUME NEW y \in T, ~(x <= y) PROVE FALSE
  <2>1. 0 .. y \in U
    BY DEF U
  <2>2. <<0 .. y, 0 .. x>> \in (SUBSET Nat) \X (SUBSET Nat)
    OBVIOUS
  <2>3. 0 .. y \subseteq 0 .. x /\ x \in 0 .. x /\ x \notin 0 .. y
    BY <1>6
  <2>4. <<0 .. y, 0 .. x>> \in StrictSubsetOrdering(Nat)
    BY <2>2, <2>3 DEF StrictSubsetOrdering
  <2> QED BY <1>4, <1>5, <2>1, <2>4
<1> QED BY <1>6

(* So a set that has 0, and with n also n + 1, has all numbers up to N. *)
LEMMA UpTo ==
    ASSUME NEW N \in Nat, NEW G, 0 \in G, \A n \in 0 .. N - 1 : n \in G => n + 1 \in G
    PROVE  \A n \in 0 .. N : n \in G
<1> DEFINE T == {n \in 0 .. N : n \notin G}
<1> SUFFICES ASSUME T # {} PROVE FALSE
  OBVIOUS
<1>1. T \in SUBSET Nat
  OBVIOUS
<1>2. PICK x \in T : \A y \in T : x <= y
  BY <1>1, LeastNumber
<1>3. x # 0 /\ x \in 0 .. N /\ x \notin G
  OBVIOUS
<1>4. x - 1 \in 0 .. N - 1 /\ (x - 1) + 1 = x /\ x - 1 \in 0 .. N
  BY <1>3
<1>5. x - 1 \in G
  BY <1>2, <1>4
<1> QED BY <1>3, <1>4, <1>5

(* The loop of SQLiteStore over the runs of one status: after n runs. *)
ScanStep(acc, j, limit, offset) ==
    IF ~Matches(j) \/ Len(acc.items) >= limit THEN acc
    ELSE IF acc.seen < offset THEN [acc EXCEPT !.seen = @ + 1]
    ELSE [acc EXCEPT !.items = Append(@, j)]

ScanUpTo(g, s, n, limit, offset) ==
    g = [k \in 0 .. n |-> IF k = 0 THEN [seen |-> 0, items |-> << >>]
                          ELSE ScanStep(g[k - 1], s[k], limit, offset)]

LEMMA ScanFacts ==
    ASSUME NEW s, NEW N \in Nat, Len(s) = N, NEW limit, NEW offset
    PROVE  \E g : ScanUpTo(g, s, N, limit, offset) /\ Scan(s, limit, offset) = g[N].items
<1> DEFINE G == {n \in 0 .. N : \E g : ScanUpTo(g, s, n, limit, offset)}
<1>1. 0 \in G
  <2> DEFINE g == [k \in 0 .. 0 |-> [seen |-> 0, items |-> << >>]]
  <2>1. ScanUpTo(g, s, 0, limit, offset)
    BY DEF ScanUpTo
  <2> QED BY <2>1
<1>2. ASSUME NEW n \in 0 .. N - 1, n \in G PROVE n + 1 \in G
  <2> PICK g : ScanUpTo(g, s, n, limit, offset)
    BY <1>2
  <2> DEFINE last == ScanStep(g[n], s[n + 1], limit, offset)
             h == [k \in 0 .. n + 1 |-> IF k = n + 1 THEN last ELSE g[k]]
  <2>1. \A k \in 0 .. n : g[k] = IF k = 0 THEN [seen |-> 0, items |-> << >>]
                                 ELSE ScanStep(g[k - 1], s[k], limit, offset)
    BY DEF ScanUpTo
  <2> HIDE DEF last
  <2>2. \A k \in 0 .. n + 1 : h[k] = IF k = 0 THEN [seen |-> 0, items |-> << >>]
                                     ELSE ScanStep(h[k - 1], s[k], limit, offset)
    <3> SUFFICES ASSUME NEW k \in 0 .. n + 1
                 PROVE  h[k] = IF k = 0 THEN [seen |-> 0, items |-> << >>]
                               ELSE ScanStep(h[k - 1], s[k], limit, offset)
      OBVIOUS
    <3>1. CASE k = n + 1
      <4>1. h[k] = last /\ k # 0 /\ k - 1 = n /\ h[k - 1] = g[n]
        BY <3>1
      <4> QED BY <3>1, <4>1 DEF last
    <3>2. CASE k # n + 1
      <4>1. k \in 0 .. n /\ h[k] = g[k] /\ (k # 0 => h[k - 1] = g[k - 1])
        BY <3>2
      <4> QED BY <2>1, <4>1
    <3> QED BY <3>1, <3>2
  <2>3. h = [k \in 0 .. n + 1 |-> h[k]]
    OBVIOUS
  <2> HIDE DEF h
  <2>4. ScanUpTo(h, s, n + 1, limit, offset)
    BY <2>2, <2>3, Zenon DEF ScanUpTo
  <2> QED BY <2>4
<1>3. \E g : ScanUpTo(g, s, N, limit, offset)
  <2> HIDE DEF G
  <2>1. \A n \in 0 .. N : n \in G
    BY <1>1, <1>2, UpTo
  <2>2. N \in 0 .. N
    OBVIOUS
  <2> QED BY <2>1, <2>2 DEF G
<1>4. Scan(s, limit, offset) = (CHOOSE g : ScanUpTo(g, s, Len(s), limit, offset))[Len(s)].items
  BY DEF Scan, ScanUpTo, ScanStep
<1> QED BY <1>3, <1>4

(* A sequence that continues another by one element appends it. *)
LEMMA AppendIs ==
    ASSUME NEW S, NEW t \in Seq(S), NEW u \in Seq(S), NEW j \in S,
           Len(u) = Len(t) + 1, \A i \in 1 .. Len(t) : u[i] = t[i], u[Len(t) + 1] = j
    PROVE  u = Append(t, j)
<1> DEFINE v == Append(t, j)
<1>1. v \in Seq(S) /\ Len(v) = Len(t) + 1 /\ v[Len(t) + 1] = j /\ Len(t) \in Nat
      /\ \A i \in 1 .. Len(t) : v[i] = t[i]
  OBVIOUS
<1> HIDE DEF v
<1>2. \A i \in 1 .. Len(u) : u[i] = v[i]
  BY <1>1
<1> QED BY <1>1, <1>2

(* One more row at the end of a listing, as a slice sees it. *)
LEMMA SliceAppend ==
    ASSUME NEW S, NEW t \in Seq(S), NEW j \in S, NEW limit \in Nat, limit >= 1, NEW offset \in Nat
    PROVE  /\ Len(t) < offset => /\ Slice(Append(t, j), limit, offset) = Slice(t, limit, offset)
                                 /\ Len(Slice(t, limit, offset)) = 0
           /\ Len(t) >= offset /\ Len(t) < offset + limit =>
                  /\ Slice(Append(t, j), limit, offset) = Append(Slice(t, limit, offset), j)
                  /\ Len(Slice(t, limit, offset)) = Len(t) - offset
           /\ Len(t) >= offset + limit => /\ Slice(Append(t, j), limit, offset) = Slice(t, limit, offset)
                                          /\ Len(Slice(t, limit, offset)) = limit
<1> PICK u : u = Append(t, j)
  OBVIOUS
<1> PICK now : now = Slice(t, limit, offset)
  OBVIOUS
<1> PICK next : next = Slice(u, limit, offset)
  OBVIOUS
<1>1. /\ u \in Seq(S) /\ Len(u) = Len(t) + 1 /\ Len(t) \in Nat
      /\ \A i \in 1 .. Len(t) : u[i] = t[i]
      /\ u[Len(t) + 1] = j
  OBVIOUS
<1>2. /\ now \in Seq(S)
      /\ offset >= Len(t) => Len(now) = 0
      /\ offset < Len(t) /\ offset + limit > Len(t) => Len(now) = Len(t) - offset
      /\ offset < Len(t) /\ offset + limit <= Len(t) => Len(now) = limit
      /\ \A i \in 1 .. Len(now) : offset + i \in 1 .. Len(t) /\ now[i] = t[offset + i]
  BY SliceFacts
<1>7. \A w \in Seq(S) :
        /\ Slice(w, limit, offset) \in Seq(S)
        /\ offset >= Len(w) => Len(Slice(w, limit, offset)) = 0
        /\ offset < Len(w) /\ offset + limit > Len(w) => Len(Slice(w, limit, offset)) = Len(w) - offset
        /\ offset < Len(w) /\ offset + limit <= Len(w) => Len(Slice(w, limit, offset)) = limit
        /\ \A i \in 1 .. Len(Slice(w, limit, offset)) :
              offset + i \in 1 .. Len(w) /\ Slice(w, limit, offset)[i] = w[offset + i]
  BY SliceFacts
<1>3. /\ next \in Seq(S)
      /\ offset >= Len(u) => Len(next) = 0
      /\ offset < Len(u) /\ offset + limit > Len(u) => Len(next) = Len(u) - offset
      /\ offset < Len(u) /\ offset + limit <= Len(u) => Len(next) = limit
      /\ \A i \in 1 .. Len(next) : offset + i \in 1 .. Len(u) /\ next[i] = u[offset + i]
  BY <1>1, <1>7, Zenon
<1>4. Len(t) < offset => next = now /\ Len(now) = 0
  <2> SUFFICES ASSUME Len(t) < offset PROVE next = now /\ Len(now) = 0
    OBVIOUS
  <2>1. Len(now) = 0 /\ Len(next) = 0
    BY <1>1, <1>2, <1>3
  <2>2. \A i \in 1 .. Len(now) : now[i] = next[i]
    BY <2>1
  <2> QED BY <1>2, <1>3, <2>1, <2>2
<1>5. Len(t) >= offset /\ Len(t) < offset + limit => next = Append(now, j) /\ Len(now) = Len(t) - offset
  <2> SUFFICES ASSUME Len(t) >= offset /\ Len(t) < offset + limit
               PROVE  next = Append(now, j) /\ Len(now) = Len(t) - offset
    OBVIOUS
  <2>1. Len(now) = Len(t) - offset /\ Len(next) = Len(now) + 1
    BY <1>1, <1>2, <1>3
  <2>2. \A i \in 1 .. Len(now) : next[i] = now[i]
    <3> SUFFICES ASSUME NEW i \in 1 .. Len(now) PROVE next[i] = now[i]
      OBVIOUS
    <3>1. offset + i \in 1 .. Len(t) /\ now[i] = t[offset + i]
      BY <1>2
    <3>2. i \in 1 .. Len(next)
      BY <1>2, <2>1
    <3>3. next[i] = u[offset + i]
      BY <1>3, <3>2
    <3> QED BY <1>1, <3>1, <3>3
  <2>3. next[Len(now) + 1] = j
    BY <1>1, <1>2, <1>3, <2>1
  <2> QED BY <1>2, <1>3, <2>1, <2>2, <2>3, AppendIs
<1>6. Len(t) >= offset + limit => next = now /\ Len(now) = limit
  <2> SUFFICES ASSUME Len(t) >= offset + limit PROVE next = now /\ Len(now) = limit
    OBVIOUS
  <2>1. Len(now) = limit /\ Len(next) = limit
    BY <1>1, <1>2, <1>3
  <2>2. \A i \in 1 .. Len(now) : now[i] = next[i]
    BY <1>1, <1>2, <1>3, <2>1
  <2> QED BY <1>2, <1>3, <2>1, <2>2
<1> QED BY <1>4, <1>5, <1>6, Zenon

(* What the loop has when the matching runs it passed are t. *)
Passed(t, limit, offset) ==
    [seen |-> IF Len(t) < offset THEN Len(t) ELSE offset, items |-> Slice(t, limit, offset)]

LEMMA PassedStep ==
    ASSUME NEW S, NEW t \in Seq(S), NEW j \in S, NEW limit \in Nat, limit >= 1, NEW offset \in Nat
    PROVE  /\ Matches(j) => ScanStep(Passed(t, limit, offset), j, limit, offset) = Passed(Append(t, j), limit, offset)
           /\ ~Matches(j) => ScanStep(Passed(t, limit, offset), j, limit, offset) = Passed(t, limit, offset)
<1> PICK now : now = Slice(t, limit, offset)
  OBVIOUS
<1> PICK next : next = Slice(Append(t, j), limit, offset)
  OBVIOUS
<1> DEFINE p == IF Len(t) < offset THEN Len(t) ELSE offset
           q == IF Len(t) + 1 < offset THEN Len(t) + 1 ELSE offset
<1>1. Len(t) \in Nat /\ Len(Append(t, j)) = Len(t) + 1
  OBVIOUS
<1>2. Passed(t, limit, offset) = [seen |-> p, items |-> now]
  BY DEF Passed
<1>3. Passed(Append(t, j), limit, offset) = [seen |-> q, items |-> next]
  BY <1>1 DEF Passed
<1>4. /\ Len(t) < offset => p < offset /\ q = p + 1
      /\ Len(t) >= offset => p = offset /\ q = offset
  BY <1>1
<1>5. /\ Len(t) < offset => next = now /\ Len(now) = 0
      /\ Len(t) >= offset /\ Len(t) < offset + limit => next = Append(now, j) /\ Len(now) = Len(t) - offset
      /\ Len(t) >= offset + limit => next = now /\ Len(now) = limit
  BY SliceAppend
<1> HIDE DEF p, q
<1>6. CASE ~Matches(j)
  BY <1>2, <1>6 DEF ScanStep
<1>7. CASE Matches(j) /\ Len(t) < offset
  <2>1. ~(Len(now) >= limit) /\ p < offset /\ q = p + 1 /\ next = now
    BY <1>4, <1>5, <1>7
  <2> QED BY <1>2, <1>3, <1>7, <2>1 DEF ScanStep
<1>8. CASE Matches(j) /\ Len(t) >= offset /\ Len(t) < offset + limit
  <2>1. ~(Len(now) >= limit) /\ ~(p < offset) /\ q = p /\ next = Append(now, j)
    BY <1>1, <1>4, <1>5, <1>8
  <2>2. ScanStep(Passed(t, limit, offset), j, limit, offset) =
            [[seen |-> p, items |-> now] EXCEPT !.items = Append(@, j)]
    BY <1>2, <1>8, <2>1 DEF ScanStep
  <2>3. ScanStep(Passed(t, limit, offset), j, limit, offset) = [seen |-> p, items |-> Append(now, j)]
    BY <2>2
  <2> QED BY <1>3, <1>8, <2>1, <2>3
<1>9. CASE Matches(j) /\ Len(t) >= offset + limit
  <2>1. Len(now) >= limit /\ q = p /\ next = now
    BY <1>1, <1>4, <1>5, <1>9
  <2> QED BY <1>2, <1>3, <1>9, <2>1 DEF ScanStep
<1> QED BY <1>1, <1>6, <1>7, <1>8, <1>9

(* t holds the matching rows among the first n of s, in their order. *)
Kept(t, s, n) ==
    /\ \A a, b \in DOMAIN t : t[a] = t[b] => a = b
    /\ \A a, b \in DOMAIN t : a < b => Precedes(Row(t[a]), Row(t[b]))
    /\ \A a \in DOMAIN t : Matches(t[a]) /\ \E i \in 1 .. n : s[i] = t[a]
    /\ \A i \in 1 .. n : Matches(s[i]) => \E a \in DOMAIN t : t[a] = s[i]

LEMMA KeptStep ==
    ASSUME NEW S \in SUBSET Jobs, NEW s \in Orders(S), NEW n \in 0 .. Len(s) - 1,
           NEW t \in Seq(S), Kept(t, s, n)
    PROVE  /\ Matches(s[n + 1]) => Kept(Append(t, s[n + 1]), s, n + 1)
           /\ ~Matches(s[n + 1]) => Kept(t, s, n + 1)
<1>0. /\ s \in Seq(S) /\ DOMAIN s = 1 .. Len(s) /\ Len(s) \in Nat
      /\ \A i, k \in DOMAIN s : s[i] = s[k] => i = k
      /\ \A i, k \in DOMAIN s : i < k => Precedes(Row(s[i]), Row(s[k]))
  BY OrderFacts
<1>1. n + 1 \in DOMAIN s /\ 1 .. n + 1 = (1 .. n) \cup {n + 1} /\ 1 .. n \subseteq DOMAIN s /\ n + 1 \notin 1 .. n
      /\ \A i \in 1 .. n : i < n + 1
  BY <1>0
<1>2. CASE ~Matches(s[n + 1])
  BY <1>1, <1>2 DEF Kept
<1>3. CASE Matches(s[n + 1])
  <2> DEFINE j == s[n + 1]
             u == Append(t, j)
  <2>0. j \in S
    BY <1>0, <1>1
  <2>1. /\ DOMAIN u = (DOMAIN t) \cup {Len(t) + 1} /\ Len(t) + 1 \notin DOMAIN t
        /\ \A a \in DOMAIN t : u[a] = t[a] /\ a < Len(t) + 1 /\ ~(Len(t) + 1 < a)
        /\ u[Len(t) + 1] = j
    BY <2>0
  <2>2. \A a \in DOMAIN t : t[a] # j /\ Precedes(Row(t[a]), Row(j))
    <3> SUFFICES ASSUME NEW a \in DOMAIN t PROVE t[a] # j /\ Precedes(Row(t[a]), Row(j))
      OBVIOUS
    <3>1. PICK i \in 1 .. n : s[i] = t[a]
      BY DEF Kept
    <3>2. i \in DOMAIN s /\ n + 1 \in DOMAIN s /\ i < n + 1 /\ i # n + 1
      BY <1>1
    <3>3. s[i] # s[n + 1] /\ Precedes(Row(s[i]), Row(s[n + 1]))
      BY <1>0, <3>2
    <3> QED BY <3>1, <3>3
  <2> HIDE DEF u
  <2>3. \A a, b \in DOMAIN u : u[a] = u[b] => a = b
    BY <2>1, <2>2 DEF Kept
  <2>4. \A a, b \in DOMAIN u : a < b => Precedes(Row(u[a]), Row(u[b]))
    BY <2>1, <2>2 DEF Kept
  <2>5. \A a \in DOMAIN u : Matches(u[a]) /\ \E i \in 1 .. n + 1 : s[i] = u[a]
    BY <1>1, <1>3, <2>1 DEF Kept
  <2>6. \A i \in 1 .. n + 1 : Matches(s[i]) => \E a \in DOMAIN u : u[a] = s[i]
    BY <1>1, <2>1 DEF Kept
  <2>7. Kept(u, s, n + 1)
    BY <2>3, <2>4, <2>5, <2>6 DEF Kept
  <2> QED BY <1>3, <2>7 DEF u
<1> QED BY <1>2, <1>3

(* The loop over all rows returns the slice of the matching ones. *)
LEMMA ScanIsSlice ==
    ASSUME NEW S \in SUBSET Jobs, NEW s \in Orders(S), NEW limit \in Nat, limit >= 1, NEW offset \in Nat
    PROVE  \E t \in Orders({j \in S : Matches(j)}) : Scan(s, limit, offset) = Slice(t, limit, offset)
<1> DEFINE M == {j \in S : Matches(j)}
<1> PICK N \in Nat : N = Len(s)
  BY OrderFacts
<1>0. /\ s \in Seq(S) /\ DOMAIN s = 1 .. N
      /\ \A j \in S : \E i \in DOMAIN s : s[i] = j
  BY OrderFacts
<1> PICK g : ScanUpTo(g, s, N, limit, offset) /\ Scan(s, limit, offset) = g[N].items
  BY ScanFacts
<1> DEFINE G == {n \in 0 .. N : \E t \in Seq(S) : Kept(t, s, n) /\ g[n] = Passed(t, limit, offset)}
<1>1. 0 \in G
  <2>1. g[0] = [seen |-> 0, items |-> << >>]
    BY DEF ScanUpTo
  <2>2. Passed(<< >>, limit, offset) = [seen |-> 0, items |-> << >>]
    <3>1. Slice(<< >>, limit, offset) = << >> /\ (IF Len(<< >>) < offset THEN Len(<< >>) ELSE offset) = 0
      BY DEF Slice
    <3> QED BY <3>1 DEF Passed
  <2>3. Kept(<< >>, s, 0) /\ << >> \in Seq(S)
    BY DEF Kept
  <2> PICK e : e = << >>
    OBVIOUS
  <2>4. e \in Seq(S) /\ Kept(e, s, 0) /\ g[0] = Passed(e, limit, offset)
    BY <2>1, <2>2, <2>3, Zenon
  <2>5. 0 \in 0 .. N
    OBVIOUS
  <2> QED BY <2>4, <2>5, Zenon
<1>2. ASSUME NEW n \in 0 .. N - 1, n \in G PROVE n + 1 \in G
  <2> PICK t \in Seq(S) : Kept(t, s, n) /\ g[n] = Passed(t, limit, offset)
    BY <1>2
  <2>1. s[n + 1] \in S /\ n + 1 \in 0 .. N
    BY <1>0
  <2>2. g[n + 1] = ScanStep(g[n], s[n + 1], limit, offset)
    <3>1. n + 1 # 0 /\ (n + 1) - 1 = n
      OBVIOUS
    <3> QED BY <2>1, <3>1 DEF ScanUpTo
  <2>3. /\ Matches(s[n + 1]) => g[n + 1] = Passed(Append(t, s[n + 1]), limit, offset)
        /\ ~Matches(s[n + 1]) => g[n + 1] = Passed(t, limit, offset)
    BY <2>1, <2>2, PassedStep
  <2>4. /\ Matches(s[n + 1]) => Kept(Append(t, s[n + 1]), s, n + 1)
        /\ ~Matches(s[n + 1]) => Kept(t, s, n + 1)
    BY KeptStep
  <2>5. Append(t, s[n + 1]) \in Seq(S)
    BY <2>1
  <2> QED BY <2>1, <2>3, <2>4, <2>5
<1>3. N \in G
  <2> HIDE DEF G
  <2>1. \A n \in 0 .. N : n \in G
    BY <1>1, <1>2, UpTo
  <2>2. N \in 0 .. N
    OBVIOUS
  <2> QED BY <2>1, <2>2
<1>4. PICK t \in Seq(S) : Kept(t, s, N) /\ g[N] = Passed(t, limit, offset)
  BY <1>3
<1>5. Scan(s, limit, offset) = Slice(t, limit, offset)
  BY <1>4 DEF Passed
<1>6. t \in Orders(M)
  <2> DEFINE n == Len(t)
  <2>1. n \in Nat /\ DOMAIN t = 1 .. n /\ \A a \in 1 .. n : t[a] \in S
    BY <1>4
  <2>2. \A a \in 1 .. n : t[a] \in M
    BY <1>4, <2>1 DEF Kept
  <2>3. t \in [1 .. n -> M]
    BY <1>4, <2>1, <2>2
  <2>4. \A j \in M : \E a \in 1 .. n : t[a] = j
    BY <1>0, <1>4, <2>1 DEF Kept
  <2>5. \A a, b \in 1 .. n : t[a] = t[b] => a = b
    BY <1>4, <2>1 DEF Kept
  <2> HIDE DEF M, n
  <2>6. t \in Bijection(1 .. n, M)
    BY <2>3, <2>4, <2>5 DEF Bijection, Injection, Surjection, IsInjective
  <2>7. ExistsBijection(1 .. n, M)
    BY <2>6 DEF ExistsBijection
  <2>8. IsFiniteSet(1 .. n) /\ Cardinality(1 .. n) = n
    BY <2>1, FS_Interval
  <2>9. Cardinality(M) = n
    BY <2>7, <2>8, FS_Bijection
  <2>10. \A a, b \in DOMAIN t : a < b => Precedes(Row(t[a]), Row(t[b]))
    BY <1>4 DEF Kept
  <2> QED BY <2>3, <2>5, <2>9, <2>10 DEF Orders, SetToSeqs
<1> QED BY <1>5, <1>6

(* A page is a slice of an order of what is listed. *)
LEMMA PageFacts ==
    ASSUME TableInv, RequestInv, req.op # "none", NEW items \in Pages
    PROVE  \E s \in Orders(Listed) : items = Slice(s, req.limit, req.offset)
<1>1. CASE table = "sqliteRuns" /\ req.status # NoStatus
  <2> DEFINE S == {j \in req.scope : status[j] # NoStatus}
  <2>1. S \in SUBSET Jobs /\ req.limit \in Nat /\ req.offset \in Nat
    BY DEF RequestInv, Request
  <2>2. req.limit >= 1
    <3>1. req.op \in Reads \cup Bulks
      BY DEF RequestInv, Request
    <3> QED BY <1>1, <3>1 DEF RequestInv, PhaseInv, JobTables
  <2>3. {j \in S : Matches(j)} = Listed
    BY DEF Listed, Matches, Passes
  <2>4. PICK s \in Orders(S) : items = Scan(s, req.limit, req.offset)
    BY <1>1 DEF Pages
  <2> HIDE DEF S
  <2> QED BY <2>1, <2>2, <2>3, <2>4, ScanIsSlice
<1>2. CASE ~(table = "sqliteRuns" /\ req.status # NoStatus)
  BY <1>2 DEF Pages
<1> QED BY <1>1, <1>2

LEMMA ListedJobs == ASSUME RequestInv PROVE Listed \in SUBSET Jobs
  BY DEF Listed, RequestInv, Request

LEMMA PageType ==
    ASSUME TableInv, RequestInv, req.op # "none", NEW items \in Pages
    PROVE  items \in Seq(Jobs) /\ Len(items) <= req.limit
<1>1. PICK s \in Orders(Listed) : items = Slice(s, req.limit, req.offset)
  BY PageFacts
<1>2. s \in Seq(Listed)
  BY ListedJobs, OrderFacts
<1>3. s \in Seq(Jobs)
  BY <1>2, ListedJobs
<1>4. req.limit \in Nat /\ req.offset \in Nat
  BY DEF RequestInv, Request
<1>5. Len(s) \in Nat
  BY <1>3
<1> QED BY <1>1, <1>3, <1>4, <1>5, SliceFacts

-----------------------------------------------------------------------------
(* Types, action by action. *)

LEMMA NoRequestType == NoRequest \in Request /\ Fresh(NoRequest)
  BY DEF NoRequest, Request, Reads, Bulks, Rows, Fresh

LEMMA EffectiveLimit == ASSUME NEW limit \in Limits PROVE Effective(limit) \in Nat /\ Effective(limit) >= 1
  BY ListAssumption DEF Effective

(* A request that starts with a listing. *)
LEMMA ArrivesTypes ==
    ASSUME TableInv, RequestInv, NEW op \in Reads \cup Bulks,
           NEW s \in Filters \cup Lifecycle!JobStatuses \cup {NoStatus},
           NEW scope \in Scopes, NEW limit \in Limits, NEW offset \in Nat, NEW desc \in BOOLEAN,
           op \in Bulks => table \in JobTables,
           Arrives(op, s, scope, limit, offset, desc)
    PROVE  TableInv' /\ RequestInv'
<1>1. TableInv'
  BY DEF TableInv, Arrives
<1>2. scope \in SUBSET Jobs /\ {j \in scope : Passes(status[j], s)} \in SUBSET Jobs
  BY ListAssumption
<1>3. Effective(limit) \in Nat /\ Effective(limit) >= 1
  BY EffectiveLimit
<1> DEFINE e == Effective(limit)
           z == {j \in scope : Passes(status[j], s)}
<1>4. req' = [NoRequest EXCEPT !.op = op, !.pc = "list", !.status = s, !.scope = scope,
                 !.limit = e, !.offset = offset, !.desc = desc, !.steady = z]
  BY DEF Arrives
<1>5. e \in Nat /\ e >= 1 /\ z \in SUBSET Jobs
  BY <1>2, <1>3
<1> HIDE DEF e, z
<1>6. req' \in Request
  BY <1>2, <1>4, <1>5, NoRequestType DEF Request
<1>7. /\ req'.op = op /\ req'.pc = "list" /\ req'.status = s /\ req'.limit = e
      /\ req'.pos = 1 /\ req'.got = << >> /\ Fresh(req')
  BY <1>4 DEF NoRequest, Fresh
<1>8. table' = table
  BY DEF Arrives
<1>9. PhaseInv'
  BY <1>5, <1>7, <1>8 DEF PhaseInv, Reads, Bulks
<1> QED BY <1>1, <1>6, <1>9 DEF RequestInv

LEMMA ArrivalTypes ==
    ASSUME TableInv, RequestInv, Walk \/ GetPage \/ BulkCancel \/ BulkRequeue
    PROVE  TableInv' /\ RequestInv'
<1>1. ASSUME NEW op \in Reads, NEW offset \in Nat, NEW desc \in BOOLEAN, Asks(op, offset, desc)
      PROVE  TableInv' /\ RequestInv'
  <2>1. PICK s \in Filters, scope \in Scopes, limit \in Limits : Arrives(op, s, scope, limit, offset, desc)
    BY <1>1 DEF Asks
  <2>2. op \notin Bulks
    BY DEF Reads, Bulks
  <2> QED BY <2>1, <2>2, ArrivesTypes
<1>2. CASE Walk
  BY <1>1, <1>2 DEF Walk, Reads
<1>3. CASE GetPage
  BY <1>1, <1>3, ListAssumption DEF GetPage, Reads
<1>4. ASSUME NEW op \in Bulks, NEW own, NEW accepted \in SUBSET Lifecycle!JobStatuses, Bulk(op, own, accepted)
      PROVE  TableInv' /\ RequestInv'
  <2>1. table \in JobTables
    BY <1>4 DEF Bulk
  <2>2. PICK s \in accepted, scope \in Scopes, limit \in Limits : Arrives(op, s, scope, limit, 0, FALSE)
    BY <1>4 DEF Bulk
  <2>3. op \notin Reads
    BY DEF Reads, Bulks
  <2> QED BY <2>1, <2>2, <2>3, ArrivesTypes
<1>5. CASE BulkCancel
  BY <1>4, <1>5 DEF BulkCancel, Bulks
<1>6. CASE BulkRequeue
  <2>1. {"DEAD_LETTER", "FAILED"} \in SUBSET Lifecycle!JobStatuses
    BY DEF Lifecycle!JobStatuses
  <2> QED BY <1>4, <1>6, <2>1 DEF BulkRequeue, Bulks
<1> QED BY <1>2, <1>3, <1>5, <1>6

LEMMA GivenTypes ==
    ASSUME TableInv, RequestInv, NEW op \in Bulks, NEW ids \in Given, BulkGiven(op, ids)
    PROVE  TableInv' /\ RequestInv'
<1>1. TableInv'
  BY DEF TableInv, BulkGiven
<1>2. req' = [NoRequest EXCEPT !.op = op, !.pc = "next", !.got = ids] /\ table \in JobTables /\ table' = table
  BY DEF BulkGiven
<1>3. ids \in Seq(Jobs)
  BY ListAssumption
<1>4. req' \in Request
  BY <1>2, <1>3, NoRequestType DEF Request
<1>5. req'.op = op /\ req'.pc = "next" /\ req'.pos = 1 /\ req'.got = ids
  BY <1>2 DEF NoRequest
<1>6. Len(ids) \in Nat
  BY <1>3
<1>7. PhaseInv'
  BY <1>2, <1>5, <1>6 DEF PhaseInv, Reads, Bulks
<1> QED BY <1>1, <1>4, <1>7 DEF RequestInv

LEMMA ListTypes ==
    ASSUME TableInv, RequestInv, List
    PROVE  TableInv' /\ RequestInv'
<1>1. TableInv'
  BY DEF TableInv, List
<1>2. req.pc = "list" /\ req.op # "none" /\ req \in Request /\ table' = table
  BY DEF List, RequestInv, PhaseInv
<1>3. PICK items \in Pages : ReadPage(items) \/ ReadOnce(items)
  BY DEF List
<1>4. items \in Seq(Jobs) /\ Len(items) <= req.limit /\ Len(items) \in Nat
  BY <1>2, PageType
<1>5. CASE ReadPage(items)
  <2>1. /\ req' = [req EXCEPT !.got = req.got \o items, !.offset = req.offset + Len(items),
                              !.pc = IF Len(items) < req.limit THEN "answered" ELSE "list"]
        /\ req.op = "walk"
    BY <1>5 DEF ReadPage
  <2>2. req.got \in Seq(Jobs) /\ req.offset \in Nat
    BY <1>2 DEF Request
  <2>3. req.got \o items \in Seq(Jobs) /\ Len(req.got \o items) = Len(req.got) + Len(items)
    BY <1>4, <2>2
  <2>4. req' \in Request
    <3> DEFINE g == req.got \o items
               o == req.offset + Len(items)
               p == IF Len(items) < req.limit THEN "answered" ELSE "list"
    <3>1. req' = [req EXCEPT !.got = g, !.offset = o, !.pc = p]
      BY <2>1
    <3>2. g \in Seq(Jobs) /\ o \in Nat /\ p \in {"answered", "list"}
      BY <1>4, <2>2, <2>3
    <3> HIDE DEF g, o, p
    <3> QED BY <1>2, <3>1, <3>2 DEF Request
  <2>5. /\ req'.op = "walk" /\ req'.pc \in {"answered", "list"} /\ req'.limit = req.limit
        /\ req'.status = req.status /\ req'.got = req.got \o items /\ req'.pos = req.pos
        /\ req'.done = req.done /\ req'.failed = req.failed /\ req'.moved = req.moved
    BY <1>2, <2>1 DEF Request
  <2>6. Len(req'.got) \in Nat
    BY <2>4 DEF Request
  <2>7. req.limit >= 1 /\ Fresh(req)
    BY <2>1 DEF RequestInv, PhaseInv, Reads
  <2>8. Fresh(req')
    BY <2>5, <2>7 DEF Fresh
  <2>9. req'.pos \in 1 .. Len(req'.got) + 1
    BY <2>6, <2>8 DEF Fresh
  <2>10. PhaseInv'
    BY <1>2, <2>5, <2>7, <2>8, <2>9 DEF PhaseInv, Reads, Bulks
  <2> QED BY <1>1, <2>4, <2>10 DEF RequestInv
<1>6. CASE ReadOnce(items)
  <2>1. /\ req' = [req EXCEPT !.got = items, !.pc = IF req.op = "page" THEN "count" ELSE "next"]
        /\ req.op # "walk"
    BY <1>6 DEF ReadOnce
  <2>2. req' \in Request
    BY <1>2, <1>4, <2>1 DEF Request
  <2>3. /\ req'.op = req.op /\ req'.pc = (IF req.op = "page" THEN "count" ELSE "next")
        /\ req'.limit = req.limit
        /\ req'.status = req.status /\ req'.got = items /\ req'.pos = req.pos
        /\ req'.done = req.done /\ req'.failed = req.failed /\ req'.moved = req.moved
    BY <1>2, <2>1 DEF Request
  <2>4. /\ req.op \in Reads => req.limit >= 1
        /\ Fresh(req)
        /\ req.op \in Bulks => table \in JobTables
        /\ req.op \in Reads \cup Bulks
    BY <1>2, <2>1 DEF RequestInv, PhaseInv, Request
  <2>5. Fresh(req')
    BY <2>3, <2>4 DEF Fresh
  <2>6. PhaseInv'
    BY <1>2, <1>4, <2>1, <2>3, <2>4, <2>5 DEF PhaseInv, Reads, Bulks, Fresh
  <2> QED BY <1>1, <2>2, <2>6 DEF RequestInv
<1> QED BY <1>3, <1>5, <1>6

LEMMA CountTypes ==
    ASSUME TableInv, RequestInv, Count
    PROVE  TableInv' /\ RequestInv'
<1>1. TableInv' /\ table' = table
  BY DEF TableInv, Count
<1>2. req' = [req EXCEPT !.total = Counted, !.pc = "answered"] /\ req.op = "page" /\ req \in Request
  BY DEF Count, RequestInv, PhaseInv
<1>3. Counted \in Nat
  BY ListedJobs, JobsFinite DEF Counted
<1>4. req' \in Request
  BY <1>2, <1>3 DEF Request
<1>5. /\ req'.op = req.op /\ req'.pc = "answered" /\ req'.limit = req.limit
      /\ req'.status = req.status /\ req'.got = req.got /\ req'.pos = req.pos
      /\ req'.done = req.done /\ req'.failed = req.failed /\ req'.moved = req.moved
  BY <1>2 DEF Request
<1>6. PhaseInv
  BY DEF RequestInv
<1>7. PhaseInv'
  BY <1>1, <1>2, <1>5, <1>6 DEF PhaseInv, Reads, Bulks, Fresh
<1> QED BY <1>1, <1>4, <1>7 DEF RequestInv

-----------------------------------------------------------------------------
(* The loop of a bulk request: what a turn does to the record. *)

(* Fields no step of the loop touches. *)
SameBulk ==
    /\ req'.op = req.op /\ req'.got = req.got /\ req'.gone = req.gone

InTurn == RequestInv /\ TableInv /\ req.op \in Bulks /\ req.pos <= Len(req.got)

LEMMA TurnFacts ==
    ASSUME InTurn
    PROVE  /\ Current \in Jobs /\ req \in Request /\ table \in JobTables
           /\ req.pos \in 1 .. Len(req.got) /\ Len(req.got) \in Nat
<1>1. req \in Request /\ PhaseInv
  BY DEF InTurn, RequestInv
<1>2. req.got \in Seq(Jobs) /\ req.pos \in Nat
  BY <1>1 DEF Request
<1>3. table \in JobTables /\ req.pos \in 1 .. Len(req.got) + 1
  BY <1>1 DEF InTurn, PhaseInv
<1> QED BY <1>1, <1>2, <1>3 DEF InTurn, Current

(* The invariant of where a bulk request is. *)
LEMMA BulkPhase ==
    ASSUME req \in Request, req' \in Request, PhaseInv, req.op \in Bulks, table' = table,
           req'.op = req.op, req'.got = req.got,
           req'.pc \in {"next", "move", "reread", "answered"},
           req'.pc = "move" => req.op = "requeue",
           req'.pos \in 1 .. Len(req.got) + 1,
           req'.pc \in {"move", "reread"} => req'.pos <= Len(req.got)
    PROVE  RequestInv'
<1>1. PhaseInv'
  BY DEF PhaseInv, Bulks, Reads
<1> QED BY <1>1 DEF RequestInv

(* The id is reported as failed. *)
FailsTo == /\ SameBulk /\ UNCHANGED <<table, status, stamp, changes>>
           /\ req'.failed = req.failed \cup {Current} /\ req'.done = req.done
           /\ req'.moved = req.moved /\ req'.mistold = req.mistold
           /\ req'.pos = req.pos + 1 /\ req'.pc = "next"

(* A statement fails and the id is reported as failed; mistold remembers a  *)
(* job that was changed before.                                             *)
StatementFailsTo ==
    /\ SameBulk /\ UNCHANGED <<table, status, stamp>>
    /\ req'.failed = req.failed \cup {Current} /\ req'.done = req.done /\ req'.moved = req.moved
    /\ req'.mistold = IF req.pc = "reread" THEN req.mistold \cup {Current} ELSE req.mistold
    /\ req'.pos = req.pos + 1 /\ req'.pc = "next"

(* The handler goes on to its next call. *)
ProceedsTo(pc) == /\ SameBulk /\ UNCHANGED <<table, status, stamp, changes>>
                  /\ req'.failed = req.failed /\ req'.done = req.done
                  /\ req'.moved = req.moved /\ req'.mistold = req.mistold
                  /\ req'.pos = req.pos /\ req'.pc = pc

(* The job is changed. *)
MovesTo(to) == /\ SameBulk /\ UNCHANGED <<table, stamp>>
               /\ status' = [status EXCEPT ![Current] = to]
               /\ req'.failed = req.failed /\ req'.done = req.done
               /\ req'.moved = req.moved \cup {Current} /\ req'.mistold = req.mistold
               /\ req'.pos = req.pos /\ req'.pc = "reread"

(* The job is changed and reported as failed. *)
MovesUnloggedTo(to) ==
    /\ SameBulk /\ UNCHANGED <<table, stamp>>
    /\ status' = [status EXCEPT ![Current] = to]
    /\ req'.failed = req.failed \cup {Current} /\ req'.done = req.done
    /\ req'.moved = req.moved \cup {Current} /\ req'.mistold = req.mistold \cup {Current}
    /\ req'.pos = req.pos + 1 /\ req'.pc = "next"

(* The id is reported as done. *)
ReportsDone ==
    /\ SameBulk /\ UNCHANGED <<table, status, stamp, changes>>
    /\ req'.failed = req.failed /\ req'.done = Append(req.done, Current)
    /\ req'.moved = req.moved /\ req'.mistold = req.mistold
    /\ req'.pos = req.pos + 1 /\ req'.pc = "next"

LEMMA FailsEffect ==
    ASSUME InTurn, Fails
    PROVE  FailsTo /\ TableInv' /\ RequestInv'
<1>1. /\ Current \in Jobs /\ req \in Request /\ req.pos \in 1 .. Len(req.got) /\ Len(req.got) \in Nat
  BY TurnFacts
<1> DEFINE c == Current
           q == req.pos + 1
<1>2. req' = [req EXCEPT !.failed = req.failed \cup {c}, !.pos = q, !.pc = "next"]
  BY DEF Fails, Failed
<1>3. c \in Jobs /\ q \in Nat
  BY <1>1
<1> HIDE DEF c, q
<1>4. req' \in Request
  BY <1>1, <1>2, <1>3 DEF Request
<1>5. /\ SameBulk
      /\ req'.failed = req.failed \cup {c} /\ req'.done = req.done
      /\ req'.moved = req.moved /\ req'.mistold = req.mistold
      /\ req'.pos = q /\ req'.pc = "next"
  BY <1>1, <1>2 DEF Request, SameBulk
<1>6. UNCHANGED <<table, status, stamp, changes>>
  BY DEF Fails
<1>7. RequestInv'
  BY <1>1, <1>4, <1>5, <1>6, BulkPhase DEF InTurn, RequestInv, SameBulk, q
<1>8. TableInv'
  BY <1>6 DEF InTurn, TableInv
<1> QED BY <1>5, <1>6, <1>7, <1>8 DEF FailsTo, c, q

LEMMA StatementFailsEffect ==
    ASSUME InTurn, StatementFails
    PROVE  StatementFailsTo /\ TableInv' /\ RequestInv'
<1>1. /\ Current \in Jobs /\ req \in Request /\ req.pos \in 1 .. Len(req.got) /\ Len(req.got) \in Nat
  BY TurnFacts
<1> DEFINE c == Current
           q == req.pos + 1
           m == IF req.pc = "reread" THEN req.mistold \cup {c} ELSE req.mistold
           f == [req EXCEPT !.failed = req.failed \cup {c}, !.pos = q, !.pc = "next"]
<1>2. f.mistold = req.mistold
  BY <1>1 DEF Request
<1>3. req' = [f EXCEPT !.mistold = m]
  BY <1>2 DEF StatementFails, Failed
<1>4. c \in Jobs /\ q \in Nat /\ m \in SUBSET Jobs
  BY <1>1 DEF Request
<1> HIDE DEF c, q, m
<1>5. /\ f \in Request /\ f.failed = req.failed \cup {c} /\ f.pos = q /\ f.pc = "next"
      /\ f.op = req.op /\ f.got = req.got /\ f.gone = req.gone /\ f.done = req.done
      /\ f.moved = req.moved
  BY <1>1, <1>4 DEF Request
<1> HIDE DEF f
<1>6. req' \in Request
  BY <1>3, <1>4, <1>5 DEF Request
<1>7. /\ SameBulk
      /\ req'.failed = req.failed \cup {c} /\ req'.done = req.done
      /\ req'.moved = req.moved /\ req'.mistold = m
      /\ req'.pos = q /\ req'.pc = "next"
  BY <1>3, <1>5 DEF Request, SameBulk
<1>8. UNCHANGED <<table, status, stamp>> /\ changes' = changes + 1
  BY DEF StatementFails
<1>9. RequestInv'
  BY <1>1, <1>6, <1>7, <1>8, BulkPhase DEF InTurn, RequestInv, SameBulk, q
<1>10. TableInv'
  BY <1>8 DEF InTurn, TableInv
<1> QED BY <1>7, <1>8, <1>9, <1>10 DEF StatementFailsTo, c, q, m

LEMMA ProceedsEffect ==
    ASSUME InTurn, NEW pc \in {"move", "reread"}, Proceeds(pc), pc = "move" => req.op = "requeue"
    PROVE  ProceedsTo(pc) /\ TableInv' /\ RequestInv'
<1>1. /\ req \in Request /\ req.pos \in 1 .. Len(req.got) /\ Len(req.got) \in Nat
  BY TurnFacts
<1>2. req' = [req EXCEPT !.pc = pc] /\ UNCHANGED <<table, status, stamp, changes>>
  BY DEF Proceeds
<1>3. req' \in Request
  BY <1>1, <1>2 DEF Request
<1>4. /\ SameBulk
      /\ req'.failed = req.failed /\ req'.done = req.done
      /\ req'.moved = req.moved /\ req'.mistold = req.mistold
      /\ req'.pos = req.pos /\ req'.pc = pc
  BY <1>1, <1>2 DEF Request, SameBulk
<1>5. RequestInv'
  BY <1>1, <1>2, <1>3, <1>4, BulkPhase DEF InTurn, RequestInv, SameBulk
<1>6. TableInv'
  BY <1>2 DEF InTurn, TableInv
<1> QED BY <1>2, <1>4, <1>5, <1>6 DEF ProceedsTo

(* A job that is there goes to another status of the life cycle. *)
LEMMA MoveKeepsTable ==
    ASSUME InTurn, NEW to \in Lifecycle!JobStatuses, status[Current] # NoStatus,
           status' = [status EXCEPT ![Current] = to], UNCHANGED <<table, stamp>>, changes' \in Nat
    PROVE  TableInv'
<1>1. Current \in Jobs /\ table \in JobTables
  BY TurnFacts
<1>2. to # NoStatus /\ to \in Statuses
  BY DEF Lifecycle!JobStatuses, NoStatus, Statuses
<1> QED BY <1>1, <1>2 DEF InTurn, TableInv

LEMMA MovesEffect ==
    ASSUME InTurn, NEW to \in Lifecycle!JobStatuses, status[Current] # NoStatus, Moves(to)
    PROVE  MovesTo(to) /\ TableInv' /\ RequestInv'
<1>1. /\ Current \in Jobs /\ req \in Request /\ req.pos \in 1 .. Len(req.got) /\ Len(req.got) \in Nat
  BY TurnFacts
<1> DEFINE c == Current
<1>2. req' = [req EXCEPT !.moved = req.moved \cup {c}, !.pc = "reread"]
  BY DEF Moves, Moved
<1>3. c \in Jobs
  BY <1>1
<1> HIDE DEF c
<1>4. req' \in Request
  BY <1>1, <1>2, <1>3 DEF Request
<1>5. /\ SameBulk
      /\ req'.failed = req.failed /\ req'.done = req.done
      /\ req'.moved = req.moved \cup {c} /\ req'.mistold = req.mistold
      /\ req'.pos = req.pos /\ req'.pc = "reread"
  BY <1>1, <1>2 DEF Request, SameBulk
<1>6. UNCHANGED <<table, stamp, changes>> /\ status' = [status EXCEPT ![Current] = to]
  BY DEF Moves
<1>7. RequestInv'
  BY <1>1, <1>4, <1>5, <1>6, BulkPhase DEF InTurn, RequestInv, SameBulk
<1>8. changes' \in Nat
  BY <1>6 DEF InTurn, TableInv
<1>9. TableInv'
  BY <1>6, <1>8, MoveKeepsTable
<1> QED BY <1>5, <1>6, <1>7, <1>9 DEF MovesTo, c

LEMMA UnloggedEffect ==
    ASSUME InTurn, NEW to \in Lifecycle!JobStatuses, status[Current] # NoStatus, MovesUnlogged(to)
    PROVE  MovesUnloggedTo(to) /\ TableInv' /\ RequestInv'
<1>1. /\ Current \in Jobs /\ req \in Request /\ req.pos \in 1 .. Len(req.got) /\ Len(req.got) \in Nat
  BY TurnFacts
<1> DEFINE c == Current
           q == req.pos + 1
           m == [req EXCEPT !.moved = req.moved \cup {c}, !.pc = "reread"]
           f == [m EXCEPT !.failed = m.failed \cup {c}, !.pos = q, !.pc = "next"]
<1>2. req' = [f EXCEPT !.mistold = f.mistold \cup {c}]
  <2>1. m.pos = req.pos
    BY <1>1 DEF Request
  <2> QED BY <2>1 DEF MovesUnlogged, Failed, Moved
<1>3. c \in Jobs /\ q \in Nat
  BY <1>1
<1> HIDE DEF c, q
<1>4. /\ m \in Request /\ m.failed = req.failed /\ m.pos = req.pos /\ m.mistold = req.mistold
      /\ m.op = req.op /\ m.got = req.got /\ m.gone = req.gone /\ m.done = req.done
      /\ m.moved = req.moved \cup {c}
  BY <1>1, <1>3 DEF Request
<1> HIDE DEF m
<1>5. /\ f \in Request /\ f.failed = req.failed \cup {c} /\ f.pos = q
      /\ f.mistold = req.mistold /\ f.pc = "next"
      /\ f.op = req.op /\ f.got = req.got /\ f.gone = req.gone /\ f.done = req.done
      /\ f.moved = req.moved \cup {c}
  BY <1>1, <1>3, <1>4 DEF Request
<1> HIDE DEF f
<1>6. req' \in Request
  BY <1>2, <1>3, <1>5 DEF Request
<1>7. /\ SameBulk
      /\ req'.failed = req.failed \cup {c} /\ req'.done = req.done
      /\ req'.moved = req.moved \cup {c} /\ req'.mistold = req.mistold \cup {c}
      /\ req'.pos = q /\ req'.pc = "next"
  BY <1>2, <1>5 DEF Request, SameBulk
<1>8. UNCHANGED <<table, stamp>> /\ status' = [status EXCEPT ![Current] = to] /\ changes' = changes + 1
  BY DEF MovesUnlogged
<1>9. RequestInv'
  BY <1>1, <1>6, <1>7, <1>8, BulkPhase DEF InTurn, RequestInv, SameBulk, q
<1>10. changes' \in Nat
  BY <1>8 DEF InTurn, TableInv
<1>11. TableInv'
  BY <1>8, <1>10, MoveKeepsTable
<1> QED BY <1>7, <1>8, <1>9, <1>11 DEF MovesUnloggedTo, c, q

LEMMA DoneEffect ==
    ASSUME InTurn, UNCHANGED <<table, status, stamp, changes>>,
           req' = [req EXCEPT !.done = Append(@, Current), !.pos = @ + 1, !.pc = "next"]
    PROVE  ReportsDone /\ TableInv' /\ RequestInv'
<1>1. /\ Current \in Jobs /\ req \in Request /\ req.pos \in 1 .. Len(req.got) /\ Len(req.got) \in Nat
  BY TurnFacts
<1> DEFINE d == Append(req.done, Current)
           q == req.pos + 1
<1>2. req' = [req EXCEPT !.done = d, !.pos = q, !.pc = "next"]
  OBVIOUS
<1>3. d \in Seq(Jobs) /\ q \in Nat
  BY <1>1 DEF Request
<1> HIDE DEF d, q
<1>4. req' \in Request
  BY <1>1, <1>2, <1>3 DEF Request
<1>5. /\ SameBulk
      /\ req'.failed = req.failed /\ req'.done = d
      /\ req'.moved = req.moved /\ req'.mistold = req.mistold
      /\ req'.pos = q /\ req'.pc = "next"
  BY <1>1, <1>2 DEF Request, SameBulk
<1>6. RequestInv'
  BY <1>1, <1>4, <1>5, BulkPhase DEF InTurn, RequestInv, SameBulk, q
<1>7. TableInv'
  BY DEF InTurn, TableInv
<1> QED BY <1>5, <1>6, <1>7 DEF ReportsDone, d, q

(* A step of the loop, with what it found. *)
BulkStep == CancelJob \/ CheckJob \/ RequeueJob \/ Reread \/ StatementFails

BulkForms ==
    \/ FailsTo /\ (req.pc = "reread" => status[Current] = NoStatus)
    \/ ProceedsTo("move") /\ req.pc = "next"
    \/ ProceedsTo("reread") /\ req.pc = "next" /\ req.op = "cancel" /\ status[Current] = "CANCELLED"
    \/ /\ MovesTo("CANCELLED") \/ MovesUnloggedTo("CANCELLED")
       /\ req.op = "cancel" /\ req.pc = "next" /\ Cancellable(Current)
    \/ /\ MovesTo("QUEUED") \/ MovesUnloggedTo("QUEUED")
       /\ req.op = "requeue" /\ req.pc = "move" /\ Requeueable(Current)
    \/ ReportsDone /\ req.pc = "reread"
    \/ StatementFailsTo

LEMMA StepIsTurn ==
    ASSUME TableInv, RequestInv, BulkStep
    PROVE  InTurn
<1>1. CASE CancelJob \/ CheckJob \/ RequeueJob \/ StatementFails
  BY <1>1 DEF InTurn, CancelJob, CheckJob, RequeueJob, StatementFails, Turn, Bulks
<1>2. CASE Reread
  <2>1. req.pc = "reread" /\ req \in Request /\ PhaseInv
    BY <1>2 DEF Reread, RequestInv
  <2>2. req.pos <= Len(req.got) /\ req.op \in Bulks
    BY <2>1 DEF PhaseInv, Request
  <2> QED BY <2>2 DEF InTurn
<1> QED BY <1>1, <1>2 DEF BulkStep

LEMMA BulkStepForms ==
    ASSUME TableInv, RequestInv, BulkStep
    PROVE  BulkForms /\ TableInv' /\ RequestInv'
<1>1. InTurn
  BY StepIsTurn
<1>2. "CANCELLED" \in Lifecycle!JobStatuses /\ "QUEUED" \in Lifecycle!JobStatuses
  BY DEF Lifecycle!JobStatuses
<1>3. CASE CancelJob
  <2>1. req.op = "cancel" /\ req.pc = "next"
    BY <1>3 DEF CancelJob, Turn
  <2>2. CASE Cancellable(Current) /\ Moves("CANCELLED")
    BY <1>1, <1>2, <2>1, <2>2, MovesEffect DEF BulkForms, Cancellable
  <2>3. CASE Cancellable(Current) /\ MovesUnlogged("CANCELLED")
    BY <1>1, <1>2, <2>1, <2>3, UnloggedEffect DEF BulkForms, Cancellable
  <2>4. CASE status[Current] = "CANCELLED" /\ Proceeds("reread")
    BY <1>1, <2>1, <2>4, ProceedsEffect DEF BulkForms
  <2>5. CASE Fails
    BY <1>1, <2>1, <2>5, FailsEffect DEF BulkForms
  <2> QED BY <1>3, <2>2, <2>3, <2>4, <2>5 DEF CancelJob
<1>4. CASE CheckJob
  <2>1. req.op = "requeue" /\ req.pc = "next"
    BY <1>4 DEF CheckJob, Turn
  <2>2. CASE Proceeds("move")
    BY <1>1, <2>1, <2>2, ProceedsEffect DEF BulkForms
  <2>3. CASE Fails
    BY <1>1, <2>1, <2>3, FailsEffect DEF BulkForms
  <2> QED BY <1>4, <2>2, <2>3 DEF CheckJob
<1>5. CASE RequeueJob
  <2>1. req.op = "requeue" /\ req.pc = "move"
    BY <1>5 DEF RequeueJob, Turn
  <2>2. CASE Requeueable(Current) /\ Moves("QUEUED")
    BY <1>1, <1>2, <2>1, <2>2, MovesEffect DEF BulkForms, Requeueable, NoStatus
  <2>3. CASE Requeueable(Current) /\ MovesUnlogged("QUEUED")
    BY <1>1, <1>2, <2>1, <2>3, UnloggedEffect DEF BulkForms, Requeueable, NoStatus
  <2>4. CASE Fails
    BY <1>1, <2>1, <2>4, FailsEffect DEF BulkForms
  <2> QED BY <1>5, <2>2, <2>3, <2>4 DEF RequeueJob
<1>6. CASE Reread
  <2>1. req.pc = "reread" /\ UNCHANGED <<table, status, stamp, changes>>
    BY <1>6 DEF Reread
  <2>2. CASE status[Current] = NoStatus
    <3>1. Fails
      BY <1>6, <2>2 DEF Reread, Fails
    <3> QED BY <1>1, <2>2, <3>1, FailsEffect DEF BulkForms
  <2>3. CASE status[Current] # NoStatus
    <3>1. req' = [req EXCEPT !.done = Append(@, Current), !.pos = @ + 1, !.pc = "next"]
      BY <1>6, <2>3 DEF Reread
    <3> QED BY <1>1, <2>1, <3>1, DoneEffect DEF BulkForms
  <2> QED BY <2>2, <2>3
<1>7. CASE StatementFails
  BY <1>1, <1>7, StatementFailsEffect DEF BulkForms
<1> QED BY <1>3, <1>4, <1>5, <1>6, <1>7 DEF BulkStep

LEMMA AnswerTypes ==
    ASSUME TableInv, RequestInv, AnswerBulk
    PROVE  /\ TableInv' /\ RequestInv'
           /\ req.op \in Bulks /\ ProceedsTo("answered") /\ req.pos = Len(req.got) + 1
<1>1. /\ req.pc = "next" /\ req.pos > Len(req.got) /\ req' = [req EXCEPT !.pc = "answered"]
      /\ UNCHANGED <<table, status, stamp, changes>> /\ req \in Request /\ PhaseInv
  BY DEF AnswerBulk, RequestInv
<1>2. req.op \in Bulks
  BY <1>1 DEF PhaseInv, Request
<1>3. req.pos \in 1 .. Len(req.got) + 1 /\ Len(req.got) \in Nat
  BY <1>1 DEF PhaseInv, Request
<1>4. req' \in Request
  BY <1>1 DEF Request
<1>5. ProceedsTo("answered")
  BY <1>1 DEF Request, SameBulk, ProceedsTo
<1>6. RequestInv'
  BY <1>1, <1>2, <1>3, <1>4, <1>5, BulkPhase DEF SameBulk, ProceedsTo
<1>7. TableInv'
  BY <1>1 DEF TableInv
<1> QED BY <1>1, <1>2, <1>3, <1>5, <1>6, <1>7

-----------------------------------------------------------------------------
(* What others do to the table. *)
GoodRows(S) ==
    /\ status' \in [Jobs -> S]
    /\ stamp' \in [Jobs -> Stamps \cup {0}]
    /\ \A j \in Jobs : stamp'[j] = 0 <=> status'[j] = NoStatus

LEMMA StampsPositive == \A s \in Stamps : s # 0
  BY ListAssumption

(* One row gets a status and a stamp. *)
LEMMA RowWritten ==
    ASSUME TableInv, NEW S, status \in [Jobs -> S], NEW j \in Jobs, NEW to \in S, to # NoStatus,
           NEW s \in Stamps,
           status' = [status EXCEPT ![j] = to], stamp' = [stamp EXCEPT ![j] = s]
    PROVE  GoodRows(S)
BY StampsPositive DEF TableInv, GoodRows

(* One row that is there gets another status. *)
LEMMA RowMoved ==
    ASSUME TableInv, NEW S, status \in [Jobs -> S], NEW j \in Jobs, NEW to \in S, to # NoStatus,
           status[j] # NoStatus,
           status' = [status EXCEPT ![j] = to], stamp' = stamp
    PROVE  GoodRows(S)
BY DEF TableInv, GoodRows

(* Rows are deleted. *)
LEMMA RowsDropped ==
    ASSUME TableInv, NEW S, status \in [Jobs -> S], NoStatus \in S, NEW D \in SUBSET Jobs,
           status' = [j \in Jobs |-> IF j \in D THEN NoStatus ELSE status[j]],
           stamp' = [j \in Jobs |-> IF j \in D THEN 0 ELSE stamp[j]]
    PROVE  GoodRows(S)
BY DEF TableInv, GoodRows

JobOrNone == Lifecycle!JobStatuses \cup {NoStatus}

LEMMA LifecycleNoStatus == Lifecycle!NoStatus = NoStatus
  BY DEF Lifecycle!NoStatus, NoStatus

(* Jobs: the life cycle, in which CANCELLED jobs can only be purged. *)
LEMMA JobChangesEffect ==
    ASSUME TableInv, table \in JobTables, JobChanges
    PROVE  /\ GoodRows(JobOrNone)
           /\ \A j \in Jobs : status[j] = "CANCELLED" => status'[j] \in {"CANCELLED", NoStatus}
<1>0. status \in [Jobs -> JobOrNone]
  BY DEF TableInv, JobOrNone
<1>s. /\ {"QUEUED", "LEASED", "SUCCEEDED", "FAILED", "DEAD_LETTER", "CANCELLED"} \subseteq JobOrNone
      /\ NoStatus \in JobOrNone
      /\ \A x \in {"QUEUED", "LEASED", "SUCCEEDED", "FAILED", "DEAD_LETTER", "CANCELLED"} : x # NoStatus
  BY DEF JobOrNone, Lifecycle!JobStatuses, NoStatus
<1>1. ASSUME NEW j \in Jobs, Lifecycle!Submit(j) /\ Stamped(j)
      PROVE  /\ GoodRows(JobOrNone)
             /\ \A k \in Jobs : status[k] = "CANCELLED" => status'[k] \in {"CANCELLED", NoStatus}
  <2>1. status[j] = NoStatus /\ status' = [status EXCEPT ![j] = "QUEUED"]
    BY <1>1, LifecycleNoStatus DEF Lifecycle!Submit, Lifecycle!Move
  <2>2. PICK s \in Stamps : stamp' = [stamp EXCEPT ![j] = s]
    BY <1>1 DEF Stamped
  <2>3. GoodRows(JobOrNone)
    BY <1>0, <1>s, <2>1, <2>2, RowWritten
  <2>4. \A k \in Jobs : status[k] = "CANCELLED" => status'[k] = "CANCELLED"
    BY <1>0, <2>1 DEF NoStatus
  <2> QED BY <2>3, <2>4
<1>2. ASSUME NEW j \in Jobs, UNCHANGED stamp,
             Lifecycle!Take(j) \/ Lifecycle!Settle(j) \/ Lifecycle!Cancel(j) \/ Lifecycle!Replay(j)
      PROVE  /\ GoodRows(JobOrNone)
             /\ \A k \in Jobs : status[k] = "CANCELLED" => status'[k] \in {"CANCELLED", NoStatus}
  <2>1. PICK to \in {"QUEUED", "LEASED", "SUCCEEDED", "FAILED", "DEAD_LETTER", "CANCELLED"} :
           /\ status[j] \in {"QUEUED", "LEASED", "FAILED", "DEAD_LETTER"}
           /\ status' = [status EXCEPT ![j] = to]
    BY <1>2 DEF Lifecycle!Take, Lifecycle!Settle, Lifecycle!Cancel, Lifecycle!Replay, Lifecycle!Move
  <2>2. status[j] # NoStatus /\ status[j] # "CANCELLED"
    BY <2>1 DEF NoStatus
  <2>3. GoodRows(JobOrNone)
    BY <1>0, <1>s, <1>2, <2>1, <2>2, RowMoved
  <2>4. \A k \in Jobs : status[k] = "CANCELLED" => status'[k] = "CANCELLED"
    BY <1>0, <2>1, <2>2
  <2> QED BY <2>3, <2>4
<1>3. ASSUME NEW D \in SUBSET Jobs, Lifecycle!Purge(D),
             stamp' = [j \in Jobs |-> IF j \in D THEN 0 ELSE stamp[j]]
      PROVE  /\ GoodRows(JobOrNone)
             /\ \A k \in Jobs : status[k] = "CANCELLED" => status'[k] \in {"CANCELLED", NoStatus}
  <2>1. status' = [j \in Jobs |-> IF j \in D THEN NoStatus ELSE status[j]]
    BY <1>3, LifecycleNoStatus DEF Lifecycle!Purge
  <2>2. GoodRows(JobOrNone)
    BY <1>0, <1>s, <1>3, <2>1, RowsDropped
  <2>3. \A k \in Jobs : status[k] = "CANCELLED" => status'[k] \in {"CANCELLED", NoStatus}
    BY <2>1
  <2> QED BY <2>2, <2>3
<1>4. \/ \E j \in Jobs : Lifecycle!Submit(j) /\ Stamped(j)
      \/ \E j \in Jobs : /\ Lifecycle!Take(j) \/ Lifecycle!Settle(j) \/ Lifecycle!Cancel(j)
                            \/ Lifecycle!Replay(j)
                         /\ UNCHANGED stamp
      \/ \E D \in SUBSET Jobs : /\ Lifecycle!Purge(D)
                                /\ stamp' = [j \in Jobs |-> IF j \in D THEN 0 ELSE stamp[j]]
  BY DEF JobChanges
<1> QED BY <1>1, <1>2, <1>3, <1>4

(* Runs and histories. *)
LEMMA RunChangesEffect ==
    ASSUME TableInv, RunChanges
    PROVE  GoodRows(Statuses)
<1>1. PICK j \in Jobs, to \in RunEnds \cup {"RUNNING"}, s \in Stamps :
         status' = [status EXCEPT ![j] = to] /\ stamp' = [stamp EXCEPT ![j] = s]
  BY DEF RunChanges
<1>2. to \in Statuses /\ to # NoStatus
  BY DEF Statuses, RunEnds, NoStatus
<1>3. status \in [Jobs -> Statuses]
  BY DEF TableInv
<1> QED BY <1>1, <1>2, <1>3, RowWritten

LEMMA HistoryChangesEffect ==
    ASSUME TableInv, HistoryChanges
    PROVE  GoodRows(Statuses)
<1>0. status \in [Jobs -> Statuses] /\ NoStatus \in Statuses
  BY DEF TableInv, Statuses
<1>1. ASSUME NEW j \in Jobs, NEW to \in Lifecycle!JobStatuses,
             status' = [status EXCEPT ![j] = to], Stamped(j)
      PROVE  GoodRows(Statuses)
  <2>1. PICK s \in Stamps : stamp' = [stamp EXCEPT ![j] = s]
    BY <1>1 DEF Stamped
  <2>2. to \in Statuses /\ to # NoStatus
    BY DEF Statuses, Lifecycle!JobStatuses, NoStatus
  <2> QED BY <1>0, <1>1, <2>1, <2>2, RowWritten
<1>2. ASSUME status' = [j \in Jobs |-> NoStatus], stamp' = [j \in Jobs |-> 0]
      PROVE  GoodRows(Statuses)
  BY <1>0, <1>2 DEF GoodRows
<1> QED BY <1>1, <1>2 DEF HistoryChanges

(* What the request sees of a change. *)
ReadSees ==
    LET then == {j \in req.scope : Passes(status'[j], req.status)}
        shifted == {j \in Listed \cap then : stamp'[j] # stamp[j]}
    IN /\ req'.left = req.left \cup {Row(j) : j \in (Listed \ then) \cup shifted}
       /\ req'.came = req.came \cup {<<stamp'[j], j>> : j \in (then \ Listed) \cup shifted}
       /\ req'.steady = (req.steady \cap then) \ shifted

BulkSees == req'.gone = req.gone \cup {j \in Jobs : status[j] # NoStatus /\ status'[j] = NoStatus}

SameRequest ==
    /\ req'.op = req.op /\ req'.pc = req.pc /\ req'.status = req.status /\ req'.scope = req.scope
    /\ req'.limit = req.limit /\ req'.offset = req.offset /\ req'.desc = req.desc
    /\ req'.got = req.got /\ req'.total = req.total /\ req'.pos = req.pos /\ req'.done = req.done
    /\ req'.failed = req.failed /\ req'.moved = req.moved /\ req'.mistold = req.mistold

LEMMA ObservesEffect ==
    ASSUME TableInv, RequestInv, GoodRows(Statuses), Observes
    PROVE  /\ req' \in Request /\ SameRequest
           /\ req.op \in Reads => ReadSees
           /\ req.op \in Bulks => BulkSees
<1>0. req \in Request /\ (req.pc = "idle" <=> req.op = "none")
  BY DEF RequestInv, PhaseInv
<1>1. CASE req.pc = "idle"
  BY <1>0, <1>1 DEF Observes, SameRequest, Reads, Bulks
<1>2. CASE req.pc # "idle" /\ req.op \in Reads
  <2> DEFINE then == {j \in req.scope : Passes(status'[j], req.status)}
             shifted == {j \in Listed \cap then : stamp'[j] # stamp[j]}
             l == req.left \cup {Row(j) : j \in (Listed \ then) \cup shifted}
             c == req.came \cup {<<stamp'[j], j>> : j \in (then \ Listed) \cup shifted}
             t == (req.steady \cap then) \ shifted
  <2>1. req' = [req EXCEPT !.left = l, !.came = c, !.steady = t]
    <3>1. req' = Seen(req, Listed, then)
      BY <1>2 DEF Observes, Reads
    <3> QED BY <3>1 DEF Seen
  <2>2. then \in SUBSET Jobs /\ Listed \in SUBSET Jobs /\ shifted \in SUBSET Jobs
    BY <1>0, ListedJobs DEF Request
  <2>3. \A j \in Jobs : Row(j) \in Rows /\ <<stamp'[j], j>> \in Rows
    <3>1. Stamps \cup {0} \subseteq Nat
      BY ListAssumption
    <3>2. \A j \in Jobs : stamp[j] \in Nat /\ stamp'[j] \in Nat
      BY <3>1 DEF TableInv, GoodRows
    <3> QED BY <3>2 DEF Row, Rows
  <2> HIDE DEF then, shifted
  <2>4. l \in SUBSET Rows /\ c \in SUBSET Rows /\ t \in SUBSET Jobs
    <3>1. req.left \in SUBSET Rows /\ req.came \in SUBSET Rows /\ req.steady \in SUBSET Jobs
      BY <1>0 DEF Request
    <3>2. {Row(j) : j \in (Listed \ then) \cup shifted} \in SUBSET Rows
      BY <2>2, <2>3
    <3>3. {<<stamp'[j], j>> : j \in (then \ Listed) \cup shifted} \in SUBSET Rows
      BY <2>2, <2>3
    <3> QED BY <3>1, <3>2, <3>3
  <2> HIDE DEF l, c, t
  <2>5. req' \in Request
    BY <1>0, <2>1, <2>4 DEF Request
  <2>6. SameRequest /\ req'.left = l /\ req'.came = c /\ req'.steady = t
    BY <1>0, <2>1 DEF Request, SameRequest
  <2>7. req.op \notin Bulks
    BY <1>2 DEF Reads, Bulks
  <2>8. ReadSees
    BY <2>6 DEF ReadSees, l, c, t, then, shifted
  <2> QED BY <2>5, <2>6, <2>7, <2>8
<1>3. CASE req.pc # "idle" /\ req.op \notin Reads
  <2> DEFINE g == req.gone \cup {j \in Jobs : status[j] # NoStatus /\ status'[j] = NoStatus}
  <2>1. req' = [req EXCEPT !.gone = g]
    BY <1>3 DEF Observes, Reads, Purged
  <2>2. g \in SUBSET Jobs
    BY <1>0 DEF Request
  <2> HIDE DEF g
  <2>3. req' \in Request
    BY <1>0, <2>1, <2>2 DEF Request
  <2>4. SameRequest /\ req'.gone = g
    BY <1>0, <2>1 DEF Request, SameRequest
  <2> QED BY <1>3, <2>3, <2>4 DEF BulkSees, g
<1> QED BY <1>1, <1>2, <1>3

LEMMA OthersEffect ==
    ASSUME TableInv, RequestInv, OthersChange
    PROVE  /\ TableInv' /\ RequestInv' /\ SameRequest /\ table' = table
           /\ req.pc # "answered"
           /\ req.op \in Reads => ReadSees
           /\ req.op \in Bulks =>
                 /\ BulkSees
                 /\ \A j \in Jobs : status[j] = "CANCELLED" => status'[j] \in {"CANCELLED", NoStatus}
<1>1. table' = table /\ Observes /\ req.pc # "answered" /\ changes' \in Nat
  BY DEF OthersChange, TableInv
<1>2. CASE table \in JobTables
  <2>1. JobChanges
    BY <1>2 DEF OthersChange, JobTables, RunTables, Histories
  <2>2. /\ GoodRows(JobOrNone)
        /\ \A j \in Jobs : status[j] = "CANCELLED" => status'[j] \in {"CANCELLED", NoStatus}
    BY <1>2, <2>1, JobChangesEffect
  <2>3. GoodRows(Statuses)
    BY <2>2 DEF GoodRows, Statuses, JobOrNone
  <2>4. TableInv'
    BY <1>1, <2>2, <2>3 DEF TableInv, GoodRows, JobOrNone
  <2>5. /\ req' \in Request /\ SameRequest
        /\ req.op \in Reads => ReadSees
        /\ req.op \in Bulks => BulkSees
    BY <1>1, <2>3, ObservesEffect
  <2>6. PhaseInv'
    BY <1>1, <2>5 DEF RequestInv, PhaseInv, SameRequest, Fresh
  <2> QED BY <1>1, <2>2, <2>4, <2>5, <2>6 DEF RequestInv
<1>3. CASE table \notin JobTables
  <2>1. GoodRows(Statuses)
    BY <1>3, RunChangesEffect, HistoryChangesEffect DEF OthersChange
  <2>2. TableInv'
    BY <1>1, <1>3, <2>1 DEF TableInv, GoodRows
  <2>3. /\ req' \in Request /\ SameRequest
        /\ req.op \in Reads => ReadSees
        /\ req.op \in Bulks => BulkSees
    BY <1>1, <2>1, ObservesEffect
  <2>4. PhaseInv'
    BY <1>1, <2>3 DEF RequestInv, PhaseInv, SameRequest, Fresh
  <2>5. req.op \notin Bulks
    BY <1>3 DEF RequestInv, PhaseInv
  <2> QED BY <1>1, <2>2, <2>3, <2>4, <2>5 DEF RequestInv
<1> QED BY <1>2, <1>3

-----------------------------------------------------------------------------
(* Every step, with its types. *)
LEMMA StepTypes ==
    ASSUME TableInv, RequestInv, [ListNext]_listVars
    PROVE  TableInv' /\ RequestInv'
<1>1. CASE Walk \/ GetPage \/ BulkCancel \/ BulkRequeue
  BY <1>1, ArrivalTypes
<1>2. ASSUME NEW op \in {"cancel", "requeue"}, NEW ids \in Given, BulkGiven(op, ids)
      PROVE  TableInv' /\ RequestInv'
  BY <1>2, GivenTypes DEF Bulks
<1>3. CASE List \/ Count
  BY <1>3, ListTypes, CountTypes
<1>4. CASE BulkStep
  BY <1>4, BulkStepForms
<1>5. CASE AnswerBulk
  BY <1>5, AnswerTypes
<1>6. CASE OthersChange
  BY <1>6, OthersEffect
<1>7. CASE UNCHANGED listVars
  <2>1. TableInv'
    BY <1>7 DEF listVars, TableInv
  <2>2. RequestInv'
    BY <1>7 DEF listVars, RequestInv, PhaseInv, Fresh
  <2> QED BY <2>1, <2>2
<1> QED BY <1>1, <1>2, <1>3, <1>4, <1>5, <1>6, <1>7 DEF ListNext, Handler, BulkStep

LEMMA InitTypes == ListInit => TableInv /\ RequestInv
<1> SUFFICES ASSUME ListInit PROVE TableInv /\ RequestInv
  OBVIOUS
<1>1. req = NoRequest /\ table \in Tables /\ changes = 0
  BY DEF ListInit
<1>2. TableInv
  BY DEF ListInit, TableInv, Statuses
<1>3. PhaseInv
  BY <1>1 DEF PhaseInv, NoRequest, Fresh, Reads, Bulks
<1> QED BY <1>1, <1>2, <1>3, NoRequestType DEF RequestInv

LEMMA ListingInvStep == ListingInv /\ [ListNext]_listVars => ListingInv'
  BY StepTypes DEF ListingInv

LEMMA ListingInvAlways == ListSpec => []ListingInv
<1>1. ListInit => ListingInv
  BY InitTypes DEF ListingInv
<1> QED BY <1>1, ListingInvStep, PTL DEF ListSpec

-----------------------------------------------------------------------------
(* What a bulk request has reported of the ids it has passed.  Current is  *)
(* changed, or found CANCELLED, before it is read again; Cleared is stable *)
(* because a CANCELLED job can only be purged.                             *)
Past == {req.got[i] : i \in 1 .. req.pos - 1}
Twice(j) == \E i, k \in DOMAIN req.got : i # k /\ req.got[i] = j /\ req.got[k] = j
Cleared(j) == req.op = "cancel" /\ (status[j] = "CANCELLED" \/ j \in req.gone)

BulkInv ==
    req.op \in Bulks =>
        /\ ToSet(req.done) \cup req.failed = Past
        /\ req.pc # "reread" => req.moved \subseteq Past
        /\ req.pc = "reread" => /\ req.moved \subseteq Past \cup {Current}
                                /\ Current \in req.moved \/ Cleared(Current)
                                /\ status[Current] = NoStatus => Current \in req.gone
        /\ \A j \in ToSet(req.done) : j \in req.moved \/ Cleared(j)
        /\ \A j \in req.moved \cap req.failed : j \in req.gone \/ j \in req.mistold \/ Twice(j)
        /\ req.pc = "answered" => req.pos = Len(req.got) + 1

LEMMA EmptyToSet == ToSet(<< >>) = {}
  BY DEF ToSet

LEMMA AppendToSet ==
    ASSUME NEW s \in Seq(Jobs), NEW j \in Jobs
    PROVE  ToSet(Append(s, j)) = ToSet(s) \cup {j}
<1> DEFINE t == Append(s, j)
<1>1. /\ DOMAIN t = 1 .. Len(s) + 1 /\ DOMAIN s = 1 .. Len(s) /\ Len(s) \in Nat
      /\ \A i \in 1 .. Len(s) : t[i] = s[i]
      /\ t[Len(s) + 1] = j
  OBVIOUS
<1> HIDE DEF t
<1>2. ToSet(t) = ToSet(s) \cup {j}
  BY <1>1 DEF ToSet
<1> QED BY <1>2 DEF t

(* A request that has not started its loop has reported nothing. *)
LEMMA FreshBulk ==
    ASSUME Fresh(req'), req'.pc \notin {"reread", "answered"}
    PROVE  BulkInv'
<1>1. Past' = {}
  BY DEF Fresh, Past
<1> QED BY <1>1, EmptyToSet DEF BulkInv, Fresh

(* The ids that are passed. *)
LEMMA PastStays ==
    ASSUME req'.got = req.got, req'.pos = req.pos
    PROVE  Past' = Past /\ Current' = Current /\ \A j : Twice(j) => Twice(j)'
BY DEF Past, Current, Twice

LEMMA PastGrows ==
    ASSUME InTurn, req'.got = req.got, req'.pos = req.pos + 1
    PROVE  Past' = Past \cup {Current} /\ \A j : Twice(j) => Twice(j)'
<1>1. req.pos \in 1 .. Len(req.got) /\ Len(req.got) \in Nat
  BY TurnFacts
<1>2. Past' = {req.got[i] : i \in 1 .. req.pos}
  BY <1>1 DEF Past
<1>3. 1 .. req.pos = (1 .. req.pos - 1) \cup {req.pos}
  BY <1>1
<1> QED BY <1>2, <1>3 DEF Past, Current, Twice

LEMMA PastIsTwice ==
    ASSUME InTurn, Current \in Past
    PROVE  Twice(Current)
<1>1. req.pos \in 1 .. Len(req.got) /\ Len(req.got) \in Nat /\ req.got \in Seq(Jobs)
  BY TurnFacts DEF Request
<1>2. PICK i \in 1 .. req.pos - 1 : req.got[i] = Current
  BY DEF Past
<1>3. i \in DOMAIN req.got /\ req.pos \in DOMAIN req.got /\ i # req.pos
  BY <1>1
<1> QED BY <1>2, <1>3 DEF Twice, Current

LEMMA BulkStepKeeps ==
    ASSUME TableInv, RequestInv, BulkInv, BulkStep
    PROVE  BulkInv'
<1>1. InTurn /\ BulkForms
  BY BulkStepForms, StepIsTurn
<1>2. /\ Current \in Jobs /\ req \in Request /\ req.op \in Bulks
      /\ status \in [Jobs -> Statuses]
  BY <1>1, TurnFacts DEF InTurn, TableInv
<1>3. req.done \in Seq(Jobs) /\ ToSet(req.done) \subseteq Jobs
  BY <1>2 DEF Request, ToSet
<1>4. Current \in Past => Twice(Current)
  BY <1>1, PastIsTwice
<1>5. /\ ToSet(req.done) \cup req.failed = Past
      /\ req.pc # "reread" => req.moved \subseteq Past
      /\ req.pc = "reread" => /\ req.moved \subseteq Past \cup {Current}
                              /\ Current \in req.moved \/ Cleared(Current)
                              /\ status[Current] = NoStatus => Current \in req.gone
      /\ \A j \in ToSet(req.done) : j \in req.moved \/ Cleared(j)
      /\ \A j \in req.moved \cap req.failed : j \in req.gone \/ j \in req.mistold \/ Twice(j)
  BY <1>2 DEF BulkInv
<1>6. ASSUME SameBulk, req.op = "requeue" \/ status' = status
                       \/ status' = [status EXCEPT ![Current] = "CANCELLED"]
      PROVE  \A j \in Jobs : Cleared(j) => Cleared(j)'
  BY <1>2, <1>6 DEF SameBulk, Cleared
<1>7. CASE FailsTo /\ (req.pc = "reread" => status[Current] = NoStatus)
  <2>1. Past' = Past \cup {Current} /\ \A j : Twice(j) => Twice(j)'
    BY <1>1, <1>7, PastGrows DEF FailsTo, SameBulk
  <2>2. \A j \in Jobs : Cleared(j) => Cleared(j)'
    BY <1>6, <1>7 DEF FailsTo
  <2>3. Current \in req.moved => Current \in req.gone \/ Twice(Current)
    BY <1>4, <1>5, <1>7
  <2>4. /\ req'.failed = req.failed \cup {Current} /\ req'.done = req.done
        /\ req'.moved = req.moved /\ req'.mistold = req.mistold /\ req'.gone = req.gone
        /\ req'.pc = "next"
    BY <1>7 DEF FailsTo, SameBulk
  <2> HIDE DEF Past, Twice, Cleared, Current
  <2> QED BY <1>2, <1>3, <1>5, <2>1, <2>2, <2>3, <2>4 DEF BulkInv
<1>8. CASE ProceedsTo("move") /\ req.pc = "next"
  <2>1. Past' = Past /\ Current' = Current /\ \A j : Twice(j) => Twice(j)'
    BY <1>8, PastStays DEF ProceedsTo, SameBulk
  <2>2. \A j \in Jobs : Cleared(j) => Cleared(j)'
    BY <1>6, <1>8 DEF ProceedsTo
  <2>3. /\ req'.failed = req.failed /\ req'.done = req.done
        /\ req'.moved = req.moved /\ req'.mistold = req.mistold /\ req'.gone = req.gone
        /\ req'.pc = "move"
    BY <1>8 DEF ProceedsTo, SameBulk
  <2> QED BY <1>2, <1>3, <1>5, <1>8, <2>1, <2>2, <2>3 DEF BulkInv
<1>9. CASE ProceedsTo("reread") /\ req.pc = "next" /\ req.op = "cancel" /\ status[Current] = "CANCELLED"
  <2>1. Past' = Past /\ Current' = Current /\ \A j : Twice(j) => Twice(j)'
    BY <1>9, PastStays DEF ProceedsTo, SameBulk
  <2>2. (\A j \in Jobs : Cleared(j) => Cleared(j)') /\ status' = status
    BY <1>6, <1>9 DEF ProceedsTo
  <2>3. /\ req'.failed = req.failed /\ req'.done = req.done
        /\ req'.moved = req.moved /\ req'.mistold = req.mistold /\ req'.gone = req.gone
        /\ req'.pc = "reread"
    BY <1>9 DEF ProceedsTo, SameBulk
  <2>4. Cleared(Current) /\ status[Current] # NoStatus
    BY <1>9 DEF Cleared, NoStatus
  <2> QED BY <1>2, <1>3, <1>5, <1>9, <2>1, <2>2, <2>3, <2>4 DEF BulkInv
<1>10. ASSUME NEW to \in {"CANCELLED", "QUEUED"}, MovesTo(to), req.pc # "reread",
              to = "CANCELLED" \/ req.op = "requeue"
       PROVE  BulkInv'
  <2>1. Past' = Past /\ Current' = Current /\ \A j : Twice(j) => Twice(j)'
    BY <1>10, PastStays DEF MovesTo, SameBulk
  <2>2. \A j \in Jobs : Cleared(j) => Cleared(j)'
    BY <1>6, <1>10 DEF MovesTo
  <2>3. /\ req'.failed = req.failed /\ req'.done = req.done
        /\ req'.moved = req.moved \cup {Current} /\ req'.mistold = req.mistold /\ req'.gone = req.gone
        /\ req'.pc = "reread"
    BY <1>10 DEF MovesTo, SameBulk
  <2>4. status'[Current] # NoStatus
    BY <1>2, <1>10 DEF MovesTo, NoStatus
  <2>5. Current \in req.failed => Twice(Current)
    BY <1>4, <1>5
  <2> QED BY <1>2, <1>3, <1>5, <1>10, <2>1, <2>2, <2>3, <2>4, <2>5 DEF BulkInv
<1>11. ASSUME NEW to \in {"CANCELLED", "QUEUED"}, MovesUnloggedTo(to), req.pc # "reread",
              to = "CANCELLED" \/ req.op = "requeue"
       PROVE  BulkInv'
  <2>1. Past' = Past \cup {Current} /\ \A j : Twice(j) => Twice(j)'
    BY <1>1, <1>11, PastGrows DEF MovesUnloggedTo, SameBulk
  <2>2. \A j \in Jobs : Cleared(j) => Cleared(j)'
    BY <1>6, <1>11 DEF MovesUnloggedTo
  <2>3. /\ req'.failed = req.failed \cup {Current} /\ req'.done = req.done
        /\ req'.moved = req.moved \cup {Current} /\ req'.mistold = req.mistold \cup {Current}
        /\ req'.gone = req.gone /\ req'.pc = "next"
    BY <1>11 DEF MovesUnloggedTo, SameBulk
  <2> QED BY <1>2, <1>3, <1>5, <1>11, <2>1, <2>2, <2>3 DEF BulkInv
<1>12. CASE ReportsDone /\ req.pc = "reread"
  <2>1. Past' = Past \cup {Current} /\ \A j : Twice(j) => Twice(j)'
    BY <1>1, <1>12, PastGrows DEF ReportsDone, SameBulk
  <2>2. \A j \in Jobs : Cleared(j) => Cleared(j)'
    BY <1>6, <1>12 DEF ReportsDone
  <2>3. /\ req'.failed = req.failed
        /\ req'.moved = req.moved /\ req'.mistold = req.mistold /\ req'.gone = req.gone
        /\ req'.pc = "next" /\ req'.done = Append(req.done, Current)
    BY <1>12 DEF ReportsDone, SameBulk
  <2>4. ToSet(req'.done) = ToSet(req.done) \cup {Current}
    BY <1>2, <1>3, <2>3, AppendToSet
  <2>5. ToSet(req'.done) \cup req'.failed = Past' /\ req'.moved \subseteq Past'
    BY <1>5, <1>12, <2>1, <2>3, <2>4
  <2>6. \A j \in ToSet(req'.done) : j \in req'.moved \/ Cleared(j)'
    BY <1>2, <1>3, <1>5, <1>12, <2>2, <2>3, <2>4
  <2>7. \A j \in req'.moved \cap req'.failed : j \in req'.gone \/ j \in req'.mistold \/ Twice(j)'
    BY <1>5, <2>1, <2>3
  <2> QED BY <2>3, <2>5, <2>6, <2>7 DEF BulkInv
<1>13. CASE StatementFailsTo
  <2>1. Past' = Past \cup {Current} /\ \A j : Twice(j) => Twice(j)'
    BY <1>1, <1>13, PastGrows DEF StatementFailsTo, SameBulk
  <2>2. \A j \in Jobs : Cleared(j) => Cleared(j)'
    BY <1>6, <1>13 DEF StatementFailsTo
  <2>3. Current \in req.moved => req.pc = "reread" \/ Twice(Current)
    BY <1>4, <1>5
  <2>4. /\ req'.failed = req.failed \cup {Current} /\ req'.done = req.done
        /\ req'.moved = req.moved /\ req'.gone = req.gone /\ req'.pc = "next"
        /\ req.mistold \subseteq req'.mistold
        /\ req.pc = "reread" => Current \in req'.mistold
    BY <1>13 DEF StatementFailsTo, SameBulk
  <2> HIDE DEF Past, Twice, Cleared, Current
  <2> QED BY <1>2, <1>3, <1>5, <2>1, <2>2, <2>3, <2>4 DEF BulkInv
<1> QED BY <1>1, <1>7, <1>8, <1>9, <1>10, <1>11, <1>12, <1>13 DEF BulkForms

LEMMA BulkInvStep ==
    ASSUME TableInv, RequestInv, BulkInv, [ListNext]_listVars
    PROVE  BulkInv'
<1>1. CASE Walk \/ GetPage \/ BulkCancel \/ BulkRequeue
  <2>1. \E op, s, scope, limit, offset, desc : Arrives(op, s, scope, limit, offset, desc)
    BY <1>1 DEF Walk, GetPage, BulkCancel, BulkRequeue, Asks, Bulk
  <2>2. Fresh(req') /\ req'.pc = "list"
    BY <2>1 DEF Arrives, NoRequest, Fresh
  <2> QED BY <2>2, FreshBulk
<1>2. CASE \E op \in {"cancel", "requeue"}, ids \in Given : BulkGiven(op, ids)
  <2>1. Fresh(req') /\ req'.pc = "next"
    BY <1>2 DEF BulkGiven, NoRequest, Fresh
  <2> QED BY <2>1, FreshBulk
<1>3. CASE List
  <2>1. PICK items \in Pages : ReadPage(items) \/ ReadOnce(items)
    BY <1>3 DEF List
  <2>2. req.pc = "list" /\ req \in Request
    BY <1>3 DEF List, RequestInv
  <2>3. CASE req.op = "walk"
    BY <2>1, <2>2, <2>3 DEF ReadPage, ReadOnce, Request, BulkInv, Bulks
  <2>4. CASE req.op # "walk"
    <3>1. Fresh(req)
      BY <2>2, <2>4 DEF RequestInv, PhaseInv
    <3>2. Fresh(req') /\ req'.pc \in {"count", "next"}
      BY <2>1, <2>2, <2>4, <3>1 DEF ReadPage, ReadOnce, Request, Fresh
    <3> QED BY <3>2, FreshBulk
  <2> QED BY <2>3, <2>4
<1>4. CASE Count
  <2>1. req.op = "page" /\ req \in Request
    BY <1>4 DEF Count, RequestInv, PhaseInv
  <2>2. req'.op = "page"
    BY <1>4, <2>1 DEF Count, Request
  <2> QED BY <2>2 DEF BulkInv, Bulks
<1>5. CASE BulkStep
  BY <1>5, BulkStepKeeps
<1>6. CASE AnswerBulk
  <2>1. req.op \in Bulks /\ ProceedsTo("answered") /\ req.pos = Len(req.got) + 1 /\ req.pc = "next"
    BY <1>6, AnswerTypes DEF AnswerBulk
  <2>0. ToSet(req.done) \subseteq Jobs
    BY DEF RequestInv, Request, ToSet
  <2>2. Past' = Past /\ \A j : Twice(j) => Twice(j)'
    BY <2>1, PastStays DEF ProceedsTo, SameBulk
  <2>3. \A j \in Jobs : Cleared(j) => Cleared(j)'
    BY <2>1 DEF ProceedsTo, SameBulk, Cleared
  <2>4. /\ req'.failed = req.failed /\ req'.done = req.done /\ req'.got = req.got
        /\ req'.moved = req.moved /\ req'.mistold = req.mistold /\ req'.gone = req.gone
        /\ req'.pc = "answered" /\ req'.pos = req.pos
    BY <2>1 DEF ProceedsTo, SameBulk
  <2> QED BY <2>0, <2>1, <2>2, <2>3, <2>4 DEF BulkInv
<1>7. CASE OthersChange
  <2> SUFFICES ASSUME req.op \in Bulks PROVE BulkInv'
    BY <1>7, OthersEffect DEF SameRequest, BulkInv
  <2>1. /\ BulkSees /\ SameRequest
        /\ \A j \in Jobs : status[j] = "CANCELLED" => status'[j] \in {"CANCELLED", NoStatus}
        /\ req \in Request /\ TableInv' /\ RequestInv'
    BY <1>7, OthersEffect DEF RequestInv
  <2>2. Past' = Past /\ Current' = Current /\ \A j : Twice(j) => Twice(j)'
    BY <2>1, PastStays DEF SameRequest
  <2>3. \A j \in Jobs : Cleared(j) => Cleared(j)'
    BY <2>1 DEF BulkSees, SameRequest, Cleared, NoStatus
  <2>4. \A j \in Jobs : (status[j] = NoStatus => j \in req.gone) => (status'[j] = NoStatus => j \in req'.gone)
    BY <2>1 DEF BulkSees
  <2>5. ToSet(req.done) \subseteq Jobs /\ req.gone \subseteq req'.gone
    BY <2>1 DEF Request, ToSet, BulkSees
  <2>6. req.pc = "reread" => Current \in Jobs
    <3> HAVE req.pc = "reread"
    <3>1. req.pos <= Len(req.got)
      BY DEF RequestInv, PhaseInv
    <3> QED BY <3>1, TurnFacts DEF InTurn
  <2> QED BY <2>1, <2>2, <2>3, <2>4, <2>5, <2>6 DEF BulkInv, SameRequest
<1>8. CASE UNCHANGED listVars
  BY <1>8 DEF listVars, BulkInv, Past, Twice, Cleared, Current
<1> QED BY <1>1, <1>2, <1>3, <1>4, <1>5, <1>6, <1>7, <1>8 DEF ListNext, Handler, BulkStep

(* Two places of an id are counted. *)
LEMMA TwiceIsNamedTwice ==
    ASSUME RequestInv, NEW j, Twice(j)
    PROVE  NamedTwice(j)
<1> DEFINE S == {i \in DOMAIN req.got : req.got[i] = j}
<1>1. PICK i, k \in DOMAIN req.got : i # k /\ req.got[i] = j /\ req.got[k] = j
  BY DEF Twice
<1>2. Len(req.got) \in Nat /\ DOMAIN req.got = 1 .. Len(req.got)
  BY DEF RequestInv, Request
<1>3. IsFiniteSet(S)
  <2>1. IsFiniteSet(1 .. Len(req.got))
    BY <1>2, FS_Interval
  <2>2. S \in SUBSET (1 .. Len(req.got))
    BY <1>2
  <2> HIDE DEF S
  <2> QED BY <2>1, <2>2, FS_Subset
<1>4. {i, k} \subseteq S
  BY <1>1
<1>5. IsFiniteSet({i, k}) /\ Cardinality({i, k}) = 2
  <2>1. IsFiniteSet({i}) /\ Cardinality({i}) = 1
    BY FS_Singleton
  <2>2. {i, k} = {i} \cup {k} /\ k \notin {i}
    BY <1>1
  <2> QED BY <2>1, <2>2, FS_AddElement
<1>6. Cardinality(S) \in Nat /\ Cardinality({i, k}) <= Cardinality(S)
  BY <1>3, <1>4, FS_Subset, FS_CardinalityType
<1> QED BY <1>5, <1>6 DEF NamedTwice

LEMMA ReportFollows ==
    ASSUME TableInv, RequestInv, BulkInv
    PROVE  BulkReportsWhatItDid
<1> SUFFICES ASSUME Answered("cancel") \/ Answered("requeue")
             PROVE  /\ ToSet(req.got) = ToSet(req.done) \cup req.failed
                    /\ \A j \in ToSet(req.done) \ req.moved :
                          req.op = "cancel" /\ (status[j] = "CANCELLED" \/ j \in req.gone)
                    /\ req.moved \cap req.failed \subseteq
                          req.gone \cup req.mistold \cup {j \in Jobs : NamedTwice(j)}
                    /\ bulkResultCode = "BULK_OK" /\ req.op = "requeue" => ToSet(req.got) \subseteq req.moved
  BY DEF BulkReportsWhatItDid
<1>1. req.op \in Bulks /\ req.pc = "answered" /\ req \in Request
  BY DEF Answered, Bulks, RequestInv
<1>2. /\ ToSet(req.done) \cup req.failed = Past
      /\ req.moved \subseteq Past
      /\ \A j \in ToSet(req.done) : j \in req.moved \/ Cleared(j)
      /\ \A j \in req.moved \cap req.failed : j \in req.gone \/ j \in req.mistold \/ Twice(j)
      /\ req.pos = Len(req.got) + 1
  BY <1>1 DEF BulkInv
<1>3. ToSet(req.got) = Past
  <2>1. Len(req.got) \in Nat /\ DOMAIN req.got = 1 .. Len(req.got)
    BY <1>1 DEF Request
  <2>2. 1 .. req.pos - 1 = DOMAIN req.got
    BY <1>2, <2>1
  <2> QED BY <2>2 DEF ToSet, Past
<1>4. \A j \in ToSet(req.done) \ req.moved :
         req.op = "cancel" /\ (status[j] = "CANCELLED" \/ j \in req.gone)
  BY <1>2 DEF Cleared
<1>5. req.moved \cap req.failed \subseteq req.gone \cup req.mistold \cup {j \in Jobs : NamedTwice(j)}
  <2>1. req.moved \subseteq Jobs
    BY <1>1 DEF Request
  <2> QED BY <1>2, <2>1, TwiceIsNamedTwice
<1>6. bulkResultCode = "BULK_OK" => req.failed = {}
  BY DEF bulkResultCode
<1> QED BY <1>2, <1>3, <1>4, <1>5, <1>6

(* A bulk cancel or requeue reports every id it selected, as done or as     *)
(* failed, and its report is true of what it did, whatever workers and      *)
(* other clients do to the same jobs between its steps: in every table, for *)
(* any listing or list of ids, with ids named twice and statements that     *)
(* fail before and after the change.                                        *)
THEOREM BulkReports == ListSpec => []BulkReportsWhatItDid
<1> DEFINE Inv == ListingInv /\ BulkInv
<1>1. ListInit => Inv
  <2> SUFFICES ASSUME ListInit PROVE Inv
    OBVIOUS
  <2>1. BulkInv
    BY DEF ListInit, BulkInv, NoRequest, Bulks
  <2> QED BY <2>1, InitTypes DEF ListingInv
<1>2. Inv /\ [ListNext]_listVars => Inv'
  <2> SUFFICES ASSUME Inv, [ListNext]_listVars PROVE Inv'
    OBVIOUS
  <2>1. ListingInv'
    BY ListingInvStep
  <2>2. BulkInv'
    BY <2>1, BulkInvStep DEF ListingInv
  <2> QED BY <2>1, <2>2
<1>3. Inv => BulkReportsWhatItDid
  BY ReportFollows DEF ListingInv
<1> QED BY <1>1, <1>2, <1>3, PTL DEF ListSpec

-----------------------------------------------------------------------------
(* Requests that only read.  left and came are kept to finite sets, and a   *)
(* row that was listed all the time is listed now.                          *)
RowsNow == {Row(j) : j \in Listed}

SightInv ==
    req.op \in Reads => /\ IsFiniteSet(req.left) /\ IsFiniteSet(req.came)
                        /\ req.steady \subseteq Listed

(* Rows of different ids are different. *)
LEMMA RowsCount ==
    ASSUME NEW S \in SUBSET Jobs, NEW g
    PROVE  /\ IsFiniteSet({<<g[j], j>> : j \in S})
           /\ Cardinality({<<g[j], j>> : j \in S}) = Cardinality(S)
<1> DEFINE R == {<<g[j], j>> : j \in S}
           f == [j \in S |-> <<g[j], j>>]
<1>1. f \in Bijection(S, R)
  BY DEF Bijection, Injection, Surjection, IsInjective
<1>2. ExistsBijection(S, R)
  BY <1>1 DEF ExistsBijection
<1> HIDE DEF R
<1>3. IsFiniteSet(R) /\ Cardinality(R) = Cardinality(S)
  BY <1>2, JobsFinite, FS_Bijection
<1> QED BY <1>3 DEF R

LEMMA RowsNowCount ==
    ASSUME RequestInv
    PROVE  IsFiniteSet(RowsNow) /\ Cardinality(RowsNow) = Cardinality(Listed) /\ Cardinality(Listed) \in Nat
BY ListedJobs, RowsCount, JobsFinite DEF RowsNow, Row

(* The request has come in. *)
ReadArrived ==
    /\ UNCHANGED <<table, status, stamp>>
    /\ req'.pc = "list" /\ req'.got = << >> /\ req'.left = {} /\ req'.came = {}
    /\ req'.steady = Listed' /\ (req'.op = "walk" => req'.offset = 0)

(* A page is read. *)
SameSight ==
    /\ UNCHANGED <<table, status, stamp>>
    /\ req'.op = req.op /\ req'.status = req.status /\ req'.scope = req.scope
    /\ req'.limit = req.limit /\ req'.desc = req.desc
    /\ req'.left = req.left /\ req'.came = req.came /\ req'.steady = req.steady

ReadForm(items) ==
    /\ req.pc = "list" /\ SameSight
    /\ req.op = "walk" => /\ req'.got = req.got \o items
                          /\ req'.offset = req.offset + Len(items)
                          /\ req'.pc = IF Len(items) < req.limit THEN "answered" ELSE "list"
    /\ req.op = "page" => req'.got = items /\ req'.offset = req.offset /\ req'.pc = "count"

CountForm ==
    /\ req.op = "page" /\ req.pc = "count" /\ SameSight
    /\ req'.got = req.got /\ req'.offset = req.offset
    /\ req'.pc = "answered" /\ req'.total = Cardinality(Listed)

LEMMA ArrivesForm ==
    ASSUME NEW op \in Reads, NEW s, NEW scope, NEW limit, NEW offset, NEW desc,
           op = "walk" => offset = 0,
           Arrives(op, s, scope, limit, offset, desc)
    PROVE  ReadArrived
<1>1. /\ req'.pc = "list" /\ req'.got = << >> /\ req'.left = {} /\ req'.came = {}
      /\ req'.steady = {j \in scope : Passes(status[j], s)}
      /\ req'.scope = scope /\ req'.status = s /\ req'.offset = offset /\ req'.op = op
      /\ UNCHANGED <<table, status, stamp>>
  BY DEF Arrives, NoRequest
<1>2. Listed' = {j \in scope : Passes(status[j], s)}
  BY <1>1 DEF Listed, Matches
<1> QED BY <1>1, <1>2 DEF ReadArrived

LEMMA ListForm ==
    ASSUME TableInv, RequestInv, req.op \in Reads, List
    PROVE  \E s \in Orders(Listed) : ReadForm(Slice(s, req.limit, req.offset))
<1>1. req.pc = "list" /\ req \in Request /\ UNCHANGED <<table, status, stamp>> /\ req.op # "none"
  BY DEF List, RequestInv, Reads
<1>2. PICK items \in Pages : ReadPage(items) \/ ReadOnce(items)
  BY DEF List
<1>3. PICK s \in Orders(Listed) : items = Slice(s, req.limit, req.offset)
  BY <1>1, PageFacts
<1>4. CASE req.op = "walk"
  <2> DEFINE g == req.got \o items
             o == req.offset + Len(items)
             p == IF Len(items) < req.limit THEN "answered" ELSE "list"
  <2>1. req' = [req EXCEPT !.got = g, !.offset = o, !.pc = p]
    BY <1>2, <1>4 DEF ReadPage, ReadOnce
  <2> HIDE DEF g, o, p
  <2>2. /\ SameSight /\ req'.got = g /\ req'.offset = o /\ req'.pc = p
    BY <1>1, <2>1 DEF Request, SameSight
  <2>3. ReadForm(items)
    BY <1>1, <1>4, <2>2 DEF ReadForm, g, o, p
  <2> QED BY <1>3, <2>3
<1>5. CASE req.op = "page"
  <2>1. req' = [req EXCEPT !.got = items, !.pc = "count"]
    BY <1>2, <1>5 DEF ReadPage, ReadOnce
  <2>2. SameSight /\ req'.got = items /\ req'.pc = "count" /\ req'.offset = req.offset
    BY <1>1, <2>1 DEF Request, SameSight
  <2>3. ReadForm(items)
    BY <1>1, <1>5, <2>2 DEF ReadForm
  <2> QED BY <1>3, <2>3
<1> QED BY <1>4, <1>5 DEF Reads

LEMMA CountIsForm ==
    ASSUME RequestInv, Count
    PROVE  CountForm
<1>1. req.op = "page" /\ req \in Request
  BY DEF Count, RequestInv, PhaseInv
<1> QED BY <1>1 DEF Count, Counted, CountForm, SameSight, Request

(* The steps after which a request is one that reads. *)
LEMMA ReadSteps ==
    ASSUME TableInv, RequestInv, [ListNext]_listVars, req'.op \in Reads
    PROVE  \/ ReadArrived
           \/ req.op \in Reads /\ \E s \in Orders(Listed) : ReadForm(Slice(s, req.limit, req.offset))
           \/ CountForm
           \/ OthersChange /\ req.op \in Reads /\ ReadSees /\ SameRequest /\ req.pc # "answered"
           \/ UNCHANGED listVars
<1>1. CASE Walk
  <2>1. PICK s \in Filters, scope \in Scopes, limit \in Limits, desc \in BOOLEAN :
           Arrives("walk", s, scope, limit, 0, desc)
    BY <1>1 DEF Walk, Asks
  <2> QED BY <2>1, ArrivesForm DEF Reads
<1>2. CASE GetPage
  <2>1. PICK s \in Filters, scope \in Scopes, limit \in Limits, offset \in Offsets :
           Arrives("page", s, scope, limit, offset, FALSE)
    BY <1>2 DEF GetPage, Asks
  <2> QED BY <2>1, ArrivesForm DEF Reads
<1>3. CASE BulkCancel \/ BulkRequeue
  <2>1. req'.op \in Bulks
    BY <1>3 DEF BulkCancel, BulkRequeue, Bulk, Arrives, NoRequest, Bulks
  <2> QED BY <2>1 DEF Reads, Bulks
<1>4. CASE \E op \in {"cancel", "requeue"}, ids \in Given : BulkGiven(op, ids)
  <2>1. req'.op \in Bulks
    BY <1>4 DEF BulkGiven, NoRequest, Bulks
  <2> QED BY <2>1 DEF Reads, Bulks
<1>5. CASE List
  <2>1. PICK items \in Pages : ReadPage(items) \/ ReadOnce(items)
    BY <1>5 DEF List
  <2>2. req \in Request
    BY DEF RequestInv
  <2>3. req'.op = req.op
    BY <2>1, <2>2 DEF ReadPage, ReadOnce, Request
  <2> QED BY <1>5, <2>3, ListForm
<1>6. CASE Count
  BY <1>6, CountIsForm
<1>7. CASE BulkStep
  <2>1. req.op \in Bulks /\ BulkForms
    BY <1>7, BulkStepForms, StepIsTurn DEF InTurn
  <2>2. req'.op = req.op
    BY <2>1 DEF BulkForms, FailsTo, StatementFailsTo, ProceedsTo, MovesTo, MovesUnloggedTo, ReportsDone, SameBulk
  <2> QED BY <2>1, <2>2 DEF Reads, Bulks
<1>8. CASE AnswerBulk
  <2>1. req'.op \in Bulks
    BY <1>8, AnswerTypes DEF ProceedsTo, SameBulk
  <2> QED BY <2>1 DEF Reads, Bulks
<1>9. CASE OthersChange
  BY <1>9, OthersEffect DEF SameRequest
<1> QED BY <1>1, <1>2, <1>3, <1>4, <1>5, <1>6, <1>7, <1>8, <1>9 DEF ListNext, Handler, BulkStep

(* The listing after a change, and what the request has seen of it. *)
LEMMA SightAfter ==
    ASSUME RequestInv, ReadSees, SameRequest, SightInv, req.op \in Reads, TableInv
    PROVE  /\ \A j \in Listed : Row(j) \in req'.left \/ (j \in Listed' /\ stamp'[j] = stamp[j])
           /\ \A j \in Listed' : <<stamp'[j], j>> \in req'.came \/ (j \in Listed /\ stamp'[j] = stamp[j])
           /\ req.left \subseteq req'.left /\ req.came \subseteq req'.came
           /\ req'.steady \subseteq req.steady
           /\ \A j \in req'.steady : j \in Listed' /\ stamp'[j] = stamp[j]
           /\ IsFiniteSet(req'.left) /\ IsFiniteSet(req'.came)
<1> DEFINE then == {j \in req.scope : Passes(status'[j], req.status)}
           shifted == {j \in Listed \cap then : stamp'[j] # stamp[j]}
           L == {Row(j) : j \in (Listed \ then) \cup shifted}
           C == {<<stamp'[j], j>> : j \in (then \ Listed) \cup shifted}
<1>1. Listed' = then
  BY DEF Listed, Matches, SameRequest
<1>2. req'.left = req.left \cup L /\ req'.came = req.came \cup C /\ req'.steady = (req.steady \cap then) \ shifted
  BY DEF ReadSees
<1>3. req.steady \subseteq Listed /\ IsFiniteSet(req.left) /\ IsFiniteSet(req.came)
  BY DEF SightInv
<1>4. Listed \subseteq Jobs /\ then \subseteq Jobs
  BY ListedJobs DEF RequestInv, Request
<1>5. IsFiniteSet(L)
  <2>1. (Listed \ then) \cup shifted \in SUBSET Jobs
    BY <1>4
  <2> QED BY <2>1, RowsCount DEF Row
<1>6. IsFiniteSet(C)
  <2>1. (then \ Listed) \cup shifted \in SUBSET Jobs
    BY <1>4
  <2> HIDE DEF then, shifted
  <2> QED BY <2>1, RowsCount
<1>7. \A j \in Listed : Row(j) \in L \/ (j \in then /\ stamp'[j] = stamp[j])
  OBVIOUS
<1>8. \A j \in then : <<stamp'[j], j>> \in C \/ (j \in Listed /\ stamp'[j] = stamp[j])
  OBVIOUS
<1>9. \A j \in (req.steady \cap then) \ shifted : stamp'[j] = stamp[j]
  BY <1>3
<1> HIDE DEF then, L, C
<1>10. IsFiniteSet(req'.left) /\ IsFiniteSet(req'.came)
  <2>1. IsFiniteSet(req.left \cup L)
    BY <1>3, <1>5, FS_Union
  <2>2. IsFiniteSet(req.came \cup C)
    BY <1>3, <1>6, FS_Union
  <2> QED BY <1>2, <2>1, <2>2
<1> QED BY <1>1, <1>2, <1>7, <1>8, <1>9, <1>10

LEMMA SameListed == ASSUME SameSight PROVE Listed' = Listed /\ RowsNow' = RowsNow
  BY DEF SameSight, Listed, Matches, RowsNow, Row

LEMMA SightStep ==
    ASSUME TableInv, RequestInv, SightInv, [ListNext]_listVars
    PROVE  SightInv'
<1> SUFFICES ASSUME req'.op \in Reads PROVE SightInv'
  BY DEF SightInv
<1>1. CASE ReadArrived
  BY <1>1, FS_EmptySet DEF ReadArrived, SightInv
<1>2. CASE SameSight
  BY <1>2, SameListed DEF SameSight, SightInv
<1>3. CASE OthersChange /\ req.op \in Reads /\ ReadSees /\ SameRequest
  BY <1>3, SightAfter DEF SightInv
<1>4. CASE UNCHANGED listVars
  BY <1>4 DEF listVars, SightInv, Listed, Matches
<1> QED BY <1>1, <1>2, <1>3, <1>4, ReadSteps DEF ReadForm, CountForm

-----------------------------------------------------------------------------
(* Between the page and the count: what the page showed is still listed or  *)
(* left, and what is listed was shown or came.                              *)
Ever == RowsNow \cup req.left
Old == RowsNow \ req.came

PageInv ==
    req.op = "page" /\ req.pc = "count" =>
        /\ Len(req.got) <= req.limit
        /\ req.got # << >> => req.offset + Len(req.got) <= Cardinality(Ever)
        /\ Len(req.got) < req.limit => Cardinality(Old) <= req.offset + Len(req.got)

LEMMA EverOldFinite ==
    ASSUME RequestInv, SightInv, req.op \in Reads
    PROVE  /\ IsFiniteSet(Ever) /\ IsFiniteSet(Old)
           /\ Cardinality(Ever) \in Nat /\ Cardinality(Old) \in Nat
           /\ Cardinality(req.left) \in Nat /\ Cardinality(req.came) \in Nat
           /\ Cardinality(Listed) <= Cardinality(Ever)
           /\ Cardinality(Old) <= Cardinality(Listed)
           /\ Cardinality(Ever) <= Cardinality(Listed) + Cardinality(req.left)
           /\ Cardinality(Listed) <= Cardinality(Old) + Cardinality(req.came)
<1>1. IsFiniteSet(RowsNow) /\ Cardinality(RowsNow) = Cardinality(Listed) /\ Cardinality(Listed) \in Nat
  BY RowsNowCount
<1>2. IsFiniteSet(req.left) /\ IsFiniteSet(req.came)
  BY DEF SightInv
<1>3. Cardinality(req.left) \in Nat /\ Cardinality(req.came) \in Nat
  BY <1>2, FS_CardinalityType
<1>4. IsFiniteSet(Ever) /\ Cardinality(Ever) \in Nat
  BY <1>1, <1>2, FS_Union, FS_CardinalityType DEF Ever
<1>5. IsFiniteSet(Old) /\ Cardinality(Old) \in Nat
  BY <1>1, FS_Difference, FS_CardinalityType DEF Old
<1>6. Cardinality(RowsNow) <= Cardinality(Ever)
  <2>1. RowsNow \in SUBSET Ever
    BY DEF Ever
  <2> QED BY <1>4, <2>1, FS_Subset
<1>7. Cardinality(Old) <= Cardinality(RowsNow)
  <2>1. Old \in SUBSET RowsNow
    BY DEF Old
  <2> QED BY <1>1, <2>1, FS_Subset
<1>8. Cardinality(Ever) <= Cardinality(RowsNow) + Cardinality(req.left)
  <2>1. Cardinality(Ever) = Cardinality(RowsNow) + Cardinality(req.left) - Cardinality(RowsNow \cap req.left)
    BY <1>1, <1>2, FS_Union DEF Ever
  <2>2. Cardinality(RowsNow \cap req.left) \in Nat
    BY <1>1, FS_Intersection, FS_CardinalityType
  <2> QED BY <1>1, <1>3, <2>1, <2>2
<1>9. Cardinality(RowsNow) <= Cardinality(Old) + Cardinality(req.came)
  <2>1. Cardinality(Old) = Cardinality(RowsNow) - Cardinality(RowsNow \cap req.came)
    BY <1>1, FS_Difference DEF Old
  <2>2. Cardinality(RowsNow \cap req.came) \in Nat
    BY <1>1, FS_Intersection, FS_CardinalityType
  <2>3. Cardinality(RowsNow \cap req.came) <= Cardinality(req.came)
    BY <1>2, FS_Intersection
  <2> QED BY <1>1, <1>3, <1>5, <2>1, <2>2, <2>3
<1> QED BY <1>1, <1>3, <1>4, <1>5, <1>6, <1>7, <1>8, <1>9

(* How long a page is. *)
LEMMA PageLength ==
    ASSUME RequestInv, NEW s \in Orders(Listed)
    PROVE  LET items == Slice(s, req.limit, req.offset) IN
           /\ items \in Seq(Jobs) /\ Len(items) \in Nat
           /\ Len(s) = Cardinality(Listed) /\ s \in Seq(Jobs) /\ Len(s) \in Nat
           /\ Len(items) <= req.limit
           /\ Len(items) > 0 => req.offset + Len(items) <= Cardinality(Listed)
           /\ Len(items) < req.limit => Cardinality(Listed) <= req.offset + Len(items)
           /\ \A i \in 1 .. Len(items) : /\ req.offset + i \in 1 .. Len(s)
                                        /\ items[i] = s[req.offset + i]
<1> DEFINE items == Slice(s, req.limit, req.offset)
<1>1. s \in Seq(Listed) /\ Len(s) = Cardinality(Listed) /\ Listed \in SUBSET Jobs
  BY ListedJobs, OrderFacts
<1>2. s \in Seq(Jobs) /\ Len(s) \in Nat /\ req.limit \in Nat /\ req.offset \in Nat
  BY <1>1 DEF RequestInv, Request
<1>3. /\ items \in Seq(Jobs)
      /\ req.offset >= Len(s) => Len(items) = 0
      /\ req.offset < Len(s) /\ req.offset + req.limit > Len(s) => Len(items) = Len(s) - req.offset
      /\ req.offset < Len(s) /\ req.offset + req.limit <= Len(s) => Len(items) = req.limit
      /\ \A i \in 1 .. Len(items) : req.offset + i \in 1 .. Len(s) /\ items[i] = s[req.offset + i]
  BY <1>2, SliceFacts
<1> HIDE DEF items
<1>4. Len(items) \in Nat
  BY <1>3
<1>5. /\ Len(items) <= req.limit
      /\ Len(items) > 0 => req.offset + Len(items) <= Len(s)
      /\ Len(items) < req.limit => Len(s) <= req.offset + Len(items)
  BY <1>2, <1>3, <1>4
<1>6. /\ items \in Seq(Jobs) /\ Len(items) \in Nat
      /\ Len(s) = Cardinality(Listed) /\ s \in Seq(Jobs) /\ Len(s) \in Nat
      /\ Len(items) <= req.limit
      /\ Len(items) > 0 => req.offset + Len(items) <= Cardinality(Listed)
      /\ Len(items) < req.limit => Cardinality(Listed) <= req.offset + Len(items)
      /\ \A i \in 1 .. Len(items) : req.offset + i \in 1 .. Len(s) /\ items[i] = s[req.offset + i]
  BY <1>1, <1>2, <1>3, <1>4, <1>5
<1> QED BY <1>6 DEF items

LEMMA PageRead ==
    ASSUME RequestInv, SightInv, req.op = "page", NEW s \in Orders(Listed),
           ReadForm(Slice(s, req.limit, req.offset))
    PROVE  PageInv' /\ EnvelopeAgrees'
<1> DEFINE items == Slice(s, req.limit, req.offset)
<1>1. /\ items \in Seq(Jobs) /\ Len(items) \in Nat /\ Len(items) <= req.limit
      /\ Len(items) > 0 => req.offset + Len(items) <= Cardinality(Listed)
      /\ Len(items) < req.limit => Cardinality(Listed) <= req.offset + Len(items)
  BY PageLength
<1>2. /\ req'.got = items /\ req'.pc = "count" /\ req'.offset = req.offset /\ req'.limit = req.limit
      /\ req'.left = req.left /\ req'.came = req.came /\ SameSight
  BY DEF ReadForm, SameSight
<1>3. Ever' = Ever /\ Old' = Old
  BY <1>2, SameListed DEF Ever, Old
<1> HIDE DEF items
<1>4. /\ Cardinality(Ever) \in Nat /\ Cardinality(Old) \in Nat /\ Cardinality(Listed) \in Nat
      /\ Cardinality(Listed) <= Cardinality(Ever) /\ Cardinality(Old) <= Cardinality(Listed)
      /\ req.offset \in Nat /\ req.limit \in Nat
  BY EverOldFinite, RowsNowCount DEF Reads, RequestInv, Request
<1>5. items # << >> => Len(items) > 0
  BY <1>1
<1>6. /\ items # << >> => req.offset + Len(items) <= Cardinality(Ever)
      /\ Len(items) < req.limit => Cardinality(Old) <= req.offset + Len(items)
  BY <1>1, <1>4, <1>5
<1>7. PageInv'
  BY <1>1, <1>2, <1>3, <1>6 DEF PageInv
<1>8. EnvelopeAgrees'
  BY <1>2 DEF EnvelopeAgrees, Answered
<1> QED BY <1>7, <1>8

LEMMA PageCounted ==
    ASSUME RequestInv, SightInv, PageInv, CountForm
    PROVE  PageInv' /\ EnvelopeAgrees'
<1>1. /\ req'.got = req.got /\ req'.pc = "answered" /\ req'.offset = req.offset
      /\ req'.limit = req.limit /\ req'.left = req.left /\ req'.came = req.came
      /\ req'.total = Cardinality(Listed) /\ req.op = "page" /\ req.pc = "count"
  BY DEF CountForm, SameSight
<1> DEFINE n == Len(req.got)
           t == Cardinality(Listed)
           l == Cardinality(req.left)
           c == Cardinality(req.came)
<1>2. /\ n <= req.limit
      /\ req.got # << >> => req.offset + n <= Cardinality(Ever)
      /\ n < req.limit => Cardinality(Old) <= req.offset + n
  BY <1>1 DEF PageInv
<1>3. /\ Cardinality(Ever) \in Nat /\ Cardinality(Old) \in Nat /\ l \in Nat /\ c \in Nat
      /\ Cardinality(Ever) <= t + l /\ t <= Cardinality(Old) + c
  BY <1>1, EverOldFinite DEF Reads
<1>4. n \in Nat /\ req.offset \in Nat /\ req.limit \in Nat /\ t \in Nat
  BY RowsNowCount DEF RequestInv, Request
<1> HIDE DEF n, t, l, c
<1>5. /\ req.got # << >> => req.offset + n <= t + l
      /\ n < req.limit => t <= req.offset + n + c
  BY <1>2, <1>3, <1>4
<1>6. EnvelopeAgrees'
  BY <1>1, <1>2, <1>5 DEF EnvelopeAgrees, n, t, l, c
<1>7. PageInv'
  BY <1>1 DEF PageInv
<1> QED BY <1>6, <1>7

LEMMA PageSees ==
    ASSUME TableInv, RequestInv, SightInv, PageInv, req.op \in Reads, RequestInv',
           OthersChange, ReadSees, SameRequest, SightInv', req.pc # "answered"
    PROVE  PageInv' /\ EnvelopeAgrees'
<1>1. Ever \subseteq Ever' /\ Old' \subseteq Old
  <2>1. /\ \A j \in Listed : Row(j) \in req'.left \/ (j \in Listed' /\ stamp'[j] = stamp[j])
        /\ \A j \in Listed' : <<stamp'[j], j>> \in req'.came \/ (j \in Listed /\ stamp'[j] = stamp[j])
        /\ req.left \subseteq req'.left /\ req.came \subseteq req'.came
    BY SightAfter
  <2>2. RowsNow' = {<<stamp'[j], j>> : j \in Listed'} /\ RowsNow = {<<stamp[j], j>> : j \in Listed}
    BY DEF RowsNow, Row
  <2>3. Ever' = RowsNow' \cup req'.left /\ Old' = RowsNow' \ req'.came
    BY DEF Ever, Old
  <2>4. \A j \in Listed : <<stamp[j], j>> \in Ever'
    BY <2>1, <2>2, <2>3 DEF Row
  <2>5. \A j \in Listed' : <<stamp'[j], j>> \in req'.came \/ <<stamp'[j], j>> \in RowsNow
    BY <2>1, <2>2
  <2> QED BY <2>1, <2>2, <2>3, <2>4, <2>5 DEF Ever, Old
<1>2. IsFiniteSet(Ever') /\ Cardinality(Ever') \in Nat /\ Cardinality(Old') \in Nat
  <2>1. req'.op \in Reads
    BY DEF SameRequest
  <2>2. IsFiniteSet(RowsNow')
    <3>1. Listed' \in SUBSET Jobs
      BY DEF Listed, RequestInv, Request
    <3> QED BY <3>1, RowsCount DEF RowsNow, Row
  <2>3. IsFiniteSet(Ever')
    BY <2>1, <2>2, FS_Union DEF Ever, SightInv
  <2>4. IsFiniteSet(Old')
    BY <2>2, FS_Difference DEF Old
  <2> QED BY <2>3, <2>4, FS_CardinalityType
<1>3. IsFiniteSet(Old) /\ Cardinality(Old) \in Nat /\ Cardinality(Ever) \in Nat
  BY EverOldFinite
<1>4. Cardinality(Ever) <= Cardinality(Ever')
  BY <1>1, <1>2, FS_Subset
<1>5. Cardinality(Old') <= Cardinality(Old)
  BY <1>1, <1>3, FS_Subset
<1>6. Len(req.got) \in Nat /\ req.offset \in Nat /\ req.limit \in Nat
  BY DEF RequestInv, Request
<1>7. PageInv'
  <2> SUFFICES ASSUME req'.op = "page", req'.pc = "count"
               PROVE  /\ Len(req.got) <= req.limit
                      /\ req.got # << >> => req.offset + Len(req.got) <= Cardinality(Ever')
                      /\ Len(req.got) < req.limit => Cardinality(Old') <= req.offset + Len(req.got)
    BY DEF PageInv, SameRequest
  <2>1. /\ Len(req.got) <= req.limit
        /\ req.got # << >> => req.offset + Len(req.got) <= Cardinality(Ever)
        /\ Len(req.got) < req.limit => Cardinality(Old) <= req.offset + Len(req.got)
    BY DEF PageInv, SameRequest
  <2> QED BY <1>2, <1>3, <1>4, <1>5, <1>6, <2>1
<1>8. EnvelopeAgrees'
  BY DEF SameRequest, EnvelopeAgrees, Answered
<1> QED BY <1>7, <1>8

LEMMA PageStep ==
    ASSUME TableInv, RequestInv, SightInv, PageInv, EnvelopeAgrees, [ListNext]_listVars,
           RequestInv', SightInv'
    PROVE  PageInv' /\ EnvelopeAgrees'
<1> SUFFICES ASSUME req'.op = "page" PROVE PageInv' /\ EnvelopeAgrees'
  BY DEF PageInv, EnvelopeAgrees, Answered
<1>1. CASE ReadArrived
  BY <1>1 DEF ReadArrived, PageInv, EnvelopeAgrees, Answered
<1>2. CASE \E s \in Orders(Listed) : ReadForm(Slice(s, req.limit, req.offset))
  <2>1. req.op = "page"
    BY <1>2 DEF ReadForm, SameSight
  <2> QED BY <1>2, <2>1, PageRead
<1>3. CASE CountForm
  BY <1>3, PageCounted
<1>4. CASE OthersChange /\ req.op \in Reads /\ ReadSees /\ SameRequest /\ req.pc # "answered"
  BY <1>4, PageSees
<1>5. CASE UNCHANGED listVars
  BY <1>5 DEF listVars, PageInv, EnvelopeAgrees, Answered, Ever, Old, RowsNow, Row, Listed, Matches
<1> QED BY <1>1, <1>2, <1>3, <1>4, <1>5, ReadSteps DEF Reads

-----------------------------------------------------------------------------
(* A walk.  The rank of a row is how many listed rows go before it: without *)
(* ties that is its place in every order of the listing, rows that leave    *)
(* lower it and rows that come raise it.                                    *)

(* Precedes with the table and the direction it depends on. *)
Ahead(t, desc, r, q) ==
    CASE t = "history" -> r[2] < q[2]
      [] t # "history" /\ r[1] # q[1] -> IF desc THEN r[1] > q[1] ELSE r[1] < q[1]
      [] OTHER -> t # "memory" \/ r[2] < q[2]

RowAhead(r, j) == Ahead(table, req.desc, r, <<stamp[j], j>>)

Before(j) == {k \in Listed \ {j} : RowAhead(<<stamp[k], k>>, j)}
NoneLeft(j) == \A row \in req.left : ~RowAhead(row, j)
NoneCame(j) == \A row \in req.came : ~RowAhead(row, j)

Has(s, j) == \E i \in DOMAIN s : s[i] = j
AtMostOnce(s, j) == \A i, k \in DOMAIN s : s[i] = j /\ s[k] = j => i = k

(* A steady row that ties with none: while nothing before it left, it was   *)
(* returned or its place is not passed; while nothing came before it, it    *)
(* was returned at most once, and only if its place is passed.              *)
RowWalked(j) ==
    ~Tied(j) =>
        /\ NoneLeft(j) => Has(req.got, j)
                          \/ (req.pc = "list" /\ Cardinality(Before(j)) >= req.offset)
        /\ NoneCame(j) => /\ AtMostOnce(req.got, j)
                          /\ Has(req.got, j) /\ req.pc = "list" => Cardinality(Before(j)) < req.offset

WalkInv == req.op = "walk" => \A j \in req.steady : RowWalked(j)

LEMMA AheadIsPrecedes == \A r, q : Precedes(r, q) <=> Ahead(table, req.desc, r, q)
  BY DEF Precedes, Ahead

LEMMA ConcatHas ==
    ASSUME NEW a \in Seq(Jobs), NEW b \in Seq(Jobs), NEW j
    PROVE  /\ Has(a \o b, j) <=> Has(a, j) \/ Has(b, j)
           /\ AtMostOnce(a, j) /\ AtMostOnce(b, j) /\ ~(Has(a, j) /\ Has(b, j)) => AtMostOnce(a \o b, j)
<1> DEFINE g == a \o b
<1>1. /\ Len(a) \in Nat /\ Len(b) \in Nat /\ DOMAIN a = 1 .. Len(a) /\ DOMAIN b = 1 .. Len(b)
      /\ DOMAIN g = 1 .. Len(a) + Len(b)
      /\ \A i \in 1 .. Len(a) : g[i] = a[i]
      /\ \A i \in 1 .. Len(b) : g[Len(a) + i] = b[i]
  OBVIOUS
<1> HIDE DEF g
<1>2. \A i \in DOMAIN g : i \in DOMAIN a \/ (i - Len(a) \in DOMAIN b /\ g[i] = b[i - Len(a)] /\ i \notin DOMAIN a)
  <2> TAKE i \in DOMAIN g
  <2>1. i \in DOMAIN a \/ (i - Len(a) \in 1 .. Len(b) /\ i = Len(a) + (i - Len(a)) /\ i \notin DOMAIN a)
    BY <1>1
  <2> QED BY <1>1, <2>1
<1>3. Has(g, j) => Has(a, j) \/ Has(b, j)
  BY <1>1, <1>2 DEF Has
<1>4. Has(a, j) \/ Has(b, j) => Has(g, j)
  <2>1. Has(a, j) => Has(g, j)
    <3>1. DOMAIN a \subseteq DOMAIN g
      BY <1>1
    <3> QED BY <1>1, <3>1 DEF Has
  <2>2. Has(b, j) => Has(g, j)
    <3>1. \A i \in DOMAIN b : Len(a) + i \in DOMAIN g
      BY <1>1
    <3> QED BY <1>1, <3>1 DEF Has
  <2> QED BY <2>1, <2>2
<1>5. ASSUME AtMostOnce(a, j), AtMostOnce(b, j), ~(Has(a, j) /\ Has(b, j))
      PROVE  AtMostOnce(g, j)
  <2> SUFFICES ASSUME NEW i \in DOMAIN g, NEW k \in DOMAIN g, g[i] = j, g[k] = j
               PROVE  i = k
    BY DEF AtMostOnce
  <2>1. CASE i \in DOMAIN a /\ k \in DOMAIN a
    BY <1>1, <1>5, <2>1 DEF AtMostOnce
  <2>2. CASE i \notin DOMAIN a /\ k \notin DOMAIN a
    <3>1. i - Len(a) = k - Len(a)
      BY <1>2, <1>5, <2>2 DEF AtMostOnce
    <3> QED BY <1>1, <3>1
  <2>3. CASE i \in DOMAIN a /\ k \notin DOMAIN a
    BY <1>1, <1>2, <1>5, <2>3 DEF Has
  <2>4. CASE i \notin DOMAIN a /\ k \in DOMAIN a
    BY <1>1, <1>2, <1>5, <2>4 DEF Has
  <2> QED BY <2>1, <2>2, <2>3, <2>4
<1> QED BY <1>3, <1>4, <1>5 DEF g

(* Rows that do not tie are ordered strictly. *)
LEMMA AheadStrict ==
    ASSUME TableInv, RequestInv, NEW j \in Listed, NEW k \in Listed, k # j, ~Tied(j),
           Ahead(table, req.desc, <<stamp[j], j>>, <<stamp[k], k>>)
    PROVE  ~RowAhead(<<stamp[k], k>>, j)
<1>1. j \in Nat /\ k \in Nat /\ j \in Jobs /\ k \in Jobs
  BY ListedJobs, ListAssumption
<1>2. stamp[j] \in Nat /\ stamp[k] \in Nat
  <2>1. Stamps \cup {0} \subseteq Nat
    BY ListAssumption
  <2> QED BY <1>1, <2>1 DEF TableInv
<1>3. table \notin {"memory", "history"} => stamp[j] # stamp[k]
  <2> SUFFICES ASSUME table \notin {"memory", "history"}, stamp[j] = stamp[k] PROVE FALSE
    OBVIOUS
  <2>1. <<stamp[j], k>> \in {Row(i) : i \in Listed}
    BY DEF Row
  <2> QED BY <1>1, <2>1 DEF Tied
<1> DEFINE r == <<stamp[j], j>>
           q == <<stamp[k], k>>
<1>4. r[1] = stamp[j] /\ r[2] = j /\ q[1] = stamp[k] /\ q[2] = k
  OBVIOUS
<1> HIDE DEF r, q
<1>5. Ahead(table, req.desc, r, q)
  BY DEF r, q
<1>6. CASE table = "history"
  <2>1. j < k
    BY <1>4, <1>5, <1>6 DEF Ahead
  <2>2. ~Ahead(table, req.desc, q, r)
    BY <1>1, <1>4, <1>6, <2>1 DEF Ahead
  <2> QED BY <2>2 DEF RowAhead, r, q
<1>7. CASE table # "history" /\ stamp[j] # stamp[k]
  <2>1. IF req.desc THEN stamp[j] > stamp[k] ELSE stamp[j] < stamp[k]
    BY <1>4, <1>5, <1>7 DEF Ahead
  <2>2. ~Ahead(table, req.desc, q, r)
    BY <1>2, <1>4, <1>7, <2>1 DEF Ahead
  <2> QED BY <2>2 DEF RowAhead, r, q
<1>8. CASE table # "history" /\ stamp[j] = stamp[k]
  <2>1. table = "memory"
    BY <1>3, <1>8
  <2>2. j < k
    BY <1>4, <1>5, <1>8, <2>1 DEF Ahead
  <2>3. ~Ahead(table, req.desc, q, r)
    BY <1>1, <1>4, <1>8, <2>1, <2>2 DEF Ahead
  <2> QED BY <2>3 DEF RowAhead, r, q
<1> QED BY <1>6, <1>7, <1>8

(* The place of a row in an order of the listing. *)
LEMMA PlaceIsRank ==
    ASSUME TableInv, RequestInv, NEW s \in Orders(Listed), NEW j \in Listed, ~Tied(j)
    PROVE  \E p \in 1 .. Len(s) : s[p] = j /\ Cardinality(Before(j)) = p - 1
<1>1. /\ s \in Seq(Listed) /\ Len(s) = Cardinality(Listed) /\ DOMAIN s = 1 .. Len(s) /\ Len(s) \in Nat
      /\ \A i, k \in DOMAIN s : s[i] = s[k] => i = k
      /\ \A k \in Listed : \E i \in DOMAIN s : s[i] = k
      /\ \A i, k \in DOMAIN s : i < k => Precedes(Row(s[i]), Row(s[k]))
  BY ListedJobs, OrderFacts, JobsFinite
<1>2. PICK p \in DOMAIN s : s[p] = j
  BY <1>1
<1>3. \A i \in DOMAIN s : s[i] \in Listed
  BY <1>1
<1>4. \A i, k \in DOMAIN s : i < k => Ahead(table, req.desc, <<stamp[s[i]], s[i]>>, <<stamp[s[k]], s[k]>>)
  BY <1>1, AheadIsPrecedes DEF Row
<1>5. \A i \in 1 .. p - 1 : i \in DOMAIN s /\ s[i] \in Before(j)
  <2> SUFFICES ASSUME NEW i \in 1 .. p - 1 PROVE i \in DOMAIN s /\ s[i] \in Before(j)
    OBVIOUS
  <2>1. i \in DOMAIN s /\ i < p /\ i # p
    BY <1>1
  <2>2. s[i] # j /\ s[i] \in Listed
    BY <1>1, <1>2, <1>3, <2>1
  <2>3. RowAhead(<<stamp[s[i]], s[i]>>, j)
    BY <1>2, <1>4, <2>1 DEF RowAhead
  <2> QED BY <2>1, <2>2, <2>3 DEF Before
<1>6. \A k \in Before(j) : \E i \in 1 .. p - 1 : s[i] = k
  <2> SUFFICES ASSUME NEW k \in Before(j) PROVE \E i \in 1 .. p - 1 : s[i] = k
    OBVIOUS
  <2>1. k \in Listed /\ k # j /\ RowAhead(<<stamp[k], k>>, j)
    BY DEF Before
  <2>2. PICK i \in DOMAIN s : s[i] = k
    BY <1>1, <2>1
  <2>3. ~(p < i)
    <3> SUFFICES ASSUME p < i PROVE FALSE
      OBVIOUS
    <3>1. Ahead(table, req.desc, <<stamp[j], j>>, <<stamp[k], k>>)
      BY <1>2, <1>4, <2>2
    <3> QED BY <2>1, <3>1, AheadStrict
  <2>4. i # p
    BY <1>2, <2>1, <2>2
  <2>5. i \in 1 .. p - 1
    BY <1>1, <2>3, <2>4
  <2> QED BY <2>2, <2>5
<1> DEFINE f == [i \in 1 .. p - 1 |-> s[i]]
<1>7. f \in Bijection(1 .. p - 1, Before(j))
  <2>1. f \in [1 .. p - 1 -> Before(j)]
    BY <1>5
  <2>2. \A i, k \in 1 .. p - 1 : f[i] = f[k] => i = k
    BY <1>1, <1>5
  <2>3. \A k \in Before(j) : \E i \in 1 .. p - 1 : f[i] = k
    BY <1>6
  <2> HIDE DEF f
  <2> QED BY <2>1, <2>2, <2>3 DEF Bijection, Injection, Surjection, IsInjective
<1>8. p \in Nat /\ p - 1 \in Nat
  BY <1>1
<1>9. IsFiniteSet(1 .. p - 1) /\ Cardinality(1 .. p - 1) = p - 1
  <2> DEFINE n == p - 1
  <2>1. n \in Nat
    BY <1>8
  <2> HIDE DEF n
  <2>2. IsFiniteSet(1 .. n) /\ Cardinality(1 .. n) = n
    BY <2>1, FS_Interval
  <2> QED BY <2>2 DEF n
<1>10. Cardinality(Before(j)) = p - 1
  <2>1. ExistsBijection(1 .. p - 1, Before(j))
    BY <1>7 DEF ExistsBijection
  <2> QED BY <1>9, <2>1, FS_Bijection
<1> QED BY <1>1, <1>2, <1>10

LEMMA RankType == ASSUME RequestInv, NEW j PROVE IsFiniteSet(Before(j)) /\ Cardinality(Before(j)) \in Nat
<1>1. Before(j) \in SUBSET Jobs
  BY ListedJobs DEF Before
<1> QED BY <1>1, JobsFinite

(* The walk reads a page: it returns the row if its place is on the page. *)
LEMMA WalkReads ==
    ASSUME TableInv, RequestInv, SightInv, WalkInv, req.op = "walk", NEW s \in Orders(Listed),
           ReadForm(Slice(s, req.limit, req.offset))
    PROVE  WalkInv'
<1> DEFINE items == Slice(s, req.limit, req.offset)
<1>1. /\ req'.got = req.got \o items /\ req'.offset = req.offset + Len(items)
      /\ req'.pc = (IF Len(items) < req.limit THEN "answered" ELSE "list")
      /\ SameSight /\ req.pc = "list"
  BY DEF ReadForm
<1>2. /\ items \in Seq(Jobs) /\ Len(items) \in Nat
      /\ Len(s) = Cardinality(Listed) /\ Len(s) \in Nat
      /\ Len(items) < req.limit => Cardinality(Listed) <= req.offset + Len(items)
      /\ \A i \in 1 .. Len(items) : req.offset + i \in 1 .. Len(s) /\ items[i] = s[req.offset + i]
  BY PageLength
<1> HIDE DEF items
<1>3. /\ Listed' = Listed /\ req'.steady = req.steady
      /\ \A j : /\ Tied(j)' <=> Tied(j)
                /\ NoneLeft(j)' <=> NoneLeft(j)
                /\ NoneCame(j)' <=> NoneCame(j)
                /\ Before(j)' = Before(j)
  BY <1>1, SameListed DEF SameSight, Tied, NoneLeft, NoneCame, Before, RowAhead, Row
<1>4. req.got \in Seq(Jobs) /\ req.offset \in Nat /\ req.limit \in Nat
  BY DEF RequestInv, Request
<1>5. DOMAIN items = 1 .. Len(items)
  BY <1>2
<1> SUFFICES ASSUME NEW j \in req.steady, ~Tied(j)
             PROVE  /\ NoneLeft(j) => Has(req'.got, j)
                          \/ (req'.pc = "list" /\ Cardinality(Before(j)) >= req'.offset)
                    /\ NoneCame(j) => /\ AtMostOnce(req'.got, j)
                                      /\ Has(req'.got, j) /\ req'.pc = "list" => Cardinality(Before(j)) < req'.offset
  <2> SUFFICES ASSUME NEW j \in req'.steady PROVE RowWalked(j)'
    BY DEF WalkInv
  <2>1. j \in req.steady /\ (Tied(j)' <=> Tied(j)) /\ (NoneLeft(j)' <=> NoneLeft(j))
        /\ (NoneCame(j)' <=> NoneCame(j)) /\ Before(j)' = Before(j)
    BY <1>3
  <2>2. ~Tied(j) => /\ NoneLeft(j) => Has(req'.got, j)
                          \/ (req'.pc = "list" /\ Cardinality(Before(j)) >= req'.offset)
                    /\ NoneCame(j) => /\ AtMostOnce(req'.got, j)
                                      /\ Has(req'.got, j) /\ req'.pc = "list" => Cardinality(Before(j)) < req'.offset
    BY <2>1
  <2> QED BY <2>1, <2>2 DEF RowWalked
<1>6. j \in Listed
  BY DEF SightInv, Reads
<1>7. PICK p \in 1 .. Len(s) : s[p] = j /\ Cardinality(Before(j)) = p - 1
  BY <1>6, PlaceIsRank
<1>8. \A i, k \in 1 .. Len(s) : s[i] = s[k] => i = k
  BY <1>2, ListedJobs, OrderFacts
<1> DEFINE o == req.offset
           m == Len(items)
<1>9. /\ \A i \in DOMAIN items : items[i] = j => o + i = p
      /\ o < p /\ p <= o + m => p - o \in DOMAIN items /\ items[p - o] = j
  <2>1. \A i \in DOMAIN items : items[i] = j => o + i = p
    BY <1>2, <1>5, <1>7, <1>8
  <2>2. ASSUME o < p, p <= o + m PROVE p - o \in DOMAIN items /\ items[p - o] = j
    <3>1. p - o \in 1 .. m /\ o + (p - o) = p
      BY <1>2, <1>4, <1>7, <2>2
    <3> QED BY <1>2, <1>5, <1>7, <3>1
  <2> QED BY <2>1, <2>2
<1>10. Has(items, j) <=> o < p /\ p <= o + m
  <2>1. Has(items, j) => o < p /\ p <= o + m
    BY <1>2, <1>4, <1>5, <1>9 DEF Has
  <2>2. o < p /\ p <= o + m => Has(items, j)
    BY <1>9 DEF Has
  <2> QED BY <2>1, <2>2
<1>11. AtMostOnce(items, j)
  BY <1>2, <1>4, <1>5, <1>9 DEF AtMostOnce
<1>12. /\ Has(req'.got, j) <=> Has(req.got, j) \/ Has(items, j)
       /\ AtMostOnce(req.got, j) /\ ~(Has(req.got, j) /\ Has(items, j)) => AtMostOnce(req'.got, j)
  BY <1>1, <1>2, <1>4, <1>11, ConcatHas
<1>13. /\ NoneLeft(j) => Has(req.got, j) \/ Cardinality(Before(j)) >= o
       /\ NoneCame(j) => /\ AtMostOnce(req.got, j)
                         /\ Has(req.got, j) => Cardinality(Before(j)) < o
  BY <1>1 DEF WalkInv, RowWalked
<1>14. o \in Nat /\ m \in Nat /\ p \in Nat /\ req'.offset = o + m
  BY <1>1, <1>2, <1>4, <1>7
<1> HIDE DEF o, m
<1>15. ASSUME NoneLeft(j), ~Has(req'.got, j)
       PROVE  req'.pc = "list" /\ Cardinality(Before(j)) >= req'.offset
  <2>1. p - 1 >= o /\ ~(o < p /\ p <= o + m)
    BY <1>7, <1>10, <1>12, <1>13, <1>15
  <2>2. p > o + m
    BY <1>14, <2>1
  <2>3. ~(m < req.limit)
    BY <1>2, <1>4, <1>7, <1>14, <2>2 DEF o, m
  <2> QED BY <1>1, <1>7, <1>14, <2>2, <2>3 DEF m
<1>16. ASSUME NoneCame(j)
       PROVE  /\ AtMostOnce(req'.got, j)
              /\ Has(req'.got, j) => Cardinality(Before(j)) < req'.offset
  <2>1. ~(Has(req.got, j) /\ Has(items, j))
    BY <1>7, <1>10, <1>13, <1>14, <1>16
  <2>2. Has(req.got, j) => p - 1 < o
    BY <1>7, <1>13, <1>16
  <2>3. Has(req'.got, j) => p - 1 < o + m
    BY <1>10, <1>12, <1>14, <2>2
  <2> QED BY <1>7, <1>12, <1>13, <1>14, <1>16, <2>1, <2>3
<1> QED BY <1>15, <1>16

(* Others change the table: rows that leave or come before the row are seen. *)
LEMMA WalkSees ==
    ASSUME TableInv, RequestInv, SightInv, WalkInv, RequestInv', req.op \in Reads,
           OthersChange, ReadSees, SameRequest
    PROVE  WalkInv'
<1> SUFFICES ASSUME req'.op = "walk", NEW j \in req'.steady, ~Tied(j)'
             PROVE  /\ NoneLeft(j)' => Has(req'.got, j)
                          \/ (req'.pc = "list" /\ Cardinality(Before(j)') >= req'.offset)
                    /\ NoneCame(j)' => /\ AtMostOnce(req'.got, j)
                                       /\ Has(req'.got, j) /\ req'.pc = "list" => Cardinality(Before(j)') < req'.offset
  <2> SUFFICES ASSUME req'.op = "walk", NEW j \in req'.steady PROVE RowWalked(j)'
    BY DEF WalkInv
  <2> QED BY DEF RowWalked
<1>1. /\ \A k \in Listed : Row(k) \in req'.left \/ (k \in Listed' /\ stamp'[k] = stamp[k])
      /\ \A k \in Listed' : <<stamp'[k], k>> \in req'.came \/ (k \in Listed /\ stamp'[k] = stamp[k])
      /\ req.left \subseteq req'.left /\ req.came \subseteq req'.came
      /\ j \in req.steady /\ stamp'[j] = stamp[j]
  BY SightAfter
<1>2. /\ table' = table /\ req'.desc = req.desc /\ req'.got = req.got /\ req'.offset = req.offset
      /\ req'.pc = req.pc /\ req.op = "walk"
  BY DEF OthersChange, SameRequest
<1>3. \A r : RowAhead(r, j)' <=> RowAhead(r, j)
  BY <1>1, <1>2 DEF RowAhead
<1>4. ~Tied(j)
  <2>1. {Row(i) : i \in Listed} \subseteq req'.left \cup {Row(i) : i \in Listed}'
    BY <1>1 DEF Row
  <2> QED BY <1>1, <1>2, <2>1 DEF Tied
<1>5. /\ NoneLeft(j)' => NoneLeft(j) /\ Before(j) \subseteq Before(j)'
  <2> SUFFICES ASSUME NoneLeft(j)' PROVE NoneLeft(j) /\ Before(j) \subseteq Before(j)'
    OBVIOUS
  <2>1. \A row \in req'.left : ~RowAhead(row, j)
    BY <1>3 DEF NoneLeft
  <2>2. NoneLeft(j)
    BY <1>1, <2>1 DEF NoneLeft
  <2>3. ASSUME NEW k \in Before(j) PROVE k \in Before(j)'
    <3>1. k \in Listed /\ k # j /\ RowAhead(<<stamp[k], k>>, j)
      BY <2>3 DEF Before
    <3>2. k \in Listed' /\ stamp'[k] = stamp[k]
      BY <1>1, <2>1, <3>1 DEF Row
    <3>3. RowAhead(<<stamp'[k], k>>, j)
      BY <3>1, <3>2
    <3>4. Ahead(table', req'.desc, <<stamp'[k], k>>, <<stamp'[j], j>>)
      BY <1>1, <1>2, <3>3 DEF RowAhead
    <3> QED BY <3>1, <3>2, <3>4 DEF Before, RowAhead
  <2> QED BY <2>2, <2>3
<1>6. NoneCame(j)' => NoneCame(j) /\ Before(j)' \subseteq Before(j)
  <2> SUFFICES ASSUME NoneCame(j)' PROVE NoneCame(j) /\ Before(j)' \subseteq Before(j)
    OBVIOUS
  <2>1. \A row \in req'.came : ~RowAhead(row, j)
    BY <1>3 DEF NoneCame
  <2>2. NoneCame(j)
    BY <1>1, <2>1 DEF NoneCame
  <2>3. ASSUME NEW k \in Before(j)' PROVE k \in Before(j)
    <3>1. k \in Listed' /\ k # j /\ Ahead(table', req'.desc, <<stamp'[k], k>>, <<stamp'[j], j>>)
      BY <2>3 DEF Before, RowAhead
    <3>2. RowAhead(<<stamp'[k], k>>, j)
      BY <1>1, <1>2, <3>1 DEF RowAhead
    <3>3. k \in Listed /\ stamp'[k] = stamp[k]
      BY <1>1, <2>1, <3>1, <3>2
    <3> QED BY <3>1, <3>2, <3>3 DEF Before
  <2> QED BY <2>2, <2>3
<1>7. IsFiniteSet(Before(j)) /\ Cardinality(Before(j)) \in Nat
  BY RankType
<1>8. IsFiniteSet(Before(j)') /\ Cardinality(Before(j)') \in Nat
  <2>1. Before(j)' \in SUBSET Jobs
    BY DEF Before, Listed, RequestInv, Request
  <2> QED BY <2>1, JobsFinite
<1>9. NoneLeft(j)' => Cardinality(Before(j)) <= Cardinality(Before(j)')
  BY <1>5, <1>8, FS_Subset
<1>10. NoneCame(j)' => Cardinality(Before(j)') <= Cardinality(Before(j))
  BY <1>6, <1>7, FS_Subset
<1>11. /\ NoneLeft(j) => Has(req.got, j)
                         \/ (req.pc = "list" /\ Cardinality(Before(j)) >= req.offset)
       /\ NoneCame(j) => /\ AtMostOnce(req.got, j)
                         /\ Has(req.got, j) /\ req.pc = "list" => Cardinality(Before(j)) < req.offset
  BY <1>1, <1>2, <1>4 DEF WalkInv, RowWalked
<1>12. req.offset \in Nat
  BY DEF RequestInv, Request
<1>13. NoneLeft(j)' => Has(req.got, j) \/ (req.pc = "list" /\ Cardinality(Before(j)') >= req.offset)
  BY <1>5, <1>7, <1>8, <1>9, <1>11, <1>12
<1>14. NoneCame(j)' => /\ AtMostOnce(req.got, j)
                       /\ Has(req.got, j) /\ req.pc = "list" => Cardinality(Before(j)') < req.offset
  BY <1>6, <1>7, <1>8, <1>10, <1>11, <1>12
<1> QED BY <1>2, <1>13, <1>14

LEMMA WalkStep ==
    ASSUME TableInv, RequestInv, SightInv, WalkInv, [ListNext]_listVars, RequestInv'
    PROVE  WalkInv'
<1> SUFFICES ASSUME req'.op = "walk" PROVE WalkInv'
  BY DEF WalkInv
<1>1. CASE ReadArrived
  <2> SUFFICES ASSUME NEW j \in req'.steady PROVE RowWalked(j)'
    BY DEF WalkInv
  <2>1. req'.got = << >> /\ req'.offset = 0 /\ req'.pc = "list"
    BY <1>1 DEF ReadArrived
  <2>2. ~Has(req'.got, j) /\ AtMostOnce(req'.got, j)
    BY <2>1 DEF Has, AtMostOnce
  <2>3. Cardinality(Before(j)') \in Nat
    <3>1. Before(j)' \in SUBSET Jobs
      BY DEF Before, Listed, RequestInv, Request
    <3> QED BY <3>1, JobsFinite
  <2>4. Cardinality(Before(j)') >= req'.offset
    BY <2>1, <2>3
  <2> QED BY <2>1, <2>2, <2>4 DEF RowWalked
<1>2. CASE \E s \in Orders(Listed) : ReadForm(Slice(s, req.limit, req.offset))
  <2>1. req.op = "walk"
    BY <1>2 DEF ReadForm, SameSight
  <2> QED BY <1>2, <2>1, WalkReads
<1>3. CASE CountForm
  BY <1>3 DEF CountForm, SameSight
<1>4. CASE OthersChange /\ req.op \in Reads /\ ReadSees /\ SameRequest /\ req.pc # "answered"
  BY <1>4, WalkSees
<1>5. CASE UNCHANGED listVars
  <2> SUFFICES ASSUME NEW j \in req'.steady PROVE RowWalked(j)'
    BY DEF WalkInv
  <2>1. RowWalked(j)
    BY <1>5 DEF listVars, WalkInv
  <2>2. /\ Tied(j)' <=> Tied(j)
        /\ NoneLeft(j)' <=> NoneLeft(j)
        /\ NoneCame(j)' <=> NoneCame(j)
        /\ Before(j)' = Before(j)
    BY <1>5 DEF listVars, Tied, NoneLeft, NoneCame, Before, RowAhead, Row, Listed, Matches
  <2>3. req' = req
    BY <1>5 DEF listVars
  <2> QED BY <2>1, <2>2, <2>3 DEF RowWalked
<1> QED BY <1>1, <1>2, <1>3, <1>4, <1>5, ReadSteps DEF Reads

(* How often a row is returned. *)
LEMMA TimesReturned ==
    ASSUME RequestInv, NEW j
    PROVE  LET times == Cardinality({i \in DOMAIN req.got : req.got[i] = j}) IN
           /\ times \in Nat
           /\ Has(req.got, j) => times # 0
           /\ AtMostOnce(req.got, j) => times <= 1
<1> DEFINE S == {i \in DOMAIN req.got : req.got[i] = j}
<1>1. Len(req.got) \in Nat /\ DOMAIN req.got = 1 .. Len(req.got)
  BY DEF RequestInv, Request
<1>2. IsFiniteSet(1 .. Len(req.got))
  BY <1>1, FS_Interval
<1>3. S \in SUBSET (1 .. Len(req.got))
  BY <1>1
<1>4. Has(req.got, j) => S # {}
  BY DEF Has
<1>5. AtMostOnce(req.got, j) => S = {} \/ \E i : S = {i}
  BY DEF AtMostOnce
<1> HIDE DEF S
<1>6. IsFiniteSet(S) /\ Cardinality(S) \in Nat
  BY <1>2, <1>3, FS_Subset, FS_CardinalityType
<1>7. Cardinality(S) = 0 <=> S = {}
  BY <1>6, FS_EmptySet
<1>8. (\E i : S = {i}) => Cardinality(S) = 1
  BY <1>6, FS_Singleton
<1>9. AtMostOnce(req.got, j) => Cardinality(S) <= 1
  BY <1>5, <1>6, <1>7, <1>8
<1> QED BY <1>4, <1>6, <1>7, <1>9 DEF S

LEMMA WalkFollows ==
    ASSUME RequestInv, WalkInv
    PROVE  WalkReturnsEachOnce
<1> DEFINE Times(j) == Cardinality({i \in DOMAIN req.got : req.got[i] = j})
<1> SUFFICES ASSUME Answered("walk"), NEW j \in req.steady, ~Tied(j)
             PROVE  \/ Times(j) = 1
                    \/ Times(j) = 0 /\ \E row \in req.left : Precedes(row, Row(j))
                    \/ Times(j) > 1 /\ \E row \in req.came : Precedes(row, Row(j))
  BY DEF WalkReturnsEachOnce
<1>1. /\ NoneLeft(j) => Has(req.got, j)
      /\ NoneCame(j) => AtMostOnce(req.got, j)
  BY DEF Answered, WalkInv, RowWalked
<1>2. /\ ~NoneLeft(j) => \E row \in req.left : Precedes(row, Row(j))
      /\ ~NoneCame(j) => \E row \in req.came : Precedes(row, Row(j))
  BY AheadIsPrecedes DEF NoneLeft, NoneCame, RowAhead, Row
<1>3. /\ Times(j) \in Nat
      /\ Has(req.got, j) => Times(j) # 0
      /\ AtMostOnce(req.got, j) => Times(j) <= 1
  BY TimesReturned
<1> HIDE DEF Times
<1>4. Times(j) = 0 \/ Times(j) = 1 \/ Times(j) > 1
  BY <1>3
<1>5. Times(j) > 1 => ~(Times(j) <= 1)
  BY <1>3
<1> QED BY <1>1, <1>2, <1>3, <1>4, <1>5

-----------------------------------------------------------------------------
(* What requests that read keep, in every table. *)
ReadInv == ListingInv /\ SightInv /\ PageInv /\ EnvelopeAgrees /\ WalkInv

LEMMA ReadInvAlways == ListSpec => []ReadInv
<1>1. ListInit => ReadInv
  <2> SUFFICES ASSUME ListInit PROVE ReadInv
    OBVIOUS
  <2>1. SightInv /\ PageInv /\ EnvelopeAgrees /\ WalkInv
    BY DEF ListInit, NoRequest, SightInv, PageInv, EnvelopeAgrees, Answered, WalkInv, Reads
  <2> QED BY <2>1, InitTypes DEF ReadInv, ListingInv
<1>2. ReadInv /\ [ListNext]_listVars => ReadInv'
  <2> SUFFICES ASSUME ReadInv, [ListNext]_listVars PROVE ReadInv'
    OBVIOUS
  <2>1. ListingInv'
    BY ListingInvStep DEF ReadInv
  <2>2. TableInv /\ RequestInv /\ SightInv /\ PageInv /\ EnvelopeAgrees /\ WalkInv /\ RequestInv'
    BY <2>1 DEF ReadInv, ListingInv
  <2>3. SightInv'
    BY <2>2, SightStep
  <2>4. PageInv' /\ EnvelopeAgrees'
    BY <2>2, <2>3, PageStep
  <2>5. WalkInv'
    BY <2>2, WalkStep
  <2> QED BY <2>1, <2>3, <2>4, <2>5 DEF ReadInv
<1> QED BY <1>1, <1>2, PTL DEF ListSpec

(* Types: a request of any kind, at any of its steps, holds rows and *)
(* positions that exist.                                             *)
THEOREM ListingTypes == ListSpec => []ListTypeOK
<1>1. ListingInv => ListTypeOK
  <2> SUFFICES ASSUME ListingInv PROVE ListTypeOK
    OBVIOUS
  <2>1. TableInv /\ req \in Request /\ req.pos \in 1 .. Len(req.got) + 1
    BY DEF ListingInv, RequestInv, PhaseInv
  <2> QED BY <2>1 DEF TableInv, Request, ListTypeOK, Statuses
<1> QED BY <1>1, ListingInvAlways, PTL

(* The items and the total of an envelope come from two calls, with any     *)
(* changes between them: total is at least what the page shows to exist, up *)
(* to the rows that left, and at most what a page that is not full shows,   *)
(* up to the rows that came.  For every table, filter, offset and limit.    *)
THEOREM EnvelopesAgree == ListSpec => []EnvelopeAgrees
<1>1. ReadInv => EnvelopeAgrees
  BY DEF ReadInv
<1> QED BY <1>1, ReadInvAlways, PTL

(* A client that walks through the pages of a table that changes gets every *)
(* row that was listed all the time exactly once; a row is passed over only *)
(* if one before it left, repeated only if one came before it, unless its   *)
(* stamp ties in a listing that does not order ties.  For every table,      *)
(* filter, direction and page size.                                         *)
THEOREM WalksReturnEachOnce == ListSpec => []WalkReturnsEachOnce
<1>1. ReadInv => WalkReturnsEachOnce
  BY WalkFollows DEF ReadInv, ListingInv
<1> QED BY <1>1, ReadInvAlways, PTL

=============================================================================
