----------------------------- MODULE HubProofs -----------------------------
(***************************************************************************)
(* Proofs about two registers of the Hub.                                  *)
(*                                                                         *)
(* HistoryLedger, for any sessions, event ids, bodies, owners and ranks:   *)
(* the ledger verifies, a repeated append is recognised, a page is whole,  *)
(* and the tables implement the append-only log.                           *)
(*                                                                         *)
(* CapabilityAuthority, for any keys, operations, requests, permissions,   *)
(* manifests and bounds: what a subject holds is declared, and rights      *)
(* widen only under an approved key.                                       *)
(***************************************************************************)
EXTENDS CapabilityAuthority, HistoryLedger, FiniteSetTheorems, TLAPS

\* Rows whose sequence numbers are a .. b, each once.
Dense(E, a, b) ==
  /\ \A e \in E : e.seq \in a .. b
  /\ \A i \in a .. b : \E e \in E : e.seq = i
  /\ \A e, f \in E : e.seq = f.seq => e = f

LEMMA DenseCount ==
  ASSUME NEW E, NEW a \in Int, NEW b \in Int, Dense(E, a, b)
  PROVE  /\ IsFiniteSet(E)
         /\ Cardinality(E) = IF a > b THEN 0 ELSE b - a + 1
<1> DEFINE at == [i \in a .. b |-> CHOOSE e \in E : e.seq = i]
<1>1. \A i \in a .. b : at[i] \in E /\ at[i].seq = i
  BY DEF Dense
<1>2. at \in Bijection(a .. b, E)
  <2>1. at \in [a .. b -> E]
    BY <1>1
  <2>2. \A i, j \in a .. b : at[i] = at[j] => i = j
    BY <1>1
  <2>3. \A e \in E : \E i \in a .. b : at[i] = e
    BY <1>1 DEF Dense
  <2> HIDE DEF at
  <2> QED
    BY <2>1, <2>2, <2>3 DEF Bijection, Injection, Surjection, IsInjective
<1>3. ExistsBijection(a .. b, E)
  BY <1>2 DEF ExistsBijection
<1> QED
  BY <1>3, FS_Interval, FS_Bijection

LEMMA DenseBetween ==
  ASSUME NEW E, NEW a \in Int, NEW b \in Int, Dense(E, a, b), NEW low \in Int, NEW high \in Int
  PROVE  Dense(Between(E, low, high), Larger(a, low), Smaller(b, high))
  BY DEF Dense, Between, Larger, Smaller

LEMMA LastIsGreatest ==
  ASSUME NEW E, NEW e \in E,
         \A f \in E : f.seq \in Int /\ f.seq <= e.seq /\ (f.seq = e.seq => f = e)
  PROVE  LastHash(E) = e
<1>1. \A f \in E : (\A h \in E : h.seq <= f.seq) => f = e
  OBVIOUS
<1> QED
  BY <1>1 DEF LastHash

LEMMA NoLast == LastHash({}) = Absent
  BY DEF LastHash

LEMMA DenseEarliest ==
  ASSUME NEW E, NEW a \in Int, NEW b \in Int, Dense(E, a, b), NEW n \in Int
  PROVE  Earliest(E, n) = {e \in E : e.seq < a + n}
<1> SUFFICES ASSUME NEW e \in E
             PROVE  Cardinality({f \in E : f.seq < e.seq}) = e.seq - a
  BY DEF Earliest, Dense
<1>1. e.seq \in a .. b
  BY DEF Dense
<1>2. Dense({f \in E : f.seq < e.seq}, a, e.seq - 1)
  BY <1>1 DEF Dense
<1> QED
  BY <1>1, <1>2, DenseCount

-----------------------------------------------------------------------------
(* The inductive invariant. *)

Rows == hot \cup UNION {g.events : g \in segments}

\* The hash chain of a session, its archived prefix, and the row that names both
\* ends.
Chained(row, archived, recent) ==
  /\ row.class \in Classes \cup {Absent}
  /\ row.next \in Nat /\ row.through \in -1 .. row.next - 1
  /\ row.class = Absent => row.next = 0
  /\ Dense(archived, 0, row.through) /\ Dense(recent, row.through + 1, row.next - 1)
  /\ \A e \in archived \cup recent : e.seq = 0 => e.prev = Absent
  /\ \A e, f \in archived \cup recent : f.seq = e.seq + 1 => f.prev = e
  /\ row.next = 0 => row.head = Absent
  /\ \A e \in archived \cup recent : e.seq = row.next - 1 => row.head = e
  /\ row.through = -1 => row.archiveHead = Absent
  /\ \A e \in archived : e.seq = row.through => row.archiveHead = e
SessionChained(s) == Chained(sessions[s], Archived(s), HotOf(s))

\* The index entry of event e in segment g.
Entry(e, g) == [id |-> e.id, session |-> g.session, seq |-> e.seq, segment |-> g.first]

Indexed ==
  /\ \A g \in segments : g.session \in Sessions /\ g.first \in Int /\ g.last \in Int
  /\ \A g \in segments : \A e \in g.events :
       /\ IsEvent(e) /\ e.session = g.session /\ e.seq \in g.first .. g.last
       /\ Entry(e, g) \in index
  /\ \A x \in index : \E g \in segments : \E e \in g.events : x = Entry(e, g)
  /\ \A g, h \in segments : g.events \cap h.events # {} => g = h

LedgerInv ==
  /\ DOMAIN sessions = Sessions
  /\ \A e \in hot : IsEvent(e)
  /\ Indexed
  /\ \A e, f \in Rows : e.id = f.id => e = f
  /\ \A s \in Sessions : SessionChained(s)

LEMMA ArchivedRows ==
  ASSUME Indexed, NEW s \in Sessions
  PROVE  /\ Archived(s) = {e \in UNION {g.events : g \in segments} : e.session = s}
         /\ Log(s) = {e \in Rows : e.session = s}
<1>1. Archived(s) = {e \in UNION {g.events : g \in segments} : e.session = s}
  BY DEF Archived, SegmentsOf, Indexed
<1> QED
  BY <1>1 DEF Log, HotOf, Rows

LEMMA LedgerRows ==
  ASSUME Indexed, \A e \in hot : IsEvent(e)
  PROVE  /\ Ledger = Rows
         /\ \A e \in Rows : IsEvent(e)
<1>1. \A e \in Rows : IsEvent(e)
  BY DEF Rows, Indexed
<1>2. \A s \in Sessions : Log(s) = {e \in Rows : e.session = s}
  BY ArchivedRows
<1> QED
  BY <1>1, <1>2 DEF Ledger, IsEvent

LEMMA LogDense ==
  ASSUME NEW s, SessionChained(s)
  PROVE  Dense(Log(s), 0, sessions[s].next - 1)
  BY DEF SessionChained, Chained, Log, Dense

LEMMA ChainVerifies == ASSUME NEW s, SessionChained(s) PROVE Verifies(s)
<1> DEFINE row == sessions[s]
           n == Cardinality(Archived(s))
           m == Cardinality(HotOf(s))
<1>1. /\ row.next \in Nat /\ row.through \in -1 .. row.next - 1
      /\ Dense(Archived(s), 0, row.through) /\ Dense(HotOf(s), row.through + 1, row.next - 1)
  BY DEF SessionChained, Chained
<1>2. n = row.through + 1 /\ m = row.next - 1 - row.through
  <2> DEFINE a == row.through
             b == row.through + 1
             c == row.next - 1
  <2>1. /\ a \in Int /\ b \in Int /\ c \in Int
        /\ Dense(Archived(s), 0, a) /\ Dense(HotOf(s), b, c)
    BY <1>1
  <2> HIDE DEF a, b, c
  <2>2. n = (IF 0 > a THEN 0 ELSE a - 0 + 1) /\ m = (IF b > c THEN 0 ELSE c - b + 1)
    BY <2>1, DenseCount
  <2> QED
    BY <1>1, <2>2 DEF a, b, c
<1>3. {e.seq : e \in Archived(s)} = 0 .. n - 1 /\ {e.seq : e \in HotOf(s)} = n .. n + m - 1
  BY <1>1, <1>2 DEF Dense
<1>4. Cardinality({e.seq : e \in HotOf(s)}) = m
  <2> DEFINE b == n + m - 1
  <2>1. n \in Int /\ b \in Int /\ m = IF n > b THEN 0 ELSE b - n + 1
    BY <1>1, <1>2
  <2>2. {e.seq : e \in HotOf(s)} = n .. b
    BY <1>3
  <2> HIDE DEF b, n, m
  <2> QED
    BY <2>1, <2>2, FS_Interval
<1>5. ASSUME NEW e \in Log(s) PROVE e.prev = LastHash(Between(Log(s), 0, e.seq - 1))
  <2> DEFINE E == Between(Log(s), 0, e.seq - 1)
  <2>1. Dense(Log(s), 0, row.next - 1) /\ e.seq \in 0 .. row.next - 1
    BY LogDense DEF Dense
  <2>2. CASE e.seq = 0
    <3>1. E = {}
      BY <2>1, <2>2 DEF Dense, Between
    <3> QED
      BY <2>2, <3>1, NoLast DEF SessionChained, Chained, Log
  <2>3. CASE e.seq > 0
    <3>0. e.seq - 1 \in 0 .. row.next - 1
      BY <1>1, <2>1, <2>3
    <3>1. PICK p \in Log(s) : p.seq = e.seq - 1
      BY <2>1, <3>0 DEF Dense
    <3>2. p \in E /\ \A f \in E : f.seq \in Int /\ f.seq <= p.seq /\ (f.seq = p.seq => f = p)
      BY <2>1, <2>3, <3>1 DEF Dense, Between
    <3>3. LastHash(E) = p
      BY <3>2, LastIsGreatest
    <3>4. e.seq = p.seq + 1
      BY <2>1, <3>1
    <3> QED
      BY <3>1, <3>3, <3>4 DEF SessionChained, Chained, Log
  <2> QED
    BY <2>1, <2>2, <2>3
<1>6. row.archiveHead = LastHash(Archived(s))
  <2>1. CASE row.through = -1
    <3>1. Archived(s) = {}
      BY <1>1, <2>1 DEF Dense
    <3> QED
      BY <2>1, <3>1, NoLast DEF SessionChained, Chained
  <2>2. CASE row.through # -1
    <3>1. PICK e \in Archived(s) : e.seq = row.through
      BY <1>1, <2>2 DEF Dense
    <3>2. \A f \in Archived(s) : f.seq \in Int /\ f.seq <= e.seq /\ (f.seq = e.seq => f = e)
      BY <1>1, <3>1 DEF Dense
    <3>3. LastHash(Archived(s)) = e
      BY <3>2, LastIsGreatest
    <3> QED
      BY <3>1, <3>3 DEF SessionChained, Chained, Log
  <2> QED
    BY <2>1, <2>2
<1>7. row.head = LastHash(Log(s))
  <2>1. Dense(Log(s), 0, row.next - 1)
    BY LogDense
  <2>2. CASE row.next = 0
    <3>1. Log(s) = {}
      BY <1>1, <2>1, <2>2 DEF Dense
    <3> QED
      BY <2>2, <3>1, NoLast DEF SessionChained, Chained, Log
  <2>3. CASE row.next # 0
    <3>1. PICK e \in Log(s) : e.seq = row.next - 1
      BY <1>1, <2>1, <2>3 DEF Dense
    <3>2. \A f \in Log(s) : f.seq \in Int /\ f.seq <= e.seq /\ (f.seq = e.seq => f = e)
      BY <1>1, <2>1, <3>1 DEF Dense
    <3>3. LastHash(Log(s)) = e
      BY <3>2, LastIsGreatest
    <3> QED
      BY <3>1, <3>3 DEF SessionChained, Chained, Log
  <2> QED
    BY <2>2, <2>3
<1> HIDE DEF n, m, row
<1>8. row.through = n - 1 /\ row.next = n + m
  BY <1>1, <1>2
<1> QED
  BY <1>3, <1>4, <1>5, <1>6, <1>7, <1>8 DEF Verifies, Consistent, Log, n, m, row

\* The index leads to every archived event, and to no other of its id.
LEMMA LookupFinds == ASSUME LedgerInv, NEW e \in Rows PROVE Lookup(e.id) = {e}
<1>1. \A f \in Rows : f.id = e.id => f = e
  BY DEF LedgerInv
<1>2. CASE e \in hot
  <2>1. {f \in hot : f.id = e.id} = {e}
    BY <1>1, <1>2 DEF Rows
  <2> QED
    BY <2>1 DEF Lookup
<1>3. CASE e \notin hot
  <2>1. {f \in hot : f.id = e.id} = {}
    BY <1>1, <1>3 DEF Rows
  <2>2. PICK g \in segments : e \in g.events
    BY <1>3 DEF Rows
  <2>3. Entry(e, g) \in index
    BY <2>2 DEF LedgerInv, Indexed
  <2>4. /\ Entry(e, g).id = e.id /\ Entry(e, g).seq = e.seq
        /\ Entry(e, g).segment = g.first /\ Entry(e, g).session = g.session
    BY DEF Entry
  <2>5. e \in Lookup(e.id)
    BY <2>1, <2>2, <2>3, <2>4 DEF Lookup
  <2>6. \A f \in Lookup(e.id) : f = e
    BY <1>1, <2>1 DEF Lookup, Rows
  <2> QED
    BY <2>5, <2>6
<1> QED
  BY <1>2, <1>3

LEMMA InvVerifies == LedgerInv => LedgerVerifies
<1> SUFFICES ASSUME LedgerInv PROVE LedgerVerifies
  OBVIOUS
<1>1. LedgerTypeOK
  <2>1. \A s \in Sessions : Created(s) =>
          /\ sessions[s].class \in Classes
          /\ sessions[s].next \in Nat /\ sessions[s].through \in Nat \cup {-1}
    BY DEF LedgerInv, SessionChained, Chained, Created
  <2>2. ASSUME NEW e \in hot PROVE IsEvent(e) /\ Created(e.session)
    <3>1. IsEvent(e) /\ e.session \in Sessions /\ e \in HotOf(e.session)
      BY DEF LedgerInv, IsEvent, HotOf
    <3>2. SessionChained(e.session)
      BY <3>1 DEF LedgerInv
    <3>3. sessions[e.session].next # 0
      BY <3>1, <3>2 DEF SessionChained, Chained, Dense
    <3> QED
      BY <3>1, <3>2, <3>3 DEF SessionChained, Chained, Created
  <2>3. \A g \in segments : g.session \in Sessions /\ \A e \in g.events : IsEvent(e)
    BY DEF LedgerInv, Indexed
  <2>4. \A e1, e2 \in hot : e1.id = e2.id => e1 = e2
    BY DEF LedgerInv, Rows
  <2>5. ASSUME NEW x \in index, NEW y \in index, x.id = y.id PROVE x = y
    <3>1. PICK g \in segments : \E e \in g.events : x = Entry(e, g)
      BY DEF LedgerInv, Indexed
    <3>2. PICK e \in g.events : x = Entry(e, g)
      BY <3>1
    <3>3. PICK h \in segments : \E f \in h.events : y = Entry(f, h)
      BY DEF LedgerInv, Indexed
    <3>4. PICK f \in h.events : y = Entry(f, h)
      BY <3>3
    <3>5. e = f
      BY <2>5, <3>2, <3>4 DEF LedgerInv, Rows, Entry
    <3>6. g = h
      BY <3>5 DEF LedgerInv, Indexed
    <3> QED
      BY <3>2, <3>4, <3>5, <3>6
  <2> QED
    BY <2>1, <2>2, <2>3, <2>4, <2>5 DEF LedgerTypeOK, LedgerInv
<1>2. \A s \in Sessions : Verifies(s)
  BY ChainVerifies DEF LedgerInv
<1> QED
  BY <1>1, <1>2 DEF LedgerVerifies

LEMMA InvDeduplicates == LedgerInv => RetryDeduplicated
<1> SUFFICES ASSUME LedgerInv, NEW e \in Ledger, NEW s \in Sessions, NEW b \in Bodies, NEW expected
             PROVE  AppendResult(s, expected, [id |-> e.id, body |-> b]) =
                      IF s = e.session /\ b = e.body THEN "deduplicated" ELSE "event_conflict"
  BY DEF RetryDeduplicated
<1>1. e \in Rows
  BY LedgerRows DEF LedgerInv
<1>2. Lookup(e.id) = {e}
  BY <1>1, LookupFinds
<1> QED
  BY <1>2 DEF AppendResult

LEMMA InvReads == LedgerInv => ReadIsSlice
<1> SUFFICES ASSUME LedgerInv, NEW s \in Sessions, Created(s),
                    NEW after \in -1 .. sessions[s].next, NEW through \in -1 .. sessions[s].next,
                    NEW limit \in Int, limit > 0
             PROVE  ReadRange(s, after, through, limit) =
                      Earliest(Between(Log(s), after + 1, through), limit)
  BY DEF ReadIsSlice
<1> DEFINE row == sessions[s]
           low == after + 1
           A == Between(Archived(s), low, through)
           H == Between(HotOf(s), low, through)
           L == Between(Log(s), low, through)
           P == Earliest(A, limit)
           c == Cardinality(P)
           topA == Smaller(row.through, through)
           topL == Smaller(row.next - 1, through)
           lowH == Larger(row.through + 1, low)
<1>1. /\ row.next \in Nat /\ row.through \in -1 .. row.next - 1
      /\ Dense(Archived(s), 0, row.through) /\ Dense(HotOf(s), row.through + 1, row.next - 1)
      /\ Dense(Log(s), 0, row.next - 1)
  BY LogDense DEF LedgerInv, SessionChained, Chained
<1>2. low \in Nat /\ topA \in Int /\ topL \in Int /\ lowH \in Int /\ through \in Int /\ limit \in Int
  BY <1>1 DEF Larger, Smaller
<1>3. Dense(A, low, topA) /\ Dense(H, lowH, topL) /\ Dense(L, low, topL)
  BY <1>1, <1>2 DEF Dense, Between, Larger, Smaller
<1>4. L = A \cup H
  BY DEF Log, Between
<1>5. Between(UNION {g.events : g \in {h \in SegmentsOf(s) : h.last > after /\ h.first <= through}},
              low, through) = A
  <2>1. \A g \in SegmentsOf(s) : g.first \in Int /\ g.last \in Int /\ \A e \in g.events : e.seq \in g.first .. g.last
    BY DEF LedgerInv, Indexed, SegmentsOf
  <2>2. ASSUME NEW g \in SegmentsOf(s), NEW e \in g.events, low <= e.seq, e.seq <= through
        PROVE  g.last > after /\ g.first <= through
    BY <1>2, <2>1, <2>2
  <2> QED
    BY <2>2 DEF Between, Archived
<1> HIDE DEF low, A, H, L, topA, topL, lowH
<1>6. P = {e \in A : e.seq < low + limit}
  BY <1>2, <1>3, DenseEarliest
<1>7. c = IF low > Smaller(topA, low + limit - 1) THEN 0 ELSE Smaller(topA, low + limit - 1) - low + 1
  <2> DEFINE b == Smaller(topA, low + limit - 1)
  <2>1. b \in Int /\ Dense(P, low, b)
    BY <1>2, <1>3, <1>6 DEF Dense, Smaller
  <2> HIDE DEF b, P
  <2>2. c = IF low > b THEN 0 ELSE b - low + 1
    BY <1>2, <2>1, DenseCount
  <2> QED
    BY <2>2 DEF b
<1>8. Earliest(L, limit) = {e \in L : e.seq < low + limit}
  BY <1>2, <1>3, DenseEarliest
<1>9. c \in Int
  BY <1>2, <1>7 DEF Smaller
<1> HIDE DEF c
<1>10. Earliest(H, limit - c) = {e \in H : e.seq < lowH + (limit - c)}
  BY <1>2, <1>3, <1>9, DenseEarliest
<1>11. ASSUME NEW e \in H PROVE e.seq < lowH + (limit - c) <=> e.seq < low + limit
  <2>1. e.seq \in Int /\ lowH <= e.seq /\ e.seq <= topL
    BY <1>2, <1>3 DEF Dense
  <2> QED
    BY <1>1, <1>2, <1>7, <1>9, <2>1 DEF topA, topL, lowH, Larger, Smaller
<1>12. ReadRange(s, after, through, limit) = P \cup Earliest(H, limit - c)
  BY <1>5 DEF ReadRange, low, A, H, c
<1> HIDE DEF P
<1>13. P \cup Earliest(H, limit - c) = {e \in L : e.seq < low + limit}
  BY <1>4, <1>6, <1>10, <1>11
<1> QED
  BY <1>8, <1>12, <1>13 DEF L, low

-----------------------------------------------------------------------------
(* Every transaction keeps the invariant. *)

LEMMA InitLedgerInv == LedgerInit => LedgerInv
<1> SUFFICES ASSUME LedgerInit PROVE LedgerInv
  OBVIOUS
<1>1. ASSUME NEW s \in Sessions PROVE SessionChained(s)
  <2>1. sessions[s] = EmptyRow(Absent) /\ Archived(s) = {} /\ HotOf(s) = {}
    BY DEF LedgerInit, Archived, SegmentsOf, HotOf
  <2> QED
    BY <2>1 DEF SessionChained, Chained, Dense, EmptyRow, Row
<1> QED
  BY <1>1 DEF LedgerInit, LedgerInv, Indexed, Rows

\* A session none of whose rows a transaction touches.
LEMMA Untouched ==
  ASSUME NEW s, SessionChained(s),
         sessions'[s] = sessions[s], Archived(s)' = Archived(s), HotOf(s)' = HotOf(s)
  PROVE  SessionChained(s)'
  BY DEF SessionChained

\* The chain does not depend on the labels of the session.
LEMMA Relabelled ==
  ASSUME NEW row, NEW class \in Classes, NEW A, NEW H, Chained(row, A, H)
  PROVE  Chained(Row(class, row.next, row.head, row.through, row.archiveHead), A, H)
  BY RanksAndAbsent DEF Chained, Row

LEMMA Advances ==
  ASSUME NEW row, NEW e, NEW A, NEW H, Chained(row, A, H), row.class \in Classes,
         e.seq = row.next, e.prev = row.head
  PROVE  Chained(Advanced(row, e), A, H \cup {e})
<1> DEFINE new == Advanced(row, e)
           L == A \cup H
           N == L \cup {e}
<1>1. /\ row.next \in Nat /\ row.through \in -1 .. row.next - 1
      /\ Dense(A, 0, row.through) /\ Dense(H, row.through + 1, row.next - 1)
  BY DEF Chained
<1>2. /\ new.class = row.class /\ new.next = row.next + 1 /\ new.head = e
      /\ new.through = row.through /\ new.archiveHead = row.archiveHead
  BY DEF Advanced, Row
<1>3. Dense(H \cup {e}, row.through + 1, row.next)
  BY <1>1 DEF Dense
<1>4. \A f \in L : f.seq \in 0 .. row.next - 1
  BY <1>1 DEF Dense
<1>5. ASSUME NEW f \in N, f.seq = 0 PROVE f.prev = Absent
  BY <1>1, <1>5 DEF Chained
<1>6. ASSUME NEW f \in N, NEW g \in N, g.seq = f.seq + 1 PROVE g.prev = f
  BY <1>1, <1>4, <1>6 DEF Chained
<1>7. ASSUME NEW f \in N, f.seq = row.next PROVE f = e
  BY <1>1, <1>4, <1>7
<1> HIDE DEF new
<1>8. /\ new.class \in Classes \cup {Absent} /\ new.next \in Nat
      /\ new.through \in -1 .. new.next - 1 /\ (new.class = Absent => new.next = 0)
      /\ Dense(H \cup {e}, new.through + 1, new.next - 1)
  BY <1>1, <1>2, <1>3, RanksAndAbsent
<1>9. /\ new.next # 0 /\ (\A f \in N : f.seq = new.next - 1 => new.head = f)
      /\ (new.through = -1 => new.archiveHead = Absent)
      /\ \A f \in A : f.seq = new.through => new.archiveHead = f
  BY <1>1, <1>2, <1>7 DEF Chained
<1> QED
  BY <1>1, <1>2, <1>5, <1>6, <1>8, <1>9 DEF Chained, new

LEMMA NewId ==
  ASSUME LedgerInv, NEW s, NEW expected, NEW d, AppendResult(s, expected, d) = "appended"
  PROVE  Created(s) /\ \A e \in Rows : e.id # d.id
<1>1. Lookup(d.id) = {} /\ Created(s)
  BY DEF AppendResult
<1>2. ASSUME NEW e \in Rows, e.id = d.id PROVE FALSE
  BY <1>1, <1>2, LookupFinds
<1> QED
  BY <1>1, <1>2

\* What a transaction that only changes the row of one session keeps.
LEMMA RowChanged ==
  ASSUME LedgerInv, NEW s \in Sessions, NEW row, sessions' = [sessions EXCEPT ![s] = row],
         UNCHANGED <<hot, segments, index>>, Chained(row, Archived(s), HotOf(s))
  PROVE  LedgerInv'
<1>1. ASSUME NEW t \in Sessions PROVE Archived(t)' = Archived(t) /\ HotOf(t)' = HotOf(t)
  BY DEF Archived, SegmentsOf, HotOf
<1>2. ASSUME NEW t \in Sessions PROVE SessionChained(t)'
  <2>1. SessionChained(t) /\ sessions'[t] = IF t = s THEN row ELSE sessions[t]
    BY DEF LedgerInv
  <2> QED
    BY <1>1, <2>1 DEF SessionChained
<1>3. Indexed' /\ Rows' = Rows
  BY DEF LedgerInv, Indexed, Rows
<1> QED
  BY <1>2, <1>3 DEF LedgerInv

LEMMA CreateKeeps ==
  ASSUME LedgerInv, NEW s \in Sessions, NEW class \in Classes, CreateSession(s, class)
  PROVE  LedgerInv'
<1>1. Chained(sessions[s], Archived(s), HotOf(s)) /\ sessions[s].class = Absent
  BY DEF LedgerInv, SessionChained, CreateSession, Created
<1>2. Chained(EmptyRow(class), Archived(s), HotOf(s))
  <2>1. sessions[s].next = 0 /\ sessions[s].through = -1
    BY <1>1 DEF Chained
  <2> QED
    BY <1>1, <2>1, RanksAndAbsent DEF Chained, EmptyRow, Row, Dense
<1> QED
  BY <1>2, RowChanged DEF CreateSession

LEMMA EnsureKeeps ==
  ASSUME LedgerInv, NEW s \in Sessions, NEW class \in Classes, EnsureSession(s, class)
  PROVE  LedgerInv'
<1> DEFINE row == sessions[s]
           strict == [owner |-> row.class.owner,
                      sensitivity |-> Larger(row.class.sensitivity, class.sensitivity),
                      sync |-> Smaller(row.class.sync, class.sync)]
           new == Row(strict, row.next, row.head, row.through, row.archiveHead)
<1>1. Chained(row, Archived(s), HotOf(s)) /\ row.class \in Classes
  BY DEF LedgerInv, SessionChained, Chained, EnsureSession, Created
<1>2. strict \in Classes
  BY <1>1 DEF Classes, Larger, Smaller
<1>3. Chained(new, Archived(s), HotOf(s))
  BY <1>1, <1>2, Relabelled
<1>4. sessions' = [sessions EXCEPT ![s] = new] /\ UNCHANGED <<hot, segments, index>>
  BY DEF EnsureSession
<1> HIDE DEF new
<1> QED
  BY <1>3, <1>4, RowChanged

\* What a transaction keeps that appends the events N to the chain of session s.
LEMMA EventsAdded ==
  ASSUME LedgerInv, NEW s \in Sessions, NEW row, NEW N,
         sessions' = [sessions EXCEPT ![s] = row], hot' = hot \cup N, UNCHANGED <<segments, index>>,
         \A e \in N : IsEvent(e) /\ e.session = s,
         \A e \in N : \A f \in Rows \cup N : e.id = f.id => e = f,
         Chained(row, Archived(s), HotOf(s) \cup N)
  PROVE  LedgerInv'
<1>1. ASSUME NEW t \in Sessions
      PROVE  Archived(t)' = Archived(t) /\ HotOf(t)' = IF t = s THEN HotOf(t) \cup N ELSE HotOf(t)
  BY DEF Archived, SegmentsOf, HotOf
<1>2. ASSUME NEW t \in Sessions PROVE SessionChained(t)'
  <2>1. SessionChained(t) /\ sessions'[t] = IF t = s THEN row ELSE sessions[t]
    BY DEF LedgerInv
  <2> QED
    BY <1>1, <2>1 DEF SessionChained
<1>3. Indexed' /\ Rows' = Rows \cup N
  BY DEF LedgerInv, Indexed, Rows
<1>4. \A e, f \in Rows' : e.id = f.id => e = f
  BY <1>3 DEF LedgerInv
<1>5. \A e \in hot' : IsEvent(e)
  BY DEF LedgerInv
<1>6. DOMAIN sessions' = Sessions
  BY DEF LedgerInv
<1> QED
  BY <1>2, <1>3, <1>4, <1>5, <1>6 DEF LedgerInv

LEMMA AppendKeeps ==
  ASSUME LedgerInv, NEW s \in Sessions, NEW expected, NEW d \in Drafts, AppendEvent(s, expected, d)
  PROVE  LedgerInv'
<1> DEFINE row == sessions[s]
           e == Event(s, row, d)
           new == Advanced(row, e)
<1>1. Created(s) /\ \A f \in Rows : f.id # d.id
  BY NewId DEF AppendEvent
<1>2. Chained(row, Archived(s), HotOf(s)) /\ row.class \in Classes /\ row.next \in Nat
  BY <1>1 DEF LedgerInv, SessionChained, Chained, Created
<1>3. e.id = d.id /\ e.seq = row.next /\ e.prev = row.head /\ e.session = s /\ IsEvent(e)
  BY <1>2 DEF Event, Drafts, IsEvent
<1>4. sessions' = [sessions EXCEPT ![s] = new] /\ hot' = hot \cup {e} /\ UNCHANGED <<segments, index>>
  BY DEF AppendEvent, LedgerInv
<1> HIDE DEF e
<1>5. Chained(new, Archived(s), HotOf(s) \cup {e})
  BY <1>2, <1>3, Advances
<1> HIDE DEF new
<1>6. \A f \in Rows \cup {e} : e.id = f.id => e = f
  BY <1>1, <1>3
<1> QED
  BY <1>3, <1>4, <1>5, <1>6, EventsAdded

LEMMA AppendBatchKeeps ==
  ASSUME LedgerInv, NEW s \in Sessions, NEW d1 \in Drafts, NEW d2 \in Drafts,
         AppendBatch(s, d1, d2)
  PROVE  LedgerInv'
<1> DEFINE row == sessions[s]
           e == Event(s, row, d1)
           mid == Advanced(row, e)
           f == Event(s, mid, d2)
           new == Advanced(mid, f)
<1>1. /\ Created(s) /\ \A g \in Rows : g.id # d1.id
      /\ \A g \in Rows : g.id # d2.id
      /\ d1.id # d2.id
  BY NewId DEF AppendBatch
<1>2. Chained(row, Archived(s), HotOf(s)) /\ row.class \in Classes /\ row.next \in Nat
  BY <1>1 DEF LedgerInv, SessionChained, Chained, Created
<1>3. e.id = d1.id /\ e.seq = row.next /\ e.prev = row.head /\ e.session = s /\ IsEvent(e)
  BY <1>2 DEF Event, Drafts, IsEvent
<1>4. mid.class = row.class /\ mid.next = row.next + 1
  BY DEF Advanced, Row
<1>5. f.id = d2.id /\ f.seq = mid.next /\ f.prev = mid.head /\ f.session = s /\ IsEvent(f)
  <2> HIDE DEF mid
  <2> QED
    BY <1>2, <1>4 DEF Event, Drafts, IsEvent
<1>6. /\ sessions' = [sessions EXCEPT ![s] = new] /\ hot' = hot \cup {e, f}
      /\ UNCHANGED <<segments, index>>
  BY DEF AppendBatch
<1> HIDE DEF e
<1>7. Chained(mid, Archived(s), HotOf(s) \cup {e})
  BY <1>2, <1>3, Advances
<1> HIDE DEF mid, f
<1>8. Chained(new, Archived(s), (HotOf(s) \cup {e}) \cup {f})
  BY <1>2, <1>4, <1>5, <1>7, Advances
<1> HIDE DEF new
<1>9. (HotOf(s) \cup {e}) \cup {f} = HotOf(s) \cup {e, f}
  OBVIOUS
<1>10. Chained(new, Archived(s), HotOf(s) \cup {e, f})
  BY <1>8, <1>9
<1>11. \A g \in {e, f} : IsEvent(g) /\ g.session = s
  BY <1>3, <1>5
<1>12. \A g \in {e, f} : \A h \in Rows \cup {e, f} : g.id = h.id => g = h
  BY <1>1, <1>3, <1>5
<1> QED
  BY <1>6, <1>10, <1>11, <1>12, EventsAdded

\* A prefix of the hot rows becomes the end of the archive.
LEMMA Shifts ==
  ASSUME NEW row, NEW A, NEW H, Chained(row, A, H),
         NEW through \in Int, row.through + 1 <= through, through <= row.next - 1
  PROVE  LET moved == Between(H, row.through + 1, through)
         IN  Chained(Row(row.class, row.next, row.head, through, LastHash(moved)),
                     A \cup moved, H \ moved)
<1> DEFINE moved == Between(H, row.through + 1, through)
           new == Row(row.class, row.next, row.head, through, LastHash(moved))
           B == A \cup moved
           R == H \ moved
<1>1. /\ row.next \in Nat /\ row.through \in -1 .. row.next - 1
      /\ Dense(A, 0, row.through) /\ Dense(H, row.through + 1, row.next - 1)
  BY DEF Chained
<1>2. /\ new.class = row.class /\ new.next = row.next /\ new.head = row.head
      /\ new.through = through /\ new.archiveHead = LastHash(moved)
  BY DEF Row
<1>3. Dense(B, 0, through) /\ Dense(R, through + 1, row.next - 1)
  BY <1>1 DEF Dense, Between
<1>4. B \cup R = A \cup H
  BY DEF Between
<1>5. ASSUME NEW e \in B, e.seq = through PROVE LastHash(moved) = e
  <2>1. e \in moved
    BY <1>1, <1>5 DEF Dense, Between
  <2>2. \A f \in moved : f.seq \in Int /\ f.seq <= e.seq /\ (f.seq = e.seq => f = e)
    BY <1>1, <1>5, <2>1 DEF Dense, Between
  <2> HIDE DEF moved
  <2> QED
    BY <2>1, <2>2, LastIsGreatest
<1> HIDE DEF new, B, R
<1>6. /\ new.class \in Classes \cup {Absent} /\ new.next \in Nat
      /\ new.through \in -1 .. new.next - 1 /\ (new.class = Absent => new.next = 0)
      /\ new.through # -1 /\ (new.next = 0 => new.head = Absent)
  BY <1>1, <1>2 DEF Chained
<1>7. Dense(B, 0, new.through) /\ Dense(R, new.through + 1, new.next - 1)
  BY <1>2, <1>3
<1>8. \A e \in B \cup R : e.seq = new.next - 1 => new.head = e
  BY <1>2, <1>4 DEF Chained
<1>9. \A e \in B \cup R : /\ e.seq = 0 => e.prev = Absent
                          /\ \A f \in B \cup R : f.seq = e.seq + 1 => f.prev = e
  BY <1>4 DEF Chained
<1>10. \A e \in B : e.seq = new.through => new.archiveHead = e
  BY <1>2, <1>5
<1>11. Chained(new, B, R)
  BY <1>6, <1>7, <1>8, <1>9, <1>10 DEF Chained
<1> QED
  BY <1>11 DEF new, B, R

LEMMA CompactKeeps ==
  ASSUME LedgerInv, NEW s \in Sessions, NEW retain \in Nat, Compact(s, retain)
  PROVE  LedgerInv' /\ \A t \in Sessions : Log(t)' = Log(t)
<1> DEFINE row == sessions[s]
           first == row.through + 1
           through == row.next - retain - 1
           moved == Between(HotOf(s), first, through)
           g == [session |-> s, first |-> first, last |-> through, events |-> moved]
           new == Row(row.class, row.next, row.head, through, LastHash(moved))
<1>1. /\ Chained(row, Archived(s), HotOf(s))
      /\ row.next \in Nat /\ row.through \in -1 .. row.next - 1
  BY DEF LedgerInv, SessionChained, Chained
<1>2. /\ first <= through /\ segments' = segments \cup {g} /\ hot' = hot \ moved
      /\ index' = index \cup {[id |-> e.id, session |-> s, seq |-> e.seq,
                               segment |-> first] : e \in moved}
      /\ sessions' = [sessions EXCEPT ![s] = new]
  BY DEF Compact
<1>3. first \in Int /\ through \in Int /\ through <= row.next - 1
  BY <1>1
<1>4. Chained(new, Archived(s) \cup moved, HotOf(s) \ moved)
  BY <1>1, <1>2, <1>3, Shifts
<1>5. \A e \in moved : e \in hot /\ e.session = s /\ first <= e.seq /\ e.seq <= through
  BY DEF Between, HotOf
<1>6. \A e \in moved : IsEvent(e) /\ e.seq \in first .. through
  BY <1>3, <1>5 DEF LedgerInv, IsEvent
<1>7. \A e \in moved : \A h \in segments : e \notin h.events
  <2> SUFFICES ASSUME NEW e \in moved, NEW h \in segments, e \in h.events PROVE FALSE
    OBVIOUS
  <2>1. e \in Archived(s) /\ e \in HotOf(s)
    BY <1>5 DEF LedgerInv, Indexed, Archived, SegmentsOf, HotOf
  <2> QED
    BY <1>1, <2>1 DEF Chained, Dense
<1>8. g.session = s /\ g.first = first /\ g.last = through /\ g.events = moved
  OBVIOUS
<1> HIDE DEF g, new, moved
<1>9. index' = index \cup {Entry(e, g) : e \in moved}
  BY <1>2, <1>8 DEF Entry
<1> HIDE DEF first, through
<1>10. Indexed'
  <2>1. ASSUME NEW h \in segments'
        PROVE  /\ h.session \in Sessions /\ h.first \in Int /\ h.last \in Int
               /\ \A e \in h.events : /\ IsEvent(e) /\ e.session = h.session
                                      /\ e.seq \in h.first .. h.last /\ Entry(e, h) \in index'
    <3>1. CASE h \in segments
      BY <1>9, <3>1 DEF LedgerInv, Indexed
    <3>2. CASE h = g
      BY <1>3, <1>5, <1>6, <1>8, <1>9, <3>2
    <3> QED
      BY <1>2, <3>1, <3>2
  <2>2. ASSUME NEW x \in index' PROVE \E h \in segments' : \E e \in h.events : x = Entry(e, h)
    <3>1. CASE x \in index
      BY <1>2, <3>1 DEF LedgerInv, Indexed
    <3>2. CASE x \in {Entry(e, g) : e \in moved}
      BY <1>2, <1>8, <3>2
    <3> QED
      BY <1>9, <3>1, <3>2
  <2>3. \A h, k \in segments' : h.events \cap k.events # {} => h = k
    BY <1>2, <1>7, <1>8 DEF LedgerInv, Indexed
  <2>4. \A h \in segments' : h.session \in Sessions /\ h.first \in Int /\ h.last \in Int
    BY <2>1
  <2>5. \A h \in segments' : \A e \in h.events :
          /\ IsEvent(e) /\ e.session = h.session
          /\ e.seq \in h.first .. h.last /\ Entry(e, h) \in index'
    BY <2>1
  <2> QED
    BY <2>2, <2>3, <2>4, <2>5 DEF Indexed, Entry, IsEvent
<1>11. Rows' = Rows
  BY <1>2, <1>5, <1>8 DEF Rows
<1>12. ASSUME NEW t \in Sessions
       PROVE  /\ Archived(t)' = IF t = s THEN Archived(t) \cup moved ELSE Archived(t)
              /\ HotOf(t)' = IF t = s THEN HotOf(t) \ moved ELSE HotOf(t)
  <2>1. SegmentsOf(t)' = IF t = s THEN SegmentsOf(t) \cup {g} ELSE SegmentsOf(t)
    BY <1>2, <1>8 DEF SegmentsOf
  <2>2. Archived(t)' = UNION {h.events : h \in SegmentsOf(t)'}
    BY DEF Archived
  <2>3. Archived(t)' = IF t = s THEN Archived(t) \cup moved ELSE Archived(t)
    BY <1>8, <2>1, <2>2 DEF Archived
  <2> QED
    BY <1>2, <1>5, <2>3 DEF HotOf
<1>13. ASSUME NEW t \in Sessions PROVE SessionChained(t)'
  <2>1. SessionChained(t) /\ sessions'[t] = IF t = s THEN new ELSE sessions[t]
    BY <1>2 DEF LedgerInv
  <2> QED
    BY <1>4, <1>12, <2>1 DEF SessionChained
<1>14. \A t \in Sessions : Log(t)' = Log(t)
  BY <1>12 DEF Log, moved, Between
<1> QED
  BY <1>2, <1>10, <1>11, <1>13, <1>14 DEF LedgerInv

LEMMA NextLedgerInv == LedgerInv /\ [LedgerNext]_ledgerVars => LedgerInv'
<1> SUFFICES ASSUME LedgerInv, [LedgerNext]_ledgerVars PROVE LedgerInv'
  OBVIOUS
<1>1. CASE UNCHANGED ledgerVars
  <2>1. ASSUME NEW t \in Sessions PROVE SessionChained(t)'
    <3>1. SessionChained(t) /\ sessions'[t] = sessions[t]
      BY <1>1 DEF LedgerInv, ledgerVars
    <3>2. Archived(t)' = Archived(t) /\ HotOf(t)' = HotOf(t)
      BY <1>1 DEF ledgerVars, Archived, SegmentsOf, HotOf
    <3> QED
      BY <3>1, <3>2, Untouched
  <2>2. Indexed' /\ Rows' = Rows
    BY <1>1 DEF LedgerInv, ledgerVars, Indexed, Rows
  <2> QED
    BY <1>1, <2>1, <2>2 DEF LedgerInv, ledgerVars
<1>2. ASSUME NEW s \in Sessions, Write(s) PROVE LedgerInv'
  BY <1>2, CreateKeeps, EnsureKeeps, AppendKeeps, AppendBatchKeeps DEF Write
<1>3. ASSUME NEW s \in Sessions, CompactSome(s) PROVE LedgerInv'
  <2>1. PICK retain \in 0 .. Cardinality(EventIds) : Compact(s, retain)
    BY <1>3 DEF CompactSome
  <2>2. retain \in Nat
    BY <2>1
  <2> QED
    BY <2>1, <2>2, CompactKeeps
<1> QED
  BY <1>1, <1>2, <1>3 DEF LedgerNext

\* Every reachable ledger is a set of hash chains, one per session, each of
\* which is archived up to the watermark of its row and indexed there; no id
\* stands twice.
THEOREM LedgerInvariant == LedgerSpec => []LedgerInv
<1> QED
  BY InitLedgerInv, NextLedgerInv, PTL DEF LedgerSpec

\* verifySession never refuses a session the ledger wrote.
THEOREM LedgerVerified == LedgerSpec => []LedgerVerifies
<1> QED
  BY LedgerInvariant, InvVerifies, PTL

\* A repeated append is deduplicated, or refused as a conflict, for ever.
THEOREM Deduplicated == LedgerSpec => []RetryDeduplicated
<1> QED
  BY LedgerInvariant, InvDeduplicates, PTL

\* A page of history does not show where the archive ends.
THEOREM PagesWhole == LedgerSpec => []ReadIsSlice
<1> QED
  BY LedgerInvariant, InvReads, PTL

-----------------------------------------------------------------------------
(* The refinement of EventLog. *)

DraftOf(e) == [id |-> e.id, body |-> e.body]

\* The rows of a chain, in their order.
Listed(E) == [i \in 1 .. Cardinality(E) |-> DraftOf(CHOOSE e \in E : e.seq = i - 1)]

LEMMA LogIsListed ==
  ASSUME NEW s PROVE LogOf(s) = Listed(Log(s)) /\ LogOf(s)' = Listed(Log(s)')
  BY DEF LogOf, Listed, LoggedAt, DraftOf

LEMMA ListedRows ==
  ASSUME NEW E, NEW n \in Nat, Dense(E, 0, n - 1)
  PROVE  /\ DOMAIN Listed(E) = 1 .. n
         /\ \A e \in E : Listed(E)[e.seq + 1] = DraftOf(e)
         /\ \A i \in 1 .. n : \E e \in E : e.seq = i - 1 /\ Listed(E)[i] = DraftOf(e)
<1> DEFINE top == n - 1
<1>1. top \in Int /\ Dense(E, 0, top)
  OBVIOUS
<1> HIDE DEF top
<1>2. Cardinality(E) = IF 0 > top THEN 0 ELSE top - 0 + 1
  BY <1>1, DenseCount
<1>3. Cardinality(E) = n
  BY <1>2 DEF top
<1>4. ASSUME NEW i \in 1 .. n PROVE \E e \in E : e.seq = i - 1 /\ Listed(E)[i] = DraftOf(e)
  <2>1. PICK e \in E : e.seq = i - 1
    BY DEF Dense
  <2>2. (CHOOSE f \in E : f.seq = i - 1) = e
    BY <2>1 DEF Dense
  <2> QED
    BY <1>3, <2>1, <2>2 DEF Listed
<1>5. ASSUME NEW e \in E PROVE Listed(E)[e.seq + 1] = DraftOf(e)
  <2>1. e.seq + 1 \in 1 .. n /\ e.seq \in Int
    BY DEF Dense
  <2>2. PICK f \in E : f.seq = (e.seq + 1) - 1 /\ Listed(E)[e.seq + 1] = DraftOf(f)
    BY <1>4, <2>1
  <2>3. f = e
    BY <2>1, <2>2 DEF Dense
  <2> QED
    BY <2>2, <2>3
<1> QED
  BY <1>3, <1>4, <1>5 DEF Listed

LEMMA ListedIsSeq ==
  ASSUME NEW E, NEW n \in Nat, Dense(E, 0, n - 1), \A e \in E : IsEvent(e)
  PROVE  Listed(E) \in Seq(Drafts) /\ Len(Listed(E)) = n
<1> DEFINE L == Listed(E)
<1>1. DOMAIN L = 1 .. n /\ \A i \in 1 .. n : \E e \in E : L[i] = DraftOf(e)
  BY ListedRows
<1>2. \A e \in E : DraftOf(e) \in Drafts
  BY DEF IsEvent, DraftOf, Drafts
<1>3. L = [i \in 1 .. n |-> L[i]]
  BY <1>1 DEF Listed
<1> HIDE DEF L
<1>4. L \in [1 .. n -> Drafts]
  BY <1>1, <1>2, <1>3
<1> QED
  BY <1>4 DEF L

LEMMA ListedExtends ==
  ASSUME NEW E, NEW n \in Nat, Dense(E, 0, n - 1), \A f \in E : IsEvent(f),
         NEW e, e.seq = n, IsEvent(e)
  PROVE  /\ Dense(E \cup {e}, 0, n)
         /\ Listed(E \cup {e}) = Listed(E) \o <<DraftOf(e)>>
<1> DEFINE F == E \cup {e}
           L == Listed(E)
           M == Listed(F)
<1>1. Dense(F, 0, (n + 1) - 1)
  BY DEF Dense
<1>2. L \in Seq(Drafts) /\ Len(L) = n
  BY ListedIsSeq
<1>3. M \in Seq(Drafts) /\ Len(M) = n + 1
  <2>1. n + 1 \in Nat /\ \A f \in F : IsEvent(f)
    OBVIOUS
  <2> HIDE DEF F
  <2> QED
    BY <1>1, <2>1, ListedIsSeq
<1>4. \A f \in E : L[f.seq + 1] = DraftOf(f)
  BY ListedRows
<1>5. \A f \in F : M[f.seq + 1] = DraftOf(f)
  <2>1. n + 1 \in Nat
    OBVIOUS
  <2> HIDE DEF F
  <2> QED
    BY <1>1, <2>1, ListedRows
<1>6. DraftOf(e) \in Drafts
  BY DEF IsEvent, DraftOf, Drafts
<1>7. ASSUME NEW i \in 1 .. n PROVE M[i] = L[i]
  <2>1. PICK f \in E : f.seq = i - 1
    BY DEF Dense
  <2>2. f.seq + 1 = i
    BY <2>1
  <2> HIDE DEF L, M
  <2> QED
    BY <1>4, <1>5, <2>1, <2>2
<1>8. M[n + 1] = DraftOf(e)
  BY <1>5
<1>9. Dense(F, 0, n)
  BY <1>1
<1> HIDE DEF L, M, F
<1>10. M = L \o <<DraftOf(e)>>
  <2> DEFINE K == L \o <<DraftOf(e)>>
  <2>1. K \in Seq(Drafts) /\ Len(K) = n + 1
    BY <1>2, <1>6
  <2>2. \A i \in 1 .. n + 1 : M[i] = K[i]
    BY <1>2, <1>6, <1>7, <1>8
  <2> HIDE DEF K
  <2>3. M = K
    BY <1>3, <2>1, <2>2
  <2> QED
    BY <2>3 DEF K
<1> QED
  BY <1>9, <1>10 DEF L, M, F

\* A session's log: its events are those of its rows.
LEMMA LogRows ==
  ASSUME LedgerInv, NEW s \in Sessions
  PROVE  /\ Dense(Log(s), 0, sessions[s].next - 1) /\ sessions[s].next \in Nat
         /\ \A e \in Log(s) : IsEvent(e) /\ e \in Rows
         /\ LogOf(s) \in Seq(Drafts)
         /\ \A i \in DOMAIN LogOf(s) : \E e \in Rows : IdOf(LogOf(s)[i]) = e.id
<1> DEFINE n == sessions[s].next
<1>1. Dense(Log(s), 0, n - 1) /\ n \in Nat
  BY LogDense DEF LedgerInv, SessionChained, Chained
<1>2. \A e \in Log(s) : IsEvent(e) /\ e \in Rows
  BY LedgerRows, ArchivedRows DEF LedgerInv
<1> HIDE DEF n
<1>3. LogOf(s) \in Seq(Drafts)
  BY <1>1, <1>2, LogIsListed, ListedIsSeq
<1>4. ASSUME NEW i \in DOMAIN LogOf(s) PROVE \E e \in Rows : IdOf(LogOf(s)[i]) = e.id
  <2>1. DOMAIN Listed(Log(s)) = 1 .. n
    BY <1>1, ListedRows
  <2>2. PICK e \in Log(s) : LogOf(s)[i] = DraftOf(e)
    BY <1>1, <2>1, LogIsListed, ListedRows
  <2> QED
    BY <1>2, <2>2 DEF IdOf, DraftOf
<1> QED
  BY <1>1, <1>2, <1>3, <1>4 DEF n

LEMMA SameLog ==
  ASSUME UNCHANGED <<hot, segments>>, NEW t PROVE Log(t)' = Log(t)
  BY DEF Log, Archived, SegmentsOf, HotOf

LEMMA CreateRefines ==
  ASSUME LedgerInv, NEW s \in Sessions, NEW c \in Classes, CreateSession(s, c)
  PROVE  Abstract!Create(s, c)
<1>1. \A t \in Sessions : LogOf(t)' = LogOf(t)
  BY LogIsListed, SameLog DEF CreateSession
<1>2. \A t \in Sessions : sessions'[t].class = IF t = s THEN c ELSE sessions[t].class
  BY DEF CreateSession, EmptyRow, Row, LedgerInv
<1> QED
  BY <1>1, <1>2 DEF Abstract!Create, CreateSession, Created

LEMMA EnsureRefines ==
  ASSUME LedgerInv, NEW s \in Sessions, NEW c \in Classes, EnsureSession(s, c)
  PROVE  \E d \in Classes : Abstract!Narrow(s, d)
<1> DEFINE row == sessions[s]
           strict == [owner |-> row.class.owner,
                      sensitivity |-> Larger(row.class.sensitivity, c.sensitivity),
                      sync |-> Smaller(row.class.sync, c.sync)]
<1>1. row.class \in Classes /\ row.class # Absent
  BY DEF LedgerInv, SessionChained, Chained, EnsureSession, Created
<1>2. strict \in Classes /\ Narrows(row.class, strict)
  BY <1>1, RanksAndAbsent DEF Classes, Ranks, Larger, Smaller, Narrows
<1>3. \A t \in Sessions : LogOf(t)' = LogOf(t)
  BY LogIsListed, SameLog DEF EnsureSession
<1>4. \A t \in Sessions : sessions'[t].class = IF t = s THEN strict ELSE sessions[t].class
  BY DEF EnsureSession, Row, LedgerInv
<1> HIDE DEF strict
<1>5. PICK d \in Classes : d = strict
  BY <1>2
<1>6. Abstract!Narrow(s, d)
  BY <1>1, <1>2, <1>3, <1>4, <1>5 DEF Abstract!Narrow
<1> QED
  BY <1>6

\* An append of the drafts D, whose ids are new, to the log of session s.
LEMMA ExtendRefines ==
  ASSUME LedgerInv, NEW s \in Sessions, Created(s), NEW D \in Seq(Drafts),
         \A i \in DOMAIN D : \A e \in Rows : e.id # D[i].id,
         \A i, j \in DOMAIN D : D[i].id = D[j].id => i = j,
         \A t \in Sessions : LogOf(t)' = IF t = s THEN LogOf(t) \o D ELSE LogOf(t),
         \A t \in Sessions : sessions'[t].class = sessions[t].class
  PROVE  Abstract!Extend(s, D)
<1>1. Abstract!IdsOf(D) \cap Abstract!Used = {}
  <2> SUFFICES ASSUME NEW i \in DOMAIN D, NEW t \in Sessions, NEW j \in DOMAIN LogOf(t),
                      IdOf(D[i]) = IdOf(LogOf(t)[j])
               PROVE  FALSE
    BY DEF Abstract!IdsOf, Abstract!Used
  <2> QED
    BY LogRows DEF IdOf
<1>2. \A i, j \in DOMAIN D : IdOf(D[i]) = IdOf(D[j]) => i = j
  BY DEF IdOf
<1> QED
  BY <1>1, <1>2 DEF Abstract!Extend, Created

LEMMA AppendRefines ==
  ASSUME LedgerInv, NEW s \in Sessions, NEW expected, NEW d \in Drafts, AppendEvent(s, expected, d)
  PROVE  Abstract!Extend(s, <<d>>)
<1> DEFINE row == sessions[s]
           e == Event(s, row, d)
<1>1. Created(s) /\ \A f \in Rows : f.id # d.id
  BY NewId DEF AppendEvent
<1>2. /\ Dense(Log(s), 0, row.next - 1) /\ row.next \in Nat
      /\ \A f \in Log(s) : IsEvent(f)
  BY LogRows
<1>3. e.seq = row.next /\ e.session = s /\ IsEvent(e) /\ DraftOf(e) = d
  BY <1>2 DEF Event, Drafts, IsEvent, DraftOf
<1>4. \A t \in Sessions : sessions'[t].class = sessions[t].class
  BY DEF AppendEvent, Advanced, Row, LedgerInv
<1>5. hot' = hot \cup {e} /\ UNCHANGED segments
  BY DEF AppendEvent
<1> HIDE DEF e, row
<1>6. \A t \in Sessions : Log(t)' = IF t = s THEN Log(t) \cup {e} ELSE Log(t)
  BY <1>3, <1>5 DEF Log, Archived, SegmentsOf, HotOf
<1>7. Listed(Log(s) \cup {e}) = Listed(Log(s)) \o <<d>>
  BY <1>2, <1>3, ListedExtends
<1>8. \A t \in Sessions : LogOf(t)' = IF t = s THEN LogOf(t) \o <<d>> ELSE LogOf(t)
  BY <1>6, <1>7, LogIsListed
<1>9. /\ \A i \in DOMAIN <<d>> : \A f \in Rows : f.id # <<d>>[i].id
      /\ \A i, j \in DOMAIN <<d>> : <<d>>[i].id = <<d>>[j].id => i = j
      /\ <<d>> \in Seq(Drafts)
  BY <1>1
<1> QED
  BY <1>1, <1>4, <1>8, <1>9, ExtendRefines

LEMMA AppendedTwice ==
  ASSUME NEW S, NEW L \in Seq(S), NEW a \in S, NEW b \in S
  PROVE  (L \o <<a>>) \o <<b>> = L \o <<a, b>>
<1> DEFINE P == (L \o <<a>>) \o <<b>>
           Q == L \o <<a, b>>
           m == Len(L) + 2
<1>1. m \in Nat /\ P \in Seq(S) /\ Len(P) = m /\ Q \in Seq(S) /\ Len(Q) = m
  OBVIOUS
<1>2. \A i \in 1 .. m : P[i] = Q[i]
  OBVIOUS
<1> HIDE DEF P, Q, m
<1>3. P = Q
  BY <1>1, <1>2
<1> QED
  BY <1>3 DEF P, Q

LEMMA AppendBatchRefines ==
  ASSUME LedgerInv, NEW s \in Sessions, NEW d1 \in Drafts, NEW d2 \in Drafts,
         AppendBatch(s, d1, d2)
  PROVE  Abstract!Extend(s, <<d1, d2>>)
<1> DEFINE row == sessions[s]
           e == Event(s, row, d1)
           mid == Advanced(row, e)
           f == Event(s, mid, d2)
           n == row.next
           D == <<d1, d2>>
<1>1. /\ Created(s) /\ d1.id # d2.id
      /\ \A g \in Rows : g.id # d1.id /\ g.id # d2.id
  BY NewId DEF AppendBatch
<1>2. /\ Dense(Log(s), 0, n - 1) /\ n \in Nat
      /\ \A g \in Log(s) : IsEvent(g)
  BY LogRows
<1>3. e.seq = n /\ e.session = s /\ IsEvent(e) /\ DraftOf(e) = d1
  BY <1>2 DEF Event, Drafts, IsEvent, DraftOf
<1>4. mid.next = n + 1
  BY DEF Advanced, Row
<1>5. f.seq = n + 1 /\ f.session = s /\ IsEvent(f) /\ DraftOf(f) = d2
  <2> HIDE DEF mid, n
  <2> QED
    BY <1>2, <1>4 DEF Event, Drafts, IsEvent, DraftOf
<1>6. \A t \in Sessions : sessions'[t].class = sessions[t].class
  BY DEF AppendBatch, Advanced, Row, LedgerInv
<1>7. hot' = hot \cup {e, f} /\ UNCHANGED segments
  BY DEF AppendBatch
<1> HIDE DEF e, mid, f, row, n
<1>8. \A t \in Sessions : Log(t)' = IF t = s THEN (Log(t) \cup {e}) \cup {f} ELSE Log(t)
  BY <1>3, <1>5, <1>7 DEF Log, Archived, SegmentsOf, HotOf
<1>9. Dense(Log(s) \cup {e}, 0, n) /\ Listed(Log(s) \cup {e}) = Listed(Log(s)) \o <<d1>>
  BY <1>2, <1>3, ListedExtends
<1>10. Listed((Log(s) \cup {e}) \cup {f}) = Listed(Log(s) \cup {e}) \o <<d2>>
  <2> DEFINE E == Log(s) \cup {e}
             m == n + 1
  <2>1. m \in Nat /\ Dense(E, 0, m - 1) /\ f.seq = m /\ \A g \in E : IsEvent(g)
    BY <1>2, <1>3, <1>5, <1>9
  <2> HIDE DEF E, m
  <2>2. Listed(E \cup {f}) = Listed(E) \o <<d2>>
    BY <1>5, <2>1, ListedExtends
  <2> QED
    BY <2>2 DEF E
<1>11. (LogOf(s) \o <<d1>>) \o <<d2>> = LogOf(s) \o D
  BY LogRows, AppendedTwice
<1>12. LogOf(s)' = LogOf(s) \o D
  BY <1>8, <1>9, <1>10, <1>11, LogIsListed
<1>13. \A t \in Sessions : LogOf(t)' = IF t = s THEN LogOf(t) \o D ELSE LogOf(t)
  BY <1>8, <1>12, LogIsListed
<1>14. /\ D \in Seq(Drafts)
       /\ \A i \in DOMAIN D : \A g \in Rows : g.id # D[i].id
       /\ \A i, j \in DOMAIN D : D[i].id = D[j].id => i = j
  BY <1>1
<1> HIDE DEF D
<1>15. Abstract!Extend(s, D)
  BY <1>1, <1>6, <1>13, <1>14, ExtendRefines
<1> QED
  BY <1>15 DEF D

LEMMA CompactStutters ==
  ASSUME LedgerInv, NEW s \in Sessions, NEW retain \in Nat, Compact(s, retain)
  PROVE  UNCHANGED Abstract!vars
<1>1. \A t \in Sessions : LogOf(t)' = LogOf(t)
  BY CompactKeeps, LogIsListed
<1>2. \A t \in Sessions : sessions'[t].class = sessions[t].class
  BY DEF Compact, Row, LedgerInv
<1> QED
  BY <1>1, <1>2 DEF Abstract!vars

LEMMA StepRefines == LedgerInv /\ [LedgerNext]_ledgerVars => [Abstract!Next]_(Abstract!vars)
<1> SUFFICES ASSUME LedgerInv, [LedgerNext]_ledgerVars PROVE [Abstract!Next]_(Abstract!vars)
  OBVIOUS
<1>1. CASE UNCHANGED ledgerVars
  <2>1. \A t \in Sessions : LogOf(t)' = LogOf(t)
    BY <1>1, LogIsListed, SameLog DEF ledgerVars
  <2> QED
    BY <1>1, <2>1 DEF Abstract!vars, ledgerVars
<1>2. ASSUME NEW s \in Sessions, Write(s) PROVE Abstract!Next
  <2>1. CASE \E c \in Classes : CreateSession(s, c) \/ EnsureSession(s, c)
    BY <2>1, CreateRefines, EnsureRefines DEF Abstract!Next
  <2>2. CASE \E d \in Drafts, expected \in {AnySeq} \cup 0 .. Cardinality(EventIds) :
               AppendEvent(s, expected, d)
    BY <2>2, AppendRefines DEF Abstract!Next
  <2>3. CASE \E d1, d2 \in Drafts : AppendBatch(s, d1, d2)
    BY <2>3, AppendBatchRefines DEF Abstract!Next
  <2> QED
    BY <1>2, <2>1, <2>2, <2>3 DEF Write
<1>3. ASSUME NEW s \in Sessions, CompactSome(s) PROVE UNCHANGED Abstract!vars
  <2>1. PICK retain \in 0 .. Cardinality(EventIds) : Compact(s, retain)
    BY <1>3 DEF CompactSome
  <2>2. retain \in Nat
    BY <2>1
  <2> QED
    BY <2>1, <2>2, CompactStutters
<1> QED
  BY <1>1, <1>2, <1>3 DEF LedgerNext

LEMMA InitRefines == LedgerInit => Abstract!Init
<1> SUFFICES ASSUME LedgerInit PROVE Abstract!Init
  OBVIOUS
<1>1. ASSUME NEW s \in Sessions PROVE LogOf(s) = <<>> /\ sessions[s].class = Absent
  <2>1. Log(s) = {}
    BY DEF LedgerInit, Log, Archived, SegmentsOf, HotOf
  <2>2. Cardinality(Log(s)) = 0
    BY <2>1, FS_EmptySet
  <2> QED
    BY <2>2 DEF LogOf, LedgerInit, EmptyRow, Row
<1> QED
  BY <1>1 DEF Abstract!Init

\* The tables implement the append-only log: whatever is archived, retried or
\* relabelled, a session's events are only ever extended by new ids, a batch at
\* a time, and its labels only narrow.
THEOREM LedgerRefines == LedgerSpec => ImplementsEventLog
<1> QED
  BY LedgerInvariant, InitRefines, StepRefines, PTL DEF LedgerSpec, ImplementsEventLog, Abstract!Spec

-----------------------------------------------------------------------------
(* The capability authority. *)

HeldDeclared == \A s \in Subjects : Held(s) \subseteq Requirements(s)

ExtensionDeclared == declared["extension"] = IF Installed THEN Declares[Current.manifest] ELSE {}

AgentDeclared ==
  up /\ ~syncing /\ crashes = 0 =>
    declared["agent"] = IF binding = None THEN {} ELSE AgentDeclares(binding)

\* Before its first boot the agent holds nothing, and its binding is enabled.
Unbooted ==
  ~receive =>
    /\ ~up /\ crashes = 0
    /\ \A p \in Perms : grants["agent"][p] = 0
    /\ binding = None => declared["agent"] = {}
    /\ binding # None => binding.enabled /\ declared["agent"] = RuntimePerms[binding.target]

\* A handler runs only in a Hub that is up; what it has applied is approved.
Running ==
  /\ receive /\ ~up => crashes > 0
  /\ ~up => ~syncing /\ applied = None
  /\ syncing => binding # None
  /\ applied # None => Approved(applied.key)

USE Constants, FullRank, NoneIsNothing
USE DEF Subjects, Targets, MutationRecords, Bindings

\* Types of what the extension routes write, and of the rest.
TypeExtension ==
  /\ extRecorded \subseteq Keys
  /\ ext \in [state : {"ABSENT", "INSTALLED", "REMOVED"}, revision : Nat,
              health : {"UNKNOWN", "HEALTHY", "UNHEALTHY"}]
  /\ revisions \in Seq([action : {"INSTALL", "UPDATE", "ROLLBACK"}, op : Ops,
                        manifest : Manifests, source : Nat])
  /\ Installed => ext.revision \in DOMAIN revisions

Approvals == [Ops -> {None} \cup [request : Mutations, status : {"PENDING", "APPROVE", "REFUSE"}]]

TypeRest ==
  /\ up \in BOOLEAN /\ baseline \in BOOLEAN /\ receive \in BOOLEAN /\ syncing \in BOOLEAN
  /\ crashes \in Nat
  /\ declared \in [Subjects -> SUBSET Perms]
  /\ grants \in [Subjects -> [Perms -> 0..MaxRank]]
  /\ approval \in Approvals
  /\ recorded \subseteq Keys
  /\ applied \in {None} \cup Mutations
  /\ binding \in {None} \cup Bindings

\* The inductive invariant.
RegistryInv == TypeRest /\ TypeExtension /\ HeldDeclared /\ ExtensionDeclared /\ AgentDeclared /\ Unbooted /\ Running

LEMMA TypeParts == TypeOK = (TypeRest /\ TypeExtension)
BY DEF TypeOK, TypeRest, TypeExtension, Approvals

LEMMA NoneIsNoRow == None \notin [request : Mutations, status : {"PENDING", "APPROVE", "REFUSE"}]
BY DEF ApprovalRows

LEMMA RegistryInit == Init => RegistryInv
<1> SUFFICES ASSUME Init PROVE RegistryInv
  OBVIOUS
<1>1. binding \in {None} \cup Bindings /\ (binding # None => binding.enabled)
  BY DEF Init, Fresh, Legacy
<1>2. TypeRest /\ TypeExtension
  <2>1. TypeExtension
    BY DEF Init, TypeExtension, Installed
  <2>2. declared \in [Subjects -> SUBSET Perms] /\ grants \in [Subjects -> [Perms -> 0..MaxRank]]
    BY <1>1 DEF Init
  <2>3. approval \in Approvals /\ recorded \subseteq Keys /\ applied \in {None} \cup Mutations
    BY DEF Init, Approvals
  <2> QED
    BY <1>1, <2>1, <2>2, <2>3 DEF Init, Fresh, Legacy, TypeRest
<1>3. HeldDeclared
  BY DEF Init, HeldDeclared, Held
<1>4. ExtensionDeclared /\ AgentDeclared /\ Unbooted /\ Running
  BY <1>1 DEF Init, ExtensionDeclared, AgentDeclared, Unbooted, Running, Installed
<1> QED
  BY <1>2, <1>3, <1>4 DEF RegistryInv

\* What the extension routes write is typed and declared as long as no other
\* step writes it.
LEMMA ExtensionKept ==
  ASSUME TypeExtension, ExtensionDeclared, UNCHANGED extension,
         declared'["extension"] = declared["extension"]
  PROVE  TypeExtension' /\ ExtensionDeclared'
BY DEF TypeExtension, ExtensionDeclared, extension, Installed, Current

\* Approvals depend on the approval rows alone.
LEMMA ApprovedKept == ASSUME approval' = approval PROVE \A k : Approved(k)' = Approved(k)
BY DEF Approved, RowsOf

LEMMA BootInv == RegistryInv /\ Boot => RegistryInv'
<1> SUFFICES ASSUME RegistryInv, Boot PROVE RegistryInv'
  OBVIOUS
<1> USE DEF RegistryInv, Boot, mutation, agent
<1>1. declared["agent"] \in SUBSET Perms /\ binding \in {None} \cup Bindings /\ up = FALSE
  BY DEF TypeRest
<1>2. declared' \in [Subjects -> SUBSET Perms] /\ grants' \in [Subjects -> [Perms -> 0..MaxRank]]
  BY <1>1 DEF TypeRest
<1>3. TypeRest'
  BY <1>2 DEF TypeRest
<1>4. HeldDeclared'
  <2> SUFFICES ASSUME NEW s \in Subjects, NEW p \in Perms, grants'[s][p] > 0
               PROVE  p \in Requirements(s)'
    BY DEF HeldDeclared, Held
  <2>1. CASE s = "core"
    <3>1. grants["core"][p] > 0 \/ p \in Baseline
      BY <2>1 DEF TypeRest
    <3> QED
      BY <2>1, <3>1 DEF HeldDeclared, Held, Requirements
  <2>2. CASE s # "core"
    <3>1. grants[s][p] > 0 /\ declared[s] \subseteq declared'[s]
      BY <2>2 DEF TypeRest
    <3> QED
      BY <2>2, <3>1 DEF HeldDeclared, Held, Requirements
  <2> QED
    BY <2>1, <2>2
<1>5. TypeExtension' /\ ExtensionDeclared'
  BY ExtensionKept DEF TypeRest
<1>6. AgentDeclared'
  <2>1. CASE receive
    BY <1>1, <2>1 DEF AgentDeclared, Running
  <2>2. CASE ~receive /\ binding = None
    <3>1. declared'["agent"] = {}
      BY <2>2 DEF Unbooted, TypeRest
    <3> QED
      BY <2>2, <3>1 DEF AgentDeclared
  <2>3. CASE ~receive /\ binding # None
    <3>1. binding.enabled /\ declared["agent"] = RuntimePerms[binding.target]
      BY <2>3 DEF Unbooted
    <3>2. declared'["agent"] = RuntimePerms[binding.target] \cup ReceivePerms
      BY <2>3, <3>1 DEF TypeRest
    <3> QED
      BY <2>3, <3>1, <3>2 DEF AgentDeclared, AgentDeclares
  <2> QED
    BY <2>1, <2>2, <2>3
<1>7. Unbooted'
  BY DEF Unbooted
<1>8. Running'
  BY <1>1 DEF Running
<1> QED
  BY <1>3, <1>4, <1>5, <1>6, <1>7, <1>8

LEMMA CrashInv == RegistryInv /\ Crash => RegistryInv'
<1> SUFFICES ASSUME RegistryInv, Crash PROVE RegistryInv'
  OBVIOUS
<1>1. TypeRest'
  <2>1. /\ up' = FALSE /\ crashes' = crashes + 1 /\ applied' = None /\ syncing' = FALSE
        /\ UNCHANGED <<baseline, receive, declared, grants, approval, recorded, binding>>
    BY DEF Crash
  <2>2. TypeRest
    BY DEF RegistryInv
  <2>3. crashes' \in Nat
    BY <2>1, <2>2 DEF TypeRest
  <2>4. up' \in BOOLEAN /\ syncing' \in BOOLEAN /\ applied' \in {None} \cup Mutations
    BY <2>1
  <2> QED
    BY <2>1, <2>2, <2>3, <2>4, Zenon DEF TypeRest
<1>2. HeldDeclared'
  BY DEF RegistryInv, Crash, HeldDeclared, Held, Requirements
<1>3. TypeExtension' /\ ExtensionDeclared'
  BY ExtensionKept DEF RegistryInv, Crash
<1>4. AgentDeclared' /\ Unbooted' /\ Running'
  BY DEF RegistryInv, Crash, TypeRest, AgentDeclared, Unbooted, Running
<1> QED
  BY <1>1, <1>2, <1>3, <1>4 DEF RegistryInv

\* Steps that leave declarations, grants and the Hub's life alone.
LEMMA Beside ==
  ASSUME RegistryInv, UNCHANGED <<meta, declared, grants, extension, agent>>
  PROVE  HeldDeclared' /\ TypeExtension' /\ ExtensionDeclared' /\ AgentDeclared' /\ Unbooted'
<1>1. HeldDeclared' /\ AgentDeclared' /\ Unbooted'
  BY DEF RegistryInv, HeldDeclared, Held, Requirements, AgentDeclared, AgentDeclares, Unbooted, meta, agent
<1>2. TypeExtension' /\ ExtensionDeclared'
  BY ExtensionKept DEF RegistryInv
<1> QED
  BY <1>1, <1>2

LEMMA AskInv ==
  ASSUME RegistryInv, NEW m \in Mutations, AskApproval(m)
  PROVE  RegistryInv' /\ \A k \in Keys : Approved(k)' = Approved(k)
<1>1. /\ m.op \in Ops /\ approval \in Approvals /\ approval[m.op] = None
      /\ approval' = [approval EXCEPT ![m.op] = [request |-> m, status |-> "PENDING"]]
      /\ UNCHANGED <<meta, declared, grants, recorded, applied, extension, agent>>
  BY DEF AskApproval, RegistryInv, TypeRest
<1>2. ASSUME NEW k \in Keys PROVE Approved(k)' = Approved(k)
  BY <1>1 DEF Approved, RowsOf, Approvals
<1>3. TypeRest'
  <2>1. approval' \in Approvals
    BY <1>1 DEF Approvals
  <2> QED
    BY <1>1, <2>1 DEF RegistryInv, TypeRest, meta, agent
<1>4. Running'
  BY <1>1, <1>2 DEF RegistryInv, TypeRest, Running, meta, agent
<1> QED
  BY <1>1, <1>2, <1>3, <1>4, Beside DEF RegistryInv

\* A decision approves at most one key.
LEMMA DecideInv ==
  ASSUME RegistryInv, NEW o \in Ops, NEW d \in {"APPROVE", "REFUSE"}, Decide(o, d)
  PROVE  /\ RegistryInv'
         /\ \E j \in Keys : \A k \in Keys : Approved(k)' = (Approved(k) \/ (d = "APPROVE" /\ k = j))
<1> DEFINE j == approval[o].request.key
<1>1. /\ approval \in Approvals /\ approval[o] # None /\ approval[o].status = "PENDING"
      /\ approval' = [approval EXCEPT ![o].status = d]
      /\ UNCHANGED <<meta, declared, grants, recorded, applied, extension, agent>>
  BY DEF Decide, RegistryInv, TypeRest
<1>2. /\ approval[o] \in [request : Mutations, status : {"PENDING", "APPROVE", "REFUSE"}]
      /\ approval[o].request \in Mutations
  BY <1>1 DEF Approvals
<1>3. j \in Keys
  BY <1>2
<1>4. /\ approval'[o] = [approval[o] EXCEPT !.status = d]
      /\ \A q \in Ops : q # o => approval'[q] = approval[q]
  BY <1>1 DEF Approvals
<1>5. /\ approval'[o] \in [request : Mutations, status : {"PENDING", "APPROVE", "REFUSE"}]
      /\ approval'[o].status = d /\ approval'[o].request = approval[o].request
  BY <1>2, <1>4
<1>6. approval'[o] # None
  <2>1. None \notin [request : Mutations, status : {"PENDING", "APPROVE", "REFUSE"}]
    BY NoneIsNoRow
  <2> QED
    BY <1>5, <2>1
<1>7. ASSUME NEW k \in Keys PROVE Approved(k)' = (Approved(k) \/ (d = "APPROVE" /\ k = j))
  <2>1. ASSUME NEW q \in Ops, q # o
        PROVE  (q \in RowsOf(k))' = (q \in RowsOf(k)) /\ approval'[q] = approval[q]
    BY <1>4, <2>1 DEF RowsOf
  <2>2. (o \in RowsOf(k)) = (k = j) /\ (o \in RowsOf(k))' = (k = j)
    BY <1>1, <1>5, <1>6 DEF RowsOf
  <2>3. RowsOf(k) \subseteq Ops /\ RowsOf(k)' \subseteq Ops
    BY DEF RowsOf
  <2>4. Approved(k)' = ((k = j /\ d = "APPROVE") \/ \E q \in RowsOf(k) : q # o /\ approval[q].status = "APPROVE")
    BY <1>5, <2>1, <2>2, <2>3, ZenonT(40) DEF Approved
  <2>5. Approved(k) = \E q \in RowsOf(k) : q # o /\ approval[q].status = "APPROVE"
    BY <1>1, <2>2, <2>3 DEF Approved
  <2> QED
    BY <2>4, <2>5
<1>8. TypeRest'
  <2>1. approval' \in Approvals
    BY <1>1, <1>5 DEF Approvals
  <2> QED
    BY <1>1, <2>1 DEF RegistryInv, TypeRest, meta, agent
<1>9. Running'
  BY <1>1, <1>7 DEF RegistryInv, TypeRest, Running, meta, agent
<1> QED
  BY <1>1, <1>3, <1>7, <1>8, <1>9, Beside DEF RegistryInv

LEMMA RecordInv == RegistryInv /\ RecordMutation => RegistryInv'
<1> SUFFICES ASSUME RegistryInv, RecordMutation PROVE RegistryInv'
  OBVIOUS
<1>1. TypeRest'
  BY DEF RegistryInv, RecordMutation, TypeRest, meta, agent
<1>2. Running'
  BY DEF RegistryInv, RecordMutation, Running, meta, agent
<1> QED
  BY <1>1, <1>2, Beside DEF RegistryInv, RecordMutation

LEMMA ApplyInv ==
  ASSUME RegistryInv, NEW m \in Mutations, ApplyMutation(m)
  PROVE  RegistryInv'
<1>1. m.subject \in Subjects /\ m.perms \subseteq Perms /\ m.rank \in 1..MaxRank
  OBVIOUS
<1>2. /\ up /\ Approved(m.key) /\ grants' = Effect(m) /\ applied' = m
      /\ m.action = "GRANT" => m.perms \subseteq Requirements(m.subject)
      /\ UNCHANGED <<meta, declared, approval, recorded, extension, agent>>
  BY DEF ApplyMutation, Free
<1>3. grants' \in [Subjects -> [Perms -> 0..MaxRank]]
  BY <1>1, <1>2 DEF RegistryInv, TypeRest, Effect
<1>4. TypeRest'
  BY <1>2, <1>3 DEF RegistryInv, TypeRest, meta, agent
<1>5. HeldDeclared'
  <2> SUFFICES ASSUME NEW s \in Subjects, NEW p \in Perms, grants'[s][p] > 0
               PROVE  p \in Requirements(s)
    BY <1>2 DEF HeldDeclared, Held, Requirements
  <2>1. grants[s][p] > 0 \/ (s = m.subject /\ p \in m.perms /\ m.action = "GRANT")
    BY <1>1, <1>2 DEF RegistryInv, TypeRest, Effect
  <2> QED
    BY <1>2, <2>1 DEF RegistryInv, HeldDeclared, Held
<1>6. TypeExtension' /\ ExtensionDeclared'
  BY <1>2, ExtensionKept DEF RegistryInv
<1>7. AgentDeclared' /\ Unbooted'
  BY <1>2 DEF RegistryInv, AgentDeclared, AgentDeclares, Unbooted, meta, agent
<1>8. Running'
  BY <1>2, ApprovedKept DEF RegistryInv, Running, meta, agent
<1> QED
  BY <1>4, <1>5, <1>6, <1>7, <1>8 DEF RegistryInv

\* A sync of a subject keeps types and holdings and everybody else's
\* declarations, and widens no right.
LEMMA RedeclareKeeps ==
  ASSUME RegistryInv, NEW s \in Declarers, NEW perms \in SUBSET Perms, Redeclare(s, perms)
  PROVE  /\ declared' \in [Subjects -> SUBSET Perms]
         /\ grants' \in [Subjects -> [Perms -> 0..MaxRank]]
         /\ HeldDeclared'
         /\ declared'[s] = perms /\ \A t \in Subjects : t # s => declared'[t] = declared[t]
         /\ \A t \in Subjects, p \in Perms : Right(t, p)' <= Right(t, p)
<1> USE DEF RegistryInv, Declarers, Redeclare
<1>1. declared' \in [Subjects -> SUBSET Perms] /\ grants' \in [Subjects -> [Perms -> 0..MaxRank]]
  BY DEF TypeRest
<1>2. declared'[s] = perms /\ \A t \in Subjects : t # s => declared'[t] = declared[t]
  BY DEF TypeRest
<1>3. /\ \A p \in Perms : grants'[s][p] = IF p \in perms THEN grants[s][p] ELSE 0
      /\ \A t \in Subjects : t # s => grants'[t] = grants[t]
  BY DEF TypeRest
<1>4. HeldDeclared'
  BY <1>1, <1>2, <1>3 DEF HeldDeclared, Held, Requirements, TypeRest
<1>5. ASSUME NEW t \in Subjects, NEW p \in Perms PROVE Right(t, p)' <= Right(t, p)
  <2>1. grants[t][p] \in 0..MaxRank
    BY DEF TypeRest
  <2>2. p \notin Requirements(t) => grants[t][p] = 0
    BY <2>1 DEF HeldDeclared, Held
  <2>3. CASE t = s
    BY <1>2, <1>3, <2>1, <2>2, <2>3 DEF Right
  <2>4. CASE t # s
    BY <1>2, <1>3, <2>1, <2>4 DEF Right, Requirements
  <2> QED
    BY <2>3, <2>4
<1> QED
  BY <1>1, <1>2, <1>4, <1>5

LEMMA SyncNodeInv ==
  ASSUME RegistryInv, NEW present \in BOOLEAN, SyncNode(present)
  PROVE  RegistryInv' /\ \A t \in Subjects, p \in Perms : Right(t, p)' <= Right(t, p)
<1>1. Redeclare("node", IF present THEN NodePerms ELSE {}) /\ UNCHANGED <<meta, mutation, extension, agent>> /\ up
  BY DEF SyncNode, Free
<1>2. /\ declared' \in [Subjects -> SUBSET Perms] /\ grants' \in [Subjects -> [Perms -> 0..MaxRank]]
      /\ HeldDeclared' /\ declared'["extension"] = declared["extension"] /\ declared'["agent"] = declared["agent"]
      /\ \A t \in Subjects, p \in Perms : Right(t, p)' <= Right(t, p)
  BY <1>1, RedeclareKeeps DEF Declarers
<1>3. TypeRest'
  BY <1>1, <1>2 DEF RegistryInv, TypeRest, meta, mutation, agent
<1>4. TypeExtension' /\ ExtensionDeclared'
  BY <1>1, <1>2, ExtensionKept DEF RegistryInv
<1>5. AgentDeclared'
  BY <1>1, <1>2 DEF RegistryInv, AgentDeclared, AgentDeclares, meta, agent
<1>6. Unbooted'
  BY <1>1 DEF RegistryInv, Unbooted, meta
<1>7. Running'
  BY <1>1, ApprovedKept DEF RegistryInv, Running, meta, mutation, agent
<1> QED
  BY <1>2, <1>3, <1>4, <1>5, <1>6, <1>7 DEF RegistryInv

LEMMA BindInv ==
  ASSUME RegistryInv, NEW t \in Targets, NEW enabled \in BOOLEAN, BindAgent(t, enabled)
  PROVE  RegistryInv'
<1>1. binding' \in Bindings /\ syncing' = TRUE /\ up /\ UNCHANGED <<meta, declared, grants, mutation, extension>>
  BY DEF BindAgent, Free
<1>2. TypeRest'
  BY <1>1 DEF RegistryInv, TypeRest, meta, mutation
<1>3. HeldDeclared' /\ AgentDeclared'
  BY <1>1 DEF RegistryInv, HeldDeclared, Held, Requirements, AgentDeclared
<1>4. TypeExtension' /\ ExtensionDeclared'
  BY <1>1, ExtensionKept DEF RegistryInv
<1>5. Unbooted'
  BY <1>1 DEF RegistryInv, Unbooted, meta
<1>6. Running'
  BY <1>1, ApprovedKept DEF RegistryInv, Running, meta, mutation
<1> QED
  BY <1>2, <1>3, <1>4, <1>5, <1>6 DEF RegistryInv

LEMMA SyncAgentInv ==
  ASSUME RegistryInv, SyncAgent
  PROVE  RegistryInv' /\ \A t \in Subjects, p \in Perms : Right(t, p)' <= Right(t, p)
<1>1. /\ up /\ binding \in Bindings /\ syncing' = FALSE /\ Redeclare("agent", AgentDeclares(binding))
      /\ UNCHANGED <<meta, mutation, extension, binding>>
  BY DEF RegistryInv, SyncAgent, Running, TypeRest
<1>2. AgentDeclares(binding) \subseteq Perms
  BY <1>1 DEF AgentDeclares
<1>3. /\ declared' \in [Subjects -> SUBSET Perms] /\ grants' \in [Subjects -> [Perms -> 0..MaxRank]]
      /\ HeldDeclared' /\ declared'["extension"] = declared["extension"] /\ declared'["agent"] = AgentDeclares(binding)
      /\ \A t \in Subjects, p \in Perms : Right(t, p)' <= Right(t, p)
  BY <1>1, <1>2, RedeclareKeeps DEF Declarers
<1>4. TypeRest'
  BY <1>1, <1>3 DEF RegistryInv, TypeRest, meta, mutation
<1>5. TypeExtension' /\ ExtensionDeclared'
  BY <1>1, <1>3, ExtensionKept DEF RegistryInv
<1>6. AgentDeclared'
  BY <1>1, <1>3 DEF AgentDeclared, AgentDeclares
<1>7. Unbooted'
  BY <1>1 DEF RegistryInv, Unbooted, meta
<1>8. Running'
  BY <1>1, ApprovedKept DEF RegistryInv, Running, meta, mutation
<1> QED
  BY <1>3, <1>4, <1>5, <1>6, <1>7, <1>8 DEF RegistryInv

\* What an extension request leaves: it declares anew, records its key and
\* writes the extension.
LEMMA ExtensionKeeps ==
  ASSUME RegistryInv, NEW perms \in SUBSET Perms, up,
         \/ Redeclare("extension", perms)
         \/ UNCHANGED <<declared, grants>>,
         UNCHANGED <<meta, mutation, agent>>
  PROVE  /\ TypeRest' /\ HeldDeclared' /\ AgentDeclared' /\ Unbooted' /\ Running'
         /\ \A t \in Subjects, p \in Perms : Right(t, p)' <= Right(t, p)
<1>1. /\ declared' \in [Subjects -> SUBSET Perms] /\ grants' \in [Subjects -> [Perms -> 0..MaxRank]]
      /\ HeldDeclared' /\ declared'["agent"] = declared["agent"]
      /\ \A t \in Subjects, p \in Perms : Right(t, p)' <= Right(t, p)
  <2>1. CASE Redeclare("extension", perms)
    BY <2>1, RedeclareKeeps DEF Declarers
  <2>2. CASE UNCHANGED <<declared, grants>>
    <3>1. ASSUME NEW t \in Subjects, NEW p \in Perms PROVE Right(t, p)' <= Right(t, p)
      <4>1. Right(t, p) \in Nat /\ Right(t, p)' = Right(t, p)
        BY <2>2 DEF Right, Requirements, RegistryInv, TypeRest
      <4> QED
        BY <4>1
    <3> QED
      BY <2>2, <3>1 DEF RegistryInv, TypeRest, HeldDeclared, Held, Requirements
  <2> QED
    BY <2>1, <2>2
<1>2. TypeRest'
  BY <1>1, Zenon DEF RegistryInv, TypeRest, meta, mutation, agent
<1>3. AgentDeclared'
  BY <1>1 DEF RegistryInv, AgentDeclared, AgentDeclares, meta, agent
<1>4. Unbooted'
  BY DEF RegistryInv, Unbooted, meta
<1>5. Running'
  BY ApprovedKept DEF RegistryInv, Running, meta, mutation, agent
<1> QED
  BY <1>1, <1>2, <1>3, <1>4, <1>5

LEMMA RevisionInv ==
  ASSUME RegistryInv, up, NEW k \in Keys, NEW o \in Ops, NEW action \in {"INSTALL", "UPDATE", "ROLLBACK"},
         NEW manifest \in Manifests, NEW source \in Nat, NewRevision(action, o, manifest, source),
         Redeclare("extension", Declares[manifest]), Commit(k)
  PROVE  RegistryInv' /\ \A t \in Subjects, p \in Perms : Right(t, p)' <= Right(t, p)
<1>1. UNCHANGED <<meta, mutation, agent>> /\ extRecorded' \subseteq Keys
  BY DEF Commit, RegistryInv, TypeExtension
<1>2. /\ TypeRest' /\ HeldDeclared' /\ AgentDeclared' /\ Unbooted' /\ Running'
      /\ \A t \in Subjects, p \in Perms : Right(t, p)' <= Right(t, p)
  BY <1>1, ExtensionKeeps
<1>3. declared'["extension"] = Declares[manifest]
  BY DEF Redeclare, RegistryInv, TypeRest
<1> DEFINE r == [action |-> action, op |-> o, manifest |-> manifest, source |-> source]
           R == [action : {"INSTALL", "UPDATE", "ROLLBACK"}, op : Ops, manifest : Manifests, source : Nat]
<1>4. /\ revisions \in Seq(R) /\ r \in R /\ revisions' = Append(revisions, r)
      /\ ext' = [state |-> "INSTALLED", revision |-> Len(revisions) + 1, health |-> "UNKNOWN"]
  BY DEF NewRevision, RegistryInv, TypeExtension
<1> HIDE DEF R, r
<1>5. /\ revisions' \in Seq(R) /\ Len(revisions') = Len(revisions) + 1 /\ revisions'[Len(revisions) + 1] = r
      /\ Len(revisions) \in Nat
  BY <1>4
<1>6. /\ ext' \in [state : {"ABSENT", "INSTALLED", "REMOVED"}, revision : Nat, health : {"UNKNOWN", "HEALTHY", "UNHEALTHY"}]
      /\ ext'.state = "INSTALLED" /\ ext'.revision = Len(revisions) + 1
  BY <1>4, <1>5
<1>7. ext'.revision \in DOMAIN revisions'
  BY <1>5, <1>6
<1>8. TypeExtension'
  BY <1>1, <1>5, <1>6, <1>7 DEF TypeExtension, R
<1>9. ExtensionDeclared'
  BY <1>3, <1>5, <1>6 DEF ExtensionDeclared, Installed, Current, r
<1> QED
  BY <1>2, <1>8, <1>9 DEF RegistryInv

LEMMA ExtensionInv ==
  ASSUME RegistryInv, ExtensionStep
  PROVE  /\ RegistryInv' /\ UNCHANGED <<meta, mutation, agent>>
         /\ \A t \in Subjects, p \in Perms : Right(t, p)' <= Right(t, p)
<1> DEFINE Goal == /\ RegistryInv' /\ UNCHANGED <<meta, mutation, agent>>
                   /\ \A t \in Subjects, p \in Perms : Right(t, p)' <= Right(t, p)
<1>0. ASSUME NEW k \in Keys, Admitted(k), Commit(k)
      PROVE  up /\ UNCHANGED <<meta, mutation, agent>> /\ extRecorded' \subseteq Keys
  BY <1>0 DEF Admitted, Free, Commit, RegistryInv, TypeExtension
<1>1. ASSUME NEW k \in Keys, NEW o \in ExtensionOps, NEW manifest \in Manifests,
             Install(k, o, manifest) \/ Update(k, o, manifest)
      PROVE  Goal
  <2>1. o \in Ops /\ 0 \in Nat
    OBVIOUS
  <2>2. Admitted(k) /\ Commit(k) /\ Redeclare("extension", Declares[manifest])
        /\ \E action \in {"INSTALL", "UPDATE", "ROLLBACK"} : NewRevision(action, o, manifest, 0)
    BY <1>1 DEF Install, Update
  <2> QED
    BY <1>0, <2>1, <2>2, RevisionInv
<1>2. ASSUME NEW k \in Keys, NEW o \in ExtensionOps, NEW target \in DOMAIN revisions, Rollback(k, o, target)
      PROVE  Goal
  <2> DEFINE R == [action : {"INSTALL", "UPDATE", "ROLLBACK"}, op : Ops, manifest : Manifests, source : Nat]
  <2>a. revisions \in Seq(R)
    BY DEF RegistryInv, TypeExtension
  <2>b. \A row \in R : row.manifest \in Manifests
    OBVIOUS
  <2> HIDE DEF R
  <2>c. target \in Nat /\ revisions[target] \in R
    BY <2>a
  <2>1. o \in Ops /\ target \in Nat /\ revisions[target].manifest \in Manifests
    BY <2>b, <2>c
  <2>2. Admitted(k) /\ Commit(k) /\ Redeclare("extension", Declares[revisions[target].manifest])
        /\ NewRevision("ROLLBACK", o, revisions[target].manifest, target)
    BY <1>2 DEF Rollback
  <2> QED
    BY <1>0, <2>1, <2>2, RevisionInv
<1>3. ASSUME NEW k \in Keys, Remove(k) PROVE Goal
  <2>1. Admitted(k) /\ Commit(k) /\ Redeclare("extension", {}) /\ revisions' = revisions
        /\ ext' = [ext EXCEPT !.state = "REMOVED", !.health = "UNKNOWN"]
    BY <1>3 DEF Remove
  <2>2. /\ TypeRest' /\ HeldDeclared' /\ AgentDeclared' /\ Unbooted' /\ Running'
        /\ \A t \in Subjects, p \in Perms : Right(t, p)' <= Right(t, p)
    BY <1>0, <2>1, ExtensionKeeps
  <2>3. TypeExtension' /\ ~Installed'
    BY <1>0, <2>1 DEF RegistryInv, TypeExtension, Installed
  <2>4. declared'["extension"] = {}
    BY <2>1 DEF Redeclare, RegistryInv, TypeRest
  <2>5. ExtensionDeclared'
    BY <2>3, <2>4 DEF ExtensionDeclared
  <2> QED
    BY <1>0, <2>1, <2>2, <2>3, <2>5 DEF RegistryInv
<1>4. ASSUME NEW k \in Keys, NEW status \in {"HEALTHY", "UNHEALTHY"}, ReportHealth(k, status) PROVE Goal
  <2>1. Admitted(k) /\ Commit(k) /\ UNCHANGED <<revisions, declared, grants>>
        /\ ext' = [ext EXCEPT !.health = status]
    BY <1>4 DEF ReportHealth
  <2>2. /\ TypeRest' /\ HeldDeclared' /\ AgentDeclared' /\ Unbooted' /\ Running'
        /\ \A t \in Subjects, p \in Perms : Right(t, p)' <= Right(t, p)
    <3>1. {} \in SUBSET Perms
      OBVIOUS
    <3> QED
      BY <1>0, <2>1, <3>1, ExtensionKeeps
  <2>3. ext'.state = ext.state /\ ext'.revision = ext.revision
    BY <2>1 DEF RegistryInv, TypeExtension
  <2>4. TypeExtension' /\ ExtensionDeclared'
    BY <1>0, <2>1, <2>3 DEF RegistryInv, TypeExtension, ExtensionDeclared, Installed, Current
  <2> QED
    BY <1>0, <2>1, <2>2, <2>4 DEF RegistryInv
<1> QED
  BY <1>1, <1>2, <1>3, <1>4 DEF ExtensionStep

LEMMA RegistryNext == RegistryInv /\ [Next]_vars => RegistryInv'
<1> SUFFICES ASSUME RegistryInv, [Next]_vars PROVE RegistryInv'
  OBVIOUS
<1>1. CASE MutationStep
  BY <1>1, AskInv, ApplyInv, DecideInv, RecordInv DEF MutationStep
<1>2. CASE DeclarationStep
  BY <1>2, SyncNodeInv, BindInv, SyncAgentInv DEF DeclarationStep
<1>3. CASE UNCHANGED vars
  <2>1. UNCHANGED <<meta, declared, grants, extension, agent>> /\ UNCHANGED mutation
    BY <1>3 DEF vars
  <2>2. TypeRest'
    BY <2>1, Zenon DEF RegistryInv, TypeRest, meta, mutation, agent
  <2>3. Running'
    BY <2>1, ApprovedKept DEF RegistryInv, Running, meta, mutation, agent
  <2> QED
    BY <2>1, <2>2, <2>3, Beside DEF RegistryInv
<1> QED
  BY <1>1, <1>2, <1>3, BootInv, CrashInv, ExtensionInv DEF Next

\* The inductive invariant always holds.
THEOREM RegistryInvariant == Spec => []RegistryInv
BY RegistryInit, RegistryNext, PTL DEF Spec

\* What a subject holds, its current source declares, but for a crash between a
\* binding and its declarations.
THEOREM Authority == Spec => []AuthorityInv
<1>1. RegistryInv => AuthorityInv
  BY TypeParts DEF RegistryInv, AuthorityInv, HeldDeclared, ExtensionDeclared, AgentDeclared
<1> QED
  BY <1>1, RegistryInvariant, PTL

-----------------------------------------------------------------------------
\* The register that a state stands for.
approvedKeys == {k \in Keys : Approved(k)}
rightsHeld == [s \in Subjects |-> [p \in Perms |-> Right(s, p)]]

\* Narrower rights under everything else unchanged are a withdrawal.
LEMMA WithdrawStep ==
  ASSUME \A t \in Subjects, p \in Perms : Right(t, p)' <= Right(t, p),
         UNCHANGED <<approval, recorded, baseline>>
  PROVE  Rights!Next
<1>1. approvedKeys' = approvedKeys
  BY ApprovedKept DEF approvedKeys
<1>2. Rights!Withdraw
  BY <1>1 DEF Rights!Withdraw, Rights!Narrower, approvedKeys, rightsHeld
<1> QED
  BY <1>2 DEF Rights!Next

\* Steps that keep grants and declarations keep the rights.
LEMMA SameRights ==
  ASSUME UNCHANGED <<declared, grants>>
  PROVE  rightsHeld' = rightsHeld
BY DEF rightsHeld, Right, Requirements

LEMMA RightsInit == Init => Rights!Init
<1> SUFFICES ASSUME Init PROVE Rights!Init
  OBVIOUS
<1>1. approvedKeys = {}
  BY DEF Init, approvedKeys, Approved, RowsOf
<1>2. \A s \in Subjects, p \in Perms : Right(s, p) = 0
  BY DEF Init, Right
<1>3. rightsHeld \in [Subjects -> [Perms -> {0}]]
  BY <1>2 DEF rightsHeld
<1>4. recorded = {} /\ baseline \in BOOLEAN
  BY DEF Init, Fresh, Legacy
<1> QED
  BY <1>1, <1>3, <1>4 DEF Rights!Init, approvedKeys, rightsHeld

LEMMA BootStep == RegistryInv /\ Boot => Rights!Next
<1> SUFFICES ASSUME RegistryInv, Boot PROVE Rights!Next
  OBVIOUS
<1>1. UNCHANGED <<approval, recorded>> /\ baseline' = TRUE /\ baseline \in BOOLEAN
  BY DEF Boot, mutation, RegistryInv, TypeRest
<1>2. CASE baseline = FALSE
  <2>1. approvedKeys' = approvedKeys
    BY <1>1, ApprovedKept DEF approvedKeys
  <2>2. Rights!Found
    BY <1>1, <1>2, <2>1 DEF Rights!Found, approvedKeys
  <2> QED
    BY <2>2 DEF Rights!Next
<1>3. CASE baseline = TRUE
  <2>1. ASSUME NEW t \in Subjects, NEW p \in Perms PROVE Right(t, p)' <= Right(t, p)
    <3>1. grants'[t][p] = grants[t][p] /\ grants[t][p] \in 0..MaxRank
      BY <1>3 DEF Boot, RegistryInv, TypeRest
    <3>2. CASE t = "agent" /\ ~receive
      BY <3>1, <3>2 DEF RegistryInv, Unbooted, Right
    <3>3. CASE t # "agent" \/ receive
      <4>1. Requirements(t)' = Requirements(t)
        BY <3>3 DEF Boot, RegistryInv, TypeRest, Requirements
      <4> QED
        BY <3>1, <4>1 DEF Right
    <3> QED
      BY <3>2, <3>3
  <2> QED
    BY <1>1, <1>3, <2>1, WithdrawStep
<1> QED
  BY <1>1, <1>2, <1>3

LEMMA MutationMaps ==
  ASSUME RegistryInv, MutationStep
  PROVE  Rights!Next \/ UNCHANGED <<approvedKeys, recorded, baseline, rightsHeld>>
<1>1. ASSUME NEW m \in Mutations, AskApproval(m)
      PROVE  UNCHANGED <<approvedKeys, recorded, baseline, rightsHeld>>
  BY <1>1, AskInv, SameRights DEF AskApproval, approvedKeys, meta
<1>2. ASSUME NEW o \in Ops, NEW d \in {"APPROVE", "REFUSE"}, Decide(o, d)
      PROVE  Rights!Next \/ UNCHANGED <<approvedKeys, recorded, baseline, rightsHeld>>
  <2>1. PICK j \in Keys : \A k \in Keys : Approved(k)' = (Approved(k) \/ (d = "APPROVE" /\ k = j))
    BY <1>2, DecideInv
  <2>2. UNCHANGED <<recorded, baseline, rightsHeld>>
    BY <1>2, SameRights DEF Decide, meta
  <2>3. CASE d = "REFUSE"
    BY <2>1, <2>2, <2>3 DEF approvedKeys
  <2>4. CASE d = "APPROVE"
    <3>1. approvedKeys' = approvedKeys \cup {j}
      BY <2>1, <2>4 DEF approvedKeys
    <3>2. Rights!Approve(j)
      BY <2>2, <3>1 DEF Rights!Approve, approvedKeys, rightsHeld
    <3> QED
      BY <3>2 DEF Rights!Next
  <2> QED
    BY <2>3, <2>4
<1>3. ASSUME NEW m \in Mutations, ApplyMutation(m) PROVE Rights!Next
  <2>1. m.key \in Keys /\ m.key \in approvedKeys /\ m.key \notin recorded
    BY <1>3 DEF ApplyMutation, approvedKeys
  <2>2. approvedKeys' = approvedKeys /\ UNCHANGED <<recorded, baseline>>
    BY <1>3, ApprovedKept DEF ApplyMutation, approvedKeys, meta
  <2>3. Rights!Apply(m.key)
    BY <2>1, <2>2 DEF Rights!Apply, approvedKeys
  <2> QED
    BY <2>1, <2>3 DEF Rights!Next
<1>4. ASSUME RecordMutation PROVE Rights!Next
  <2> DEFINE k == applied.key
  <2>1. k \in Keys /\ k \in approvedKeys
    BY <1>4 DEF RecordMutation, RegistryInv, TypeRest, Running, approvedKeys
  <2>2. recorded' = recorded \cup {k} /\ approvedKeys' = approvedKeys /\ UNCHANGED <<baseline, rightsHeld>>
    BY <1>4, ApprovedKept, SameRights DEF RecordMutation, approvedKeys, meta
  <2>3. Rights!Settle(k)
    BY <2>1, <2>2 DEF Rights!Settle, approvedKeys, rightsHeld
  <2> QED
    BY <2>1, <2>3 DEF Rights!Next
<1> QED
  BY <1>1, <1>2, <1>3, <1>4 DEF MutationStep

LEMMA RightsNext == RegistryInv /\ [Next]_vars => [Rights!Next]_(Rights!vars)
<1> SUFFICES ASSUME RegistryInv, [Next]_vars
             PROVE  Rights!Next \/ UNCHANGED <<approvedKeys, recorded, baseline, rightsHeld>>
  BY DEF Rights!vars, approvedKeys, rightsHeld
<1>1. CASE Crash
  BY <1>1, ApprovedKept, SameRights DEF Crash, approvedKeys
<1>2. CASE DeclarationStep
  <2>1. ASSUME NEW present \in BOOLEAN, SyncNode(present) PROVE Rights!Next
    BY <2>1, SyncNodeInv, WithdrawStep DEF SyncNode, meta, mutation
  <2>2. ASSUME NEW t \in Targets, NEW enabled \in BOOLEAN, BindAgent(t, enabled)
        PROVE  UNCHANGED <<approvedKeys, recorded, baseline, rightsHeld>>
    BY <2>2, ApprovedKept, SameRights DEF BindAgent, approvedKeys, meta, mutation
  <2>3. ASSUME SyncAgent PROVE Rights!Next
    BY <2>3, SyncAgentInv, WithdrawStep DEF SyncAgent, meta, mutation
  <2> QED
    BY <1>2, <2>1, <2>2, <2>3 DEF DeclarationStep
<1>3. CASE ExtensionStep
  BY <1>3, ExtensionInv, WithdrawStep DEF meta, mutation
<1>4. CASE UNCHANGED vars
  BY <1>4, ApprovedKept, SameRights DEF vars, approvedKeys, meta, mutation
<1> QED
  BY <1>1, <1>2, <1>3, <1>4, BootStep, MutationMaps DEF Next

\* Rights widen only by the founding migration or by a mutation under an
\* approved key whose result is not recorded.
THEOREM Refinement == Spec => ImplementsRights
<1>1. RegistryInv /\ [Next]_vars => [Rights!Next]_(Rights!vars)
  BY RightsNext
<1> QED
  BY <1>1, RightsInit, RegistryInvariant, PTL DEF Spec, ImplementsRights, Rights!Spec
=============================================================================
