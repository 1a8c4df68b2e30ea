--------------------------- MODULE HistoryLedger ---------------------------
(***************************************************************************)
(* The Historical Ledger of the Hub: history-ledger.ts and its tables.     *)
(*                                                                         *)
(* Every writer is one immediate SQLite transaction, so a write is one     *)
(* step here, also when it comes from another connection, and a crash      *)
(* inside it leaves nothing behind.  An event lives in the hot table until *)
(* compaction moves the oldest ones into an archive segment; readers and   *)
(* retries must not notice.                                                *)
(*                                                                         *)
(* A hash stands for what is hashed: the hash of an event is the event,    *)
(* its predecessor's hash included.  Times, actors, titles and payload     *)
(* encodings are one value, the body.                                      *)
(***************************************************************************)
EXTENDS Integers, FiniteSets

CONSTANTS Sessions,
          EventIds,
          Bodies,      \* everything of a draft but its id
          Owners,      \* scope, workspace and project
          TopRank,     \* ranks of sensitivity and of sync class are 0 .. TopRank
          Absent         \* the class of an absent row; no hash

Ranks == 0 .. TopRank
\* sync 0 is LOCAL_ONLY; a larger rank may leave the machine more freely.
Classes == [owner : Owners, sensitivity : Ranks, sync : Ranks]
Drafts == [id : EventIds, body : Bodies]

ASSUME RanksAndAbsent == TopRank \in Nat /\ Absent \notin Classes

VARIABLES
  sessions,  \* history_sessions: class, next_seq, head_hash, archive watermark
  hot,       \* history_events
  segments,  \* history_archive_segments
  index      \* history_archive_event_index

ledgerVars == <<sessions, hot, segments, index>>

Row(class, next, head, through, archiveHead) ==
  [class |-> class, next |-> next, head |-> head, through |-> through,
   archiveHead |-> archiveHead]
EmptyRow(class) == Row(class, 0, Absent, -1, Absent)
Created(s) == sessions[s].class # Absent

LedgerInit ==
  /\ sessions = [s \in Sessions |-> EmptyRow(Absent)]
  /\ hot = {} /\ segments = {} /\ index = {}

-----------------------------------------------------------------------------
Earliest(events, n) == {e \in events : Cardinality({f \in events : f.seq < e.seq}) < n}
Between(events, low, high) == {e \in events : low <= e.seq /\ e.seq <= high}
LastHash(events) ==
  IF events = {} THEN Absent ELSE CHOOSE e \in events : \A f \in events : f.seq <= e.seq

HotOf(s) == {e \in hot : e.session = s}
SegmentsOf(s) == {g \in segments : g.session = s}
Archived(s) == UNION {g.events : g \in SegmentsOf(s)}

\* verifySession on a session row, its archived and its hot events.
Consistent(row, archived, recent) ==
  LET n == Cardinality(archived)
      events == archived \cup recent
  IN /\ {e.seq : e \in archived} = 0 .. n - 1
     /\ Cardinality(recent) = Cardinality({e.seq : e \in recent})
     /\ {e.seq : e \in recent} = n .. n + Cardinality(recent) - 1
     /\ \A e \in events : e.prev = LastHash(Between(events, 0, e.seq - 1))
     /\ row.through = n - 1 /\ row.archiveHead = LastHash(archived)
     /\ row.next = n + Cardinality(recent) /\ row.head = LastHash(events)
Verifies(s) == Consistent(sessions[s], Archived(s), HotOf(s))

\* existingEvent: the hot table, else the archive by its index.
Lookup(id) ==
  LET recent == {e \in hot : e.id = id} IN
  IF recent # {} THEN recent
  ELSE {e \in UNION {g.events : g \in segments} :
          /\ e.id = id
          /\ \E x \in index : /\ x.id = id /\ x.seq = e.seq
                              /\ \E g \in segments : e \in g.events /\ x.segment = g.first
                                                     /\ x.session = g.session}

AnySeq == -1  \* appendNext and appendBatch expect no sequence number
AppendResult(s, expected, d) ==
  LET found == Lookup(d.id) IN
  IF found # {}
  THEN IF \E e \in found : e.session = s /\ e.body = d.body
       THEN "deduplicated" ELSE "event_conflict"
  ELSE IF ~Created(s) THEN "no_session"
  ELSE IF expected \notin {AnySeq, sessions[s].next} THEN "seq_conflict"
  ELSE "appended"

\* readRange: archive segments first, then hot rows for what is left.
\* Mutant: the last segment of the range is taken for one beyond it.
ReadRangeShort(s, after, through, limit) ==
  LET archived == Earliest(Between(UNION {g.events : g \in
                    {h \in SegmentsOf(s) : h.last > after /\ h.first < through}},
                    after + 1, through), limit)
  IN archived \cup Earliest(Between(HotOf(s), after + 1, through),
                            limit - Cardinality(archived))

ReadRange(s, after, through, limit) ==
  LET archived == Earliest(Between(UNION {g.events : g \in
                    {h \in SegmentsOf(s) : h.last > after /\ h.first <= through}},
                    after + 1, through), limit)
  IN archived \cup Earliest(Between(HotOf(s), after + 1, through),
                            limit - Cardinality(archived))

-----------------------------------------------------------------------------
\* createSession; of a session that exists it changes nothing.
CreateSession(s, class) ==
  /\ ~Created(s)
  /\ sessions' = [sessions EXCEPT ![s] = EmptyRow(class)]
  /\ UNCHANGED <<hot, segments, index>>

\* ensureSession of a session that exists keeps the stricter of both labels.
\* Mutant: the labels of the latest turn win.
EnsureLatest(s, class) ==
  /\ Created(s)
  /\ LET row == sessions[s] IN
     /\ class.owner = row.class.owner
     /\ sessions' = [sessions EXCEPT ![s] =
                      Row(class, row.next, row.head, row.through, row.archiveHead)]
  /\ UNCHANGED <<hot, segments, index>>

Smaller(a, b) == IF a < b THEN a ELSE b
Larger(a, b) == IF a < b THEN b ELSE a
EnsureSession(s, class) ==
  /\ Created(s)
  /\ LET row == sessions[s]
         strict == [owner |-> row.class.owner,
                    sensitivity |-> Larger(row.class.sensitivity, class.sensitivity),
                    sync |-> Smaller(row.class.sync, class.sync)]
     IN /\ class.owner = row.class.owner
        /\ sessions' = [sessions EXCEPT ![s] =
                         Row(strict, row.next, row.head, row.through, row.archiveHead)]
  /\ UNCHANGED <<hot, segments, index>>

Event(s, row, d) ==
  [id |-> d.id, body |-> d.body, session |-> s, seq |-> row.next, prev |-> row.head]
Advanced(row, event) ==
  Row(row.class, row.next + 1, event, row.through, row.archiveHead)

\* append and appendNext; every other result leaves the tables as they are.
AppendEvent(s, expected, d) ==
  /\ AppendResult(s, expected, d) = "appended"
  /\ LET event == Event(s, sessions[s], d) IN
     /\ hot' = hot \cup {event}
     /\ sessions' = [sessions EXCEPT ![s] = Advanced(@, event)]
  /\ UNCHANGED <<segments, index>>

\* appendBatch of two drafts that are both new; a known draft of a batch is
\* skipped, which leaves an AppendEvent, and a conflict rolls the batch back.
AppendBatch(s, d1, d2) ==
  /\ d1.id # d2.id
  /\ AppendResult(s, AnySeq, d1) = "appended" /\ AppendResult(s, AnySeq, d2) = "appended"
  /\ LET row == sessions[s]
         first == Event(s, row, d1)
         second == Event(s, Advanced(row, first), d2)
     IN /\ hot' = hot \cup {first, second}
        /\ sessions' = [sessions EXCEPT ![s] = Advanced(Advanced(row, first), second)]
  /\ UNCHANGED <<segments, index>>

\* Mutant: the archived events are not indexed by id.
CompactUnindexed(s, retain) ==
  /\ Created(s) /\ Verifies(s)
  /\ LET row == sessions[s]
         first == row.through + 1
         through == row.next - retain - 1
         moved == Between(HotOf(s), first, through)
     IN /\ first <= through
        /\ segments' = segments \cup {[session |-> s, first |-> first, last |-> through,
                                       events |-> moved]}
        /\ hot' = hot \ moved
        /\ sessions' = [sessions EXCEPT ![s] =
                         Row(row.class, row.next, row.head, through, LastHash(moved))]
  /\ UNCHANGED index

\* Mutant: one event too many is deleted from the hot table.
CompactTooMuch(s, retain) ==
  /\ Created(s) /\ Verifies(s)
  /\ LET row == sessions[s]
         first == row.through + 1
         through == row.next - retain - 1
         moved == Between(HotOf(s), first, through)
     IN /\ first <= through
        /\ segments' = segments \cup {[session |-> s, first |-> first, last |-> through,
                                       events |-> moved]}
        /\ index' = index \cup {[id |-> e.id, session |-> s, seq |-> e.seq,
                                 segment |-> first] : e \in moved}
        /\ hot' = hot \ Between(HotOf(s), first, through + 1)
        /\ sessions' = [sessions EXCEPT ![s] =
                         Row(row.class, row.next, row.head, through, LastHash(moved))]

\* compactSession moves the next prefix, all but the retained events.
Compact(s, retain) ==
  /\ Created(s) /\ Verifies(s)
  /\ LET row == sessions[s]
         first == row.through + 1
         through == row.next - retain - 1
         moved == Between(HotOf(s), first, through)
     IN /\ first <= through
        /\ segments' = segments \cup {[session |-> s, first |-> first, last |-> through,
                                       events |-> moved]}
        /\ index' = index \cup {[id |-> e.id, session |-> s, seq |-> e.seq,
                                 segment |-> first] : e \in moved}
        /\ hot' = hot \ moved
        /\ sessions' = [sessions EXCEPT ![s] =
                         Row(row.class, row.next, row.head, through, LastHash(moved))]

Write(s) ==
  \/ \E c \in Classes : CreateSession(s, c) \/ EnsureSession(s, c)
  \/ \E d \in Drafts, expected \in {AnySeq} \cup 0 .. Cardinality(EventIds) :
       AppendEvent(s, expected, d)
  \/ \E d1, d2 \in Drafts : AppendBatch(s, d1, d2)
CompactSome(s) == \E retain \in 0 .. Cardinality(EventIds) : Compact(s, retain)

LedgerNext == \E s \in Sessions : Write(s) \/ CompactSome(s)

LedgerSpec == LedgerInit /\ [][LedgerNext]_ledgerVars

-----------------------------------------------------------------------------
\* Rows have their types; a table that stands for the database's primary keys
\* has at most one row of a key.
IsEvent(e) ==
  /\ e = [id |-> e.id, body |-> e.body, session |-> e.session, seq |-> e.seq, prev |-> e.prev]
  /\ e.id \in EventIds /\ e.body \in Bodies /\ e.session \in Sessions /\ e.seq \in Nat
LedgerTypeOK ==
  /\ DOMAIN sessions = Sessions
  /\ \A s \in Sessions : Created(s) =>
       /\ sessions[s].class \in Classes
       /\ sessions[s].next \in Nat /\ sessions[s].through \in Nat \cup {-1}
  /\ \A e \in hot : IsEvent(e) /\ Created(e.session)
  /\ \A g \in segments : g.session \in Sessions /\ \A e \in g.events : IsEvent(e)
  /\ \A e1, e2 \in hot : e1.id = e2.id => e1 = e2
  /\ \A x1, x2 \in index : x1.id = x2.id => x1 = x2

Log(s) == Archived(s) \cup HotOf(s)
Ledger == UNION {Log(s) : s \in Sessions}

(***************************************************************************)
(* verifySession never raises HISTORY_INTEGRITY_ERROR on what the ledger   *)
(* itself wrote: hot rows and segments are one contiguous hash chain whose *)
(* ends the session row and its archive watermark name.                    *)
(***************************************************************************)
LedgerVerifies == LedgerTypeOK /\ \A s \in Sessions : Created(s) => Verifies(s)

(***************************************************************************)
(* A caller that repeats an append because it lost the answer is told      *)
(* "deduplicated", with whatever sequence number it sends, whether or not  *)
(* the event was archived meanwhile; the same id with another body, or in  *)
(* another session, is refused.                                            *)
(***************************************************************************)
RetryDeduplicated ==
  \A e \in Ledger : \A s \in Sessions, b \in Bodies :
    \A expected \in {AnySeq} \cup 0 .. Cardinality(EventIds) :
      AppendResult(s, expected, [id |-> e.id, body |-> b]) =
        IF s = e.session /\ b = e.body THEN "deduplicated" ELSE "event_conflict"

(***************************************************************************)
(* A page of a session is the same whatever was compacted: the earliest    *)
(* events of the requested range, across segments and hot rows, without a  *)
(* gap at their border.                                                    *)
(***************************************************************************)
ReadIsSlice ==
  \A s \in Sessions : Created(s) =>
    \A after, through \in -1 .. sessions[s].next, limit \in 1 .. Cardinality(EventIds) :
      ReadRange(s, after, through, limit) =
        Earliest(Between(Log(s), after + 1, through), limit)

\* The tables implement the append-only log: a compaction changes nothing.
LoggedAt(s, i) == CHOOSE e \in Log(s) : e.seq = i - 1
LogOf(s) ==
  [i \in 1 .. Cardinality(Log(s)) |-> [id |-> LoggedAt(s, i).id, body |-> LoggedAt(s, i).body]]
IdOf(d) == d.id
Narrows(c1, c2) ==
  c2.owner = c1.owner /\ c2.sensitivity >= c1.sensitivity /\ c2.sync <= c1.sync

Abstract == INSTANCE EventLog WITH
  log <- [s \in Sessions |-> LogOf(s)],
  class <- [s \in Sessions |-> sessions[s].class],
  None <- Absent

\* Every transaction of the ledger is a step of EventLog or invisible to it:
\* no event is rewritten, duplicated or dropped, no half of a batch is kept,
\* and no session becomes readable to more callers than before.
ImplementsEventLog == Abstract!Spec
=============================================================================
