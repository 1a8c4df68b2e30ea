--------------------------- MODULE ContextMemory ---------------------------
(***************************************************************************)
(* The memory of Context: episodes (L0), the facts derived from them (L1), *)
(* the quarantine of proposals, and maintenance with its plans, snapshots, *)
(* receipts and rollbacks (ContextRepository, runConsolidation and         *)
(* ContextMaintenanceEngine).                                              *)
(*                                                                         *)
(* Context is one process: a handler is undisturbed between two awaits,    *)
(* and within such a stretch a crash can fall between two transactions.    *)
(* All facts have one scope and one predicate; a subject is spelled tidily *)
(* or not.  An operation id is planned once and retried with the same      *)
(* time, so it names one snapshot file.                                    *)
(***************************************************************************)
EXTENDS Naturals, FiniteSets

CONSTANTS Jobs,         \* requests that await something
          Executions, Rollbacks,   \* operations
          Episodes, ProjectOf, Global, Unassigned,
          Extractions,   \* what the local model may extract
          Promotions,   \* what a client may promote a proposal to
          Legacy,       \* facts from before there were projects: number -> fact
          ActionSets,   \* the combinations of actions that are planned
          Times, None,
          MaxFacts,     \* bound on ids made
          MaxTurns      \* bound on proposals, promotions, forgotten facts and deaths

Operations == Executions \cup Rollbacks
Ids == 1..MaxFacts
Projects == {ProjectOf[e] : e \in Episodes} \ {Global, Unassigned}
Subjects == {"tidy", "untidy"}
Actions == {"normalize", "dedupe", "rebuild"}

Facts == [subject : Subjects, object : STRING, project : Projects \cup {Global, Unassigned},
          sources : SUBSET Nat, valid : Times, invalid : Times \cup {None}, by : Ids \cup {None}]
Proposals == [project : Projects \cup {Global, Unassigned}, status : {"PENDING", "PROMOTED"},
              promoted : BOOLEAN]
Plans == [actions : ActionSets, episodes : SUBSET Episodes, facts : [Ids -> Facts \cup {None}],
          consolidated : SUBSET Episodes]
Snapshots == [episodes : SUBSET Episodes, consolidated : SUBSET Episodes,
              facts : [Ids -> Facts \cup {None}], pointers : SUBSET Ids]
Receipts == [kind : {"EXECUTE", "ROLLBACK"}, status : {"SUCCEEDED", "FAILED"}, snapshot : BOOLEAN]

ASSUME Constants ==
  /\ Episodes \subseteq Nat \ {0}       \* 0: an id that no episode has
  /\ Times \subseteq Nat /\ MaxFacts \in Nat /\ MaxTurns \in Nat
  /\ \A c \in Extractions : /\ c.subject \in Subjects /\ c.object \in STRING
                            /\ c.source \in Episodes /\ c.valid \in Times
  /\ \A p \in Promotions : /\ p.subject \in Subjects /\ p.object \in STRING
                           /\ p.sources \subseteq Nat /\ p.valid \in Times
  /\ ActionSets \subseteq {a \in SUBSET Actions : "rebuild" \in a => a = {"rebuild"}}

ASSUME NoneIsNoRow ==
  None \notin Nat \cup Facts \cup Proposals \cup Plans \cup Snapshots \cup Receipts

\* What the migration to projects found was as whole as anything since.
ASSUME LegacyIsWhole ==
  /\ DOMAIN Legacy = 1 .. Cardinality(DOMAIN Legacy) /\ DOMAIN Legacy \subseteq Ids
  /\ \A i \in DOMAIN Legacy :
       /\ Legacy[i] \in Facts
       /\ Legacy[i].invalid # None => Legacy[i].valid <= Legacy[i].invalid
       /\ Legacy[i].by # None => Legacy[i].invalid # None /\ Legacy[i].by \in DOMAIN Legacy
  /\ \A some \in (SUBSET DOMAIN Legacy) \ {{}} : \E i \in some : Legacy[i].by \notin some

VARIABLES
  episodes,      \* L0
  consolidated,  \* episodes with a consolidated_at
  facts,         \* L1
  quarantine,    \* id -> [project, status, promoted]: promoted_fact_id is set
  made,          \* ids made
  plan,          \* operation -> [actions, episodes, facts, consolidated]
  opened, file,  \* snapshot files, and what a complete one holds
  receipt,       \* context_maintenance_receipts, by operation
  raced,         \* history: operations whose file two jobs found missing, and both create
  step, op, source,   \* what a job does, under which operation, from which snapshot
  batch, todo,      \* the episodes of a consolidation, what is left to do
  proposed,         \* the candidate a consolidation has proposed, with its id
  staging,          \* facts of the staging database
  turns

store == <<episodes, consolidated, facts, quarantine, made>>
upkeep == <<plan, opened, file, receipt, raced>>
job == <<op, source, batch, todo, proposed, staging>>
memoryVars == <<store, upkeep, step, job, turns>>

NoFacts == [i \in Ids |-> None]

MemoryInit ==
  /\ episodes = {e \in Episodes : ProjectOf[e] = Unassigned} /\ consolidated = {}
  /\ facts = [i \in Ids |-> IF i \in DOMAIN Legacy THEN Legacy[i] ELSE None]
  /\ quarantine = [i \in Ids |-> None] /\ made = Cardinality(DOMAIN Legacy)
  /\ plan = [o \in Operations |-> None] /\ receipt = [o \in Operations |-> None]
  /\ opened = {} /\ raced = {} /\ file = [o \in Operations |-> None]
  /\ step = [j \in Jobs |-> "idle"]
  /\ op = [j \in Jobs |-> None] /\ source = [j \in Jobs |-> None]
  /\ batch = [j \in Jobs |-> {}] /\ todo = [j \in Jobs |-> {}]
  /\ proposed = [j \in Jobs |-> None] /\ staging = [j \in Jobs |-> NoFacts]
  /\ turns = 0

-----------------------------------------------------------------------------
\* No handler is between two awaits.
Writing == {"backup", "safety"}
Awaiting == {"idle", "extracting", "preparing", "asking"} \cup Writing
Free == \A j \in Jobs : step[j] \in Awaiting
Proceed(j, next) == step' = [step EXCEPT ![j] = next]
\* A job that ends forgets what it worked on.
End(j) ==
  /\ Proceed(j, "idle")
  /\ op' = [op EXCEPT ![j] = None] /\ source' = [source EXCEPT ![j] = None]
  /\ batch' = [batch EXCEPT ![j] = {}] /\ todo' = [todo EXCEPT ![j] = {}]
  /\ proposed' = [proposed EXCEPT ![j] = None] /\ staging' = [staging EXCEPT ![j] = NoFacts]

Exists(fs, i) == fs[i] # None
Live(fs, i) == Exists(fs, i) /\ fs[i].invalid = None

Fact(subject, object, project, sources, valid) ==
  [subject |-> subject, object |-> object, project |-> project, sources |-> sources,
   valid |-> valid, invalid |-> None, by |-> None]
Derived(c) == Fact(c.subject, c.object, ProjectOf[c.source], {c.source}, c.valid)

-----------------------------------------------------------------------------
\* The plain routes.
Turn == turns < MaxTurns /\ turns' = turns + 1

AppendEpisode(e) ==
  /\ Free /\ e \notin episodes /\ episodes' = episodes \cup {e}
  /\ UNCHANGED <<consolidated, facts, quarantine, made, upkeep, step, job, turns>>

NewProposal(project) ==
  /\ made < MaxFacts /\ made' = made + 1
  /\ quarantine' = [quarantine EXCEPT ![made + 1] =
       [project |-> project, status |-> "PENDING", promoted |-> FALSE]]

Propose(project) ==
  /\ Turn /\ Free /\ NewProposal(project)
  /\ UNCHANGED <<episodes, consolidated, facts, upkeep, step, job>>

Promoted(i) == quarantine' = [quarantine EXCEPT ![i].status = "PROMOTED", ![i].promoted = TRUE]

\* The fact takes the proposal's id and project; nobody looks for its sources.
Promote(i, p) ==
  /\ Turn /\ Free /\ quarantine[i] # None /\ quarantine[i].status = "PENDING" /\ ~Exists(facts, i)
  /\ facts' = [facts EXCEPT ![i] = Fact(p.subject, p.object, quarantine[i].project, p.sources, p.valid)]
  /\ Promoted(i)
  /\ UNCHANGED <<episodes, consolidated, made, upkeep, step, job>>

Forget(i, now) ==
  /\ Turn /\ Free /\ Live(facts, i) /\ facts[i].valid <= now
  /\ facts' = [facts EXCEPT ![i].invalid = now]
  /\ UNCHANGED <<episodes, consolidated, quarantine, made, upkeep, step, job>>

-----------------------------------------------------------------------------
\* runConsolidation reads a batch and awaits the local model.
Unassignable(e) == ProjectOf[e] = Unassigned

Consolidate(j, es) ==
  /\ Free /\ step[j] = "idle" /\ es # {} /\ es \subseteq episodes \ consolidated
  /\ \A e \in es : ~Unassignable(e)
  /\ batch' = [batch EXCEPT ![j] = es] /\ Proceed(j, "extracting")
  /\ UNCHANGED <<store, upkeep, op, source, todo, proposed, staging, turns>>

\* It answers with candidates (with none when it cannot be parsed), or fails.
Extracted(j) ==
  /\ Free /\ step[j] = "extracting"
  /\ \/ /\ \E cs \in SUBSET {c \in Extractions : c.source \in batch[j]} : todo' = [todo EXCEPT ![j] = cs]
        /\ Proceed(j, "candidates") /\ UNCHANGED <<op, source, batch, proposed, staging>>
     \/ End(j)
  /\ UNCHANGED <<store, upkeep, turns>>

\* Live facts of the same subject in the episode's project or in none.
Rivals(fs, c) == {i \in Ids : Live(fs, i) /\ fs[i].subject = c.subject
                               /\ fs[i].project \in {ProjectOf[c.source], Global}}
Known(fs, c) == \E i \in Rivals(fs, c) : fs[i].object = c.object

\* promoteFromQuarantine with supersedes: a replacement must not begin before.
Superseded(fs, c, i, old) ==
  IF c.valid < fs[old].valid THEN fs
  ELSE [fs EXCEPT ![i] = Derived(c), ![old].invalid = c.valid, ![old].by = i]

\* The fact under a new id; of several rivals the one created last is
\* superseded, and that time is the client's word.
Outcomes(fs, c, i) ==
  IF Rivals(fs, c) = {} THEN {[fs EXCEPT ![i] = Derived(c)]}
  ELSE {Superseded(fs, c, i, old) : old \in Rivals(fs, c)}

ProposeCandidate(j, c) ==
  /\ step[j] = "candidates" /\ c \in todo[j] /\ todo' = [todo EXCEPT ![j] = @ \ {c}]
  /\ IF Known(facts, c)
       THEN UNCHANGED <<quarantine, made, step, proposed>>
       ELSE /\ NewProposal(ProjectOf[c.source]) /\ Proceed(j, "proposed")
            /\ proposed' = [proposed EXCEPT ![j] = [candidate |-> c, id |-> made + 1]]
  /\ UNCHANGED <<episodes, consolidated, facts, upkeep, op, source, batch, staging, turns>>

PromoteCandidate(j) ==
  /\ step[j] = "proposed" /\ Proceed(j, "candidates") /\ proposed' = [proposed EXCEPT ![j] = None]
  /\ LET i == proposed[j].id IN
       /\ facts' \in Outcomes(facts, proposed[j].candidate, i)
       /\ IF Exists(facts', i) THEN Promoted(i) ELSE UNCHANGED quarantine
  /\ UNCHANGED <<episodes, consolidated, made, upkeep, op, source, batch, todo, staging, turns>>

MarkEpisode(j) ==
  /\ step[j] = "candidates" /\ todo[j] = {}
  /\ IF batch[j] = {} THEN End(j) /\ UNCHANGED consolidated
     ELSE \E e \in batch[j] :
            /\ consolidated' = consolidated \cup {e} /\ batch' = [batch EXCEPT ![j] = @ \ {e}]
            /\ UNCHANGED <<step, op, source, todo, proposed, staging>>
  /\ UNCHANGED <<episodes, facts, quarantine, made, upkeep, turns>>

-----------------------------------------------------------------------------
\* plan: a digest of L0 and one of the projection.
Planned(actions) ==
  [actions |-> actions, episodes |-> episodes, facts |-> facts, consolidated |-> consolidated]

Plan(o, actions) ==
  /\ Free /\ plan[o] = None
  /\ plan' = [plan EXCEPT ![o] = Planned(actions)]
  /\ UNCHANGED <<store, opened, file, receipt, raced, step, job, turns>>

\* assertIntegrity.  The references that SQLite guards are left to IntegrityKept.
SourcesKnown == \A i \in Ids : Exists(facts, i) => facts[i].sources \subseteq episodes

Receipt(kind, status, snapshot) == [kind |-> kind, status |-> status, snapshot |-> snapshot]
\* operation_id is unique: a second receipt is refused and the first one stays.
Store(o, r) == receipt' = IF receipt[o] = None THEN [receipt EXCEPT ![o] = r] ELSE receipt

\* createSnapshot, up to its first await: the file is missing, and still is
\* while backup() looks at its directory.
PassCheck(j, o) ==
  /\ op' = [op EXCEPT ![j] = o] /\ Proceed(j, "asking")
  /\ raced' = IF \E k \in Jobs : step[k] = "asking" /\ op[k] = o THEN raced \cup {o} ELSE raced

\* Mutant: an existing snapshot file is written over.
AskSnapshotOver(j, o) ==
  PassCheck(j, o) /\ UNCHANGED <<receipt, source, batch, todo, proposed, staging>>

\* An existing file fails the execution.
AskSnapshot(j, o) ==
  IF o \in opened
    THEN Store(o, Receipt("EXECUTE", "FAILED", FALSE)) /\ End(j) /\ UNCHANGED raced
    ELSE PassCheck(j, o) /\ UNCHANGED <<receipt, source, batch, todo, proposed, staging>>

Execute(j, o) ==
  /\ Free /\ step[j] = "idle" /\ plan[o] # None /\ receipt[o] = None
  /\ plan[o] = Planned(plan[o].actions) /\ SourcesKnown
  /\ IF "rebuild" \in plan[o].actions
       THEN /\ op' = [op EXCEPT ![j] = o] /\ batch' = [batch EXCEPT ![j] = episodes]
            /\ todo' = [todo EXCEPT ![j] = Extractions] /\ Proceed(j, "preparing")
            /\ UNCHANGED <<receipt, raced, source, proposed, staging>>
       ELSE AskSnapshot(j, o)
  /\ UNCHANGED <<store, plan, opened, file, turns>>

\* prepareL1Rebuild consolidates a copy of L0 in a database of its own; what
\* its quarantine would refuse is an error there.
Stage(j, c) ==
  /\ step[j] = "preparing" /\ c \in todo[j] /\ c.source \in batch[j] /\ ~Known(staging[j], c)
  /\ made < MaxFacts /\ made' = made + 1 /\ todo' = [todo EXCEPT ![j] = @ \ {c}]
  /\ \E fs \in Outcomes(staging[j], c, made + 1) :
       Exists(fs, made + 1) /\ staging' = [staging EXCEPT ![j] = fs]
  /\ UNCHANGED <<episodes, consolidated, facts, quarantine, upkeep, step, op, source, batch, proposed, turns>>

\* The plan is compared again, and then the snapshot is asked for.
Prepared(j) ==
  /\ Free /\ step[j] = "preparing"
  /\ IF plan[op[j]] = Planned(plan[op[j]].actions)
       THEN AskSnapshot(j, op[j]) ELSE End(j) /\ UNCHANGED <<receipt, raced>>
  /\ UNCHANGED <<store, plan, opened, file, turns>>

PrepareFails(j) ==
  /\ Free /\ step[j] = "preparing" /\ End(j) /\ UNCHANGED <<store, upkeep, turns>>

-----------------------------------------------------------------------------
Pointers == {i \in Ids : quarantine[i] # None /\ quarantine[i].promoted}
Snapshot == [episodes |-> episodes, consolidated |-> consolidated, facts |-> facts, pointers |-> Pointers]

\* backup() creates the file, or opens the one that came since.
OpenFile(j) ==
  /\ Free /\ step[j] = "asking" /\ opened' = opened \cup {op[j]}
  /\ Proceed(j, IF source[j] = None THEN "backup" ELSE "safety")
  /\ UNCHANGED <<store, plan, file, receipt, raced, job, turns>>

Contended(j) == \E k \in Jobs \ {j} : step[k] \in Writing /\ op[k] = op[j]
Complete(o) == o \in opened /\ file' = [file EXCEPT ![o] = Snapshot] /\ UNCHANGED opened
Removed(o) == opened' = opened \ {o} /\ file' = [file EXCEPT ![o] = None]

\* The backup ends, with what was written while it ran, and its await with it.
\* Of two that write one file SQLite refuses one, for which it ends at once.
BackedUp(j) ==
  /\ Free /\ step[j] \in Writing /\ op[j] \in opened
  /\ Complete(op[j]) \/ (Contended(j) /\ UNCHANGED <<opened, file>>)
  /\ Proceed(j, IF step[j] = "backup" THEN "normalize" ELSE "restore")
  /\ UNCHANGED <<store, plan, receipt, raced, job, turns>>

\* It fails before or behind its file, which it removes unless it was there; or
\* the chmod does.  An execution leaves a failed receipt, a rollback none.
BackupFails(j) ==
  /\ Free /\ step[j] \in {"asking"} \cup Writing
  /\ \/ step[j] \in Writing /\ (Removed(op[j]) \/ Complete(op[j]))
     \/ (step[j] = "asking" \/ Contended(j) \/ file[op[j]] # None) /\ UNCHANGED <<opened, file>>
  /\ IF source[j] = None THEN Store(op[j], Receipt("EXECUTE", "FAILED", FALSE)) ELSE UNCHANGED receipt
  /\ End(j) /\ UNCHANGED <<store, plan, raced, turns>>

Wants(j, action) == action \in plan[op[j]].actions
Assignable(i) == Exists(facts, i) /\ facts[i].project # Unassigned

Normalize(j) ==
  /\ step[j] = "normalize" /\ Proceed(j, "dedupe")
  /\ facts' = [i \in Ids |-> IF Wants(j, "normalize") /\ Assignable(i)
                             THEN [facts[i] EXCEPT !.subject = "tidy"] ELSE facts[i]]
  /\ UNCHANGED <<episodes, consolidated, quarantine, made, upkeep, job, turns>>

\* Live facts that say the same, however they are spelled.
Same(i, k) == /\ Live(facts, i) /\ Live(facts, k) /\ Assignable(i)
              /\ facts[i].project = facts[k].project /\ facts[i].object = facts[k].object
Group(i) == {k \in Ids : Same(i, k)}
Later(s, t) == IF s < t THEN t ELSE s

\* Mutant: duplicates end at the time of the request.
MergedNow(f, winner, now) == [f EXCEPT !.invalid = now, !.by = winner]

Merged(f, winner, now) == [f EXCEPT !.invalid = Later(now, f.valid), !.by = winner]

\* Each group keeps the fact created first and all the sources.
Dedupe(j) ==
  /\ step[j] = "dedupe" /\ Proceed(j, "rebuild")
  /\ \E now \in Times, kept \in SUBSET {i \in Ids : Live(facts, i)} :
       /\ \A i \in Ids : Live(facts, i) =>
            IF Wants(j, "dedupe") /\ Assignable(i)
              THEN Cardinality(kept \cap Group(i)) = 1 ELSE i \in kept
       /\ facts' = [i \in Ids |->
            IF ~Live(facts, i) THEN facts[i]
            ELSE IF i \notin kept THEN Merged(facts[i], CHOOSE k \in kept : k \in Group(i), now)
            ELSE [facts[i] EXCEPT !.sources = @ \cup UNION {facts[k].sources :
                    k \in IF Wants(j, "dedupe") THEN Group(i) ELSE {}}]]
  /\ UNCHANGED <<episodes, consolidated, quarantine, made, upkeep, job, turns>>

\* rebuildDerivedTiers: all pointers and facts go, others come, one transaction.
Replace(fs, pointers) ==
  /\ facts' = fs
  /\ quarantine' = [i \in Ids |-> IF quarantine[i] = None THEN None
                                  ELSE [quarantine[i] EXCEPT !.promoted = i \in pointers]]

Rebuild(j) ==
  /\ step[j] = "rebuild" /\ Proceed(j, "receipt")
  /\ IF Wants(j, "rebuild")
       THEN /\ Replace(staging[j], {})
            /\ consolidated' = consolidated \cup {e \in batch[j] : ~Unassignable(e)}
       ELSE UNCHANGED <<facts, quarantine, consolidated>>
  /\ UNCHANGED <<episodes, made, upkeep, job, turns>>

\* Indexes, verify and the digest of L0: a failure of any leaves a failed receipt.
Conclude(j) ==
  /\ step[j] = "receipt"
  /\ \/ /\ SourcesKnown /\ episodes = plan[op[j]].episodes
        /\ Store(op[j], Receipt("EXECUTE", "SUCCEEDED", TRUE))
     \/ Store(op[j], Receipt("EXECUTE", "FAILED", TRUE))
  /\ End(j) /\ UNCHANGED <<store, plan, opened, file, raced, turns>>

-----------------------------------------------------------------------------
\* A rollback reads the snapshot of an execution, L0 unchanged, and asks for
\* one of its own.
Rollback(j, o, s) ==
  /\ Free /\ step[j] = "idle" /\ receipt[o] = None /\ o \notin opened
  /\ receipt[s] # None /\ receipt[s].kind = "EXECUTE" /\ receipt[s].snapshot
  /\ file[s] # None /\ file[s].episodes = episodes
  /\ PassCheck(j, o) /\ source' = [source EXCEPT ![j] = file[s]]
  /\ UNCHANGED <<store, plan, opened, file, receipt, batch, todo, proposed, staging, turns>>

\* insertFact knows a project or none.
Reinserted(f) == IF f # None /\ f.project = Unassigned THEN [f EXCEPT !.project = Global] ELSE f

Restore(j) == LET s == source[j] IN
  /\ step[j] = "restore" /\ Proceed(j, "restored")
  /\ Replace([i \in Ids |-> Reinserted(s.facts[i])], s.pointers)
  /\ consolidated' = (consolidated \ s.episodes) \cup s.consolidated
  /\ UNCHANGED <<episodes, made, upkeep, job, turns>>

\* verify and the digest of L0 again; a failure leaves no receipt.
Restored(j) ==
  /\ step[j] = "restored"
  /\ IF SourcesKnown /\ episodes = source[j].episodes
       THEN Store(op[j], Receipt("ROLLBACK", "SUCCEEDED", TRUE))
       ELSE UNCHANGED receipt
  /\ End(j) /\ UNCHANGED <<store, plan, opened, file, raced, turns>>

-----------------------------------------------------------------------------
ProcessDies ==
  /\ Turn /\ \E j \in Jobs : step[j] # "idle"
  /\ step' = [j \in Jobs |-> "idle"]
  /\ op' = [j \in Jobs |-> None] /\ source' = [j \in Jobs |-> None]
  /\ batch' = [j \in Jobs |-> {}] /\ todo' = [j \in Jobs |-> {}]
  /\ proposed' = [j \in Jobs |-> None] /\ staging' = [j \in Jobs |-> NoFacts]
  /\ UNCHANGED <<store, upkeep>>

Routes ==
  \/ \E e \in Episodes : AppendEpisode(e)
  \/ \E project \in Projects \cup {Global} : Propose(project)
  \/ \E i \in Ids : (\E p \in Promotions : Promote(i, p)) \/ \E now \in Times : Forget(i, now)
  \/ \E o \in Executions, actions \in ActionSets : Plan(o, actions)

Consolidation(j) ==
  \/ \E es \in SUBSET Episodes : Consolidate(j, es)
  \/ \E c \in Extractions : ProposeCandidate(j, c)
  \/ Extracted(j) \/ PromoteCandidate(j) \/ MarkEpisode(j)

Maintenance(j) ==
  \/ \E o \in Executions : Execute(j, o) \/ \E r \in Rollbacks : Rollback(j, r, o)
  \/ \E c \in Extractions : Stage(j, c)
  \/ Prepared(j) \/ PrepareFails(j) \/ OpenFile(j) \/ BackedUp(j) \/ BackupFails(j)
  \/ Normalize(j) \/ Dedupe(j) \/ Rebuild(j) \/ Conclude(j) \/ Restore(j) \/ Restored(j)

MemoryNext == Routes \/ ProcessDies \/ \E j \in Jobs : Consolidation(j) \/ Maintenance(j)

MemorySpec == MemoryInit /\ [][MemoryNext]_memoryVars
-----------------------------------------------------------------------------
MemoryTypeOK ==
  /\ episodes \subseteq Episodes /\ consolidated \subseteq episodes
  /\ \A i \in Ids : facts[i] \in Facts \cup {None} /\ (Exists(facts, i) => i <= made)
  /\ \A i \in Ids : quarantine[i] # None => i <= made /\ quarantine[i].status \in {"PENDING", "PROMOTED"}
  /\ \A o \in Operations : file[o] # None => o \in opened
  /\ \A o \in Operations : receipt[o] # None /\ receipt[o].snapshot => file[o] # None \/ o \in raced

\* The references of L1: what superseded a fact exists, and the fact did not end
\* before it began; supersession ends at a fact that nothing superseded; the
\* pointer of a promoted proposal points to a fact that exists.
IntegrityKept ==
  /\ MemoryTypeOK
  /\ \A i \in Ids : Exists(facts, i) =>
       /\ facts[i].invalid # None => facts[i].valid <= facts[i].invalid
       /\ facts[i].by # None => facts[i].invalid # None /\ Exists(facts, facts[i].by)
  /\ \A some \in (SUBSET {i \in Ids : Exists(facts, i)}) \ {{}} :
       \E i \in some : facts[i].by \notin some
  /\ Pointers \subseteq {i \in Ids : Exists(facts, i)}

\* adr/0006 and 0028: a fact is not deleted.  A row goes only in a rebuild or a
\* rollback, whose own complete snapshot holds it as it was, and no complete
\* snapshot is written over or removed; but for operations whose file two jobs
\* found missing before either had created it (SnapshotsStay).
NothingLost ==
  [][/\ \A i \in Ids : Exists(facts, i) /\ facts'[i] = None =>
          \E j \in Jobs : /\ step[j] \in {"rebuild", "restore"}
                          /\ \/ op[j] \in raced
                             \/ file[op[j]] # None /\ file[op[j]].facts[i] = facts[i]
     /\ \A o \in Operations \ raced' : file[o] # None => file'[o] = file[o]]_memoryVars

\* adr/0028: a failure after the mutation is no dead end as long as the snapshot
\* from before it was made.
SnapshotsStay == [][\A o \in Operations : file[o] # None => file'[o] = file[o]]_memoryVars

\* adr/0035: an ambiguous row stays unassigned until it is reconciled.
AmbiguousStaysUnassigned ==
  \A i \in DOMAIN Legacy : Exists(facts, i) => facts[i].project = Unassigned
=============================================================================
