------------------------ MODULE ConnectContextProofs ------------------------
(***************************************************************************)
(* Proofs about ContextMemory, for any episodes, extractions, promotions   *)
(* and legacy facts, and about SpendBudget, for any calls, amounts, days   *)
(* and limits.                                                             *)
(*                                                                         *)
(* The memory: what the integrity of the facts rests on is that only a     *)
(* fact that had not ended is superseded, by one that nothing superseded,  *)
(* so that every set of facts has one whose supersession leads out of it;  *)
(* and that at most one handler is between two awaits, so a maintenance    *)
(* changes the facts that its own snapshot holds.                          *)
(*                                                                         *)
(* The budget: a live call inside withSpendLock is the one that holds the  *)
(* lock file and has read the file as it is, so its write changes its own  *)
(* entry and nothing else.                                                 *)
(***************************************************************************)
EXTENDS SpendBudget, ContextMemory, FiniteSetTheorems, WellFoundedInduction, TLAPS

Existing(fs) == {i \in Ids : Exists(fs, i)}

\* Facts under ids that were made, whose supersessions end at facts that nothing
\* superseded, and no earlier than they began.
Whole(fs, n) ==
  /\ fs \in [Ids -> Facts \cup {None}]
  /\ \A i \in Existing(fs) :
       /\ i <= n
       /\ fs[i].invalid # None => fs[i].valid <= fs[i].invalid
       /\ fs[i].by # None => fs[i].invalid # None /\ fs[i].by \in Existing(fs)
  /\ \A some \in (SUBSET Existing(fs)) \ {{}} : \E i \in some : fs[i].by \notin some

WholeSnapshot(s, n) ==
  /\ Whole(s.facts, n) /\ s.pointers \subseteq Existing(s.facts)
  /\ s.consolidated \subseteq s.episodes

\* Steps at which a job writes its snapshot, has one, or has found no file for it
\* (Past), and those at which it has a source.
Backing == {"backup", "safety"}
Changing == {"normalize", "dedupe", "rebuild"}
Backed == Changing \cup {"receipt", "restore", "restored"}
Past == {"asking"} \cup Backing \cup Backed
Sourced == {"safety", "restore", "restored"}
Steps == {"idle", "extracting", "candidates", "proposed", "preparing"} \cup Past
Operating == {"preparing"} \cup Past

\* A job that has proposed a candidate will find the id of the proposal free.
FreshProposal(j) == step[j] = "proposed" =>
  /\ proposed[j] \in [candidate : Extractions, id : Ids]
  /\ proposed[j].id <= made /\ quarantine[proposed[j].id] # None
  /\ ~Exists(facts, proposed[j].id)

\* What a job that awaits its backup knows of its file, if nobody else creates it.
Awaited(j) == op[j] \notin raced =>
  /\ step[j] = "asking" => op[j] \notin opened
  /\ step[j] \in Backing => op[j] \in opened /\ file[op[j]] = None

\* What a rollback has read.
SourceWhole(j) == source[j] # None =>
  source[j] \in Snapshots /\ WholeSnapshot(source[j], made) /\ source[j].episodes \subseteq episodes

JobKnows(j) ==
  /\ step[j] \in Steps /\ batch[j] \subseteq episodes /\ todo[j] \subseteq Extractions
  /\ Whole(staging[j], made)
  /\ FreshProposal(j) /\ Awaited(j) /\ SourceWhole(j)
  /\ step[j] \in Operating => op[j] \in Operations
  /\ step[j] \in {"preparing", "backup", "receipt"} \cup Changing => plan[op[j]] # None
  /\ step[j] = "asking" /\ source[j] = None => plan[op[j]] # None
  /\ step[j] \in Sourced => source[j] # None
  /\ step[j] \in Backed /\ op[j] \notin raced => file[op[j]] # None
  /\ step[j] \in Changing /\ Wants(j, "rebuild") /\ op[j] \notin raced => facts = file[op[j]].facts
  /\ step[j] = "restore" /\ op[j] \notin raced => facts = file[op[j]].facts

StoreTypes ==
  /\ episodes \subseteq Episodes /\ consolidated \subseteq episodes
  /\ made \in 0 .. MaxFacts
  /\ quarantine \in [Ids -> Proposals \cup {None}]
  /\ plan \in [Operations -> Plans \cup {None}]
  /\ opened \subseteq Operations /\ raced \subseteq Operations /\ file \in [Operations -> Snapshots \cup {None}]
  /\ receipt \in [Operations -> Receipts \cup {None}]

JobTypes ==
  /\ step \in [Jobs -> Steps] /\ DOMAIN op = Jobs /\ DOMAIN source = Jobs
  /\ DOMAIN batch = Jobs /\ DOMAIN todo = Jobs /\ DOMAIN proposed = Jobs /\ DOMAIN staging = Jobs

FactsWhole ==
  /\ Whole(facts, made) /\ Pointers \subseteq Existing(facts)
  /\ \A i \in Ids : quarantine[i] # None => i <= made

FilesWhole ==
  /\ \A o \in Operations : file[o] # None =>
       o \in opened /\ WholeSnapshot(file[o], made) /\ file[o].episodes \subseteq episodes
  /\ \A o \in Operations : receipt[o] # None /\ receipt[o].snapshot => file[o] # None \/ o \in raced

\* At most one handler is between two awaits, and one job uses a file, unless two
\* found it missing.
Alone ==
  /\ \A j, k \in Jobs : step[j] \notin Awaiting /\ step[k] \notin Awaiting => j = k
  /\ \A j, k \in Jobs : step[j] \in Past /\ step[k] \in Past /\ op[j] = op[k] /\ op[j] \notin raced => j = k

MemoryInv ==
  /\ StoreTypes /\ JobTypes /\ FactsWhole /\ FilesWhole /\ Alone
  /\ \A j \in Jobs : JobKnows(j)

-----------------------------------------------------------------------------
(* Whole facts. *)

LEMMA NoneIsNoId == None \notin Nat /\ None \notin Ids /\ None \notin Facts
  BY NoneIsNoRow DEF Ids

LEMMA WholeLater ==
  ASSUME NEW fs, NEW n \in Nat, NEW m \in Nat, n <= m, Whole(fs, n)
  PROVE  Whole(fs, m)
  BY DEF Whole, Existing, Ids

LEMMA NothingIsWhole == ASSUME NEW n PROVE Whole(NoFacts, n)
<1>1. Existing(NoFacts) = {}
  BY DEF Existing, Exists, NoFacts
<1> QED
  BY <1>1 DEF Whole, NoFacts

LEMMA DerivedIsFact == ASSUME NEW c \in Extractions
  PROVE  /\ Derived(c) \in Facts /\ Derived(c) # None
         /\ Derived(c).invalid = None /\ Derived(c).by = None /\ Derived(c).valid = c.valid
<1>1. /\ c.subject \in Subjects /\ c.object \in STRING /\ c.source \in Episodes /\ c.valid \in Times
      /\ Episodes \subseteq Nat
  BY Constants
<1>2. ProjectOf[c.source] \in Projects \cup {Global, Unassigned}
  BY <1>1 DEF Projects
<1>3. Derived(c) \in Facts
  BY <1>1, <1>2 DEF Derived, Fact, Facts
<1> QED
  BY <1>3, NoneIsNoId DEF Derived, Fact

EndedBy(f, t, i) == [f EXCEPT !.invalid = t, !.by = i]
Added(fs, i, f) == [fs EXCEPT ![i] = f]

LEMMA FactEnded ==
  ASSUME NEW f \in Facts, NEW t \in Times, NEW i \in Ids
  PROVE  /\ EndedBy(f, t, i) \in Facts /\ EndedBy(f, t, i).invalid = t
         /\ EndedBy(f, t, i).by = i /\ EndedBy(f, t, i).valid = f.valid
  BY DEF Facts, EndedBy

LEMMA WholeAdded ==
  ASSUME NEW fs, NEW n, Whole(fs, n), NEW f \in Facts, f.invalid = None, f.by = None,
         NEW i \in Ids, ~Exists(fs, i), i <= n
  PROVE  Whole(Added(fs, i, f), n) /\ Existing(Added(fs, i, f)) = Existing(fs) \cup {i}
<1> DEFINE gs == Added(fs, i, f)
<1>1. gs \in [Ids -> Facts \cup {None}] /\ \A k \in Ids : gs[k] = IF k = i THEN f ELSE fs[k]
  BY DEF Whole, Added
<1> HIDE DEF gs
<1>2. Existing(gs) = Existing(fs) \cup {i}
  BY <1>1, NoneIsNoId DEF Existing, Exists
<1>3. \A k \in Existing(gs) :
        /\ k <= n
        /\ gs[k].invalid # None => gs[k].valid <= gs[k].invalid
        /\ gs[k].by # None => gs[k].invalid # None /\ gs[k].by \in Existing(gs)
  BY <1>1, <1>2 DEF Whole, Existing
<1>4. ASSUME NEW some \in (SUBSET Existing(gs)) \ {{}} PROVE \E k \in some : gs[k].by \notin some
  <2>1. some \subseteq Ids
    BY DEF Existing
  <2>2. CASE i \in some
    BY <1>1, <2>1, <2>2, NoneIsNoId
  <2>3. CASE i \notin some
    <3>1. some \in (SUBSET Existing(fs)) \ {{}}
      BY <1>2, <2>3
    <3> QED
      BY <1>1, <2>1, <2>3, <3>1 DEF Whole
  <2> QED
    BY <2>2, <2>3
<1>5. Whole(gs, n)
  BY <1>1, <1>3, <1>4 DEF Whole
<1> QED
  BY <1>2, <1>5 DEF gs

\* What revises facts, and ends some of those that had not ended, at facts that
\* nothing supersedes, keeps them whole.
Ends(fs, gs, i) ==
  /\ fs[i].invalid = None /\ gs[i].invalid # None /\ gs[i].valid <= gs[i].invalid
  /\ gs[i].by # None => gs[i].by \in Existing(fs) /\ gs[gs[i].by].by = None
Stays(fs, gs, i) ==
  gs[i].valid = fs[i].valid /\ gs[i].invalid = fs[i].invalid /\ gs[i].by = fs[i].by

LEMMA WholeRevised ==
  ASSUME NEW fs, NEW n, Whole(fs, n), NEW gs \in [Ids -> Facts \cup {None}],
         Existing(gs) = Existing(fs),
         \A i \in Existing(fs) : Stays(fs, gs, i) \/ Ends(fs, gs, i)
  PROVE  Whole(gs, n)
<1>1. \A i \in Existing(gs) :
        /\ i <= n
        /\ gs[i].invalid # None => gs[i].valid <= gs[i].invalid
        /\ gs[i].by # None => gs[i].invalid # None /\ gs[i].by \in Existing(gs)
  BY DEF Whole, Stays, Ends
<1>2. ASSUME NEW some \in (SUBSET Existing(gs)) \ {{}} PROVE \E k \in some : gs[k].by \notin some
  <2>1. some \subseteq Ids /\ None \notin some
    BY NoneIsNoId DEF Existing
  <2>2. CASE \A k \in some : Stays(fs, gs, k)
    <3>1. PICK k \in some : fs[k].by \notin some
      BY DEF Whole
    <3> QED
      BY <2>2, <3>1 DEF Stays
  <2>3. CASE \E k \in some : ~Stays(fs, gs, k)
    <3>1. PICK k \in some : Ends(fs, gs, k)
      BY <2>3
    <3> QED
      BY <2>1, <3>1 DEF Ends
  <2> QED
    BY <2>2, <2>3
<1> QED
  BY <1>1, <1>2 DEF Whole

LEMMA WholeSuperseded ==
  ASSUME NEW fs, NEW n, Whole(fs, n), NEW c \in Extractions,
         NEW i \in Ids, ~Exists(fs, i), i <= n, NEW old \in Rivals(fs, c)
  PROVE  /\ Whole(Superseded(fs, c, i, old), n)
         /\ Existing(fs) \subseteq Existing(Superseded(fs, c, i, old))
         /\ Existing(Superseded(fs, c, i, old)) \subseteq Existing(fs) \cup {i}
<1>0. old \in Existing(fs) /\ old # i /\ fs[old].invalid = None /\ old \in Ids
  BY DEF Rivals, Live, Existing
<1>1. CASE c.valid < fs[old].valid
  BY <1>1 DEF Superseded
<1>2. CASE ~(c.valid < fs[old].valid)
  <2> DEFINE hs == [fs EXCEPT ![i] = Derived(c)]
             gs == Superseded(fs, c, i, old)
  <2>1. Whole(hs, n) /\ Existing(hs) = Existing(fs) \cup {i}
    <3> DEFINE f == Derived(c)
    <3>1. f \in Facts /\ f.invalid = None /\ f.by = None /\ hs = Added(fs, i, f)
      BY DerivedIsFact DEF Added
    <3> HIDE DEF f, hs
    <3> QED
      BY <3>1, WholeAdded
  <2>2. /\ \A k \in Ids : hs[k] = IF k = i THEN Derived(c) ELSE fs[k]
        /\ \A k \in Ids : gs[k] = IF k = old THEN [hs[old] EXCEPT !.invalid = c.valid, !.by = i] ELSE hs[k]
    BY <1>0, <1>2 DEF Superseded, Whole
  <2>3. DOMAIN gs = Ids /\ gs = [k \in Ids |-> gs[k]]
    BY <1>2 DEF Superseded, Whole
  <2>4. hs[old] \in Facts /\ hs[old] = fs[old] /\ c.valid \in Times
        /\ fs[old].valid \in Times /\ Times \subseteq Nat /\ None \notin Times
    BY <1>0, <2>2, Constants, NoneIsNoId DEF Whole, Existing, Exists, Facts
  <2>5. gs[old] \in Facts /\ gs[old].invalid = c.valid /\ gs[old].by = i /\ gs[old].valid = fs[old].valid
    <3>1. gs[old] = [hs[old] EXCEPT !.invalid = c.valid, !.by = i]
      BY <1>0, <2>2
    <3> DEFINE f == hs[old]
               t == c.valid
    <3> HIDE DEF gs, f, t
    <3>2. f \in Facts /\ t \in Times /\ gs[old] = EndedBy(f, t, i) /\ f.valid = fs[old].valid
      BY <2>4, <3>1 DEF f, t, EndedBy
    <3>3. gs[old] \in Facts /\ gs[old].invalid = t /\ gs[old].by = i /\ gs[old].valid = f.valid
      BY <3>2, FactEnded
    <3> QED
      BY <3>2, <3>3 DEF t
  <2> HIDE DEF hs, gs
  <2>6. gs \in [Ids -> Facts \cup {None}]
    BY <2>1, <2>2, <2>3, <2>5 DEF Whole
  <2>7. Existing(gs) = Existing(hs)
    BY <1>0, <2>1, <2>2, <2>5, NoneIsNoId DEF Existing, Exists
  <2>8. gs[i].by = None
    BY <1>0, <2>2, DerivedIsFact
  <2>9. Ends(hs, gs, old)
    <3>1. hs[old].invalid = None /\ gs[old].invalid # None /\ i \in Existing(hs)
      BY <1>0, <2>1, <2>4, <2>5
    <3>2. gs[old].valid <= gs[old].invalid
      <4>1. gs[old].valid \in Nat /\ gs[old].invalid \in Nat /\ ~(gs[old].invalid < gs[old].valid)
        BY <1>2, <2>4, <2>5
      <4> QED
        BY <4>1
    <3>3. gs[gs[old].by].by = None /\ gs[old].by \in Existing(hs)
      BY <2>5, <2>8, <3>1
    <3> QED
      BY <3>1, <3>2, <3>3 DEF Ends
  <2>10. \A k \in Existing(hs) : k # old => Stays(hs, gs, k)
    BY <2>2 DEF Stays, Existing
  <2>11. Whole(gs, n)
    BY <2>1, <2>6, <2>7, <2>9, <2>10, WholeRevised
  <2> QED
    BY <2>1, <2>7, <2>11 DEF gs
<1> QED
  BY <1>1, <1>2

LEMMA OutcomesWhole ==
  ASSUME NEW fs, NEW n, Whole(fs, n), NEW c \in Extractions,
         NEW i \in Ids, ~Exists(fs, i), i <= n, NEW gs \in Outcomes(fs, c, i)
  PROVE  Whole(gs, n) /\ Existing(fs) \subseteq Existing(gs) /\ Existing(gs) \subseteq Existing(fs) \cup {i}
<1>1. CASE Rivals(fs, c) = {}
  <2>1. gs = [fs EXCEPT ![i] = Derived(c)]
    BY <1>1 DEF Outcomes
  <2> DEFINE f == Derived(c)
  <2>2. f \in Facts /\ f.invalid = None /\ f.by = None /\ gs = Added(fs, i, f)
    BY <2>1, DerivedIsFact DEF Added
  <2> HIDE DEF f
  <2> QED
    BY <2>2, WholeAdded
<1>2. CASE Rivals(fs, c) # {}
  <2>1. PICK old \in Rivals(fs, c) : gs = Superseded(fs, c, i, old)
    BY <1>2 DEF Outcomes
  <2> QED
    BY <2>1, WholeSuperseded
<1> QED
  BY <1>1, <1>2

-----------------------------------------------------------------------------
(* What a step leaves alone. *)

Others(j) == \A k \in Jobs \ {j} :
  /\ step'[k] = step[k] /\ op'[k] = op[k] /\ source'[k] = source[k] /\ batch'[k] = batch[k]
  /\ todo'[k] = todo[k] /\ proposed'[k] = proposed[k] /\ staging'[k] = staging[k]

\* What only grows, and what is written once.
Grows ==
  /\ episodes \subseteq episodes' /\ made' \in made .. MaxFacts
  /\ \A i \in Ids : quarantine[i] # None => quarantine'[i] # None
  /\ \A o \in Operations : plan[o] # None => plan'[o] = plan[o]
  /\ raced \subseteq raced'
  /\ \A o \in Operations \ raced' : file[o] # None => file'[o] = file[o]

LEMMA NothingGrows == ASSUME MemoryInv, UNCHANGED <<store, plan, file>>, raced \subseteq raced' PROVE Grows
  BY DEF MemoryInv, StoreTypes, Grows, store

LEMMA SourceStays ==
  ASSUME MemoryInv, Grows, NEW j \in Jobs, source'[j] = source[j]
  PROVE  SourceWhole(j)'
<1>1. SourceWhole(j) /\ made \in Nat /\ made' \in Nat /\ made <= made'
  BY Constants DEF MemoryInv, JobKnows, StoreTypes, Grows
<1> QED
  BY <1>1, WholeLater DEF SourceWhole, WholeSnapshot, Grows

\* A job that waits, or whose facts nobody changes, knows what it knew.
LEMMA Remembers ==
  ASSUME MemoryInv, Grows, NEW k \in Jobs,
         step'[k] = step[k], op'[k] = op[k], source'[k] = source[k], batch'[k] = batch[k],
         todo'[k] = todo[k], proposed'[k] = proposed[k], staging'[k] = staging[k],
         step[k] \in Awaiting \/ facts' = facts, Awaited(k)'
  PROVE  JobKnows(k)'
<1>1. JobKnows(k) /\ made \in Nat /\ made' \in Nat /\ made <= made'
  BY Constants DEF MemoryInv, StoreTypes, Grows
<1>2. /\ step'[k] \in Steps /\ batch'[k] \subseteq episodes' /\ todo'[k] \subseteq Extractions
      /\ Whole(staging'[k], made')
  BY <1>1, WholeLater DEF JobKnows, Grows
<1>3. FreshProposal(k)'
  BY <1>1, Constants DEF JobKnows, FreshProposal, Grows, Awaiting, Writing, Ids, Exists
<1>4. SourceWhole(k)'
  BY SourceStays
<1>5. /\ step'[k] \in Operating => op'[k] \in Operations
      /\ step'[k] \in {"preparing", "backup", "receipt"} \cup Changing => plan'[op'[k]] # None
      /\ step'[k] = "asking" /\ source'[k] = None => plan'[op'[k]] # None
      /\ step'[k] \in Sourced => source'[k] # None
      /\ step'[k] \in Backed /\ op'[k] \notin raced' => file'[op'[k]] # None
  BY <1>1 DEF JobKnows, Grows, Operating, Past, Backing, Backed, Changing
<1>6. step'[k] \in Changing /\ Wants(k, "rebuild")' /\ op'[k] \notin raced' => facts' = file'[op'[k]].facts
  BY <1>1 DEF JobKnows, Grows, Wants, Operating, Past, Backed, Changing, Awaiting, Writing
<1>7. step'[k] = "restore" /\ op'[k] \notin raced' => facts' = file'[op'[k]].facts
  BY <1>1 DEF JobKnows, Grows, Operating, Past, Backed, Awaiting, Writing
<1> QED
  BY <1>2, <1>3, <1>4, <1>5, <1>6, <1>7 DEF JobKnows

\* Beside a handler that runs, all jobs wait.
LEMMA Quiet ==
  ASSUME MemoryInv, NEW j \in Jobs, Free \/ step[j] \notin Awaiting, NEW k \in Jobs \ {j}
  PROVE  step[k] \in Awaiting
  BY DEF MemoryInv, Alone, Free

LEMMA OthersRemember ==
  ASSUME MemoryInv, Grows, NEW j \in Jobs, Others(j), Free \/ step[j] \notin Awaiting \/ facts' = facts,
         \A k \in Jobs \ {j} : Awaited(k)'
  PROVE  \A k \in Jobs \ {j} : JobKnows(k)'
<1> TAKE k \in Jobs \ {j}
<1>1. step[k] \in Awaiting \/ facts' = facts
  BY Quiet
<1> QED
  BY <1>1, Remembers DEF Others

\* A job with a new file is the only one, unless two found it missing.
Apart(j) == \A k \in Jobs \ {j} : step[k] \in Past /\ op[k] = op'[j] => op[k] \in raced'

LEMMA StaysAlone ==
  ASSUME MemoryInv, NEW j \in Jobs, Others(j), raced \subseteq raced',
         step'[j] \in Awaiting \/ Free \/ step[j] \notin Awaiting,
         step'[j] \in Past => (step[j] \in Past /\ op'[j] = op[j]) \/ Apart(j)
  PROVE  Alone'
<1>1. ASSUME NEW k \in Jobs, NEW l \in Jobs, step'[k] \notin Awaiting, step'[l] \notin Awaiting
      PROVE  k = l
  BY <1>1, Quiet DEF MemoryInv, Alone, Others
<1>2. ASSUME NEW k \in Jobs \ {j}, step'[j] \in Past, step'[k] \in Past, op'[k] = op'[j]
      PROVE  op'[j] \in raced'
  BY <1>2 DEF MemoryInv, Alone, Others, Apart
<1>3. ASSUME NEW k \in Jobs, NEW l \in Jobs, step'[k] \in Past, step'[l] \in Past, op'[k] = op'[l],
             op'[k] \notin raced'
      PROVE  k = l
  BY <1>2, <1>3 DEF MemoryInv, Alone, Others
<1> QED
  BY <1>1, <1>3 DEF Alone

LEMMA FilesStay ==
  ASSUME MemoryInv, Grows, file' = file, opened \subseteq opened', receipt' = receipt
  PROVE  FilesWhole'
<1>1. made \in Nat /\ made' \in Nat /\ made <= made'
  BY Constants DEF MemoryInv, StoreTypes, Grows
<1>2. \A o \in Operations : file'[o] # None => WholeSnapshot(file'[o], made')
  BY <1>1, WholeLater DEF MemoryInv, FilesWhole, WholeSnapshot
<1> QED
  BY <1>2 DEF MemoryInv, FilesWhole, Grows

LEMMA FactsStay ==
  ASSUME MemoryInv, Grows, facts' = facts, quarantine' = quarantine
  PROVE  FactsWhole'
<1>1. made \in Nat /\ made' \in Nat /\ made <= made'
  BY Constants DEF MemoryInv, StoreTypes, Grows
<1>2. Whole(facts, made')
  BY <1>1, WholeLater DEF MemoryInv, FactsWhole
<1>3. \A i \in Ids : i \in Int
  BY DEF Ids
<1> QED
  BY <1>1, <1>2, <1>3 DEF MemoryInv, FactsWhole, Pointers

LEMMA JobsTyped == ASSUME JobTypes, UNCHANGED job, step' \in [Jobs -> Steps] PROVE JobTypes'
  BY DEF JobTypes, job

\* A job that ended has nothing left to know.
LEMMA EndKnows ==
  ASSUME MemoryInv, NEW j \in Jobs, End(j)
  PROVE  Others(j) /\ JobKnows(j)' /\ JobTypes' /\ step'[j] = "idle"
<1>1. /\ Others(j) /\ JobTypes' /\ step'[j] = "idle" /\ source'[j] = None
      /\ batch'[j] = {} /\ todo'[j] = {} /\ staging'[j] = NoFacts
  BY DEF MemoryInv, JobTypes, End, Proceed, Others, Steps
<1>2. JobKnows(j)'
  BY <1>1, NothingIsWhole DEF JobKnows, FreshProposal, Awaited, SourceWhole, Steps, Operating, Past, Backing, Backed, Changing, Sourced
<1> QED
  BY <1>1, <1>2

LEMMA StoreStays == ASSUME MemoryInv, UNCHANGED <<store, upkeep>> PROVE StoreTypes' /\ FactsWhole' /\ FilesWhole'
<1>1. Grows
  BY NothingGrows DEF upkeep
<1>2. StoreTypes'
  BY DEF MemoryInv, StoreTypes, store, upkeep
<1> QED
  BY <1>1, <1>2, FilesStay, FactsStay DEF store, upkeep

\* Waiting jobs keep their own files in view when the files stay.
LEMMA AwaitedStays ==
  ASSUME MemoryInv, UNCHANGED <<file, opened>>, raced \subseteq raced',
         NEW k \in Jobs, step'[k] = step[k], op'[k] = op[k]
  PROVE  Awaited(k)'
<1>1. Awaited(k)
  BY DEF MemoryInv, JobKnows
<1> QED
  BY <1>1 DEF Awaited

LEMMA BackupsStay ==
  ASSUME MemoryInv, UNCHANGED <<file, opened>>, raced \subseteq raced', NEW j \in Jobs, Others(j)
  PROVE  \A k \in Jobs \ {j} : Awaited(k)'
  BY AwaitedStays DEF Others

-----------------------------------------------------------------------------
(* The routes. *)

\* A step that changes no job.
LEMMA RouteKeeps ==
  ASSUME MemoryInv, Free, UNCHANGED <<step, job>>, Grows, file' = file, opened' = opened,
         UNCHANGED <<receipt, raced>>, StoreTypes', FactsWhole'
  PROVE  MemoryInv'
<1>1. \A k \in Jobs : step[k] \in Awaiting
  BY DEF Free
<1>2. \A k \in Jobs : JobKnows(k)'
  BY <1>1, Remembers, AwaitedStays DEF job
<1>3. Alone' /\ JobTypes'
  BY DEF MemoryInv, Alone, JobTypes, job
<1>4. FilesWhole'
  BY FilesStay
<1> QED
  BY <1>2, <1>3, <1>4 DEF MemoryInv

LEMMA AppendEpisodeKeeps ==
  ASSUME MemoryInv, NEW e \in Episodes, AppendEpisode(e) PROVE MemoryInv'
<1>1. Grows
  BY DEF AppendEpisode, MemoryInv, StoreTypes, Grows, upkeep
<1>2. StoreTypes'
  BY DEF AppendEpisode, MemoryInv, StoreTypes, upkeep
<1>3. FactsWhole'
  BY <1>1, FactsStay DEF AppendEpisode
<1> QED
  BY <1>1, <1>2, <1>3, RouteKeeps DEF AppendEpisode, upkeep

\* A proposal of a project is new.
LEMMA ProposalNew ==
  ASSUME MemoryInv, NEW p \in Projects \cup {Global, Unassigned}, NewProposal(p)
  PROVE  /\ made' \in made .. MaxFacts /\ made' \in 0 .. MaxFacts /\ made + 1 \in Ids /\ made' = made + 1
         /\ quarantine' \in [Ids -> Proposals \cup {None}]
         /\ \A i \in Ids : quarantine[i] # None => quarantine'[i] # None
         /\ \A i \in Ids : quarantine'[i] # None => i <= made'
         /\ quarantine'[made + 1] # None /\ Pointers' = Pointers
         /\ ~Exists(facts, made + 1)
<1>1. made \in 0 .. MaxFacts /\ made' = made + 1 /\ made < MaxFacts /\ MaxFacts \in Nat
  BY Constants DEF NewProposal, MemoryInv, StoreTypes
<1>2. made + 1 \in Ids /\ made' \in made .. MaxFacts /\ made' \in 0 .. MaxFacts
  BY <1>1 DEF Ids
<1> DEFINE m == made + 1
           q == [project |-> p, status |-> "PENDING", promoted |-> FALSE]
<1>3. q \in Proposals /\ q # None /\ q.promoted = FALSE
  <2>1. q \in Proposals
    BY DEF Proposals
  <2> QED
    BY <2>1, NoneIsNoRow
<1>4. m \in Ids /\ quarantine' = [quarantine EXCEPT ![m] = q]
  BY <1>2 DEF NewProposal
<1>5. \A i \in Ids : i \in Int /\ (quarantine[i] # None => i <= made)
  BY DEF MemoryInv, FactsWhole, Ids
<1>6. quarantine[m] = None
  BY <1>1, <1>4, <1>5
<1>7. ~Exists(facts, m)
  BY <1>1, <1>4 DEF MemoryInv, FactsWhole, Whole, Existing
<1>8. \A i \in Ids : i <= made => i <= made'
  BY <1>1, <1>5
<1> HIDE DEF q
<1>9. quarantine' \in [Ids -> Proposals \cup {None}] /\ \A i \in Ids : quarantine'[i] = IF i = m THEN q ELSE quarantine[i]
  BY <1>3, <1>4 DEF MemoryInv, StoreTypes
<1>10. Pointers' = Pointers
  BY <1>3, <1>6, <1>9 DEF Pointers
<1>11. m <= made'
  BY <1>1
<1>12. \A i \in Ids : quarantine'[i] # None => i <= made'
  BY <1>5, <1>8, <1>9, <1>11
<1> QED
  BY <1>1, <1>2, <1>3, <1>4, <1>7, <1>9, <1>10, <1>12

LEMMA ProposeKeeps ==
  ASSUME MemoryInv, NEW p \in Projects \cup {Global}, Propose(p) PROVE MemoryInv'
<1>1. NewProposal(p) /\ p \in Projects \cup {Global, Unassigned}
  BY DEF Propose
<1>2. Grows
  BY <1>1, ProposalNew DEF Propose, MemoryInv, StoreTypes, Grows, upkeep
<1>3. StoreTypes'
  BY <1>1, ProposalNew DEF Propose, MemoryInv, StoreTypes, upkeep
<1>4. FactsWhole'
  <2>1. Whole(facts, made')
    <3>1. made \in Nat /\ made' \in Nat /\ made <= made'
      BY <1>1, ProposalNew, Constants DEF MemoryInv, StoreTypes
    <3> QED
      BY <3>1, WholeLater DEF MemoryInv, FactsWhole
  <2> QED
    BY <1>1, <2>1, ProposalNew DEF Propose, MemoryInv, FactsWhole
<1> QED
  BY <1>2, <1>3, <1>4, RouteKeeps DEF Propose, upkeep

\* The status of a proposal says PROMOTED, and its pointer is set.
LEMMA PromotedRows ==
  ASSUME MemoryInv, NEW i \in Ids, quarantine[i] # None, Promoted(i)
  PROVE  /\ quarantine' \in [Ids -> Proposals \cup {None}]
         /\ \A k \in Ids : quarantine'[k] # None <=> quarantine[k] # None
         /\ Pointers' = Pointers \cup {i}
<1> DEFINE q == [quarantine[i] EXCEPT !.status = "PROMOTED", !.promoted = TRUE]
<1>1. quarantine[i] \in Proposals
  BY DEF MemoryInv, StoreTypes
<1>2. q \in Proposals /\ q.promoted
  BY <1>1 DEF Proposals
<1>3. q # None
  BY <1>2, NoneIsNoRow
<1>4. quarantine' = [quarantine EXCEPT ![i] = q]
  BY DEF Promoted, MemoryInv, StoreTypes
<1> HIDE DEF q
<1>5. \A k \in Ids : quarantine'[k] = IF k = i THEN q ELSE quarantine[k]
  BY <1>4 DEF MemoryInv, StoreTypes
<1>6. Pointers' = Pointers \cup {i}
  BY <1>2, <1>3, <1>5 DEF Pointers
<1> QED
  BY <1>2, <1>3, <1>4, <1>5, <1>6 DEF MemoryInv, StoreTypes

LEMMA PromoteKeeps ==
  ASSUME MemoryInv, NEW i \in Ids, NEW p \in Promotions, Promote(i, p)
  PROVE  MemoryInv' /\ \A k \in Ids : Exists(facts, k) => Exists(facts, k)'
<1> DEFINE f == Fact(p.subject, p.object, quarantine[i].project, p.sources, p.valid)
<1>1. quarantine[i] # None /\ quarantine[i] \in Proposals /\ ~Exists(facts, i) /\ i <= made /\ Promoted(i)
  BY DEF Promote, MemoryInv, StoreTypes, FactsWhole
<1>2. f \in Facts /\ f.invalid = None /\ f.by = None
  <2>1. quarantine[i].project \in Projects \cup {Global, Unassigned}
    BY <1>1 DEF Proposals
  <2>2. p.subject \in Subjects /\ p.object \in STRING /\ p.sources \subseteq Nat /\ p.valid \in Times
    BY Constants
  <2> QED
    BY <2>1, <2>2 DEF Fact, Facts
<1>3. facts' = Added(facts, i, f)
  BY DEF Promote, Added
<1> HIDE DEF f
<1>4. Whole(facts', made) /\ Existing(facts') = Existing(facts) \cup {i}
  BY <1>1, <1>2, <1>3, WholeAdded DEF MemoryInv, FactsWhole
<1>5. Grows
  BY <1>1, PromotedRows DEF Promote, MemoryInv, StoreTypes, Grows, upkeep
<1>6. StoreTypes'
  BY <1>1, PromotedRows DEF Promote, MemoryInv, StoreTypes, upkeep
<1>7. FactsWhole'
  BY <1>1, <1>4, PromotedRows DEF Promote, MemoryInv, FactsWhole
<1>8. MemoryInv'
  BY <1>5, <1>6, <1>7, RouteKeeps DEF Promote, upkeep
<1> QED
  BY <1>4, <1>8 DEF Existing, Exists

LEMMA ForgetKeeps ==
  ASSUME MemoryInv, NEW i \in Ids, NEW now \in Times, Forget(i, now)
  PROVE  MemoryInv' /\ Existing(facts') = Existing(facts)
<1> DEFINE g == [facts[i] EXCEPT !.invalid = now]
<1>1. facts[i] \in Facts /\ facts[i] # None /\ facts[i].invalid = None /\ facts[i].valid <= now
  BY DEF Forget, Live, Exists, MemoryInv, FactsWhole, Whole
<1>2. facts[i].by = None
  BY <1>1 DEF MemoryInv, FactsWhole, Whole, Existing, Exists
<1>3. g \in Facts /\ g.invalid = now /\ g.valid = facts[i].valid /\ g.by = None
  BY <1>1, <1>2 DEF Facts
<1>4. now # None /\ g # None
  BY <1>3, NoneIsNoId, Constants
<1>5. facts' = [facts EXCEPT ![i] = g]
  BY DEF Forget
<1> HIDE DEF g
<1>6. facts' \in [Ids -> Facts \cup {None}] /\ \A k \in Ids : facts'[k] = IF k = i THEN g ELSE facts[k]
  BY <1>3, <1>5 DEF MemoryInv, FactsWhole, Whole
<1>7. Existing(facts') = Existing(facts)
  BY <1>1, <1>4, <1>6 DEF Existing, Exists
<1>8. \A k \in Existing(facts) : Stays(facts, facts', k) \/ Ends(facts, facts', k)
  BY <1>1, <1>3, <1>4, <1>6 DEF Stays, Ends, Existing
<1>9. Whole(facts', made)
  BY <1>6, <1>7, <1>8, WholeRevised DEF MemoryInv, FactsWhole
<1>10. Grows
  BY NothingGrows DEF Forget, store, upkeep, Grows, MemoryInv, StoreTypes
<1>11. StoreTypes'
  BY DEF Forget, MemoryInv, StoreTypes, upkeep
<1>12. FactsWhole'
  BY <1>7, <1>9 DEF Forget, MemoryInv, FactsWhole, Pointers
<1>13. MemoryInv'
  BY <1>10, <1>11, <1>12, RouteKeeps DEF Forget, upkeep
<1> QED
  BY <1>7, <1>13

LEMMA PlanKeeps ==
  ASSUME MemoryInv, NEW o \in Executions, NEW actions \in ActionSets, Plan(o, actions)
  PROVE  MemoryInv'
<1>1. Planned(actions) \in Plans
  BY DEF Planned, Plans, MemoryInv, StoreTypes, FactsWhole, Whole
<1>2. o \in Operations /\ plan[o] = None
  BY DEF Plan, Operations
<1>3. Grows
  BY <1>2 DEF Plan, MemoryInv, StoreTypes, Grows, store
<1>4. StoreTypes'
  BY <1>1 DEF Plan, MemoryInv, StoreTypes, store
<1>5. FactsWhole'
  BY <1>3, FactsStay DEF Plan, store
<1> QED
  BY <1>3, <1>4, <1>5, RouteKeeps DEF Plan

-----------------------------------------------------------------------------
(* Consolidation. *)

LEMMA ConsolidateKeeps ==
  ASSUME MemoryInv, NEW j \in Jobs, NEW es \in SUBSET Episodes, Consolidate(j, es)
  PROVE  MemoryInv'
<1>1. /\ Others(j) /\ JobTypes' /\ step'[j] = "extracting" /\ batch'[j] = es
      /\ todo'[j] = todo[j] /\ staging'[j] = staging[j]
  BY DEF Consolidate, MemoryInv, JobTypes, Proceed, Others, Steps
<1>2. Grows /\ StoreTypes' /\ FactsWhole' /\ FilesWhole'
  BY NothingGrows, StoreStays DEF Consolidate, upkeep
<1>3. JobKnows(j)'
  BY <1>1 DEF Consolidate, MemoryInv, JobKnows, FreshProposal, Awaited, SourceWhole, Steps, Operating, Past, Backing, Backed, Changing, Sourced, store
<1>4. \A k \in Jobs \ {j} : JobKnows(k)'
  BY <1>1, <1>2, OthersRemember, BackupsStay DEF Consolidate, upkeep
<1>5. Alone'
  BY <1>1, StaysAlone DEF Consolidate, Past, Backing, Backed, Changing, upkeep
<1> QED
  BY <1>1, <1>2, <1>3, <1>4, <1>5 DEF MemoryInv

LEMMA EndKeeps ==
  ASSUME MemoryInv, NEW j \in Jobs, Free \/ step[j] \notin Awaiting, End(j), UNCHANGED <<store, upkeep>>
  PROVE  MemoryInv'
<1>1. Others(j) /\ JobKnows(j)' /\ JobTypes' /\ step'[j] = "idle"
  BY EndKnows
<1>2. Grows /\ StoreTypes' /\ FactsWhole' /\ FilesWhole'
  BY NothingGrows, StoreStays DEF upkeep
<1>3. \A k \in Jobs \ {j} : JobKnows(k)'
  BY <1>1, <1>2, OthersRemember, BackupsStay DEF upkeep
<1>4. Alone'
  BY <1>1, StaysAlone DEF Past, Backing, Backed, Changing, Awaiting, upkeep
<1> QED
  BY <1>1, <1>2, <1>3, <1>4 DEF MemoryInv

LEMMA ExtractedKeeps ==
  ASSUME MemoryInv, NEW j \in Jobs, Extracted(j) PROVE MemoryInv'
<1>1. CASE End(j)
  BY <1>1, EndKeeps DEF Extracted
<1>2. CASE ~End(j)
  <2>1. PICK cs \in SUBSET {c \in Extractions : c.source \in batch[j]} : todo' = [todo EXCEPT ![j] = cs]
    BY <1>2 DEF Extracted
  <2>2. /\ Proceed(j, "candidates") /\ UNCHANGED <<op, source, batch, proposed, staging>>
        /\ Free /\ UNCHANGED <<store, upkeep>>
    BY <1>2 DEF Extracted
  <2>3. /\ Others(j) /\ JobTypes' /\ step'[j] = "candidates" /\ batch'[j] = batch[j]
        /\ todo'[j] = cs /\ staging'[j] = staging[j]
    BY <2>1, <2>2 DEF MemoryInv, JobTypes, Proceed, Others, Steps
  <2>4. Grows /\ StoreTypes' /\ FactsWhole' /\ FilesWhole'
    BY <2>2, NothingGrows, StoreStays DEF upkeep
  <2>5. JobKnows(j)'
    BY <2>2, <2>3 DEF MemoryInv, JobKnows, FreshProposal, Awaited, SourceWhole, Steps, Operating, Past, Backing, Backed, Changing, Sourced, store
  <2>6. \A k \in Jobs \ {j} : JobKnows(k)'
    BY <2>2, <2>3, <2>4, OthersRemember, BackupsStay DEF upkeep
  <2>7. Alone'
    BY <2>2, <2>3, StaysAlone DEF Past, Backing, Backed, Changing, upkeep
  <2> QED
    BY <2>3, <2>4, <2>5, <2>6, <2>7 DEF MemoryInv
<1> QED
  BY <1>1, <1>2

\* What an own step of a running job has to show, beside what it leaves alone.
LEMMA OwnStep ==
  ASSUME MemoryInv, NEW j \in Jobs, Others(j), Free \/ step[j] \notin Awaiting, Grows,
         step'[j] \in Past => step[j] \in Past /\ op'[j] = op[j], UNCHANGED <<file, opened, receipt, raced>>,
         StoreTypes', JobTypes', FactsWhole', JobKnows(j)'
  PROVE  MemoryInv'
<1>1. \A k \in Jobs \ {j} : JobKnows(k)'
  BY OthersRemember, BackupsStay
<1>2. Alone' /\ FilesWhole'
  BY StaysAlone, FilesStay
<1> QED
  BY <1>1, <1>2 DEF MemoryInv

LEMMA ProposeCandidateKeeps ==
  ASSUME MemoryInv, NEW j \in Jobs, NEW c \in Extractions, ProposeCandidate(j, c)
  PROVE  MemoryInv'
<1>0. step[j] = "candidates" /\ step[j] \notin Awaiting /\ JobKnows(j)
  BY DEF ProposeCandidate, Awaiting, Writing, MemoryInv
<1>1. CASE Known(facts, c)
  <2>1. /\ UNCHANGED <<store, upkeep, step, op, source, batch, proposed, staging>>
        /\ todo' = [todo EXCEPT ![j] = @ \ {c}]
    BY <1>1 DEF ProposeCandidate, store
  <2>2. /\ Others(j) /\ JobTypes' /\ step'[j] = "candidates" /\ batch'[j] = batch[j]
        /\ todo'[j] \subseteq todo[j] /\ staging'[j] = staging[j]
    BY <1>0, <2>1 DEF MemoryInv, JobTypes, Others
  <2>3. Grows /\ StoreTypes' /\ FactsWhole'
    BY <2>1, NothingGrows, StoreStays DEF upkeep
  <2>4. JobKnows(j)'
    BY <1>0, <2>1, <2>2 DEF JobKnows, FreshProposal, Awaited, SourceWhole, Steps, Operating, Past, Backing, Backed, Changing, Sourced, store
  <2> QED
    BY <1>0, <2>1, <2>2, <2>3, <2>4, OwnStep DEF Past, Backing, Backed, Changing, job, upkeep
<1>2. CASE ~Known(facts, c)
  <2> DEFINE p == ProjectOf[c.source]
             m == [candidate |-> c, id |-> made + 1]
  <2>1. /\ NewProposal(p) /\ Proceed(j, "proposed") /\ proposed' = [proposed EXCEPT ![j] = m]
        /\ todo' = [todo EXCEPT ![j] = @ \ {c}]
        /\ UNCHANGED <<episodes, consolidated, facts, upkeep, op, source, batch, staging>>
    BY <1>2 DEF ProposeCandidate
  <2>2. p \in Projects \cup {Global, Unassigned}
    <3>1. c.source \in Episodes
      BY Constants
    <3> QED
      BY <3>1 DEF Projects
  <2> HIDE DEF p, m
  <2>3. /\ made' \in made .. MaxFacts /\ made' \in 0 .. MaxFacts /\ made + 1 \in Ids /\ made' = made + 1
        /\ quarantine' \in [Ids -> Proposals \cup {None}]
        /\ \A i \in Ids : quarantine[i] # None => quarantine'[i] # None
        /\ \A i \in Ids : quarantine'[i] # None => i <= made'
        /\ quarantine'[made + 1] # None /\ Pointers' = Pointers
        /\ ~Exists(facts, made + 1)
    BY <2>1, <2>2, ProposalNew
  <2>4. /\ Others(j) /\ JobTypes' /\ step'[j] = "proposed" /\ batch'[j] = batch[j]
        /\ todo'[j] \subseteq todo[j] /\ staging'[j] = staging[j] /\ proposed'[j] = m
    BY <2>1 DEF MemoryInv, JobTypes, Others, Proceed, Steps
  <2>5. made \in Nat /\ made' \in Nat /\ made <= made'
    BY <2>3, Constants DEF MemoryInv, StoreTypes
  <2>6. Whole(facts, made') /\ Whole(staging[j], made')
    BY <1>0, <2>5, WholeLater DEF MemoryInv, FactsWhole, JobKnows
  <2>7. Grows /\ StoreTypes'
    BY <2>1, <2>3 DEF MemoryInv, StoreTypes, Grows, upkeep
  <2>8. FactsWhole'
    BY <2>1, <2>3, <2>6 DEF MemoryInv, FactsWhole
  <2>9. m \in [candidate : Extractions, id : Ids] /\ m.id = made + 1
    BY <2>3 DEF m
  <2>10. FreshProposal(j)'
    BY <2>1, <2>3, <2>4, <2>5, <2>9 DEF FreshProposal, Exists
  <2>11. SourceWhole(j)'
    BY <2>1, <2>7, SourceStays
  <2>12. JobKnows(j)'
    BY <1>0, <2>1, <2>4, <2>6, <2>10, <2>11
       DEF JobKnows, Awaited, Steps, Operating, Past, Backing, Backed, Changing, Sourced
  <2> QED
    BY <1>0, <2>1, <2>4, <2>7, <2>8, <2>12, OwnStep DEF Past, Backing, Backed, Changing, job, upkeep
<1> QED
  BY <1>1, <1>2

LEMMA PromoteCandidateKeeps ==
  ASSUME MemoryInv, NEW j \in Jobs, PromoteCandidate(j)
  PROVE  MemoryInv' /\ Existing(facts) \subseteq Existing(facts')
<1> DEFINE c == proposed[j].candidate
           i == proposed[j].id
<1>1. /\ step[j] = "proposed" /\ step[j] \notin Awaiting /\ JobKnows(j)
      /\ c \in Extractions /\ i \in Ids /\ i <= made /\ quarantine[i] # None /\ ~Exists(facts, i)
  BY DEF PromoteCandidate, Awaiting, Writing, MemoryInv, JobKnows, FreshProposal
<1>2. /\ facts' \in Outcomes(facts, c, i)
      /\ IF Exists(facts', i) THEN Promoted(i) ELSE UNCHANGED quarantine
      /\ Proceed(j, "candidates") /\ proposed' = [proposed EXCEPT ![j] = None]
      /\ UNCHANGED <<episodes, consolidated, made, upkeep, op, source, batch, todo, staging>>
  BY DEF PromoteCandidate
<1> HIDE DEF c, i
<1>3. Whole(facts', made) /\ Existing(facts) \subseteq Existing(facts')
  BY <1>1, <1>2, OutcomesWhole DEF MemoryInv, FactsWhole
<1>4. /\ quarantine' \in [Ids -> Proposals \cup {None}]
      /\ \A k \in Ids : quarantine'[k] # None <=> quarantine[k] # None
      /\ Pointers' \subseteq Existing(facts')
  <2>1. CASE Exists(facts', i)
    <3>1. i \in Existing(facts')
      BY <1>1, <2>1 DEF Existing
    <3> QED
      BY <1>1, <1>2, <1>3, <2>1, <3>1, PromotedRows DEF MemoryInv, FactsWhole
  <2>2. CASE ~Exists(facts', i)
    BY <1>2, <1>3, <2>2 DEF MemoryInv, FactsWhole, StoreTypes, Pointers
  <2> QED
    BY <2>1, <2>2
<1>5. /\ Others(j) /\ JobTypes' /\ step'[j] = "candidates" /\ batch'[j] = batch[j]
      /\ todo'[j] = todo[j] /\ staging'[j] = staging[j]
  BY <1>2 DEF MemoryInv, JobTypes, Others, Proceed, Steps
<1>6. Grows /\ StoreTypes' /\ FactsWhole'
  BY <1>2, <1>3, <1>4 DEF MemoryInv, StoreTypes, FactsWhole, Grows, upkeep
<1>7. JobKnows(j)'
  BY <1>1, <1>2, <1>5 DEF JobKnows, FreshProposal, Awaited, SourceWhole, Steps, Operating, Past, Backing, Backed, Changing, Sourced
<1>8. MemoryInv'
  BY <1>1, <1>2, <1>5, <1>6, <1>7, OwnStep DEF Past, Backing, Backed, Changing, job, upkeep
<1> QED
  BY <1>3, <1>8

LEMMA MarkEpisodeKeeps ==
  ASSUME MemoryInv, NEW j \in Jobs, MarkEpisode(j) PROVE MemoryInv'
<1>0. step[j] = "candidates" /\ step[j] \notin Awaiting /\ JobKnows(j)
  BY DEF MarkEpisode, Awaiting, Writing, MemoryInv
<1>1. CASE batch[j] = {}
  BY <1>0, <1>1, EndKeeps DEF MarkEpisode, store
<1>2. CASE batch[j] # {}
  <2>1. PICK e \in batch[j] : /\ consolidated' = consolidated \cup {e}
                              /\ batch' = [batch EXCEPT ![j] = @ \ {e}]
    BY <1>2 DEF MarkEpisode
  <2>2. UNCHANGED <<episodes, facts, quarantine, made, upkeep, step, op, source, todo, proposed, staging>>
    BY <1>2 DEF MarkEpisode
  <2>3. /\ Others(j) /\ JobTypes' /\ step'[j] = "candidates" /\ batch'[j] \subseteq batch[j]
        /\ todo'[j] = todo[j] /\ staging'[j] = staging[j]
    BY <1>0, <2>1, <2>2 DEF MemoryInv, JobTypes, Others
  <2>4. e \in episodes
    BY <1>0 DEF JobKnows
  <2>5. Grows /\ StoreTypes'
    BY <2>1, <2>2, <2>4, Constants DEF MemoryInv, StoreTypes, Grows, upkeep
  <2>6. FactsWhole'
    BY <2>2, <2>5, FactsStay
  <2>7. JobKnows(j)'
    BY <1>0, <2>2, <2>3 DEF JobKnows, FreshProposal, Awaited, SourceWhole, Steps, Operating, Past, Backing, Backed, Changing, Sourced
  <2> QED
    BY <1>0, <2>2, <2>3, <2>5, <2>6, <2>7, OwnStep DEF Past, Backing, Backed, Changing, job, upkeep
<1> QED
  BY <1>1, <1>2

-----------------------------------------------------------------------------
(* Maintenance, up to its snapshot. *)

LEMMA ReceiptStored ==
  ASSUME MemoryInv, NEW o \in Operations, NEW r \in Receipts, Store(o, r), UNCHANGED <<file, raced>>,
         r.snapshot => file[o] # None \/ o \in raced
  PROVE  /\ receipt' \in [Operations -> Receipts \cup {None}]
         /\ \A p \in Operations : receipt'[p] # None /\ receipt'[p].snapshot => file'[p] # None \/ p \in raced'
  BY DEF MemoryInv, StoreTypes, FilesWhole, Store

\* A job that ends and leaves a receipt.
LEMMA EndWithReceipt ==
  ASSUME MemoryInv, NEW j \in Jobs, Free \/ step[j] \notin Awaiting, End(j),
         UNCHANGED <<store, plan, opened, file, raced>>,
         receipt' \in [Operations -> Receipts \cup {None}],
         \A p \in Operations : receipt'[p] # None /\ receipt'[p].snapshot => file'[p] # None \/ p \in raced'
  PROVE  MemoryInv'
<1>1. Others(j) /\ JobKnows(j)' /\ JobTypes' /\ step'[j] = "idle"
  BY EndKnows
<1>2. Grows
  BY NothingGrows
<1>3. StoreTypes' /\ FactsWhole'
  BY <1>2, FactsStay DEF MemoryInv, StoreTypes, store
<1>4. FilesWhole'
  BY DEF MemoryInv, FilesWhole, store
<1>5. \A k \in Jobs \ {j} : JobKnows(k)'
  BY <1>1, <1>2, OthersRemember, BackupsStay
<1>6. Alone'
  BY <1>1, StaysAlone DEF Awaiting, Past, Backing, Backed, Changing
<1> QED
  BY <1>1, <1>3, <1>4, <1>5, <1>6 DEF MemoryInv

\* A job that passes the check is the only one with its file, or the other
\* passed it too.
LEMMA PassCheckKeeps ==
  ASSUME MemoryInv, NEW j \in Jobs, NEW o \in Operations, Free, step[j] \in {"idle", "preparing"},
         o \notin opened, PassCheck(j, o),
         UNCHANGED <<store, plan, opened, file, receipt, batch, todo, proposed, staging>>,
         DOMAIN source' = Jobs, \A k \in Jobs \ {j} : source'[k] = source[k],
         SourceWhole(j)', source'[j] = None => plan[o] # None
  PROVE  MemoryInv'
<1>1. /\ op' = [op EXCEPT ![j] = o] /\ Proceed(j, "asking") /\ raced \subseteq raced'
      /\ raced' \subseteq Operations
      /\ \A k \in Jobs : step[k] = "asking" /\ op[k] = o => o \in raced'
  BY DEF PassCheck, MemoryInv, StoreTypes
<1>2. Grows
  BY <1>1, NothingGrows
<1>3. /\ Others(j) /\ JobTypes' /\ step'[j] = "asking" /\ op'[j] = o /\ batch'[j] = batch[j]
      /\ todo'[j] = todo[j] /\ staging'[j] = staging[j]
  BY <1>1 DEF MemoryInv, JobTypes, Others, Proceed, Steps, Past
<1>4. StoreTypes' /\ FactsWhole' /\ FilesWhole'
  BY <1>1, <1>2, FactsStay, FilesStay DEF MemoryInv, StoreTypes, store
<1>5. JobKnows(j)'
  BY <1>3 DEF MemoryInv, JobKnows, FreshProposal, Awaited, Steps, Operating, Past, Backing, Backed,
     Changing, Sourced, store
<1>6. \A k \in Jobs \ {j} : JobKnows(k)'
  BY <1>1, <1>2, <1>3, OthersRemember, BackupsStay
<1>7. ASSUME NEW k \in Jobs \ {j}, step[k] \in Past, op[k] = o PROVE o \in raced'
  <2>1. CASE step[k] = "asking"
    BY <1>1, <1>7, <2>1
  <2>2. CASE step[k] # "asking" /\ o \notin raced
    <3>1. o \in opened
      BY <1>7, <2>2 DEF MemoryInv, JobKnows, Awaited, FilesWhole, Past
    <3> QED
      BY <3>1
  <2> QED
    BY <1>1, <2>1, <2>2
<1>8. Alone'
  BY <1>1, <1>3, <1>7, StaysAlone DEF Apart
<1> QED
  BY <1>3, <1>4, <1>5, <1>6, <1>8 DEF MemoryInv

LEMMA AskSnapshotKeeps ==
  ASSUME MemoryInv, NEW j \in Jobs, NEW o \in Operations, Free, step[j] \in {"idle", "preparing"},
         plan[o] # None, AskSnapshot(j, o), UNCHANGED <<store, plan, opened, file>>
  PROVE  MemoryInv'
<1>1. CASE o \in opened
  <2> DEFINE r == Receipt("EXECUTE", "FAILED", FALSE)
  <2>1. r \in Receipts /\ r.snapshot = FALSE /\ Store(o, r) /\ End(j) /\ UNCHANGED raced
    BY <1>1 DEF AskSnapshot, Receipt, Receipts
  <2> HIDE DEF r
  <2>2. /\ receipt' \in [Operations -> Receipts \cup {None}]
        /\ \A p \in Operations : receipt'[p] # None /\ receipt'[p].snapshot => file'[p] # None \/ p \in raced'
    BY <2>1, ReceiptStored
  <2> QED
    BY <2>1, <2>2, EndWithReceipt
<1>2. CASE o \notin opened
  <2>1. PassCheck(j, o) /\ UNCHANGED <<receipt, source, batch, todo, proposed, staging>>
    BY <1>2 DEF AskSnapshot
  <2>2. DOMAIN source' = Jobs /\ SourceWhole(j)'
    BY <2>1 DEF MemoryInv, JobTypes, JobKnows, SourceWhole, store
  <2> QED
    BY <1>2, <2>1, <2>2, PassCheckKeeps
<1> QED
  BY <1>1, <1>2

LEMMA ExecuteKeeps ==
  ASSUME MemoryInv, NEW j \in Jobs, NEW o \in Executions, Execute(j, o) PROVE MemoryInv'
<1>0. o \in Operations /\ plan[o] # None /\ Free /\ step[j] = "idle"
  BY DEF Operations, Execute
<1>1. CASE "rebuild" \in plan[o].actions
  <2>1. /\ op' = [op EXCEPT ![j] = o] /\ batch' = [batch EXCEPT ![j] = episodes]
        /\ todo' = [todo EXCEPT ![j] = Extractions] /\ Proceed(j, "preparing")
        /\ UNCHANGED <<store, upkeep, source, proposed, staging>>
    BY <1>1 DEF Execute, upkeep
  <2>2. /\ Others(j) /\ JobTypes' /\ step'[j] = "preparing" /\ op'[j] = o /\ batch'[j] = episodes
        /\ todo'[j] = Extractions /\ staging'[j] = staging[j]
    BY <2>1 DEF MemoryInv, JobTypes, Others, Proceed, Steps
  <2>3. Grows /\ StoreTypes' /\ FactsWhole'
    BY <2>1, NothingGrows, StoreStays DEF upkeep
  <2>4. JobKnows(j)'
    BY <1>0, <2>1, <2>2 DEF MemoryInv, JobKnows, FreshProposal, Awaited, SourceWhole, Steps, Operating, Past, Backing, Backed, Changing, Sourced, store, upkeep
  <2> QED
    BY <1>0, <2>1, <2>2, <2>3, <2>4, OwnStep DEF Past, Backing, Backed, Changing, job, upkeep
<1>2. CASE "rebuild" \notin plan[o].actions
  BY <1>0, <1>2, AskSnapshotKeeps DEF Execute
<1> QED
  BY <1>1, <1>2

LEMMA StageKeeps ==
  ASSUME MemoryInv, NEW j \in Jobs, NEW c \in Extractions, Stage(j, c) PROVE MemoryInv'
<1> DEFINE m == made + 1
<1>1. PICK fs \in Outcomes(staging[j], c, m) : Exists(fs, m) /\ staging' = [staging EXCEPT ![j] = fs]
  BY DEF Stage
<1>2. /\ step[j] = "preparing" /\ JobKnows(j) /\ made \in 0 .. MaxFacts /\ made' = m /\ made < MaxFacts
      /\ MaxFacts \in Nat
  BY Constants DEF Stage, MemoryInv, StoreTypes
<1>3. m \in Ids /\ made \in Nat /\ m \in Nat /\ made <= m /\ made' \in made .. MaxFacts /\ made' \in 0 .. MaxFacts
  BY <1>2 DEF Ids
<1>4. /\ UNCHANGED <<episodes, consolidated, facts, quarantine, upkeep, step, op, source, batch, proposed>>
      /\ todo' = [todo EXCEPT ![j] = @ \ {c}]
  BY DEF Stage
<1>5. ~(m <= made) /\ m <= m
  BY <1>3
<1> HIDE DEF m
<1>6. Whole(staging[j], m) /\ ~Exists(staging[j], m)
  BY <1>2, <1>3, <1>5, WholeLater DEF JobKnows, Whole, Existing
<1>7. Whole(fs, m)
  BY <1>3, <1>5, <1>6, OutcomesWhole
<1>8. /\ Others(j) /\ JobTypes' /\ step'[j] = step[j] /\ op'[j] = op[j] /\ batch'[j] = batch[j]
      /\ todo'[j] \subseteq todo[j] /\ staging'[j] = fs
  BY <1>1, <1>4 DEF MemoryInv, JobTypes, Others
<1>9. Grows /\ StoreTypes'
  BY <1>3, <1>4 DEF MemoryInv, StoreTypes, Grows, upkeep
<1>10. FactsWhole' /\ FilesWhole'
  BY <1>4, <1>9, FactsStay, FilesStay DEF upkeep
<1>11. JobKnows(j)'
  <2>1. SourceWhole(j)'
    BY <1>4, <1>9, SourceStays
  <2> QED
    BY <1>2, <1>4, <1>7, <1>8, <2>1
       DEF JobKnows, FreshProposal, Awaited, Steps, Operating, Past, Backing, Backed, Changing, Sourced, upkeep
<1>12. \A k \in Jobs \ {j} : JobKnows(k)'
  BY <1>4, <1>8, <1>9, OthersRemember, BackupsStay DEF upkeep
<1>13. Alone'
  BY <1>2, <1>4, <1>8, StaysAlone DEF Awaiting, Past, Backing, Backed, Changing, upkeep
<1> QED
  BY <1>8, <1>9, <1>10, <1>11, <1>12, <1>13 DEF MemoryInv

LEMMA PreparedKeeps ==
  ASSUME MemoryInv, NEW j \in Jobs, Prepared(j) PROVE MemoryInv'
<1>1. Free /\ step[j] = "preparing" /\ op[j] \in Operations /\ plan[op[j]] # None
  BY DEF Prepared, MemoryInv, JobKnows, Operating
<1>2. CASE plan[op[j]] = Planned(plan[op[j]].actions)
  <2> DEFINE o == op[j]
  <2>1. o \in Operations /\ plan[o] # None /\ AskSnapshot(j, o) /\ UNCHANGED <<store, plan, opened, file>>
    BY <1>1, <1>2 DEF Prepared
  <2> HIDE DEF o
  <2> QED
    BY <1>1, <2>1, AskSnapshotKeeps
<1>3. CASE plan[op[j]] # Planned(plan[op[j]].actions)
  BY <1>1, <1>3, EndKeeps DEF Prepared, upkeep
<1> QED
  BY <1>2, <1>3

LEMMA PrepareFailsKeeps ==
  ASSUME MemoryInv, NEW j \in Jobs, PrepareFails(j) PROVE MemoryInv'
  BY EndKeeps DEF PrepareFails

-----------------------------------------------------------------------------
(* Snapshots. *)

LEMMA OpenFileKeeps ==
  ASSUME MemoryInv, NEW j \in Jobs, OpenFile(j) PROVE MemoryInv'
<1> DEFINE o == op[j]
<1>1. /\ Free /\ step[j] = "asking" /\ o \in Operations /\ JobKnows(j)
  BY DEF OpenFile, MemoryInv, JobKnows, Operating, Past
<1>2. /\ opened' = opened \cup {o} /\ UNCHANGED <<store, plan, file, receipt, raced, job>>
      /\ Proceed(j, IF source[j] = None THEN "backup" ELSE "safety")
  BY DEF OpenFile
<1>3. Grows
  BY <1>2, NothingGrows
<1>4. /\ Others(j) /\ JobTypes' /\ op'[j] = op[j]
      /\ step'[j] = IF source[j] = None THEN "backup" ELSE "safety"
  BY <1>2 DEF MemoryInv, JobTypes, Others, Proceed, Steps, Past, Backing, job
<1>5. StoreTypes' /\ FactsWhole' /\ FilesWhole'
  BY <1>1, <1>2, <1>3, FactsStay, FilesStay DEF MemoryInv, StoreTypes, store
<1>6. SourceWhole(j)' /\ Awaited(j)'
  <2>1. SourceWhole(j)'
    BY <1>2, <1>3, SourceStays DEF job
  <2>2. o \notin raced => file[o] = None
    BY <1>1 DEF JobKnows, Awaited, MemoryInv, FilesWhole
  <2>3. Awaited(j)'
    BY <1>2, <1>4, <2>2 DEF Awaited
  <2> QED
    BY <2>1, <2>3
<1>7. JobKnows(j)'
  BY <1>1, <1>2, <1>4, <1>6
     DEF JobKnows, FreshProposal, Steps, Operating, Past, Backing, Backed, Changing, Sourced, store, job
<1>8. ASSUME NEW k \in Jobs \ {j} PROVE Awaited(k)'
  <2>1. step[k] = "asking" /\ op[k] = o => o \in raced
    BY <1>1 DEF MemoryInv, Alone, Past
  <2>2. Awaited(k)
    BY DEF MemoryInv, JobKnows
  <2> HIDE DEF o
  <2> QED
    BY <1>2, <1>4, <2>1, <2>2 DEF Awaited, Others
<1>9. \A k \in Jobs \ {j} : JobKnows(k)'
  BY <1>1, <1>3, <1>4, <1>8, OthersRemember
<1>10. Alone'
  BY <1>1, <1>2, <1>4, StaysAlone DEF Past
<1> QED
  BY <1>4, <1>5, <1>7, <1>9, <1>10 DEF MemoryInv

\* The content of a backup, and of two that write one file.
LEMMA SnapshotWhole ==
  ASSUME MemoryInv
  PROVE  /\ Snapshot \in Snapshots /\ Snapshot # None /\ WholeSnapshot(Snapshot, made)
         /\ Snapshot.episodes = episodes /\ Snapshot.facts = facts
<1>1. /\ Snapshot \in Snapshots /\ Snapshot.episodes = episodes /\ Snapshot.facts = facts
      /\ Snapshot.consolidated = consolidated /\ Snapshot.pointers = Pointers
  BY DEF Snapshot, Snapshots, MemoryInv, StoreTypes, FactsWhole, Whole, Pointers
<1>2. Snapshot # None
  BY <1>1, NoneIsNoRow
<1> QED
  BY <1>1, <1>2 DEF WholeSnapshot, MemoryInv, StoreTypes, FactsWhole

LEMMA FileWritten ==
  ASSUME MemoryInv, NEW o \in Operations, NEW s, file' = [file EXCEPT ![o] = s],
         \/ s = None /\ opened' = opened \ {o}
         \/ s = Snapshot /\ o \in opened /\ UNCHANGED opened,
         file[o] # None => o \in raced,
         UNCHANGED <<store, plan, raced>>, receipt' \in [Operations -> Receipts \cup {None}],
         \A p \in Operations : receipt'[p] # None /\ receipt'[p].snapshot => file[p] # None \/ p \in raced
  PROVE  /\ Grows /\ StoreTypes' /\ FactsWhole' /\ FilesWhole'
         /\ \A p \in Operations : file'[p] = IF p = o THEN s ELSE file[p]
<1>1. s \in Snapshots \cup {None}
  BY SnapshotWhole
<1>2. /\ file' \in [Operations -> Snapshots \cup {None}]
      /\ \A p \in Operations : file'[p] = IF p = o THEN s ELSE file[p]
  BY <1>1 DEF MemoryInv, StoreTypes
<1>3. Grows /\ StoreTypes'
  BY <1>2, Constants DEF MemoryInv, StoreTypes, Grows, store
<1>4. FactsWhole'
  BY <1>3, FactsStay DEF store
<1>5. \A p \in Operations : file'[p] # None =>
        p \in opened' /\ WholeSnapshot(file'[p], made') /\ file'[p].episodes \subseteq episodes'
  BY <1>2, SnapshotWhole DEF MemoryInv, FilesWhole, store
<1>6. \A p \in Operations : receipt'[p] # None /\ receipt'[p].snapshot => file'[p] # None \/ p \in raced'
  BY <1>2
<1> QED
  BY <1>2, <1>3, <1>4, <1>5, <1>6 DEF FilesWhole

\* A job that ends its backup is the only one with the file, or had a rival.
LEMMA OthersAwait ==
  ASSUME MemoryInv, NEW j \in Jobs, Others(j), step[j] \in Past, op[j] \in Operations,
         \A p \in Operations : p # op[j] => file'[p] = file[p],
         \A p \in Operations : p # op[j] => (p \in opened' <=> p \in opened), UNCHANGED raced
  PROVE  \A k \in Jobs \ {j} : Awaited(k)'
<1> TAKE k \in Jobs \ {j}
<1>1. Awaited(k) /\ (step[k] \in Past => op[k] \in Operations)
  BY DEF MemoryInv, JobKnows, Operating
<1>2. step[k] \in Past /\ op[k] = op[j] => op[k] \in raced
  BY DEF MemoryInv, Alone
<1> QED
  BY <1>1, <1>2 DEF Awaited, Others, Past

LEMMA BackedUpKeeps ==
  ASSUME MemoryInv, NEW j \in Jobs, BackedUp(j) PROVE MemoryInv'
<1> DEFINE o == op[j]
<1>1. /\ Free /\ step[j] \in Backing /\ o \in Operations /\ o \in opened /\ JobKnows(j)
      /\ (o \notin raced => file[o] = None)
  BY DEF BackedUp, Backing, Writing, MemoryInv, JobKnows, Awaited, Operating, Past
<1>2. /\ UNCHANGED <<store, plan, receipt, raced, job>> /\ UNCHANGED opened
      /\ Proceed(j, IF step[j] = "backup" THEN "normalize" ELSE "restore")
      /\ Complete(o) \/ (Contended(j) /\ UNCHANGED file)
  BY DEF BackedUp, Complete
<1>3. /\ Others(j) /\ JobTypes' /\ op'[j] = o
      /\ step'[j] = IF step[j] = "backup" THEN "normalize" ELSE "restore"
  BY <1>2 DEF MemoryInv, JobTypes, Others, Proceed, Steps, Past, Backed, Changing, job, o
<1>4. /\ Grows /\ StoreTypes' /\ FactsWhole' /\ FilesWhole'
      /\ \A p \in Operations : p # o => file'[p] = file[p]
      /\ o \notin raced => file'[o] # None /\ file'[o].facts = facts
  <2> HIDE DEF o
  <2>1. CASE Complete(o)
    <3>1. receipt' \in [Operations -> Receipts \cup {None}]
      BY <1>2 DEF MemoryInv, StoreTypes
    <3>2. \A p \in Operations : receipt'[p] # None /\ receipt'[p].snapshot => file[p] # None \/ p \in raced
      BY <1>2 DEF MemoryInv, FilesWhole
    <3>3. UNCHANGED <<store, plan, raced>> /\ UNCHANGED opened
      BY <1>2
    <3>4. file' = [file EXCEPT ![o] = Snapshot]
      BY <2>1 DEF Complete
    <3>5. /\ Grows /\ StoreTypes' /\ FactsWhole' /\ FilesWhole'
          /\ \A p \in Operations : file'[p] = IF p = o THEN Snapshot ELSE file[p]
      BY <1>1, <3>1, <3>2, <3>3, <3>4, FileWritten
    <3> QED
      BY <1>1, <3>5, SnapshotWhole
  <2>2. CASE Contended(j) /\ UNCHANGED file
    <3>1. o \in raced
      BY <1>1, <2>2 DEF Contended, MemoryInv, Alone, Writing, Past, Backing, o
    <3>2. Grows
      BY <1>2, <2>2, NothingGrows
    <3> QED
      BY <1>2, <2>2, <3>1, <3>2, FactsStay, FilesStay DEF MemoryInv, StoreTypes, store
  <2> QED
    BY <1>2, <2>1, <2>2
<1>5. JobKnows(j)'
  <2>1. step[j] = "backup" => plan[o] # None
    BY <1>1 DEF JobKnows, o
  <2>2. step[j] = "safety" => source'[j] # None
    BY <1>1, <1>2 DEF JobKnows, Sourced, job
  <2>3. facts' = facts /\ raced' = raced
    BY <1>2 DEF store
  <2>4. step'[j] \in {"normalize", "restore"} /\ (step'[j] = "restore" => step[j] = "safety")
        /\ (step'[j] = "normalize" => step[j] = "backup")
    BY <1>1, <1>3 DEF Backing
  <2>5. batch'[j] \subseteq episodes' /\ todo'[j] \subseteq Extractions /\ Whole(staging'[j], made')
    BY <1>1, <1>2 DEF JobKnows, job, store
  <2>6. SourceWhole(j)'
    BY <1>2, <1>4, SourceStays DEF job
  <2> HIDE DEF o
  <2> QED
    BY <1>1, <1>2, <1>3, <1>4, <2>1, <2>2, <2>3, <2>4, <2>5, <2>6
       DEF JobKnows, FreshProposal, Awaited, Steps, Operating, Past, Backing, Backed, Changing, Sourced
<1>6. \A k \in Jobs \ {j} : JobKnows(k)'
  BY <1>1, <1>2, <1>3, <1>4, OthersAwait, OthersRemember DEF Past
<1>7. Alone'
  BY <1>1, <1>2, <1>3, StaysAlone DEF Past
<1> QED
  BY <1>3, <1>4, <1>5, <1>6, <1>7 DEF MemoryInv

LEMMA BackupFailsKeeps ==
  ASSUME MemoryInv, NEW j \in Jobs, BackupFails(j) PROVE MemoryInv'
<1> DEFINE o == op[j]
           r == Receipt("EXECUTE", "FAILED", FALSE)
<1>1. /\ Free /\ step[j] \in Past /\ o \in Operations
      /\ step[j] \in Backing => (o \notin raced => o \in opened /\ file[o] = None)
  BY DEF BackupFails, Backing, Writing, MemoryInv, JobKnows, Awaited, Operating, Past
<1>2. /\ UNCHANGED <<store, plan, raced>> /\ End(j) /\ (Store(o, r) \/ UNCHANGED receipt)
      /\ \/ step[j] \in Backing /\ (Removed(o) \/ Complete(o))
         \/ UNCHANGED <<opened, file>>
  BY DEF BackupFails, Writing, Backing
<1>3. r \in Receipts /\ r.snapshot = FALSE
  BY DEF Receipt, Receipts
<1> HIDE DEF o, r
<1>4. /\ receipt' \in [Operations -> Receipts \cup {None}]
      /\ \A p \in Operations : receipt'[p] # None /\ receipt'[p].snapshot => file[p] # None \/ p \in raced
  BY <1>1, <1>2, <1>3 DEF Store, MemoryInv, StoreTypes, FilesWhole
<1>5. Others(j) /\ JobKnows(j)' /\ JobTypes' /\ step'[j] = "idle"
  BY <1>2, EndKnows
<1>6. /\ Grows /\ StoreTypes' /\ FactsWhole' /\ FilesWhole'
      /\ \A p \in Operations : p # o => file'[p] = file[p] /\ (p \in opened' <=> p \in opened)
  <2>1. CASE step[j] \in Backing /\ Removed(o)
    BY <1>1, <1>2, <1>4, <2>1, FileWritten DEF Removed
  <2>2. CASE step[j] \in Backing /\ Complete(o)
    BY <1>1, <1>2, <1>4, <2>2, FileWritten DEF Complete
  <2>3. CASE UNCHANGED <<opened, file>>
    <3>1. Grows
      BY <1>2, <2>3, NothingGrows
    <3> QED
      BY <1>2, <1>4, <2>3, <3>1, FactsStay DEF MemoryInv, StoreTypes, FilesWhole, store
  <2> QED
    BY <1>2, <2>1, <2>2, <2>3
<1>7. \A k \in Jobs \ {j} : JobKnows(k)'
  BY <1>1, <1>2, <1>5, <1>6, OthersAwait, OthersRemember DEF o
<1>8. Alone'
  BY <1>2, <1>5, StaysAlone DEF Awaiting, Past, Backing, Backed, Changing
<1> QED
  BY <1>5, <1>6, <1>7, <1>8 DEF MemoryInv

LEMMA RollbackKeeps ==
  ASSUME MemoryInv, NEW j \in Jobs, NEW o \in Rollbacks, NEW s \in Executions, Rollback(j, o, s)
  PROVE  MemoryInv'
<1>1. /\ o \in Operations /\ s \in Operations /\ Free /\ o \notin opened
      /\ file[s] # None /\ step[j] = "idle"
  BY DEF Operations, Rollback
<1>2. /\ PassCheck(j, o) /\ source' = [source EXCEPT ![j] = file[s]]
      /\ UNCHANGED <<store, plan, opened, file, receipt, batch, todo, proposed, staging>>
  BY DEF Rollback
<1>3. /\ DOMAIN source' = Jobs /\ source'[j] = file[s] /\ \A k \in Jobs \ {j} : source'[k] = source[k]
  BY <1>2 DEF MemoryInv, JobTypes
<1>4. SourceWhole(j)'
  BY <1>1, <1>2, <1>3 DEF SourceWhole, MemoryInv, StoreTypes, FilesWhole, store
<1> QED
  BY <1>1, <1>2, <1>3, <1>4, PassCheckKeeps

-----------------------------------------------------------------------------
(* Maintenance, behind its snapshot. *)

Tidied(f) == [f EXCEPT !.subject = "tidy"]
Sourcing(f, s) == [f EXCEPT !.sources = @ \cup s]

LEMMA FactTidied ==
  ASSUME NEW f \in Facts
  PROVE  /\ Tidied(f) \in Facts
         /\ Tidied(f).valid = f.valid /\ Tidied(f).invalid = f.invalid /\ Tidied(f).by = f.by
  BY DEF Facts, Subjects, Tidied

LEMMA FactSourced ==
  ASSUME NEW f \in Facts, NEW s \in SUBSET Nat
  PROVE  /\ Sourcing(f, s) \in Facts /\ (s = {} => Sourcing(f, s) = f)
         /\ Sourcing(f, s).valid = f.valid /\ Sourcing(f, s).invalid = f.invalid /\ Sourcing(f, s).by = f.by
  BY DEF Facts, Sourcing

LEMMA FactReinserted ==
  ASSUME NEW f \in Facts
  PROVE  /\ Reinserted(f) \in Facts
         /\ Reinserted(f).valid = f.valid /\ Reinserted(f).invalid = f.invalid /\ Reinserted(f).by = f.by
  BY NoneIsNoId DEF Facts, Reinserted

\* A rebuild is planned alone.
LEMMA RebuildAlone ==
  ASSUME MemoryInv, NEW j \in Jobs, step[j] \in Changing
  PROVE  Wants(j, "rebuild") => ~Wants(j, "normalize") /\ ~Wants(j, "dedupe")
<1>1. op[j] \in Operations /\ plan[op[j]] # None
  BY DEF MemoryInv, JobKnows, Operating, Past, Backed
<1>2. plan[op[j]].actions \in ActionSets
  BY <1>1 DEF MemoryInv, StoreTypes, Plans
<1> QED
  BY <1>2, Constants DEF Wants

\* A step of a running job that revises facts.
LEMMA RevisedStep ==
  ASSUME MemoryInv, NEW j \in Jobs, step[j] \in Changing, NEW next \in {"dedupe", "rebuild"},
         Proceed(j, next), UNCHANGED <<episodes, consolidated, quarantine, made, upkeep, job>>,
         Whole(facts', made), Existing(facts') = Existing(facts),
         Wants(j, "rebuild") => facts' = facts
  PROVE  MemoryInv'
<1>1. /\ Others(j) /\ JobTypes' /\ step'[j] = next /\ next \in Changing
  BY DEF MemoryInv, JobTypes, Others, Proceed, Steps, Past, Backed, Changing, job
<1>2. Grows /\ StoreTypes'
  BY DEF MemoryInv, StoreTypes, Grows, upkeep
<1>3. FactsWhole'
  BY DEF MemoryInv, FactsWhole, Pointers
<1>4. JobKnows(j)
  BY DEF MemoryInv
<1>5. JobKnows(j)'
  BY <1>1, <1>4 DEF JobKnows, FreshProposal, Awaited, SourceWhole, Steps, Operating, Past, Backing, Backed, Changing, Sourced, Wants, job, upkeep
<1> QED
  BY <1>1, <1>2, <1>3, <1>5, OwnStep DEF Awaiting, Writing, Past, Changing, Backing, Backed, job, upkeep

LEMMA NormalizeKeeps ==
  ASSUME MemoryInv, NEW j \in Jobs, Normalize(j) PROVE MemoryInv' /\ Existing(facts') = Existing(facts)
<1>1. /\ step[j] = "normalize" /\ step[j] \in Changing /\ Proceed(j, "dedupe")
      /\ UNCHANGED <<episodes, consolidated, quarantine, made, upkeep, job>>
      /\ DOMAIN facts' = Ids /\ facts' = [i \in Ids |-> facts'[i]]
  BY DEF Normalize, Changing
<1>2. \A i \in Ids : facts'[i] = IF Wants(j, "normalize") /\ Assignable(i) THEN Tidied(facts[i]) ELSE facts[i]
  BY DEF Normalize, Tidied
<1>3. \A i \in Ids : facts[i] \in Facts \cup {None} /\ (Assignable(i) => facts[i] \in Facts)
  BY DEF MemoryInv, FactsWhole, Whole, Assignable, Exists
<1>4. \A i \in Ids : facts'[i] \in Facts \cup {None} /\ (facts'[i] = None <=> facts[i] = None)
  BY <1>2, <1>3, FactTidied, NoneIsNoId DEF Assignable, Exists
<1>5. facts' \in [Ids -> Facts \cup {None}] /\ Existing(facts') = Existing(facts)
  BY <1>1, <1>4 DEF Existing, Exists
<1>6. \A i \in Existing(facts) : Stays(facts, facts', i)
  BY <1>2, <1>3, FactTidied DEF Stays, Existing
<1>7. Whole(facts', made)
  BY <1>5, <1>6, WholeRevised DEF MemoryInv, FactsWhole
<1>8. Wants(j, "rebuild") => facts' = facts
  <2>1. Wants(j, "rebuild") => \A i \in Ids : facts'[i] = facts[i]
    BY <1>1, <1>2, RebuildAlone
  <2> QED
    BY <1>5, <2>1 DEF MemoryInv, FactsWhole, Whole
<1> QED
  BY <1>1, <1>5, <1>7, <1>8, RevisedStep

LEMMA DedupeKeeps ==
  ASSUME MemoryInv, NEW j \in Jobs, Dedupe(j) PROVE MemoryInv' /\ Existing(facts') = Existing(facts)
<1>1. /\ step[j] = "dedupe" /\ step[j] \in Changing /\ Proceed(j, "rebuild")
      /\ UNCHANGED <<episodes, consolidated, quarantine, made, upkeep, job>>
  BY DEF Dedupe, Changing
<1> DEFINE Winner(i, kept) == CHOOSE k \in kept : k \in Group(i)
           Joined(i) == UNION {facts[k].sources : k \in IF Wants(j, "dedupe") THEN Group(i) ELSE {}}
<1>2. PICK now \in Times, kept \in SUBSET {i \in Ids : Live(facts, i)} :
        /\ \A i \in Ids : Live(facts, i) =>
             IF Wants(j, "dedupe") /\ Assignable(i)
               THEN Cardinality(kept \cap Group(i)) = 1 ELSE i \in kept
        /\ facts' = [i \in Ids |->
             IF ~Live(facts, i) THEN facts[i]
             ELSE IF i \notin kept THEN Merged(facts[i], Winner(i, kept), now)
             ELSE Sourcing(facts[i], Joined(i))]
  BY DEF Dedupe, Sourcing
<1>3. \A i \in Ids : Live(facts, i) =>
        facts[i] \in Facts /\ facts[i] # None /\ facts[i].invalid = None /\ facts[i].by = None
  BY DEF MemoryInv, FactsWhole, Whole, Existing, Live, Exists
<1>4. ASSUME NEW i \in Ids, Live(facts, i), i \notin kept
      PROVE  Winner(i, kept) \in kept /\ Wants(j, "dedupe")
  <2>1. Cardinality(kept \cap Group(i)) = 1 /\ Wants(j, "dedupe")
    BY <1>2, <1>4
  <2>2. kept \cap Group(i) # {}
    BY <2>1, FS_EmptySet
  <2> QED
    BY <2>1, <2>2
<1>5. \A i \in Ids : Joined(i) \in SUBSET Nat
  <2>1. \A i \in Ids : \A k \in Group(i) : facts[k].sources \subseteq Nat
    BY <1>3 DEF Group, Same, Facts
  <2> QED
    BY <2>1
<1>6. Wants(j, "rebuild") => \A i \in Ids : Joined(i) = {}
  BY <1>1, RebuildAlone
<1>7. \A i \in Ids : Live(facts, i) /\ i \in kept => facts'[i] = Sourcing(facts[i], Joined(i))
  BY <1>2
<1>8. \A i \in Ids : Live(facts, i) /\ i \notin kept =>
        facts'[i] = EndedBy(facts[i], Later(now, facts[i].valid), Winner(i, kept))
  BY <1>2 DEF Merged, EndedBy
<1>9. \A i \in Ids : ~Live(facts, i) => facts'[i] = facts[i]
  BY <1>2
<1>10. DOMAIN facts' = Ids /\ facts' = [i \in Ids |-> facts'[i]]
  BY <1>2
<1> HIDE DEF Winner, Joined
<1>11. ASSUME NEW i \in Ids, Live(facts, i), i \notin kept
       PROVE  /\ facts'[i] \in Facts /\ facts'[i].valid = facts[i].valid /\ facts'[i].by = Winner(i, kept)
              /\ facts'[i].invalid \in Times /\ facts'[i].valid <= facts'[i].invalid
  <2> DEFINE f == facts[i]
             t == Later(now, f.valid)
             w == Winner(i, kept)
  <2>1. f \in Facts /\ f.valid \in Times /\ f.valid \in Nat /\ now \in Nat
    BY <1>3, <1>11, Constants DEF Facts
  <2>2. t \in Times /\ f.valid <= t
    BY <2>1 DEF Later
  <2>3. w \in Ids
    BY <1>4, <1>11
  <2>4. facts'[i] = EndedBy(f, t, w)
    BY <1>8, <1>11
  <2> HIDE DEF f, t, w
  <2>5. facts'[i] \in Facts /\ facts'[i].valid = f.valid /\ facts'[i].by = w /\ facts'[i].invalid = t
    BY <2>1, <2>2, <2>3, <2>4, FactEnded
  <2> QED
    BY <2>2, <2>5 DEF f, w
<1>12. ASSUME NEW i \in Ids, Live(facts, i), i \in kept
       PROVE  facts'[i] \in Facts /\ Stays(facts, facts', i) /\ (Wants(j, "rebuild") => facts'[i] = facts[i])
  <2> DEFINE f == facts[i]
             s == Joined(i)
  <2>1. f \in Facts /\ s \in SUBSET Nat /\ facts'[i] = Sourcing(f, s) /\ (Wants(j, "rebuild") => s = {})
    BY <1>3, <1>5, <1>6, <1>7, <1>12
  <2> HIDE DEF f, s
  <2>2. /\ facts'[i] \in Facts /\ facts'[i].valid = f.valid /\ facts'[i].invalid = f.invalid
        /\ facts'[i].by = f.by /\ (Wants(j, "rebuild") => facts'[i] = f)
    BY <2>1, FactSourced
  <2> QED
    BY <2>2 DEF f, Stays
<1>13. \A i \in Ids : facts[i] \in Facts \cup {None}
  BY DEF MemoryInv, FactsWhole, Whole
<1>14. \A i \in Ids : facts'[i] \in Facts \cup {None} /\ (facts'[i] = None <=> facts[i] = None)
  BY <1>3, <1>9, <1>11, <1>12, <1>13, NoneIsNoId
<1>15. facts' \in [Ids -> Facts \cup {None}] /\ Existing(facts') = Existing(facts)
  BY <1>10, <1>14 DEF Existing, Exists
<1>16. ASSUME NEW i \in Existing(facts) PROVE Stays(facts, facts', i) \/ Ends(facts, facts', i)
  <2>0. i \in Ids
    BY DEF Existing
  <2>1. CASE ~Live(facts, i)
    BY <1>9, <2>0, <2>1 DEF Stays
  <2>2. CASE Live(facts, i) /\ i \in kept
    BY <1>12, <2>0, <2>2
  <2>3. CASE Live(facts, i) /\ i \notin kept
    <3> DEFINE w == Winner(i, kept)
    <3>1. w \in kept /\ w \in Ids /\ Live(facts, w)
      BY <1>4, <2>0, <2>3
    <3>2. facts'[w].by = None /\ w \in Existing(facts)
      BY <1>3, <1>12, <3>1 DEF Stays, Existing, Live
    <3>3. facts'[i].invalid # None /\ facts'[i].valid <= facts'[i].invalid /\ facts'[i].by = w
      <4>1. None \notin Times
        BY NoneIsNoId, Constants
      <4> QED
        BY <1>11, <2>0, <2>3, <4>1
    <3> HIDE DEF w
    <3> QED
      BY <1>3, <2>0, <2>3, <3>2, <3>3 DEF Ends
  <2> QED
    BY <2>1, <2>2, <2>3
<1>17. Whole(facts', made)
  BY <1>15, <1>16, WholeRevised DEF MemoryInv, FactsWhole
<1>18. Wants(j, "rebuild") => facts' = facts
  <2>1. Wants(j, "rebuild") => \A i \in Ids : facts'[i] = facts[i]
    BY <1>1, <1>4, <1>9, <1>12, RebuildAlone
  <2> QED
    BY <1>15, <2>1 DEF MemoryInv, FactsWhole, Whole
<1> QED
  BY <1>1, <1>15, <1>17, <1>18, RevisedStep

\* All pointers of the quarantine are set anew.
LEMMA Replaced ==
  ASSUME MemoryInv, NEW fs, NEW pointers \in SUBSET Ids, Replace(fs, pointers)
  PROVE  /\ facts' = fs /\ quarantine' \in [Ids -> Proposals \cup {None}]
         /\ \A i \in Ids : quarantine'[i] # None <=> quarantine[i] # None
         /\ Pointers' \subseteq pointers
<1>1. facts' = fs /\ DOMAIN quarantine' = Ids /\ quarantine' = [i \in Ids |-> quarantine'[i]]
  BY DEF Replace
<1>2. ASSUME NEW i \in Ids, quarantine[i] = None PROVE quarantine'[i] = None
  BY <1>2 DEF Replace
<1>3. ASSUME NEW i \in Ids, quarantine[i] # None
      PROVE  /\ quarantine'[i] \in Proposals /\ quarantine'[i] # None
             /\ quarantine'[i].promoted => i \in pointers
  <2> DEFINE b == i \in pointers
  <2>1. quarantine[i] \in Proposals /\ b \in BOOLEAN
    BY <1>3 DEF MemoryInv, StoreTypes
  <2>2. quarantine'[i] = [quarantine[i] EXCEPT !.promoted = b]
    BY <1>3 DEF Replace
  <2> HIDE DEF b
  <2>3. quarantine'[i] \in Proposals /\ quarantine'[i].promoted = b
    BY <2>1, <2>2 DEF Proposals
  <2> QED
    BY <2>3, NoneIsNoRow DEF b
<1> QED
  BY <1>1, <1>2, <1>3 DEF Pointers

LEMMA RebuildKeeps ==
  ASSUME MemoryInv, NEW j \in Jobs, Rebuild(j) PROVE MemoryInv'
<1>1. /\ step[j] = "rebuild" /\ step[j] \notin Awaiting /\ JobKnows(j) /\ Proceed(j, "receipt")
      /\ UNCHANGED <<episodes, made, upkeep, job>>
  BY DEF Rebuild, Awaiting, Writing, MemoryInv
<1>2. /\ Others(j) /\ JobTypes' /\ step'[j] = "receipt"
  BY <1>1 DEF MemoryInv, JobTypes, Others, Proceed, Steps, Past, Backed, job
<1>3. /\ Whole(facts', made) /\ Pointers' \subseteq Existing(facts') /\ consolidated' \subseteq episodes
      /\ quarantine' \in [Ids -> Proposals \cup {None}]
      /\ \A i \in Ids : quarantine'[i] # None <=> quarantine[i] # None
  <2>1. CASE Wants(j, "rebuild")
    <3> DEFINE fs == staging[j]
               pointers == {}
    <3>1. pointers \in SUBSET Ids /\ Replace(fs, pointers) /\ Whole(fs, made)
          /\ consolidated' = consolidated \cup {e \in batch[j] : ~Unassignable(e)}
      BY <1>1, <2>1 DEF Rebuild, JobKnows
    <3>2. consolidated' \subseteq episodes
      BY <1>1, <3>1 DEF JobKnows, MemoryInv, StoreTypes
    <3> HIDE DEF fs, pointers
    <3>3. /\ facts' = fs /\ quarantine' \in [Ids -> Proposals \cup {None}]
          /\ \A i \in Ids : quarantine'[i] # None <=> quarantine[i] # None
          /\ Pointers' \subseteq pointers
      BY <3>1, Replaced
    <3> QED
      BY <3>1, <3>2, <3>3 DEF pointers
  <2>2. CASE ~Wants(j, "rebuild")
    BY <2>2 DEF Rebuild, MemoryInv, StoreTypes, FactsWhole, Pointers
  <2> QED
    BY <2>1, <2>2
<1>4. Grows /\ StoreTypes'
  BY <1>1, <1>3 DEF MemoryInv, StoreTypes, Grows, upkeep
<1>5. FactsWhole'
  BY <1>1, <1>3 DEF MemoryInv, FactsWhole
<1>6. JobKnows(j)'
  BY <1>1, <1>2 DEF JobKnows, FreshProposal, Awaited, SourceWhole, Steps, Operating, Past, Backing, Backed, Changing, Sourced, job, upkeep
<1> QED
  BY <1>1, <1>2, <1>4, <1>5, <1>6, OwnStep DEF Past, Backing, Backed, Changing, job, upkeep

LEMMA RestoreKeeps ==
  ASSUME MemoryInv, NEW j \in Jobs, Restore(j) PROVE MemoryInv'
<1> DEFINE s == source[j]
           fs == [i \in Ids |-> Reinserted(s.facts[i])]
           pointers == s.pointers
<1>1. /\ step[j] = "restore" /\ step[j] \notin Awaiting /\ JobKnows(j) /\ Proceed(j, "restored")
      /\ UNCHANGED <<episodes, made, upkeep, job>> /\ Replace(fs, pointers)
      /\ consolidated' = (consolidated \ s.episodes) \cup s.consolidated
  BY DEF Restore, Awaiting, Writing, MemoryInv
<1>2. s # None
  BY <1>1 DEF JobKnows, Sourced
<1>3. s \in Snapshots /\ WholeSnapshot(s, made) /\ s.episodes \subseteq episodes
  BY <1>1, <1>2 DEF JobKnows, SourceWhole
<1>4. pointers \in SUBSET Ids /\ Whole(s.facts, made) /\ consolidated' \subseteq episodes
      /\ pointers \subseteq Existing(s.facts)
  BY <1>1, <1>3 DEF Snapshots, WholeSnapshot, MemoryInv, StoreTypes
<1>5. /\ fs \in [Ids -> Facts \cup {None}] /\ Existing(fs) = Existing(s.facts)
      /\ \A i \in Existing(s.facts) : Stays(s.facts, fs, i)
  <2> DEFINE old == s.facts
  <2>1. \A i \in Ids : old[i] \in Facts \cup {None} /\ fs[i] = Reinserted(old[i])
    BY <1>4 DEF Whole
  <2>2. DOMAIN fs = Ids /\ fs = [i \in Ids |-> fs[i]]
    OBVIOUS
  <2> HIDE DEF fs, old
  <2>3. \A i \in Ids : old[i] = None => fs[i] = None
    BY <2>1 DEF Reinserted
  <2>4. \A i \in Ids : old[i] # None =>
          /\ fs[i] \in Facts /\ fs[i] # None
          /\ fs[i].valid = old[i].valid /\ fs[i].invalid = old[i].invalid /\ fs[i].by = old[i].by
    BY <2>1, FactReinserted, NoneIsNoId
  <2>5. fs \in [Ids -> Facts \cup {None}]
    BY <2>2, <2>3, <2>4
  <2>6. Existing(fs) = Existing(old) /\ \A i \in Existing(old) : Stays(old, fs, i)
    BY <2>3, <2>4 DEF Existing, Exists, Stays
  <2> QED
    BY <2>5, <2>6 DEF old
<1> HIDE DEF s, fs, pointers
<1>6. Whole(fs, made)
  <2> DEFINE old == s.facts
  <2>1. Whole(old, made) /\ fs \in [Ids -> Facts \cup {None}] /\ Existing(fs) = Existing(old)
        /\ \A i \in Existing(old) : Stays(old, fs, i)
    BY <1>4, <1>5
  <2> HIDE DEF old
  <2> QED
    BY <2>1, WholeRevised
<1>7. /\ facts' = fs /\ quarantine' \in [Ids -> Proposals \cup {None}]
      /\ \A i \in Ids : quarantine'[i] # None <=> quarantine[i] # None
      /\ Pointers' \subseteq pointers
  BY <1>1, <1>4, Replaced
<1>8. /\ Others(j) /\ JobTypes' /\ step'[j] = "restored"
  BY <1>1 DEF MemoryInv, JobTypes, Others, Proceed, Steps, Past, Backed, job
<1>9. Grows /\ StoreTypes'
  BY <1>1, <1>4, <1>7 DEF MemoryInv, StoreTypes, Grows, upkeep
<1>10. FactsWhole'
  BY <1>1, <1>4, <1>5, <1>6, <1>7 DEF MemoryInv, FactsWhole
<1>11. JobKnows(j)'
  BY <1>1, <1>8 DEF JobKnows, FreshProposal, Awaited, SourceWhole, Steps, Operating, Past, Backing, Backed, Changing, Sourced, job, upkeep
<1> QED
  BY <1>1, <1>8, <1>9, <1>10, <1>11, OwnStep DEF Past, Backing, Backed, Changing, job, upkeep

\* A job that concludes with a receipt of its snapshot, or with none.
LEMMA SnapshotReceipt ==
  ASSUME MemoryInv, NEW j \in Jobs, step[j] \in Backed, step[j] \notin Awaiting, End(j),
         NEW r \in Receipts, Store(op[j], r) \/ UNCHANGED receipt, UNCHANGED <<store, plan, opened, file, raced>>
  PROVE  MemoryInv'
<1> DEFINE o == op[j]
<1>1. o \in Operations /\ (file[o] # None \/ o \in raced)
  BY DEF MemoryInv, JobKnows, Operating, Past
<1>2. Store(o, r) \/ UNCHANGED receipt
  OBVIOUS
<1> HIDE DEF o
<1>3. /\ receipt' \in [Operations -> Receipts \cup {None}]
      /\ \A p \in Operations : receipt'[p] # None /\ receipt'[p].snapshot => file'[p] # None \/ p \in raced'
  BY <1>1, <1>2, ReceiptStored DEF MemoryInv, StoreTypes, FilesWhole
<1> QED
  BY <1>3, EndWithReceipt

LEMMA ConcludeKeeps == ASSUME MemoryInv, NEW j \in Jobs, Conclude(j) PROVE MemoryInv'
<1> DEFINE r == Receipt("EXECUTE", "SUCCEEDED", TRUE)
           q == Receipt("EXECUTE", "FAILED", TRUE)
<1>1. /\ step[j] \in Backed /\ step[j] \notin Awaiting /\ End(j) /\ UNCHANGED <<store, plan, opened, file, raced>>
      /\ Store(op[j], r) \/ Store(op[j], q)
  BY DEF Conclude, Backed, Awaiting, Writing
<1>2. r \in Receipts /\ q \in Receipts
  BY DEF Receipt, Receipts
<1> HIDE DEF r, q
<1> QED
  BY <1>1, <1>2, SnapshotReceipt

LEMMA RestoredKeeps == ASSUME MemoryInv, NEW j \in Jobs, Restored(j) PROVE MemoryInv'
<1> DEFINE r == Receipt("ROLLBACK", "SUCCEEDED", TRUE)
<1>1. /\ step[j] \in Backed /\ step[j] \notin Awaiting /\ End(j) /\ UNCHANGED <<store, plan, opened, file, raced>>
      /\ Store(op[j], r) \/ UNCHANGED receipt
  BY DEF Restored, Backed, Awaiting, Writing
<1>2. r \in Receipts
  BY DEF Receipt, Receipts
<1> HIDE DEF r
<1> QED
  BY <1>1, <1>2, SnapshotReceipt

LEMMA ProcessDiesKeeps == ASSUME MemoryInv, ProcessDies PROVE MemoryInv'
<1>1. UNCHANGED <<store, upkeep>> /\ JobTypes' /\ \A k \in Jobs :
        step'[k] = "idle" /\ source'[k] = None /\ batch'[k] = {} /\ todo'[k] = {} /\ staging'[k] = NoFacts
  BY DEF ProcessDies, JobTypes, Steps
<1>2. StoreTypes' /\ FactsWhole' /\ FilesWhole'
  BY <1>1, StoreStays
<1>3. Alone'
  BY <1>1 DEF Alone, Awaiting, Past, Backing, Backed, Changing
<1>4. \A k \in Jobs : JobKnows(k)'
  BY <1>1, NothingIsWhole DEF JobKnows, FreshProposal, Awaited, SourceWhole, Steps, Operating, Past, Backing, Backed, Changing, Sourced
<1> QED
  BY <1>1, <1>2, <1>3, <1>4 DEF MemoryInv

-----------------------------------------------------------------------------
(* The invariant. *)

LEMMA InitMemoryInv == MemoryInit => MemoryInv
<1> SUFFICES ASSUME MemoryInit PROVE MemoryInv
  OBVIOUS
<1>1. DOMAIN Legacy \subseteq Ids /\ \A i \in DOMAIN Legacy : Legacy[i] \in Facts
  BY LegacyIsWhole
<1> DEFINE n == Cardinality(DOMAIN Legacy)
<1>2. DOMAIN Legacy = 1 .. n
  BY LegacyIsWhole
<1>3. n \in 0 .. MaxFacts
  <2>1. IsFiniteSet(Ids) /\ Cardinality(Ids) = MaxFacts
    <3>1. MaxFacts \in Nat
      BY Constants
    <3> QED
      BY <3>1, FS_Interval DEF Ids
  <2>2. n \in Nat /\ n <= MaxFacts
    BY <1>1, <2>1, FS_Subset, FS_CardinalityType
  <2> QED
    BY <2>2, Constants
<1>4. /\ facts \in [Ids -> Facts \cup {None}] /\ Existing(facts) = DOMAIN Legacy
      /\ \A i \in DOMAIN Legacy : facts[i] = Legacy[i]
  BY <1>1, NoneIsNoId DEF MemoryInit, Existing, Exists
<1>5. made = n
  BY DEF MemoryInit
<1> HIDE DEF n
<1>6. Whole(facts, made)
  <2>1. \A i \in DOMAIN Legacy : i <= made
    BY <1>2, <1>3, <1>5
  <2> QED
    BY <1>4, <2>1, LegacyIsWhole DEF Whole
<1>7. StoreTypes
  BY <1>3, <1>5 DEF MemoryInit, StoreTypes
<1>8. JobTypes
  BY DEF MemoryInit, JobTypes, Steps
<1>9. FactsWhole
  BY <1>6 DEF MemoryInit, FactsWhole, Pointers
<1>10. FilesWhole /\ Alone
  BY DEF MemoryInit, FilesWhole, Alone, Awaiting, Past, Backing, Backed, Changing
<1>11. \A k \in Jobs : JobKnows(k)
  BY NothingIsWhole
     DEF MemoryInit, JobKnows, FreshProposal, Awaited, SourceWhole, Steps, Operating, Past, Backing, Backed, Changing, Sourced
<1> QED
  BY <1>7, <1>8, <1>9, <1>10, <1>11 DEF MemoryInv

LEMMA MemoryStutters == ASSUME MemoryInv, UNCHANGED memoryVars PROVE MemoryInv'
<1>1. UNCHANGED <<store, upkeep, step, job>>
  BY DEF memoryVars
<1>2. StoreTypes' /\ FactsWhole' /\ FilesWhole'
  BY <1>1, StoreStays
<1>3. JobTypes' /\ Alone'
  BY <1>1 DEF MemoryInv, JobTypes, Alone, job, upkeep
<1>4. Grows
  BY <1>1, NothingGrows DEF upkeep
<1>5. \A k \in Jobs : JobKnows(k)'
  BY <1>1, <1>4, Remembers, AwaitedStays DEF job, store, upkeep
<1> QED
  BY <1>2, <1>3, <1>5 DEF MemoryInv

LEMMA NextMemoryInv == MemoryInv /\ [MemoryNext]_memoryVars => MemoryInv'
<1> SUFFICES ASSUME MemoryInv, [MemoryNext]_memoryVars PROVE MemoryInv'
  OBVIOUS
<1>1. CASE Routes
  BY <1>1, AppendEpisodeKeeps, ProposeKeeps, PromoteKeeps, ForgetKeeps, PlanKeeps DEF Routes
<1>2. CASE ProcessDies
  BY <1>2, ProcessDiesKeeps
<1>3. ASSUME NEW j \in Jobs, Consolidation(j) PROVE MemoryInv'
  BY <1>3, ConsolidateKeeps, ProposeCandidateKeeps, ExtractedKeeps, PromoteCandidateKeeps, MarkEpisodeKeeps
     DEF Consolidation
<1>4. ASSUME NEW j \in Jobs, Maintenance(j) PROVE MemoryInv'
  BY <1>4, ExecuteKeeps, RollbackKeeps, StageKeeps, PreparedKeeps, PrepareFailsKeeps, OpenFileKeeps, BackedUpKeeps,
     BackupFailsKeeps, NormalizeKeeps, DedupeKeeps, RebuildKeeps, ConcludeKeeps, RestoreKeeps, RestoredKeeps
     DEF Maintenance
<1>5. CASE UNCHANGED memoryVars
  BY <1>5, MemoryStutters
<1> QED
  BY <1>1, <1>2, <1>3, <1>4, <1>5 DEF MemoryNext

\* The facts are whole at every step of a consolidation, a maintenance or a
\* rollback, wherever the process dies, and each job knows the snapshot it has.
THEOREM MemoryInvariant == MemorySpec => []MemoryInv
<1> QED
  BY InitMemoryInv, NextMemoryInv, PTL DEF MemorySpec

LEMMA WholeKeepsIntegrity == MemoryInv => IntegrityKept
<1> SUFFICES ASSUME MemoryInv PROVE IntegrityKept
  OBVIOUS
<1>1. MemoryTypeOK
  <2>1. \A i \in Ids : facts[i] \in Facts \cup {None} /\ (Exists(facts, i) => i <= made)
    BY DEF MemoryInv, FactsWhole, Whole, Existing
  <2>2. \A i \in Ids : quarantine[i] # None => i <= made /\ quarantine[i].status \in {"PENDING", "PROMOTED"}
    BY DEF MemoryInv, FactsWhole, StoreTypes, Proposals
  <2> QED
    BY <2>1, <2>2 DEF MemoryInv, MemoryTypeOK, StoreTypes, FilesWhole
<1>2. \A i \in Ids : Exists(facts, i) =>
        /\ facts[i].invalid # None => facts[i].valid <= facts[i].invalid
        /\ facts[i].by # None => facts[i].invalid # None /\ Exists(facts, facts[i].by)
  BY DEF MemoryInv, FactsWhole, Whole, Existing
<1>3. \A some \in (SUBSET {i \in Ids : Exists(facts, i)}) \ {{}} : \E i \in some : facts[i].by \notin some
  BY DEF MemoryInv, FactsWhole, Whole, Existing
<1>4. Pointers \subseteq {i \in Ids : Exists(facts, i)}
  BY DEF MemoryInv, FactsWhole, Existing
<1> QED
  BY <1>1, <1>2, <1>3, <1>4 DEF IntegrityKept

\* What superseded a fact exists, no fact ends before it began, supersession
\* never runs in a circle, and a promoted proposal points to a fact.
THEOREM Integrity == MemorySpec => []IntegrityKept
<1> QED
  BY MemoryInvariant, WholeKeepsIntegrity, PTL

-----------------------------------------------------------------------------
(* No fact is lost. *)

FilesKept == \A o \in Operations \ raced' : file[o] # None => file'[o] = file[o]

Preserved ==
  /\ \A i \in Ids : Exists(facts, i) /\ facts'[i] = None =>
       \E j \in Jobs : /\ step[j] \in {"rebuild", "restore"}
                       /\ \/ op[j] \in raced
                          \/ file[op[j]] # None /\ file[op[j]].facts[i] = facts[i]
  /\ FilesKept

LEMMA RowsStay ==
  ASSUME FilesKept, Existing(facts) \subseteq Existing(facts') PROVE Preserved
  BY DEF Preserved, Existing, Exists

\* At a step that replaces the facts, the snapshot of its operation holds them.
LEMMA RowsInSnapshot ==
  ASSUME NEW j \in Jobs, step[j] \in {"rebuild", "restore"}, file' = file,
         op[j] \notin raced => file[op[j]] # None /\ facts = file[op[j]].facts
  PROVE  Preserved
  BY DEF Preserved, FilesKept

LEMMA RoutesPreserve == ASSUME MemoryInv, Routes PROVE Preserved
<1>1. file' = file
  BY DEF Routes, AppendEpisode, Propose, Promote, Forget, Plan, upkeep
<1>2. Existing(facts) \subseteq Existing(facts')
  <2>1. CASE \E i \in Ids : (\E p \in Promotions : Promote(i, p)) \/ \E now \in Times : Forget(i, now)
    BY <2>1, PromoteKeeps, ForgetKeeps DEF Existing
  <2>2. CASE facts' = facts
    BY <2>2
  <2> QED
    BY <2>1, <2>2 DEF Routes, AppendEpisode, Propose, Plan, store
<1> QED
  BY <1>1, <1>2, RowsStay DEF FilesKept

LEMMA ConsolidationPreserves == ASSUME MemoryInv, NEW j \in Jobs, Consolidation(j) PROVE Preserved
<1>1. file' = file
  BY DEF Consolidation, Consolidate, ProposeCandidate, Extracted, PromoteCandidate, MarkEpisode, upkeep
<1>2. CASE PromoteCandidate(j)
  BY <1>1, <1>2, PromoteCandidateKeeps, RowsStay DEF FilesKept
<1>3. CASE ~PromoteCandidate(j)
  <2>1. facts' = facts
    BY <1>3 DEF Consolidation, Consolidate, ProposeCandidate, Extracted, MarkEpisode, store
  <2> QED
    BY <1>1, <2>1, RowsStay DEF FilesKept
<1> QED
  BY <1>2, <1>3

LEMMA MaintenancePreserves == ASSUME MemoryInv, NEW j \in Jobs, Maintenance(j) PROVE Preserved
<1>0. JobKnows(j)
  BY DEF MemoryInv
<1>1. CASE Normalize(j) \/ Dedupe(j)
  <2>1. file' = file
    BY <1>1 DEF Normalize, Dedupe, upkeep
  <2> QED
    BY <1>1, <2>1, NormalizeKeeps, DedupeKeeps, RowsStay DEF FilesKept
<1>2. CASE Rebuild(j)
  <2>1. file' = file /\ step[j] = "rebuild" /\ op[j] \in Operations /\ (op[j] \notin raced => file[op[j]] # None)
    BY <1>0, <1>2 DEF Rebuild, JobKnows, Operating, Past, Backed, Changing, upkeep
  <2>2. CASE Wants(j, "rebuild")
    <3>1. op[j] \notin raced => facts = file[op[j]].facts
      BY <1>0, <1>2, <2>2 DEF Rebuild, JobKnows, Changing
    <3> QED
      BY <2>1, <3>1, RowsInSnapshot
  <2>3. CASE ~Wants(j, "rebuild")
    <3>1. facts' = facts
      BY <1>2, <2>3 DEF Rebuild
    <3> QED
      BY <2>1, <3>1, RowsStay DEF FilesKept
  <2> QED
    BY <2>2, <2>3
<1>3. CASE Restore(j)
  <2>1. /\ file' = file /\ step[j] = "restore"
        /\ op[j] \notin raced => file[op[j]] # None /\ facts = file[op[j]].facts
    BY <1>0, <1>3 DEF Restore, JobKnows, Backed, upkeep
  <2> QED
    BY <2>1, RowsInSnapshot
<1>4. CASE BackedUp(j) \/ BackupFails(j)
  <2>1. facts' = facts /\ raced' = raced /\ op[j] \in Operations
    BY <1>0, <1>4 DEF BackedUp, BackupFails, JobKnows, Operating, Past, Backing, Writing, store
  <2>2. \A o \in Operations : o # op[j] => file'[o] = file[o]
    BY <1>4 DEF BackedUp, BackupFails, Complete, Removed, MemoryInv, StoreTypes
  <2>3. file' = file \/ (op[j] \notin raced => file[op[j]] = None)
    BY <1>0, <1>4 DEF BackedUp, BackupFails, JobKnows, Awaited, Backing, Writing
  <2>4. FilesKept
    BY <2>1, <2>2, <2>3 DEF FilesKept
  <2> QED
    BY <2>1, <2>4, RowsStay
<1>5. CASE (\E o \in Executions : Execute(j, o) \/ \E r \in Rollbacks : Rollback(j, r, o))
           \/ \E c \in Extractions : Stage(j, c)
  <2>1. file' = file /\ facts' = facts
    BY <1>5 DEF Execute, Rollback, Stage, store, upkeep
  <2> QED
    BY <2>1, RowsStay DEF FilesKept
<1>6. CASE Prepared(j) \/ PrepareFails(j) \/ OpenFile(j) \/ Conclude(j) \/ Restored(j)
  <2>1. file' = file /\ facts' = facts
    BY <1>6 DEF Prepared, PrepareFails, OpenFile, Conclude, Restored, store, upkeep
  <2> QED
    BY <2>1, RowsStay DEF FilesKept
<1> QED
  BY <1>1, <1>2, <1>3, <1>4, <1>5, <1>6 DEF Maintenance

LEMMA StepPreserves == MemoryInv /\ [MemoryNext]_memoryVars => Preserved
<1> SUFFICES ASSUME MemoryInv, [MemoryNext]_memoryVars PROVE Preserved
  OBVIOUS
<1>1. CASE Routes
  BY <1>1, RoutesPreserve
<1>2. CASE ProcessDies \/ UNCHANGED memoryVars
  <2>1. file' = file /\ facts' = facts
    BY <1>2 DEF ProcessDies, memoryVars, store, upkeep
  <2> QED
    BY <2>1, RowsStay DEF FilesKept
<1>3. CASE \E j \in Jobs : Consolidation(j) \/ Maintenance(j)
  BY <1>3, ConsolidationPreserves, MaintenancePreserves
<1> QED
  BY <1>1, <1>2, <1>3 DEF MemoryNext

\* adr/0006 and 0028: a fact goes only at a rebuild or a rollback that has its
\* own complete snapshot with the fact as it was, and no complete snapshot is
\* written over or removed; but for operations that two jobs raced for.
THEOREM Lossless == MemorySpec => NothingLost
<1>1. MemoryInv /\ [MemoryNext]_memoryVars =>
        [/\ \A i \in Ids : Exists(facts, i) /\ facts'[i] = None =>
              \E j \in Jobs : /\ step[j] \in {"rebuild", "restore"}
                              /\ \/ op[j] \in raced
                                 \/ file[op[j]] # None /\ file[op[j]].facts[i] = facts[i]
         /\ \A o \in Operations \ raced' : file[o] # None => file'[o] = file[o]]_memoryVars
  BY StepPreserves DEF Preserved, FilesKept
<1> QED
  BY <1>1, MemoryInvariant, PTL DEF MemorySpec, NothingLost

-----------------------------------------------------------------------------
(* What has ended. *)

Replacing == \E j \in Jobs : Rebuild(j) \/ Restore(j)

EndedStay ==
  \A i \in Ids : Exists(facts, i) /\ facts[i].invalid # None => Exists(facts', i) /\ Stays(facts, facts', i)

LEMMA NothingEnds == ASSUME facts' = facts PROVE EndedStay
  BY DEF EndedStay, Exists, Stays

LEMMA RoutesEnd == ASSUME MemoryInv, Routes PROVE EndedStay
<1>0. facts \in [Ids -> Facts \cup {None}]
  BY DEF MemoryInv, FactsWhole, Whole
<1>1. ASSUME NEW k \in Ids, NEW p \in Promotions, Promote(k, p) PROVE EndedStay
  <2>1. ~Exists(facts, k) /\ \A i \in Ids : i # k => facts'[i] = facts[i]
    BY <1>0, <1>1 DEF Promote
  <2> QED
    BY <2>1 DEF EndedStay, Exists, Stays
<1>2. ASSUME NEW k \in Ids, NEW now \in Times, Forget(k, now) PROVE EndedStay
  <2>1. facts[k].invalid = None /\ \A i \in Ids : i # k => facts'[i] = facts[i]
    BY <1>0, <1>2 DEF Forget, Live
  <2> QED
    BY <2>1 DEF EndedStay, Exists, Stays
<1>3. CASE facts' = facts
  BY <1>3, NothingEnds
<1> QED
  BY <1>1, <1>2, <1>3 DEF Routes, AppendEpisode, Propose, Plan, store

LEMMA CandidateEnds == ASSUME MemoryInv, NEW j \in Jobs, PromoteCandidate(j) PROVE EndedStay
<1> DEFINE c == proposed[j].candidate
           k == proposed[j].id
<1>1. facts' \in Outcomes(facts, c, k) /\ ~Exists(facts, k)
  BY DEF PromoteCandidate, MemoryInv, JobKnows, FreshProposal
<1> HIDE DEF c, k
<1>2. facts \in [Ids -> Facts \cup {None}]
  BY DEF MemoryInv, FactsWhole, Whole
<1>3. CASE Rivals(facts, c) = {}
  <2>1. \A i \in Ids : i # k => facts'[i] = facts[i]
    BY <1>1, <1>2, <1>3 DEF Outcomes
  <2> QED
    BY <1>1, <2>1 DEF EndedStay, Exists, Stays
<1>4. CASE Rivals(facts, c) # {}
  <2>1. PICK old \in Rivals(facts, c) : facts' = Superseded(facts, c, k, old)
    BY <1>1, <1>4 DEF Outcomes
  <2>2. facts[old].invalid = None
    BY DEF Rivals, Live
  <2>3. \A i \in Ids : i # k /\ i # old => facts'[i] = facts[i]
    BY <1>2, <2>1 DEF Superseded
  <2> QED
    BY <1>1, <2>2, <2>3 DEF EndedStay, Exists, Stays
<1> QED
  BY <1>3, <1>4

LEMMA MaintenanceEnds ==
  ASSUME MemoryInv, NEW j \in Jobs, Maintenance(j), ~Rebuild(j), ~Restore(j) PROVE EndedStay
<1>0. facts \in [Ids -> Facts \cup {None}]
  BY DEF MemoryInv, FactsWhole, Whole
<1>1. CASE Normalize(j)
  <2>1. \A i \in Ids :
          facts'[i] = IF Wants(j, "normalize") /\ Assignable(i) THEN Tidied(facts[i]) ELSE facts[i]
    BY <1>1 DEF Normalize, Tidied
  <2> QED
    BY <1>0, <2>1, FactTidied, NoneIsNoId DEF EndedStay, Exists, Stays
<1>2. CASE Dedupe(j)
  <2>1. \A i \in Ids : ~Live(facts, i) => facts'[i] = facts[i]
    BY <1>2 DEF Dedupe
  <2> QED
    BY <2>1 DEF EndedStay, Exists, Stays, Live
<1>3. CASE (\E o \in Executions : Execute(j, o) \/ \E r \in Rollbacks : Rollback(j, r, o))
           \/ \E c \in Extractions : Stage(j, c)
  BY <1>3, NothingEnds DEF Execute, Rollback, Stage, store
<1>4. CASE Prepared(j) \/ PrepareFails(j) \/ OpenFile(j) \/ BackedUp(j) \/ BackupFails(j) \/ Conclude(j) \/ Restored(j)
  BY <1>4, NothingEnds DEF Prepared, PrepareFails, OpenFile, BackedUp, BackupFails, Conclude, Restored, store
<1> QED
  BY <1>1, <1>2, <1>3, <1>4 DEF Maintenance

LEMMA StepEnds == MemoryInv /\ [MemoryNext]_memoryVars => Replacing \/ EndedStay
<1> SUFFICES ASSUME MemoryInv, [MemoryNext]_memoryVars, ~Replacing PROVE EndedStay
  OBVIOUS
<1>1. CASE Routes
  BY <1>1, RoutesEnd
<1>2. CASE ProcessDies \/ UNCHANGED memoryVars
  BY <1>2, NothingEnds DEF ProcessDies, memoryVars, store
<1>3. ASSUME NEW j \in Jobs, Consolidation(j) PROVE EndedStay
  <2>1. CASE PromoteCandidate(j)
    BY <2>1, CandidateEnds
  <2>2. CASE ~PromoteCandidate(j)
    BY <1>3, <2>2, NothingEnds
       DEF Consolidation, Consolidate, ProposeCandidate, Extracted, MarkEpisode, store
  <2> QED
    BY <2>1, <2>2
<1>4. ASSUME NEW j \in Jobs, Maintenance(j) PROVE EndedStay
  BY <1>4, MaintenanceEnds DEF Replacing
<1> QED
  BY <1>1, <1>2, <1>3, <1>4 DEF MemoryNext

\* A fact that ended keeps its row, its end and what superseded it, whoever
\* forgets, promotes or merges; only a rebuild and a rollback put others in place.
THEOREM EndsAreFinal == MemorySpec => [][Replacing \/ EndedStay]_memoryVars
<1>1. MemoryInv /\ [MemoryNext]_memoryVars => [Replacing \/ EndedStay]_memoryVars
  BY StepEnds
<1> QED
  BY <1>1, MemoryInvariant, PTL DEF MemorySpec

\* Whatever was written while its backup ran, a complete snapshot holds whole
\* facts, pointers to facts it has, and consolidated episodes it has.
THEOREM Restorable ==
  MemorySpec => [](\A o \in Operations : file[o] # None => WholeSnapshot(file[o], made))
<1>1. MemoryInv => \A o \in Operations : file[o] # None => WholeSnapshot(file[o], made)
  BY DEF MemoryInv, FilesWhole
<1> QED
  BY <1>1, MemoryInvariant, PTL

-----------------------------------------------------------------------------
(* Sums.  A fold over a finite set is read from a table of its subsets; the *)
(* table exists, any two agree, and so the sum obeys its equation, whatever *)
(* member it takes first.  Each induction takes a minimal counterexample.  *)

SumOf(f, S) == MapThenSumSet(LAMBDA x : f[x], S)

Any(s) == CHOOSE x \in s : TRUE
\* g is the table that the fold of f over T is read from.
IsTable(g, f, T) ==
  g = [s \in SUBSET T |-> IF s = {} THEN 0 ELSE f[Any(s)] + g[s \ {Any(s)}]]

LEMMA SumIsRead == \A f, S : SumOf(f, S) = (CHOOSE g : IsTable(g, f, S))[S]
  BY DEF SumOf, MapThenSumSet, MapThenFoldSet, IsTable, Any

\* A set of subsets of a finite set has a minimal member.
LEMMA MinimalMember ==
  ASSUME NEW S, IsFiniteSet(S), NEW F \in SUBSET SUBSET S, F # {}
  PROVE  \E s \in F : \A t \in F : t \subseteq s => t = s
<1>1. IsWellFoundedOn(StrictSubsetOrdering(S), SUBSET S)
  BY FS_StrictSubsetOrderingWellFounded, FS_FiniteSubsetsOfFinite
<1>2. PICK s \in F : \A t \in F : ~ (<<t, s>> \in StrictSubsetOrdering(S))
  BY <1>1, WFMin
<1> QED
  BY <1>2 DEF StrictSubsetOrdering

LEMMA AnyIsMember == \A s : s # {} => Any(s) \in s
  BY DEF Any

LEMMA TableAt ==
  ASSUME NEW f, NEW T, NEW g, IsTable(g, f, T), NEW s \in SUBSET T
  PROVE  g[s] = IF s = {} THEN 0 ELSE f[Any(s)] + g[s \ {Any(s)}]
  BY DEF IsTable

LEMMA TablesAgree ==
  ASSUME NEW f, NEW T, IsFiniteSet(T), NEW U, NEW g, NEW h, IsTable(g, f, T), IsTable(h, f, U),
         NEW s, s \subseteq T, s \subseteq U
  PROVE  g[s] = h[s]
<1> DEFINE F == {t \in SUBSET T : t \subseteq U /\ g[t] # h[t]}
<1> SUFFICES ASSUME F # {} PROVE FALSE
  OBVIOUS
<1>0. F \in SUBSET SUBSET T
  OBVIOUS
<1>1. PICK t \in F : \A v \in F : v \subseteq t => v = t
  <2> HIDE DEF F
  <2> QED
    BY <1>0, MinimalMember
<1>2. CASE t = {}
  BY <1>2, <1>1, TableAt
<1>3. CASE t # {}
  <2>1. Any(t) \in t
    BY <1>3, AnyIsMember
  <2>2. g[t \ {Any(t)}] = h[t \ {Any(t)}]
    BY <2>1, <1>1
  <2>3. g[t] = f[Any(t)] + g[t \ {Any(t)}] /\ h[t] = f[Any(t)] + h[t \ {Any(t)}]
    BY <1>3, TableAt
  <2> QED
    BY <2>2, <2>3, <1>1
<1> QED
  BY <1>2, <1>3

LEMMA TableExists ==
  ASSUME NEW f, NEW S, IsFiniteSet(S)
  PROVE  \E g : IsTable(g, f, S)
<1> DEFINE H(t) == CHOOSE h : IsTable(h, f, t)
           F == {t \in SUBSET S : \A g : ~ IsTable(g, f, t)}
<1> SUFFICES ASSUME F # {} PROVE FALSE
  OBVIOUS
<1>0. F \in SUBSET SUBSET S
  OBVIOUS
<1>1. PICK s \in F : \A t \in F : t \subseteq s => t = s
  <2> HIDE DEF F, H
  <2> QED
    BY <1>0, MinimalMember
<1>2. \A t \in SUBSET s : t # s => IsTable(H(t), f, t) /\ IsFiniteSet(t)
  BY <1>1, FS_Subset
<1> HIDE DEF H
<1> DEFINE G == [t \in SUBSET s |-> IF t = s THEN IF s = {} THEN 0 ELSE f[Any(s)] + H(s \ {Any(s)})[s \ {Any(s)}]
                                     ELSE H(t)[t]]
<1>3. ASSUME NEW t \in SUBSET s
      PROVE  G[t] = IF t = {} THEN 0 ELSE f[Any(t)] + G[t \ {Any(t)}]
  <2>1. CASE t = {}
    <3>1. CASE t = s
      BY <2>1, <3>1
    <3>2. CASE t # s
      <4>1. H(t)[t] = 0
        BY <2>1, <3>2, <1>2, TableAt, ZenonT(40)
      <4> QED
        BY <4>1, <2>1, <3>2
    <3> QED
      BY <3>1, <3>2
  <2>2. CASE t # {}
    <3> DEFINE v == t \ {Any(t)}
    <3>1. Any(t) \in t /\ v # t /\ v \subseteq t /\ v \in SUBSET s /\ v # s
      BY <2>2, AnyIsMember
    <3>2. G[v] = H(v)[v]
      BY <3>1
    <3>3. CASE t = s
      BY <3>3, <2>2, <3>2
    <3>4. CASE t # s
      <4>1. H(t)[t] = f[Any(t)] + H(t)[v]
        BY <3>4, <2>2, <1>2, TableAt
      <4>2. H(t)[v] = H(v)[v]
        BY <3>1, <3>4, <1>2, TablesAgree
      <4> QED
        BY <4>1, <4>2, <3>2, <3>4, <2>2
    <3> QED
      BY <3>3, <3>4
  <2> QED
    BY <2>1, <2>2
<1> HIDE DEF G
<1>4. G = [t \in SUBSET s |-> G[t]]
  BY DEF G
<1>5. IsTable(G, f, s)
  BY <1>3, <1>4 DEF IsTable
<1> QED
  BY <1>1, <1>5

\* The equation by which the fold is defined.
LEMMA SumStep ==
  ASSUME NEW f, NEW S, IsFiniteSet(S)
  PROVE  SumOf(f, S) = IF S = {} THEN 0 ELSE f[Any(S)] + SumOf(f, S \ {Any(S)})
<1> DEFINE H(t) == CHOOSE h : IsTable(h, f, t)
<1>1. IsTable(H(S), f, S) /\ SumOf(f, S) = H(S)[S]
  BY TableExists, SumIsRead
<1>2. CASE S = {}
  BY <1>1, <1>2, TableAt
<1>3. CASE S # {}
  <2> DEFINE R == S \ {Any(S)}
  <2>1. IsFiniteSet(R) /\ R \in SUBSET S
    BY FS_RemoveElement
  <2>2. IsTable(H(R), f, R) /\ SumOf(f, R) = H(R)[R]
    BY <2>1, TableExists, SumIsRead
  <2>3. H(R)[R] = H(S)[R]
    <3> HIDE DEF H
    <3> QED
      BY <1>1, <2>1, <2>2, TablesAgree, SMTT(30)
  <2>4. H(S)[S] = f[Any(S)] + H(S)[R]
    BY <1>1, <1>3, TableAt
  <2> QED
    BY <1>1, <1>3, <2>2, <2>3, <2>4
<1> QED
  BY <1>2, <1>3

LEMMA SumType ==
  ASSUME NEW S, IsFiniteSet(S), NEW f, \A x \in S : f[x] \in Nat
  PROVE  SumOf(f, S) \in Nat
<1> DEFINE F == {t \in SUBSET S : SumOf(f, t) \notin Nat}
<1> SUFFICES ASSUME F # {} PROVE FALSE
  BY DEF F
<1>0. F \in SUBSET SUBSET S
  OBVIOUS
<1>1. PICK s \in F : \A t \in F : t \subseteq s => t = s
  <2> HIDE DEF F
  <2> QED
    BY <1>0, MinimalMember
<1>2. IsFiniteSet(s)
  BY FS_Subset
<1>3. CASE s = {}
  <2>1. SumOf(f, s) = 0
    BY <1>2, <1>3, SumStep
  <2> QED
    BY <2>1
<1>4. CASE s # {}
  <2>1. Any(s) \in s /\ f[Any(s)] \in Nat
    BY <1>4, AnyIsMember
  <2>2. SumOf(f, s \ {Any(s)}) \in Nat
    BY <1>1, <2>1
  <2>3. SumOf(f, s) \in Nat
    BY <1>2, <1>4, <2>1, <2>2, SumStep
  <2> QED
    BY <2>3
<1> QED
  BY <1>3, <1>4

\* The order in which the fold takes the members does not matter.
LEMMA SumRemove ==
  ASSUME NEW S, IsFiniteSet(S), NEW f, \A x \in S : f[x] \in Nat, NEW y \in S
  PROVE  SumOf(f, S) = f[y] + SumOf(f, S \ {y})
<1> DEFINE F == {t \in SUBSET S : \E x \in t : SumOf(f, t) # f[x] + SumOf(f, t \ {x})}
<1> SUFFICES ASSUME F # {} PROVE FALSE
  BY DEF F
<1>0. F \in SUBSET SUBSET S
  OBVIOUS
<1>1. PICK s \in F : \A t \in F : t \subseteq s => t = s
  <2> HIDE DEF F
  <2> QED
    BY <1>0, MinimalMember
<1>2. PICK x \in s : SumOf(f, s) # f[x] + SumOf(f, s \ {x})
  BY <1>1
<1> DEFINE a == Any(s)
           b == s \ {a}
           c == s \ {x}
<1>3. IsFiniteSet(s) /\ a \in s /\ a # x
  <2>1. IsFiniteSet(s) /\ a \in s
    BY FS_Subset, AnyIsMember, <1>2
  <2>2. SumOf(f, s) = f[a] + SumOf(f, b)
    BY <2>1, SumStep
  <2> QED
    BY <2>1, <2>2, <1>2
<1>4. SumOf(f, s) = f[a] + SumOf(f, b)
  BY <1>3, SumStep
<1> HIDE DEF a
<1>5. b \ {x} = c \ {a} /\ b \in SUBSET S /\ c \in SUBSET S /\ x \in b /\ a \in c
      /\ b # s /\ c # s
  BY <1>2, <1>3
<1>6. SumOf(f, b) = f[x] + SumOf(f, b \ {x}) /\ SumOf(f, c) = f[a] + SumOf(f, c \ {a})
  BY <1>1, <1>5
<1>7. f[a] \in Nat /\ f[x] \in Nat /\ SumOf(f, b \ {x}) \in Nat
  <2>1. IsFiniteSet(b \ {x})
    BY <1>3, FS_Difference
  <2> QED
    BY <1>3, <1>2, <2>1, SumType
<1> HIDE DEF b, c, F
<1>8. SumOf(f, s) = f[x] + SumOf(f, c)
  BY <1>4, <1>5, <1>6, <1>7
<1> QED
  BY <1>8, <1>2 DEF c

LEMMA SumMonotonic ==
  ASSUME NEW S, IsFiniteSet(S), NEW f, NEW g,
         \A x \in S : f[x] \in Nat /\ g[x] \in Nat /\ f[x] <= g[x]
  PROVE  SumOf(f, S) <= SumOf(g, S)
<1> DEFINE F == {t \in SUBSET S : ~ (SumOf(f, t) <= SumOf(g, t))}
<1> SUFFICES ASSUME F # {} PROVE FALSE
  BY DEF F
<1>0. F \in SUBSET SUBSET S
  OBVIOUS
<1>1. PICK s \in F : \A t \in F : t \subseteq s => t = s
  <2> HIDE DEF F
  <2> QED
    BY <1>0, MinimalMember
<1>2. IsFiniteSet(s)
  BY FS_Subset
<1>3. CASE s = {}
  <2>1. SumOf(f, s) = 0 /\ SumOf(g, s) = 0
    BY <1>2, <1>3, SumStep
  <2> QED
    BY <2>1
<1>4. CASE s # {}
  <2> DEFINE a == Any(s)
             b == s \ {a}
  <2>1. a \in s /\ f[a] \in Nat /\ g[a] \in Nat /\ f[a] <= g[a]
    BY <1>4, AnyIsMember
  <2>2. IsFiniteSet(b) /\ b \in SUBSET S /\ b \subseteq s /\ b # s
    BY <2>1, <1>2, FS_RemoveElement
  <2>3. SumOf(f, b) \in Nat /\ SumOf(g, b) \in Nat
    BY <2>2, SumType
  <2>4. SumOf(f, s) = f[a] + SumOf(f, b) /\ SumOf(g, s) = g[a] + SumOf(g, b)
    BY <1>2, <1>4, SumStep
  <2>5. SumOf(f, b) <= SumOf(g, b)
    BY <1>1, <2>2
  <2> HIDE DEF a, b, F
  <2>6. SumOf(f, s) <= SumOf(g, s)
    BY <2>1, <2>3, <2>4, <2>5
  <2> QED
    BY <2>6 DEF F
<1> QED
  BY <1>3, <1>4

-----------------------------------------------------------------------------
\* What the ledger holds of a call at each of its steps.
Over(c) == at[c] \in {"returned", "thrown"}

CallInv(c) ==
  /\ pc[c] = "reserve" => tries[c] = 0
  /\ pc[c] = "reserve" /\ ~Over(c) => entries[c].status = "none"
  /\ pc[c] = "reserve" /\ at[c] = "returned" => entries[c].status = "reserved"
  /\ pc[c] \in {"dispatch", "inflight"} => entries[c].status = "reserved"
  /\ pc[c] = "dispatch" => tries[c] < Candidates
  /\ pc[c] = "settle" => owed[c] \in Bills /\ entries[c].status \in {"reserved", "settled"}
  /\ pc[c] = "settle" /\ ~Over(c) => entries[c].status = "reserved"
  /\ pc[c] = "settle" /\ at[c] = "returned" => entries[c].status = "settled"
  /\ pc[c] = "parse" => entries[c].status \in {"reserved", "settled"}
  /\ pc[c] = "mark" => entries[c].status # "none"
  /\ told[c] # "none" => pc[c] \in {"parse", "mark", "done", "crashed"}
  /\ told[c] = "settled" => entries[c].status = "settled"
  /\ told[c] = "retained" => entries[c].status # "none"
  /\ entries[c].status \in {"reserved", "uncertain"} => entries[c].reserved > 0
  /\ entries[c].status = "settled" => entries[c].actual = owed[c]
  /\ entries[c].status = "none" => tries[c] = 0

IInv == TypeOK /\ LockInv /\ \A c \in Calls : CallInv(c)

USE CallsAssumption, AmountsAssumption, DaysAssumption, CandidatesAssumption

LEMMA BlankIsEntry == Blank \in Entries /\ NoEntries \in [Calls -> Entries]
  BY DEF Blank, Entry, Entries, Statuses, NoEntries

LEMMA InitInv == Init => IInv
  <1> SUFFICES ASSUME Init PROVE IInv
    OBVIOUS
  <1>1. TypeOK
    BY BlankIsEntry DEF Init, TypeOK, PCs, LockedOps, Positions
  <1>2. LockInv
    BY DEF Init, LockInv
  <1>3. ASSUME NEW c \in Calls PROVE CallInv(c)
    BY DEF Init, CallInv, Over, NoEntries, Blank, Entry
  <1> QED
    BY <1>1, <1>2, <1>3 DEF IInv

LEMMA AcquireInv ==
  ASSUME IInv, NEW c \in Calls, Acquire(c)
  PROVE  IInv'
<1> USE DEF IInv
<1>1. TypeOK'
  BY BlankIsEntry DEF TypeOK, Acquire, PCs, LockedOps, Positions
<1>2. LockInv'
  BY DEF TypeOK, LockInv, Acquire, LockedOps
<1>3. ASSUME NEW x \in Calls PROVE CallInv(x)'
  BY DEF TypeOK, LockInv, CallInv, Over, Acquire, LockedOps
<1> QED
  BY <1>1, <1>2, <1>3

LEMMA ReadInv ==
  ASSUME IInv, NEW c \in Calls, Read(c)
  PROVE  IInv'
<1> USE DEF IInv
<1>1. TypeOK'
  BY BlankIsEntry DEF TypeOK, Read, PCs, LockedOps, Positions
<1>2. LockInv'
  BY DEF TypeOK, LockInv, Read, LockedOps
<1>3. ASSUME NEW x \in Calls PROVE CallInv(x)'
  BY DEF TypeOK, LockInv, CallInv, Over, Read, LockedOps
<1> QED
  BY <1>1, <1>2, <1>3

LEMMA ReleaseInv ==
  ASSUME IInv, NEW c \in Calls, Release(c)
  PROVE  IInv'
<1> USE DEF IInv
<1>a. AfterReturn(c) \in PCs /\ AfterError(c) \in PCs
  BY DEF AfterReturn, AfterError, AfterSettle, PCs, LockedOps
<1>b. /\ \E p \in PCs : pc' = [pc EXCEPT ![c] = p]
      /\ \E t \in {"none", "settled", "retained"} : told' = [told EXCEPT ![c] = t]
  BY <1>a DEF TypeOK, Release, Goto, TellReturn, TellError, Tell
<1>1. TypeOK'
  BY <1>b DEF TypeOK, Release, Positions
<1>2. LockInv'
  BY DEF TypeOK, LockInv, Release, Goto
<1>3. ASSUME NEW x \in Calls PROVE CallInv(x)'
  <2>1. CASE x # c
    BY <2>1 DEF TypeOK, CallInv, Over, Release, Goto, TellReturn, TellError, Tell
  <2>2. CASE x = c
    BY <2>2 DEF TypeOK, LockInv, CallInv, Over, Release, Goto, LockedOps,
       AfterReturn, AfterError, AfterSettle, TellReturn, TellError, Tell
  <2> QED
    BY <2>1, <2>2
<1> QED
  BY <1>1, <1>2, <1>3

LEMMA ReleaseFailsInv ==
  ASSUME IInv, NEW c \in Calls, ReleaseFails(c)
  PROVE  IInv'
<1> USE DEF IInv
<1>a. AfterError(c) \in PCs
  BY DEF AfterError, AfterSettle, PCs, LockedOps
<1>1. TypeOK'
  BY <1>a DEF TypeOK, ReleaseFails, Positions, Goto, TellError, Tell
<1>2. LockInv'
  BY DEF TypeOK, LockInv, ReleaseFails, Goto
<1>3. ASSUME NEW x \in Calls PROVE CallInv(x)'
  BY DEF TypeOK, LockInv, CallInv, Over, ReleaseFails, Goto, AfterError, AfterSettle, TellError, Tell
<1> QED
  BY <1>1, <1>2, <1>3

LEMMA WriteReserveInv ==
  ASSUME IInv, NEW c \in Calls, NEW r \in Reserves, NEW d \in Days, WriteReserve(c, r, d)
  PROVE  IInv'
<1> USE DEF IInv
<1>a. /\ entries' = [entries EXCEPT ![c] = Entry("reserved", r, 0, d)]
      /\ pc[c] = "reserve" /\ lock = c /\ entries[c].status = "none"
  BY DEF TypeOK, LockInv, CallInv, Over, WriteReserve, Is, Reserved
<1>b. Entry("reserved", r, 0, d) \in Entries
  BY DEF Entry, Entries, Statuses
<1>1. TypeOK'
  <2>1. entries' \in [Calls -> Entries]
    BY <1>a, <1>b DEF TypeOK
  <2>2. at' \in [Calls -> Positions]
    BY DEF TypeOK, WriteReserve, Positions, Leave
  <2>3. seen' \in [Calls -> [Calls -> Entries]]
    BY BlankIsEntry DEF TypeOK, WriteReserve, Leave
  <2>4. UNCHANGED <<lock, pc, tries, owed, doubtful, told>>
    BY DEF WriteReserve
  <2> QED
    BY <2>1, <2>2, <2>3, <2>4 DEF TypeOK
<1>2. LockInv'
  BY DEF TypeOK, LockInv, WriteReserve, LockedOps, Leave, Is
<1>3. ASSUME NEW x \in Calls PROVE CallInv(x)'
  <2>1. CASE x = c
    BY <2>1, <1>a DEF TypeOK, CallInv, Over, WriteReserve, Entry, Leave, Is
  <2>2. CASE x # c
    <3>1. entries'[x] = entries[x] /\ at'[x] = at[x]
      BY <2>2, <1>a DEF TypeOK, WriteReserve, Leave, Is
    <3> QED
      BY <3>1 DEF CallInv, Over, WriteReserve
  <2> QED
    BY <2>1, <2>2
<1> QED
  BY <1>1, <1>2, <1>3

LEMMA ExceededInv ==
  ASSUME IInv, NEW c \in Calls, NEW r \in Reserves, NEW d \in Days, Exceeded(c, r, d)
  PROVE  IInv'
<1> USE DEF IInv
<1>1. TypeOK'
  BY BlankIsEntry DEF TypeOK, Exceeded, PCs, LockedOps, Positions, Leave, Is
<1>2. LockInv'
  BY DEF TypeOK, LockInv, Exceeded, LockedOps, Leave, Is
<1>3. ASSUME NEW x \in Calls PROVE CallInv(x)'
  BY DEF TypeOK, LockInv, CallInv, Over, Exceeded, LockedOps, Leave, Is
<1> QED
  BY <1>1, <1>2, <1>3

LEMMA WriteSettleInv ==
  ASSUME IInv, NEW c \in Calls, WriteSettle(c)
  PROVE  IInv'
<1> USE DEF IInv
<1> DEFINE paid == [entries[c] EXCEPT !.status = "settled", !.actual = owed[c]]
<1>a. /\ entries' = [entries EXCEPT ![c].status = "settled", ![c].actual = owed[c]]
      /\ pc[c] = "settle" /\ lock = c /\ entries[c].status = "reserved"
      /\ owed[c] \in Bills
  BY DEF TypeOK, LockInv, CallInv, Over, WriteSettle, Is, Settled
<1>b. entries' = [entries EXCEPT ![c] = paid]
  BY <1>a DEF TypeOK
<1>0. entries[c] \in Entries /\ owed[c] \in Nat
  BY <1>a DEF TypeOK
<1>c. paid \in Entries
  BY <1>0 DEF Entries, Statuses
<1>d. paid.status = "settled" /\ paid.actual = owed[c]
  BY <1>0 DEF Entries
<1> HIDE DEF paid
<1>1. TypeOK'
  <2>1. entries' \in [Calls -> Entries]
    BY <1>b, <1>c DEF TypeOK
  <2>2. seen' \in [Calls -> [Calls -> Entries]]
    BY BlankIsEntry DEF TypeOK, WriteSettle, Leave
  <2> QED
    BY <2>1, <2>2
    DEF TypeOK, WriteSettle, PCs, LockedOps, Positions, Leave, Is
<1>2. LockInv'
  BY DEF TypeOK, LockInv, WriteSettle, LockedOps, Leave, Is
<1>3. ASSUME NEW x \in Calls PROVE CallInv(x)'
  <2>1. CASE x = c
    BY <2>1, <1>a, <1>b, <1>d DEF TypeOK, CallInv, Over, WriteSettle, Leave, Is
  <2>2. CASE x # c
    <3>1. entries'[x] = entries[x] /\ at'[x] = at[x] /\ told'[x] = told[x]
      BY <2>2, <1>b DEF TypeOK, WriteSettle, Leave, Is
    <3> QED
      BY <3>1 DEF CallInv, Over, WriteSettle
  <2> QED
    BY <2>1, <2>2
<1> QED
  BY <1>1, <1>2, <1>3

LEMMA WriteMarkInv ==
  ASSUME IInv, NEW c \in Calls, WriteMark(c)
  PROVE  IInv'
<1> USE DEF IInv
<1> DEFINE marked == [entries[c] EXCEPT !.status = "uncertain"]
<1>a. /\ pc[c] = "mark" /\ lock = c
      /\ entries' = IF entries[c].status = "reserved" THEN [entries EXCEPT ![c] = marked]
                     ELSE entries
  BY DEF TypeOK, LockInv, WriteMark, Marked, Is
<1>0. entries[c] \in Entries
  BY DEF TypeOK
<1>c. marked \in Entries
  BY <1>0 DEF Entries, Statuses
<1>d. marked.status = "uncertain" /\ marked.reserved = entries[c].reserved
  BY <1>0 DEF Entries
<1> HIDE DEF marked
<1>1. TypeOK'
  <2>1. entries' \in [Calls -> Entries]
    BY <1>a, <1>c DEF TypeOK
  <2>2. /\ at' \in [Calls -> Positions] /\ pc' \in [Calls -> PCs]
        /\ told' \in [Calls -> {"none", "settled", "retained"}]
    BY DEF TypeOK, WriteMark, PCs, LockedOps, Positions, Leave, Is
  <2>3. seen' \in [Calls -> [Calls -> Entries]]
    BY BlankIsEntry DEF TypeOK, WriteMark, Leave
  <2>4. UNCHANGED <<lock, tries, owed, doubtful>>
    BY DEF WriteMark
  <2> QED
    BY <2>1, <2>2, <2>3, <2>4 DEF TypeOK
<1>2. LockInv'
  BY DEF TypeOK, LockInv, WriteMark, LockedOps, Leave, Is
<1>3. ASSUME NEW x \in Calls PROVE CallInv(x)'
  <2>1. CASE x = c
    BY <2>1, <1>a, <1>d DEF TypeOK, CallInv, Over, WriteMark, Leave, Is
  <2>2. CASE x # c
    <3>1. entries'[x] = entries[x] /\ at'[x] = at[x]
      BY <2>2, <1>a DEF TypeOK, WriteMark, Leave, Is
    <3> QED
      BY <3>1 DEF CallInv, Over, WriteMark
  <2> QED
    BY <2>1, <2>2
<1> QED
  BY <1>1, <1>2, <1>3

LEMMA BusyInv ==
  ASSUME IInv, NEW c \in Calls, Busy(c)
  PROVE  IInv'
<1> USE DEF IInv
<1>1. TypeOK'
  BY BlankIsEntry DEF TypeOK, Busy, PCs, LockedOps, Positions, Goto, AfterError, AfterSettle, TellError, Tell
<1>2. LockInv'
  BY DEF TypeOK, LockInv, Busy, LockedOps, Goto, AfterError, AfterSettle, TellError, Tell
<1>3. ASSUME NEW x \in Calls PROVE CallInv(x)'
  BY DEF TypeOK, LockInv, CallInv, Over, Busy, LockedOps, Goto, AfterError, AfterSettle, TellError, Tell
<1> QED
  BY <1>1, <1>2, <1>3

LEMMA StoreFailsInv ==
  ASSUME IInv, NEW c \in Calls, StoreFails(c)
  PROVE  IInv'
<1> USE DEF IInv
<1>1. TypeOK'
  BY BlankIsEntry DEF TypeOK, StoreFails, PCs, LockedOps, Positions, Leave
<1>2. LockInv'
  BY DEF TypeOK, LockInv, StoreFails, LockedOps, Leave
<1>3. ASSUME NEW x \in Calls PROVE CallInv(x)'
  BY DEF TypeOK, LockInv, CallInv, Over, StoreFails, LockedOps, Leave
<1> QED
  BY <1>1, <1>2, <1>3

LEMMA CacheHitInv ==
  ASSUME IInv, NEW c \in Calls, CacheHit(c)
  PROVE  IInv'
<1> USE DEF IInv
<1>1. TypeOK'
  BY BlankIsEntry DEF TypeOK, CacheHit, PCs, LockedOps, Positions, Goto, Is
<1>2. LockInv'
  BY DEF TypeOK, LockInv, CacheHit, LockedOps, Goto, Is
<1>3. ASSUME NEW x \in Calls PROVE CallInv(x)'
  BY DEF TypeOK, LockInv, CallInv, Over, CacheHit, LockedOps, Goto, Is
<1> QED
  BY <1>1, <1>2, <1>3

LEMMA DispatchInv ==
  ASSUME IInv, NEW c \in Calls, Dispatch(c)
  PROVE  IInv'
<1> USE DEF IInv
<1>1. TypeOK'
  BY DEF TypeOK, CallInv, Dispatch, PCs, LockedOps, Positions, Goto, Is
<1>2. LockInv'
  BY DEF TypeOK, LockInv, Dispatch, LockedOps, Goto, Is
<1>3. ASSUME NEW x \in Calls PROVE CallInv(x)'
  BY DEF TypeOK, LockInv, CallInv, Over, Dispatch, LockedOps, Goto, Is
<1> QED
  BY <1>1, <1>2, <1>3

LEMMA ProviderBillsInv ==
  ASSUME IInv, NEW c \in Calls, NEW b \in Bills, ProviderBills(c, b)
  PROVE  IInv'
<1> USE DEF IInv
<1>1. TypeOK'
  BY BlankIsEntry DEF TypeOK, ProviderBills, PCs, LockedOps, Positions, Goto, Is
<1>2. LockInv'
  BY DEF TypeOK, LockInv, ProviderBills, LockedOps, Goto, Is
<1>3. ASSUME NEW x \in Calls PROVE CallInv(x)'
  BY DEF TypeOK, LockInv, CallInv, Over, ProviderBills, LockedOps, Goto, Is
<1> QED
  BY <1>1, <1>2, <1>3

LEMMA NextCredentialInv ==
  ASSUME IInv, NEW c \in Calls, NextCredential(c)
  PROVE  IInv'
<1> USE DEF IInv
<1>1. TypeOK'
  BY BlankIsEntry DEF TypeOK, NextCredential, PCs, LockedOps, Positions, Goto, Is
<1>2. LockInv'
  BY DEF TypeOK, LockInv, NextCredential, LockedOps, Goto, Is
<1>3. ASSUME NEW x \in Calls PROVE CallInv(x)'
  BY DEF TypeOK, LockInv, CallInv, Over, NextCredential, LockedOps, Goto, Is
<1> QED
  BY <1>1, <1>2, <1>3

LEMMA FailOverInv ==
  ASSUME IInv, NEW c \in Calls, FailOver(c)
  PROVE  IInv'
<1> USE DEF IInv
<1>1. TypeOK'
  BY BlankIsEntry DEF TypeOK, FailOver, PCs, LockedOps, Positions, Goto, Is
<1>2. LockInv'
  BY DEF TypeOK, LockInv, FailOver, LockedOps, Goto, Is
<1>3. ASSUME NEW x \in Calls PROVE CallInv(x)'
  BY DEF TypeOK, LockInv, CallInv, Over, FailOver, LockedOps, Goto, Is
<1> QED
  BY <1>1, <1>2, <1>3

LEMMA ProviderFailsInv ==
  ASSUME IInv, NEW c \in Calls, ProviderFails(c)
  PROVE  IInv'
<1> USE DEF IInv
<1>1. TypeOK'
  BY BlankIsEntry DEF TypeOK, ProviderFails, PCs, LockedOps, Positions, Goto, Is
<1>2. LockInv'
  BY DEF TypeOK, LockInv, ProviderFails, LockedOps, Goto, Is
<1>3. ASSUME NEW x \in Calls PROVE CallInv(x)'
  BY DEF TypeOK, LockInv, CallInv, Over, ProviderFails, LockedOps, Goto, Is
<1> QED
  BY <1>1, <1>2, <1>3

LEMMA ParseOutputInv ==
  ASSUME IInv, NEW c \in Calls, ParseOutput(c)
  PROVE  IInv'
<1> USE DEF IInv
<1>1. TypeOK'
  BY BlankIsEntry DEF TypeOK, ParseOutput, PCs, LockedOps, Positions, Goto, Is
<1>2. LockInv'
  BY DEF TypeOK, LockInv, ParseOutput, LockedOps, Goto, Is
<1>3. ASSUME NEW x \in Calls PROVE CallInv(x)'
  BY DEF TypeOK, LockInv, CallInv, Over, ParseOutput, LockedOps, Goto, Is
<1> QED
  BY <1>1, <1>2, <1>3

LEMMA CrashInv ==
  ASSUME IInv, NEW c \in Calls, Crash(c)
  PROVE  IInv'
<1> USE DEF IInv
<1>1. TypeOK'
  BY BlankIsEntry DEF TypeOK, Crash, PCs, LockedOps, Positions, Goto, Is
<1>2. LockInv'
  BY DEF TypeOK, LockInv, Crash, LockedOps, Goto, Is
<1>3. ASSUME NEW x \in Calls PROVE CallInv(x)'
  BY DEF TypeOK, LockInv, CallInv, Over, Crash, LockedOps, Goto, Is
<1> QED
  BY <1>1, <1>2, <1>3

LEMMA ClearLockInv ==
  ASSUME IInv, ClearLock
  PROVE  IInv'
<1> USE DEF IInv
<1>1. TypeOK'
  BY DEF TypeOK, ClearLock
<1>2. LockInv'
  BY DEF TypeOK, LockInv, ClearLock
<1>3. ASSUME NEW x \in Calls PROVE CallInv(x)'
  BY DEF CallInv, Over, ClearLock
<1> QED
  BY <1>1, <1>2, <1>3

LEMMA StutterInv == IInv /\ UNCHANGED vars => IInv'
  BY DEF IInv, TypeOK, LockInv, CallInv, Over, vars

LEMMA NextInv == IInv /\ [Next]_vars => IInv'
<1> SUFFICES ASSUME IInv, [Next]_vars PROVE IInv'
  OBVIOUS
<1>1. ASSUME NEW c \in Calls, Step(c) PROVE IInv'
  <2>1. CASE \E r \in Reserves, d \in Days : WriteReserve(c, r, d) \/ Exceeded(c, r, d)
    BY <2>1, WriteReserveInv, ExceededInv
  <2>2. CASE \E b \in Bills : ProviderBills(c, b)
    BY <2>2, ProviderBillsInv
  <2>3. CASE Acquire(c) \/ Read(c) \/ Release(c) \/ ReleaseFails(c) \/ WriteSettle(c) \/ WriteMark(c)
    BY <2>3, AcquireInv, ReadInv, ReleaseInv, ReleaseFailsInv, WriteSettleInv, WriteMarkInv
  <2>4. CASE Busy(c) \/ StoreFails(c) \/ CacheHit(c) \/ Dispatch(c)
    BY <2>4, BusyInv, StoreFailsInv, CacheHitInv, DispatchInv
  <2>5. CASE NextCredential(c) \/ FailOver(c) \/ ProviderFails(c) \/ ParseOutput(c)
    BY <2>5, NextCredentialInv, FailOverInv, ProviderFailsInv, ParseOutputInv
  <2> QED
    BY <1>1, <2>1, <2>2, <2>3, <2>4, <2>5 DEF Step
<1>2. ASSUME NEW c \in Calls, Crash(c) PROVE IInv'
  BY <1>2, CrashInv
<1>3. CASE ClearLock
  BY <1>3, ClearLockInv
<1>4. CASE UNCHANGED vars
  BY <1>4, StutterInv
<1> QED
  BY <1>1, <1>2, <1>3, <1>4 DEF Next

\* The inductive invariant: locks, snapshots and what is counted of each call.
THEOREM BudgetInvariant == Spec => []IInv
  BY InitInv, NextInv, PTL DEF Spec

\* Types (spend-budget.ts and its callers).
THEOREM TypeCorrect == Spec => []TypeOK
  BY BudgetInvariant, PTL DEF IInv

\* A live call inside withSpendLock holds the lock file and the file as it is.
THEOREM LockHeld == Spec => []LockInv
  BY BudgetInvariant, PTL DEF IInv

\* A request that reached a provider stays counted, whoever crashed and
\* whichever write failed, until its provider stated a cost.
THEOREM Counted == Spec => []DispatchedIsCounted
<1>1. IInv => DispatchedIsCounted
  BY DEF IInv, TypeOK, CallInv, DispatchedIsCounted, Entries, Statuses
<1> QED
  BY <1>1, BudgetInvariant, PTL

\* What an answer says of its settlement, also of one that threw behind its
\* write: the cost is on disk, or the request counts with that or its reservation.
THEOREM Truthful == Spec => []TruthfulSettlement
<1>1. IInv => TruthfulSettlement
  BY DEF IInv, TypeOK, CallInv, Entries, Statuses, TruthfulSettlement
<1> QED
  BY <1>1, BudgetInvariant, PTL

-----------------------------------------------------------------------------
\* Only the three writes change the file, and each is a step of the ledger.
LEMMA WritesRefine ==
  ASSUME IInv, Next
  PROVE  [Ledger!Next]_entries
<1> USE DEF IInv
<1>1. ASSUME NEW c \in Calls, NEW r \in Reserves, NEW d \in Days, WriteReserve(c, r, d)
      PROVE  Ledger!Reserve(c, r, d)
  <2>1. seen[c] = entries /\ entries[c].status = "none"
    BY <1>1 DEF LockInv, CallInv, Over, WriteReserve, Is
  <2> QED
    BY <1>1, <2>1 DEF WriteReserve, Reserved, Entry, Ledger!Reserve
<1>2. ASSUME NEW c \in Calls, WriteSettle(c)
      PROVE  \E a \in Bills : Ledger!Settle(c, a)
  <2>1. seen[c] = entries /\ owed[c] \in Bills
    BY <1>2 DEF LockInv, CallInv, WriteSettle, Is
  <2>2. Ledger!Settle(c, owed[c])
    BY <1>2, <2>1 DEF WriteSettle, Settled, Ledger!Settle
  <2> QED
    BY <2>1, <2>2
<1>3. ASSUME NEW c \in Calls, WriteMark(c)
      PROVE  Ledger!MarkUncertain(c) \/ UNCHANGED entries
  <2>1. seen[c] = entries
    BY <1>3 DEF LockInv, WriteMark, Is
  <2> QED
    BY <1>3, <2>1 DEF WriteMark, Marked, Ledger!MarkUncertain
<1>4. ASSUME NEW c \in Calls, Step(c)
      PROVE  Ledger!Next \/ UNCHANGED entries
  <2>1. CASE \E r \in Reserves, d \in Days : WriteReserve(c, r, d)
    BY <2>1, <1>1 DEF Ledger!Next
  <2>2. CASE WriteSettle(c)
    BY <2>2, <1>2 DEF Ledger!Next
  <2>3. CASE WriteMark(c)
    BY <2>3, <1>3 DEF Ledger!Next
  <2>4. CASE \/ Acquire(c) \/ Read(c) \/ Release(c) \/ ReleaseFails(c)
             \/ \E r \in Reserves, d \in Days : Exceeded(c, r, d)
             \/ Busy(c) \/ StoreFails(c) \/ CacheHit(c) \/ Dispatch(c)
             \/ \E b \in Bills : ProviderBills(c, b)
             \/ NextCredential(c) \/ FailOver(c) \/ ProviderFails(c) \/ ParseOutput(c)
    BY <2>4 DEF Acquire, Read, Release, ReleaseFails, Exceeded, Busy, StoreFails, CacheHit, Dispatch,
                ProviderBills, NextCredential, FailOver, ProviderFails, ParseOutput
  <2> QED
    BY <1>4, <2>1, <2>2, <2>3, <2>4 DEF Step
<1>5. (\E c \in Calls : Crash(c)) \/ ClearLock => UNCHANGED entries
  BY DEF Crash, ClearLock
<1> QED
  BY <1>4, <1>5 DEF Next

\* The file under its lock file, with every crash and failed write, is the
\* atomic ledger: each admission is judged against all earlier ones.
THEOREM Refinement == Spec => ImplementsSpendLedger
<1>1. Init => Ledger!Init
  BY DEF Init, NoEntries, Blank, Entry, Ledger!Init
<1>2. IInv /\ [Next]_vars => [Ledger!Next]_entries
  BY WritesRefine DEF vars
<1> QED
  BY <1>1, <1>2, BudgetInvariant, PTL DEF Spec, ImplementsSpendLedger, Ledger!Spec

-----------------------------------------------------------------------------
(* Nobody is admitted beyond a limit.                                       *)

ClaimIn(book) == [c \in Calls |-> Claim(book[c])]
CommittedIn(book) == [c \in Calls |-> Committed(book[c])]

LEMMA ClaimsAreSums ==
  ASSUME NEW book, NEW group \in SUBSET Calls
  PROVE  /\ MapThenSumSet(LAMBDA c : Claim(book[c]), group) = SumOf(ClaimIn(book), group)
         /\ CommittedOver(book, group) = SumOf(CommittedIn(book), group)
<1>1. \A s \in SUBSET group : s # {} => Any(s) \in Calls
  BY AnyIsMember
<1>2. MapThenSumSet(LAMBDA c : Claim(book[c]), group) = SumOf(ClaimIn(book), group)
  <2> DEFINE P(g) == g = [s \in SUBSET group |-> IF s = {} THEN 0 ELSE
                            Claim(book[Any(s)]) + g[s \ {Any(s)}]]
  <2>1. MapThenSumSet(LAMBDA c : Claim(book[c]), group) = (CHOOSE g : P(g))[group]
    BY DEF MapThenSumSet, MapThenFoldSet, Any
  <2>2. \A g : P(g) <=> IsTable(g, ClaimIn(book), group)
    BY <1>1 DEF IsTable, ClaimIn
  <2> HIDE DEF P
  <2>3. (CHOOSE g : P(g)) = CHOOSE g : IsTable(g, ClaimIn(book), group)
    BY <2>2
  <2> QED
    BY <2>1, <2>3, SumIsRead
<1>3. CommittedOver(book, group) = SumOf(CommittedIn(book), group)
  <2> DEFINE P(g) == g = [s \in SUBSET group |-> IF s = {} THEN 0 ELSE
                            Committed(book[Any(s)]) + g[s \ {Any(s)}]]
  <2>1. CommittedOver(book, group) = (CHOOSE g : P(g))[group]
    BY DEF CommittedOver, MapThenSumSet, MapThenFoldSet, Any
  <2>2. \A g : P(g) <=> IsTable(g, CommittedIn(book), group)
    BY <1>1 DEF IsTable, CommittedIn
  <2> HIDE DEF P
  <2>3. (CHOOSE g : P(g)) = CHOOSE g : IsTable(g, CommittedIn(book), group)
    BY <2>2
  <2> QED
    BY <2>1, <2>3, SumIsRead
<1> QED
  BY <1>2, <1>3

\* A reservation that fits, on the account of a call that claimed nothing.
LEMMA AdmitOne ==
  ASSUME NEW S, IsFiniteSet(S), NEW c, NEW r \in Nat,
         NEW f, NEW g, NEW h, f[c] = 0, g[c] = 0, h[c] = r,
         \A x \in S : f[x] \in Nat /\ g[x] \in Nat /\ f[x] <= g[x],
         \A x \in S \ {c} : h[x] = f[x]
  PROVE  SumOf(h, S \cup {c}) <= SumOf(g, S) + r
<1> DEFINE R == S \ {c}
<1>1. IsFiniteSet(S \cup {c}) /\ IsFiniteSet(R) /\ (S \cup {c}) \ {c} = R
  BY FS_AddElement, FS_RemoveElement
<1>2. \A x \in R : h[x] \in Nat /\ g[x] \in Nat /\ h[x] <= g[x]
  OBVIOUS
<1>3. SumOf(h, R) <= SumOf(g, R) /\ SumOf(h, R) \in Nat /\ SumOf(g, R) \in Nat
  <2> HIDE DEF R
  <2> QED
    BY <1>1, <1>2, SumMonotonic, SumType
<1>4. \A x \in S \cup {c} : h[x] \in Nat
  OBVIOUS
<1>5. SumOf(h, S \cup {c}) = r + SumOf(h, R)
  <2> HIDE DEF R
  <2>1. c \in S \cup {c}
    OBVIOUS
  <2> QED
    BY <1>1, <1>4, <2>1, SumRemove
<1>6. SumOf(g, S) = SumOf(g, R)
  <2>1. CASE c \in S
    <3>1. SumOf(g, S) = g[c] + SumOf(g, R)
      BY <2>1, SumRemove
    <3> QED
      BY <3>1, <1>3
  <2>2. CASE c \notin S
    <3>1. R = S
      BY <2>2
    <3> QED
      BY <3>1
  <2> QED
    BY <2>1, <2>2
<1> HIDE DEF R
<1> QED
  BY <1>3, <1>5, <1>6

\* Leaving one out does not make a sum larger.
LEMMA LeaveOne ==
  ASSUME NEW S, IsFiniteSet(S), NEW c, NEW f, NEW h,
         \A x \in S : f[x] \in Nat, \A x \in S \ {c} : h[x] = f[x]
  PROVE  SumOf(h, S \ {c}) <= SumOf(f, S)
<1> DEFINE R == S \ {c}
<1>1. IsFiniteSet(R) /\ \A x \in R : h[x] \in Nat /\ f[x] \in Nat /\ h[x] <= f[x]
  BY FS_RemoveElement
<1>2. SumOf(h, R) <= SumOf(f, R) /\ SumOf(f, R) \in Nat /\ SumOf(h, R) \in Nat
  <2> HIDE DEF R
  <2> QED
    BY <1>1, SumMonotonic, SumType
<1>3. SumOf(f, R) <= SumOf(f, S)
  <2>1. CASE c \in S
    <3>1. SumOf(f, S) = f[c] + SumOf(f, R) /\ f[c] \in Nat
      BY <2>1, SumRemove
    <3> QED
      BY <3>1, <1>2
  <2>2. CASE c \notin S
    <3>1. R = S
      BY <2>2
    <3> QED
      BY <3>1, <1>2
  <2> QED
    BY <2>1, <2>2
<1> HIDE DEF R
<1>4. SumOf(f, S) \in Nat
  BY SumType
<1>5. SumOf(h, R) <= SumOf(f, S)
  BY <1>2, <1>3, <1>4
<1> QED
  BY <1>5 DEF R

\* An account without an entry claims nothing.
BlankInv == \A c \in Calls : entries[c].status = "none" => entries[c].reserved = 0

LEMMA Amounts ==
  ASSUME NEW book \in [Calls -> Entries], NEW c \in Calls
  PROVE  /\ ClaimIn(book)[c] \in Nat /\ CommittedIn(book)[c] \in Nat
         /\ ClaimIn(book)[c] <= CommittedIn(book)[c]
  BY DEF ClaimIn, CommittedIn, Claim, Committed, Entries

Limited(book) ==
  \A d \in Days : /\ Within(DailyUsd, SumOf(ClaimIn(book), OfDay(book, d)))
                  /\ Within(MonthlyUsd, SumOf(ClaimIn(book), OfMonth(book, d)))

LEMMA LimitedIsAdmitted == Limited(entries) <=> AdmittedWithinLimits
  BY ClaimsAreSums DEF Limited, AdmittedWithinLimits, Claims, OfDay, OfMonth

LEMMA GroupsAreFinite == \A group \in SUBSET Calls : IsFiniteSet(group)
  BY CallsAreFinite, FS_Subset

\* reserve: the comparison with a fresh ledger is enough for the day and the
\* month of the request, and any other period can only lose an empty account.
LEMMA ReserveLimited ==
  ASSUME NEW book \in [Calls -> Entries], Limited(book), NEW c \in Calls,
         book[c].status = "none", book[c].reserved = 0,
         NEW r \in Reserves, NEW d \in Days, Fits(book, r, d)
  PROVE  Limited(Reserved(book, c, r, d))
<1> DEFINE next == Reserved(book, c, r, d)
           f == ClaimIn(book)
           g == CommittedIn(book)
           h == ClaimIn(next)
<1>1. r \in Nat /\ f[c] = 0 /\ g[c] = 0 /\ h[c] = r /\ \A x \in Calls \ {c} : h[x] = f[x]
  BY DEF ClaimIn, CommittedIn, Claim, Committed, Reserved, Entry, Entries
<1>2. \A x \in Calls : f[x] \in Nat /\ g[x] \in Nat /\ f[x] <= g[x]
  BY Amounts
<1>3. \A x \in Calls : next[x].day = IF x = c THEN d ELSE book[x].day
  BY DEF Reserved, Entry
<1> HIDE DEF next, f, g, h
<1>4. ASSUME NEW G \in SUBSET Calls, NEW limit, limit \in Nat \cup {NoLimit},
             Within(limit, SumOf(g, G) + r)
      PROVE  Within(limit, SumOf(h, G \cup {c}))
  <2>1. SumOf(h, G \cup {c}) <= SumOf(g, G) + r
    <3>1. IsFiniteSet(G) /\ (\A x \in G : f[x] \in Nat /\ g[x] \in Nat /\ f[x] <= g[x])
          /\ \A x \in G \ {c} : h[x] = f[x]
      BY <1>1, <1>2, GroupsAreFinite
    <3> QED
      BY <1>1, <3>1, AdmitOne
  <2>2. SumOf(h, G \cup {c}) \in Nat /\ SumOf(g, G) \in Nat
    <3>1. G \cup {c} \in SUBSET Calls /\ \A x \in Calls : h[x] \in Nat
      BY <1>1, <1>2
    <3> QED
      BY <1>2, <3>1, GroupsAreFinite, SumType
  <2> QED
    BY <1>1, <1>4, <2>1, <2>2 DEF Within
<1>5. ASSUME NEW G \in SUBSET Calls, NEW limit, limit \in Nat \cup {NoLimit},
             Within(limit, SumOf(f, G))
      PROVE  Within(limit, SumOf(h, G \ {c}))
  <2>1. SumOf(h, G \ {c}) <= SumOf(f, G)
    <3>1. IsFiniteSet(G) /\ (\A x \in G : f[x] \in Nat) /\ \A x \in G \ {c} : h[x] = f[x]
      BY <1>1, <1>2, GroupsAreFinite
    <3> QED
      BY <3>1, LeaveOne
  <2>2. SumOf(h, G \ {c}) \in Nat /\ SumOf(f, G) \in Nat
    <3>1. G \ {c} \in SUBSET Calls /\ \A x \in Calls : h[x] \in Nat
      BY <1>1, <1>2
    <3> QED
      BY <1>2, <3>1, GroupsAreFinite, SumType
  <2> QED
    BY <1>5, <2>1, <2>2 DEF Within
<1>6. DailyUsd \in Nat \cup {NoLimit} /\ MonthlyUsd \in Nat \cup {NoLimit}
  BY PolicyAssumption
<1>7. ASSUME NEW e \in Days PROVE Within(DailyUsd, SumOf(h, OfDay(next, e)))
  <2>1. OfDay(book, e) \in SUBSET Calls
    BY DEF OfDay
  <2>2. CASE e = d
    <3>1. OfDay(next, e) = OfDay(book, e) \cup {c}
      BY <1>3, <2>2 DEF OfDay
    <3>2. Within(DailyUsd, SumOf(g, OfDay(book, e)) + r)
      BY <2>1, <2>2, ClaimsAreSums DEF Fits, g
    <3> QED
      BY <1>4, <1>6, <2>1, <3>1, <3>2
  <2>3. CASE e # d
    <3>1. OfDay(next, e) = OfDay(book, e) \ {c}
      BY <1>3, <2>3 DEF OfDay
    <3>2. Within(DailyUsd, SumOf(f, OfDay(book, e)))
      BY DEF Limited, f
    <3> QED
      BY <1>5, <1>6, <2>1, <3>1, <3>2
  <2> QED
    BY <2>2, <2>3
<1>8. ASSUME NEW e \in Days PROVE Within(MonthlyUsd, SumOf(h, OfMonth(next, e)))
  <2>1. OfMonth(book, e) \in SUBSET Calls
    BY DEF OfMonth
  <2>2. CASE Month(e) = Month(d)
    <3>1. OfMonth(next, e) = OfMonth(book, e) \cup {c} /\ OfMonth(book, e) = OfMonth(book, d)
      BY <1>3, <2>2 DEF OfMonth
    <3>2. Within(MonthlyUsd, SumOf(g, OfMonth(book, e)) + r)
      BY <2>1, <3>1, ClaimsAreSums DEF Fits, g
    <3> QED
      BY <1>4, <1>6, <2>1, <3>1, <3>2
  <2>3. CASE Month(e) # Month(d)
    <3>1. OfMonth(next, e) = OfMonth(book, e) \ {c}
      BY <1>3, <2>3 DEF OfMonth
    <3>2. Within(MonthlyUsd, SumOf(f, OfMonth(book, e)))
      BY DEF Limited, f
    <3> QED
      BY <1>5, <1>6, <2>1, <3>1, <3>2
  <2> QED
    BY <2>2, <2>3
<1> QED
  BY <1>7, <1>8 DEF Limited, h, next

\* settle and mark: the claim of an entry never grows, its day stays.
LEMMA ShrinkLimited ==
  ASSUME NEW book \in [Calls -> Entries], NEW next \in [Calls -> Entries], Limited(book),
         \A c \in Calls : next[c].day = book[c].day /\ Claim(next[c]) <= Claim(book[c])
  PROVE  Limited(next)
<1> DEFINE f == ClaimIn(book)
           h == ClaimIn(next)
<1>1. \A x \in Calls : f[x] \in Nat /\ h[x] \in Nat /\ h[x] <= f[x]
  BY Amounts DEF ClaimIn
<1> HIDE DEF f, h
<1>2. ASSUME NEW G \in SUBSET Calls, NEW limit, limit \in Nat \cup {NoLimit}, Within(limit, SumOf(f, G))
      PROVE  Within(limit, SumOf(h, G))
  <2>1. SumOf(h, G) <= SumOf(f, G) /\ SumOf(h, G) \in Nat /\ SumOf(f, G) \in Nat
    BY <1>1, GroupsAreFinite, SumMonotonic, SumType
  <2> QED
    BY <1>2, <2>1 DEF Within
<1>3. ASSUME NEW d \in Days
      PROVE  /\ OfDay(next, d) = OfDay(book, d) /\ OfDay(book, d) \in SUBSET Calls
             /\ OfMonth(next, d) = OfMonth(book, d) /\ OfMonth(book, d) \in SUBSET Calls
  BY DEF OfDay, OfMonth
<1>4. DailyUsd \in Nat \cup {NoLimit} /\ MonthlyUsd \in Nat \cup {NoLimit}
  BY PolicyAssumption
<1>5. ASSUME NEW d \in Days
      PROVE  Within(DailyUsd, SumOf(h, OfDay(next, d))) /\ Within(MonthlyUsd, SumOf(h, OfMonth(next, d)))
  BY <1>2, <1>3, <1>4 DEF Limited, f
<1> QED
  BY <1>5 DEF Limited, h

LEMMA InitLimited == Init => BlankInv /\ Limited(entries)
<1> SUFFICES ASSUME Init PROVE BlankInv /\ Limited(entries)
  OBVIOUS
<1> DEFINE f == ClaimIn(entries)
           zero == [c \in Calls |-> 0]
<1>1. BlankInv /\ \A c \in Calls : f[c] = 0
  BY DEF Init, NoEntries, Blank, Entry, BlankInv, ClaimIn, Claim
<1> HIDE DEF f
<1>2. ASSUME NEW G \in SUBSET Calls PROVE SumOf(f, G) = 0
  <2> DEFINE F == {t \in SUBSET G : SumOf(f, t) # 0}
  <2> SUFFICES ASSUME F # {} PROVE FALSE
    BY DEF F
  <2>0. F \in SUBSET SUBSET G /\ IsFiniteSet(G)
    BY GroupsAreFinite
  <2>1. PICK s \in F : \A t \in F : t \subseteq s => t = s
    <3> HIDE DEF F
    <3> QED
      BY <2>0, MinimalMember
  <2>2. IsFiniteSet(s)
    BY <2>0, FS_Subset
  <2>3. CASE s = {}
    <3>1. SumOf(f, s) = 0
      BY <2>2, <2>3, SumStep
    <3> QED
      BY <3>1
  <2>4. CASE s # {}
    <3>1. Any(s) \in s /\ f[Any(s)] = 0
      BY <1>1, <2>4, AnyIsMember
    <3>2. SumOf(f, s \ {Any(s)}) = 0
      BY <2>1, <3>1
    <3>3. SumOf(f, s) = 0
      BY <2>2, <2>4, <3>1, <3>2, SumStep
    <3> QED
      BY <3>3
  <2> QED
    BY <2>3, <2>4
<1>3. \A limit \in Nat \cup {NoLimit} : Within(limit, 0)
  BY DEF Within
<1>4. \A d \in Days : OfDay(entries, d) \in SUBSET Calls /\ OfMonth(entries, d) \in SUBSET Calls
  BY DEF OfDay, OfMonth
<1> QED
  BY <1>1, <1>2, <1>3, <1>4, PolicyAssumption DEF Limited, f

LEMMA NextLimited ==
  ASSUME IInv, IInv', BlankInv, Limited(entries), [Next]_vars
  PROVE  BlankInv' /\ Limited(entries)'
<1>0. entries \in [Calls -> Entries] /\ entries' \in [Calls -> Entries]
  BY DEF IInv, TypeOK
<1>1. [Ledger!Next]_entries
  BY WritesRefine DEF vars
<1>2. ASSUME NEW c \in Calls, NEW r \in Reserves, NEW d \in Days, Ledger!Reserve(c, r, d)
      PROVE  BlankInv' /\ Limited(entries)'
  <2>1. /\ entries[c].status = "none" /\ Fits(entries, r, d)
        /\ entries' = Reserved(entries, c, r, d)
    BY <1>2 DEF Ledger!Reserve, Reserved, Entry
  <2>2. Limited(entries')
    BY <1>0, <2>1, ReserveLimited DEF BlankInv
  <2>3. BlankInv'
    BY <1>0, <2>1 DEF BlankInv, Reserved, Entry
  <2> QED
    BY <2>2, <2>3
<1>3. ASSUME NEW c \in Calls, NEW e \in Entries, entries' = [entries EXCEPT ![c] = e],
             e.status # "none", e.day = entries[c].day, Claim(e) <= Claim(entries[c])
      PROVE  BlankInv' /\ Limited(entries)'
  <2>1. \A x \in Calls : Claim(entries[x]) \in Nat
    BY <1>0, Amounts DEF ClaimIn
  <2>2. \A x \in Calls : entries'[x].day = entries[x].day /\ Claim(entries'[x]) <= Claim(entries[x])
    BY <1>0, <1>3, <2>1
  <2>3. Limited(entries')
    BY <1>0, <2>2, ShrinkLimited
  <2>4. BlankInv'
    BY <1>0, <1>3 DEF BlankInv
  <2> QED
    BY <2>3, <2>4
<1>4. ASSUME NEW c \in Calls, NEW a \in Bills, Ledger!Settle(c, a)
      PROVE  BlankInv' /\ Limited(entries)'
  <2> DEFINE e == [entries[c] EXCEPT !.status = "settled", !.actual = a]
  <2>1. entries[c] \in Entries /\ a \in Nat /\ entries[c].status \in {"reserved", "uncertain"}
    BY <1>0, <1>4 DEF Ledger!Settle
  <2>2. entries' = [entries EXCEPT ![c] = e]
    BY <1>0, <1>4 DEF Ledger!Settle
  <2>3. e \in Entries /\ e.status # "none" /\ e.day = entries[c].day
    BY <2>1 DEF Entries, Statuses
  <2>4. e.status = "settled" /\ e.actual = a /\ e.reserved = entries[c].reserved
        /\ entries[c].reserved \in Nat
    BY <2>1 DEF Entries
  <2> HIDE DEF e
  <2>5. Claim(e) <= Claim(entries[c])
    BY <2>1, <2>4 DEF Claim
  <2> QED
    BY <1>3, <2>2, <2>3, <2>5
<1>5. ASSUME NEW c \in Calls, Ledger!MarkUncertain(c)
      PROVE  BlankInv' /\ Limited(entries)'
  <2> DEFINE e == [entries[c] EXCEPT !.status = "uncertain"]
  <2>1. entries[c] \in Entries /\ entries[c].status = "reserved"
    BY <1>0, <1>5 DEF Ledger!MarkUncertain
  <2>2. entries' = [entries EXCEPT ![c] = e]
    BY <1>0, <1>5 DEF Ledger!MarkUncertain
  <2>3. e \in Entries /\ e.status # "none" /\ e.day = entries[c].day /\ Claim(e) <= Claim(entries[c])
    BY <2>1 DEF Entries, Statuses, Claim
  <2> HIDE DEF e
  <2> QED
    BY <1>3, <2>2, <2>3
<1>6. CASE UNCHANGED entries
  BY <1>6 DEF BlankInv
<1> QED
  BY <1>1, <1>2, <1>4, <1>5, <1>6 DEF Ledger!Next

\* No interleaving, crash or failed write lets the reservations of a day or a
\* month past their limit (reserve in spend-budget.ts), whatever the amounts.
THEOREM Admitted == Spec => []AdmittedWithinLimits
<1>1. Init => BlankInv /\ Limited(entries)
  BY InitLimited
<1>2. IInv /\ IInv' /\ BlankInv /\ Limited(entries) /\ [Next]_vars
        => BlankInv' /\ Limited(entries)'
  BY NextLimited
<1>3. Limited(entries) <=> AdmittedWithinLimits
  BY LimitedIsAdmitted
<1> QED
  BY <1>1, <1>2, <1>3, BudgetInvariant, PTL DEF Spec

=============================================================================
