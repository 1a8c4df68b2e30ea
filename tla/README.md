# Verification of ecorione

ecorione is a local-first monorepo of HTTP services that give local and hosted AI
models a shared memory, governed tool execution and durable workflows. This
directory holds TLA+ models of the parts whose correctness depends on the order of
events, on failures and on limits; the TLC configurations that check them; and
proofs, checked by TLAPS, of what holds for every value of the constants. Every
definition is translated from the source; `PROJECT.json` names the lines
(`map`), the runs, the properties, the hazards they are about and the theorems.

Section 2 says which module models what, section 3 what TLC checks, section 4 what is
proved, section 5 what is left out, section 6 what could come next.

## 1. The system

```
Ai (browser) -> Hub -> Context, Connect -> model providers, MCP servers
                 |---> Artifact, Space, Sandbox, RnD
                 `---> Flow -> Temporal -> Flow worker -> Hub, Connect, Sandbox
```

Services talk over HTTP with a 10 s default timeout (`shared-server/src/client.ts`).
Each owns its storage: a SQLite database in WAL mode (Hub, Context, Flow, Space,
Sync, RnD) or JSON files replaced by rename under an `O_EXCL` lock file (Connect,
Sandbox). Inside a process a handler runs without interruption between two awaits.
Between processes, or between a process and its own earlier life, only SQLite's
locks and the lock files order anything; several Connect or Hub processes (server,
CLI, backup worker) may open one store.

### Components

| Component | State it keeps | Operations | What is hard | What makes it correct |
|---|---|---|---|---|
| Connect: outbound MCP (`mcp-client/manager.ts`, `governance.ts`, `invocation-store.ts`) | invocation entries per idempotency key, a lock file, connections | `callTool`: authorize, reserve, dispatch, settle or mark uncertain | processes sharing the file, a lock left by a dead process, timeouts, late answers, approvals | a key reaches the remote tool at most once; outcomes are final; the caller is told the truth; gated tools need an approval of their own |
| Connect: spend budget (`spend-budget.ts`) with `complete.ts`, `multimodal.ts` | entries reserved / uncertain / settled, a lock file | `reserve`, `settle`, `markUncertain` around a provider call | the same, plus failover between credentials, day and month boundaries | no admission beyond a limit; a request that may have cost money stays counted; answers report the settlement truthfully |
| Hub: ECX execution (`exchange-http.ts`, `ecx-execution-store.ts`) | a receipt per packet, ledger events | `executeRecipient`: begin, hydrate, claim, call Connect, settle, append | statements that commit one by one, crashes between them, two awaits, retries while a call is in flight | a packet is dispatched at most once; receipts and events agree with what happened |
| Hub: ECX round trip, fan-out (`exchange-http.ts`, `ecx-round-trip-store.ts`, `ecx-fanout-store.ts`) | round-trip and fan-out receipts, ledger events | execute the packets, take results back, let the sender continue, replay | claims that race, branches run by two requests, outcomes that arrive late, repair of the ledger by a retry | the sender continues at most once and only on all results; successes and events are true |
| Hub: Historical Ledger (`history-ledger.ts`) | sessions, hot events, archive segments, an archive index | create, ensure, append, batch, compact, verify, read a range | retries across compaction, pages across the archive | an append-only log; pages are complete; labels only narrow |
| Hub: policy and approvals (`policy-engine.ts`, `repository.ts`, `http.ts`) | approvals, audit | evaluate, create, decide, look up by key | lookup by key while rows are added and decided | ceilings are absolute, a decision counts for its own key |
| Hub: capability authority (`capability-registry.ts`), extensions, nodes, agent bindings | grants, declarations, idempotency records; installations and revisions; bindings | grant, revoke, authorize, migrate; install, update, roll back, remove; bind; sync | old retries after a revoke, three sources that replace declarations, crashes between two writes | rights widen only under an approved key that is not settled; what is held is declared |
| Flow: trigger dispatch (`trigger-http.ts`, `trigger-repository.ts`) | delivery and fire receipts | fire, event, webhook | the trigger is read before two awaits, lost answers of Temporal, redelivery | what is called started is a run; a key runs the event it was reserved for |
| Flow: time triggers (`trigger-http.ts`, `temporal-client.ts`) | trigger rows with revisions, Temporal schedules | create, update, enable, disable; reconcile; boot | a commit and then a reconciliation that may fail, come late or be overtaken | a schedule is one whole definition; a restart repairs it |
| Flow: graph workflow (`workflows.ts`, `graph-activities.ts`, `http.ts`) | Temporal history | run nodes by level and slice, wait for decisions and inputs, subflows | signals before waits, retries of activities, a decision whose signal is lost, a sibling that fails | order and gates are respected; what waits can be decided; a run ends |
| Sandbox (`executor.ts`, `receipt-store.ts`) | receipts and lock files per key | execute | a container that outlives its call, attempts of Temporal that overlap, a crash between the effect and its receipt | an effect is begun again only if its receipt was refused; success is proven |
| Context (`repository.ts`, `consolidate.ts`, `maintenance.ts`) | episodes, facts, quarantine, plans, snapshots, receipts | record, propose, promote, consolidate, forget; plan, execute, roll back | a model awaited over episodes others consolidate; a snapshot awaited after its plan was checked; supersession chains | references stay whole; no row goes that no snapshot holds, unless two executes raced for the file |
| Space, Artifact, Sync, RnD, Vault, projects, voice, multimodal runs | tables or files of their own | CRUD with revisions, sessions | revision conflicts | lost updates are refused |
| Ai, SDK, desktop, deploy, scripts, evals | none of interest here | user interface and operations | - | - |

`PROJECT.json` lists them all under `components`, with the reason where one is not
modelled, and every hazard at its line under `hazards`.

### How components interact

`callTool`, every trigger and every node of a graph ask the Hub for policy before they
act; approvals are rows of the Hub that the caller finds again by idempotency key. ECX
execution calls Connect's completion, which spends budget, and appends to the Historical
Ledger; round trips and fan-outs execute packets through it. Flow starts runs on
Temporal, whose activities call the Hub, Connect and the Sandbox. Extensions, agent
bindings and the node registry each replace their part of the declarations that grants
rest on.

The compositions modelled: McpInvocation, FlowGraph and CapabilityAuthority each contain
the Hub's approvals as they use them; EcxExecution contains the ledger's append (with its
dedupe by event id) and treats Connect as a party that executes, fails or answers late;
EcxDelegation contains the execution of packets, the ledger's append and Connect;
SpendBudget contains both callers of the budget; TriggerDispatch and TriggerSchedules
contain Temporal as far as it accepts, knows and closes runs and schedules; FlowGraph
contains Temporal's retries and signals and a subflow as a second run; SandboxExecution
contains its client, the activity of a sandbox node with Temporal's attempts, and RnD,
whose trace the client believes; CapabilityAuthority contains all sources of
declarations; ContextMemory contains consolidation, promotion and maintenance side by side.

## 2. Modules

| Module | Models | Notes |
|---|---|---|
| `EffectOnce` | the promise of a durable idempotency store | abstract: claim, occurrence, record, give up |
| `McpInvocation` | `callTool` with governance, approvals, store, lock file | implements `EffectOnce` |
| `EcxExecution` | `executeRecipient` with receipts and ledger events | implements `EffectOnce` |
| `EcxDelegation` | the round-trip and fan-out routes and their stores | the execution of a packet in brief |
| `EventLog` | the promise of the Historical Ledger | abstract: one sequence per session |
| `HistoryLedger` | `history-ledger.ts` and its tables | implements `EventLog` |
| `SpendAccounts` | the arithmetic of the spend file: sums per day and month, limits | operators only |
| `SpendLedger` | the promise of the budget: an atomic ledger | abstract; the rule of admission is a parameter |
| `SpendBudget` | the file under its lock and its two callers | implements `SpendLedger` |
| `RightsRegister` | the promise about authority: what may widen a right | abstract |
| `CapabilityAuthority` | grants, revocations, and the three sources of declarations | implements `RightsRegister` |
| `TriggerDispatch` | event, webhook and manual dispatch with their receipts | Temporal's runs are part of the state |
| `TriggerSchedules` | edits of time triggers, reconciliation with Temporal, boot | history variables `given`, `failed`, `raced` |
| `FlowGraph` | `graphExecutionWorkflow`, its activities, decisions and inputs | the plan is a constant |
| `LeasedEffect` | the promise of an execution service: a lease and a final receipt | abstract |
| `SandboxExecution` | the executor, its store, and the activity that calls it | implements `LeasedEffect` |
| `ContextMemory` | episodes, facts, quarantine, maintenance with snapshots | facts are rows with supersession; history variable `raced`: operations whose missing file two jobs had seen before either created it |
| `MC*` | small instances and symmetry sets for TLC | no model and no definition of the code |
| `*Proofs` | theorems and proofs | `HubProofs`, `ConnectContextProofs` and `FlowProofs` are about two modules each, the others about the one they name |

How the state corresponds to the code:

- **One control point per await.** A handler is a record or a `pc` per request; an
  action is what the code does without yielding. Where a crash or another process
  could fall between two statements of one synchronous stretch (two SQLite commits;
  taking a lock file, reading, writing, releasing), the stretch is several actions.
- **Processes.** `Procs` in McpInvocation and EcxExecution are processes; a request
  belongs to one, and no process is in two synchronous stretches at once (`ProcFree`).
  In SpendBudget and EcxDelegation each call is a process of its own, which allows more
  interleavings than the code and all those of the code. Flow, Sandbox and Context are
  one process each; in CapabilityAuthority handlers are synchronous, so between two of
  their writes there is only a crash.
- **A lock file** is a variable that names its holder, or the set of existing files; a
  crash leaves it. In McpInvocation `ClearLock` is the operator who removes the file of a
  dead process (it is external: no code does it).
- **The outside world** (a tool, a provider, Temporal, a container) is a set of actions of
  its own that may happen before, after or without the answer the caller sees.
- **Data.** An idempotency key stands for what is hashed into it. Hashes in the ledger
  are the values they commit to. Costs are whole micro-dollars, so the epsilon of the
  comparison in `spend-budget.ts` is left out. Times are days where limits depend on
  them, a few instants where validity does, and absent elsewhere. A packet without a
  history session appends nothing, so the ECX modules model the one with a session. The
  content of a trigger stands for the pinned version and the cron expression together.
- **Mutants.** A definition headed `\* Mutant:` is no part of a model: it is a plausible
  bug of the definition below it, with which the property it is meant for fails.

Assumptions that narrow a module: in EcxDelegation a request names its delegation and
nothing edits bindings except through the checks that may then fail; in TriggerSchedules
clients name only revisions they were told; CapabilityAuthority has one subject of each
kind, one workspace and one scope; in ContextMemory all facts have one scope and one
predicate, an operation id is planned once and retried with the same time, and which of
two duplicates wins is any choice, since `created_at` comes from the client.

What ContextMemory takes from outside `src/` is how better-sqlite3 backs up: `backup()`
looks at the directory of its file without blocking before it creates or opens the file
(`OpenFile`), so a second execute can pass `existsSync` meanwhile; of two backups that
write one file SQLite refuses one, for which the library ends, or fails, at once
(`Contended`); a backup that fails removes the file it created (`Removed`). What is
written while a backup runs is in it (`Complete`).

## 3. Runs

Passing runs, each complete (TLC visits every reachable state):

| Run | Shows |
|---|---|
| `mcp_calls` | `HonestReply`, `GatedDispatchApproved` and the refinement of `EffectOnce`: two calls over two keys, operation ids and processes, with a crash, a stale lock, lost answers of the Hub, decisions, an edit of the tool's policy |
| `ecx_execution` | `ReceiptFaithful`, `HistoryBacked`, `ToldIsRecorded`, the refinement of `EffectOnce` and, under fairness, `EveryRequestAnswered`: two requests over two packets, two Hubs, a crash, late answers |
| `ecx_delegation` | `ContinuesOnWhole`, `SuccessIsTrue`, `EventsBacked` and, under fairness, `RequestsAnswered`: a fan-out over two packets, a full round trip, and a delta round trip that shares a packet with the fan-out; two requests, a crash |
| `history_ledger` | `LedgerVerifies`, `RetryDeduplicated`, `ReadIsSlice` and the refinement of `EventLog`: two sessions, four event ids, two bodies, all orders of create, ensure, append, batch and compact |
| `spend_budget` | `AdmittedWithinLimits`, `DispatchedIsCounted`, `TruthfulSettlement`, the refinement of `SpendLedger` and, under fairness, `EveryCallEnds`: a completion with two credentials and a multimodal call over three days of two months, crashes inside the lock, a lock file that stays, failures of the store before its write and behind it |
| `capability_authority` | `AuthorityInv` and the refinement of `RightsRegister`: five grants and revocations over three keys and two operations, two manifests, two targets of an agent, a crash at any write (the longest run, two to three minutes) |
| `trigger_dispatch` | `StartedIsRun`, `RunIsReserved`, `DuplicatesAgree`: three deliveries over a manual and an event key, an edit, restarts, lost answers |
| `trigger_schedules` | `DefinitionScheduled`, `SettledAgrees` and, under fairness of the boot, `RestartRepairs`: two edits under way at once, three revisions, a call of Temporal that fails or is applied late, a crash |
| `flow_graph` | `OrderRespected`, `GateRespected`, `CompletedIsWhole`, `WaitingIsDecidable` and, under fairness, `RunEnds`: a subflow with an approval beside a gated service, a condition that chooses between a human input and two services, one of them gated, a join; retries, rejections, a lost signal |
| `sandbox_execution` | `RepeatsOnlyUnrecorded`, `SuccessIsProven`, the refinement of `LeasedEffect` and, under fairness, `LeaseReleased`: the three attempts of a node, a receipt the disk refuses, a crash |
| `context_memory` | `IntegrityKept`, `NothingLost`: two jobs that overlap at their awaits (consolidation, execution, rollback), at the check of a snapshot file, its creation and its end too; one episode, two promotions, one of them about an unknown episode, a crash (2.4 million states, about 100 s) |

One run that TLC refutes states what the repository says and the code does not do; it is
the entry of `findings`:

| Run | The code does |
|---|---|
| `context_legacy` | a rollback restores facts through `insertFact`, which derives `project_state` from the project id alone, so a fact that migration 005 left `LEGACY_UNASSIGNED` comes back as global memory (`maintenance.ts:890`) |

### Refuted statements without a run of their own

These definitions state what a document, comment or test says. They are in the modules
but in no run; adding the definition as INVARIANT (AppliedAsApproved: PROPERTY) to the
component's cfg, without its SYMMETRY line, shows TLC's counterexample.

| Definition | Says | The code does |
|---|---|---|
| `McpInvocation.CeilingAbsolute` | the ceiling is absolute (policy-engine.test.ts) | an approved row of the key skips the evaluation, and with it the ceiling of a later call (`governance.ts:156`) |
| `EcxExecution.NoHistoryConflict` | retries repair provenance (docs/verification/ecx-execution-b2-safe-checkpoint-2026-09-27.md) | a retry beside a call in flight fixes the outcome event too early; the call then ends in a history conflict (`exchange-http.ts:629`) |
| `EcxDelegation.FailedIsDefinitive` | an ambiguous continuation is UNCERTAIN, a rejected one FAILED (docs/verification/ecx-execution-b3-safe-checkpoint-2026-09-27.md:118) | a second request whose check of the results fails writes FAILED while the continuation of the first is in flight (`exchange-http.ts:2107`) |
| `SpendBudget.AmbiguityRetained` | a failure after dispatch stays counted (docs/spend-budget-operations.md:21) | after a failover the ambiguous first request is settled away with the second (`complete.ts:376`) |
| `SpendBudget.RetainedIsTrue` | an answer `reservation-retained` (`complete.ts:450`; `multimodal.ts:199` "Durable reservation remains conservative if local settlement fails") | `chmodSync` behind the rename, or `closeSync` and `unlinkSync` in the `finally` (`spend-budget.ts:199`, `:223-224`), may throw when the file says settled already |
| `ContextMemory.SnapshotsStay` | after a failed mutation there is a way back as long as the snapshot from before it was made (docs/adr/0028-owner-data-rebuild.md:17, :30) | two executes of one operation both find no file (`maintenance.ts:509`) while the backup of neither has created it; the second replaces the complete snapshot of the first, or removes it when it fails (`:510`) |
| `TriggerDispatch.OneRunPerKey` | exactly one execution per delivery (docs/product-evolution-pe05-acceptance.md:100, pe03-acceptance.md:81) | a redelivery that looked for the receipt before it says STARTED starts again after the first run closed (`trigger-http.ts:618-634`; a manual fire is recorded after its start, `:722-763`) |
| `TriggerDispatch.AnswerNamesRun` | redeliveries resolve to the same dispatch (pe05-acceptance.md:101) | a redelivery after the trigger was moved starts the new version and answers the old one (`trigger-http.ts:625`) |
| `TriggerSchedules.DisabledIsPaused` | a disabled trigger must not dispatch (docs/adr/0036-trigger-temporal-schedule.md:29) | two edits commit in one order and reconcile in the other (`trigger-http.ts:472`), so a disabled trigger keeps an active schedule until a restart |
| `CapabilityAuthority.AppliedAsApproved` | an unapproved grant or revoke changes nothing (docs/capability-permission-operations.md:157) | the approval is looked up by idempotency key, and the mutation applied is the one of the request, not of the approval |
| `FlowGraph.WaitingIsDecidable` with `Plan <- SharedPlan` | a waiting node is decided at the endpoint (docs/node-registry-flow-canvas-operations.md:55) | a subflow shares its parent's operation id: an approval node with the id of a gated node of the parent finds that row, under another key, and waits for ever |

`OneRunPerKey` rests on one fact outside `src/`: Temporal accepts a start under the id of
a closed run unless the client asks for another reuse policy, and `temporal-client.ts:174`
asks for none.

Found while modelling and not stated as a property, because the code makes no attempt:

- The two SELECTs of a page (`history-ledger.ts:739`, `:742`) are no transaction. A
  compaction in another process between them moves rows that the page then misses;
  HistoryLedger reads a page in one step, which is right for one process.
- Context: edits that land during the await of the snapshot escape the check of the plan
  (docs/adr/0028-owner-data-rebuild.md:16 asks for it); a crash between the mutation and
  its receipt leaves none, and a second execute then fails without a snapshot of its own
  (0028:22); consolidation of a project's episode supersedes a global fact, while
  `repository.ts:451` speaks of the same Project; a rebuild brings back facts that were
  forgotten and drops those that were promoted by hand; a promotion may name unknown
  episodes, after which `assertIntegrity` refuses all maintenance.
- Two identical fan-outs at once may end UNCERTAIN with no continuation made: the code
  fails closed.

### Bounds and why they are enough

- *Two requests* on two keys, packets or delegations race on one, or show that what
  belongs to one does not leak to the other; with a crash, the second meets what the
  first left behind. A third adds no new pair: the proofs, which need no bound, argue
  about one request against any other. TriggerDispatch has three, so that a redelivery
  can follow two deliveries that raced; SandboxExecution has the three attempts the
  node's retry policy allows.
- *Two processes*: one that dies and one that goes on. *One crash* (`MaxCrashes`): what it
  leaves behind meets every later step; *one failure* (`MaxFailures`), *one lost signal*
  (`MaxLost`) likewise.
- *Two results, bodies, fingerprints, replies, contents or manifests* distinguish "the
  same" from "another".
- `MaxPolicyChanges`, `MaxEdits` = 1: one edit at every possible moment of the calls. In
  ContextMemory `MaxTurns` = 2 counts proposals, promotions, forgotten facts and deaths
  together, and `MaxFacts` = 3: a proposal and its promotion, or an edit and a death, and
  a chain of two supersessions. `MaxRevision` = 3: a create and two edits that race.
  `MaxRevisions` = 3 (extension): install, update, roll back to the first.
- `MaxRank` = 1 gives labels an order with two levels. Four event ids allow a batch,
  a compaction, a second compaction and a hot tail; the limits of a page range over all
  positions inside, at and beyond a segment.
- Amounts: a reservation of 2, bills of 1 (less) and 3 (more), limits of 2 a day and 3 a
  month: a second reservation is refused by the day on the same day, by the month on
  another day of it, and admitted in the month where the first was billed less. Three
  days with two days per month reach both boundaries.
- FlowGraph runs one plan with every kind of edge that matters: a branch, two levels
  with more nodes than `MaxParallel` = 2, so that a slice waits for the one before, a join,
  a subflow. A second plan (`SharedPlan`) serves the one statement about a shared id.
- Symmetry is declared over sets whose members only occur as arguments: requests, keys,
  results, event ids, bodies, jobs. No run that checks liveness uses it.

`CHECK_DEADLOCK FALSE` is set everywhere because requests are finite in number: when
all are answered, the system stops.

### Fairness

Weak fairness of a request's own next step, and nothing else: of providers, operators,
humans, clients (a stale lock may stay for ever) and crashes nothing is assumed.

- EcxExecution, SpendBudget, EcxDelegation: `Step` of each request. It is the event loop
  that runs a ready continuation, and the timeout of every awaited HTTP call, which makes
  the step "failed" possible when no answer comes.
- SandboxExecution: the activity (Temporal attempts it again and times it out) and each
  handler. For tiers that spawn a process the executor has a timer that ends it; tier 1.5
  (WASM, synchronous and without a timeout) is not modelled, and `LeaseReleased` says
  nothing of it.
- FlowGraph: the workflow task of a run, each node's next step, and the delivery of a
  signal Temporal accepted. A human's decision is not fair, which is why `RunEnds` excepts
  runs that wait for one.
- TriggerSchedules: the boot, `Listen` and `Sync`, only: a reconciliation of an edit may
  fail for ever.

## 4. Proofs

Every invariant, action property and refinement that a passing run checks is also a
theorem; what is left to TLC is liveness.

| Module | Theorems | Inductive invariant |
|---|---|---|
| `McpInvocationProofs` | `StoreInvariant`, `TypeCorrect`, `AtMostOnce`, `Final`, `Honest`, `Gated`, `Refinement` | types and lock discipline, and per key: at most one claimant past the reservation; the entry stays reserved while it is under way; a settled entry holds the claimant's answer. On top of it (`ReplyInv`): what a reply claims, from the step that writes it; an approved row behind every gated request past its lookup |
| `EcxExecutionProofs` | `ReceiptInvariant`, `TypeCorrect`, `AtMostOnce`, `Faithful`, `Backed`, `Told`, `Refinement` | per packet: at most one request past the claim, the receipt pending until it settles it, each ledger event backed by a receipt that can no longer change. On top of it (`ToldInv`): whoever was told an outcome has ended and has its events |
| `EcxDelegationProofs` | `DelegationInvariant`, `Continuation`, `Successes`, `Events` | per request: what it knows of its children, receipt and events at each step, what it was told, which events it owes; whose children are whose; the one claim of a continuation; what a success and the ledger hold |
| `HubProofs`: CapabilityAuthority | `RegistryInvariant`, `Authority`, `Refinement` | held implies declared for every subject; declarations follow the installed revision and, between boot and crash, the binding; what a Hub that has not booted may lack |
| `HubProofs`: HistoryLedger | `LedgerInvariant`, `LedgerVerified`, `Deduplicated`, `PagesWhole`, `LedgerRefines` | `LedgerInv`: the rows of a session are numbered without gap and each carries the hash of the one before; the archive is exactly what lies below the watermark of the session's row, in segments that adjoin, and all of it is indexed; no event id stands twice |
| `ConnectContextProofs`: SpendBudget | `BudgetInvariant`, `TypeCorrect`, `LockHeld`, `Counted`, `Truthful`, `Refinement`, `Admitted` | a live call in the critical section holds the lock and has read the file as it is; the entry of each call fits its step; for `Admitted` besides, the committed sums stay within the limits for every set of calls |
| `ConnectContextProofs`: ContextMemory | `MemoryInvariant`, `Integrity`, `Lossless`, `EndsAreFinal`, `Restorable` | `MemoryInv`: the facts in the tables, in every staging database and in every snapshot are whole; what each job knows at each step of its snapshot, its source and its proposal; one handler at most is between two awaits, and of two jobs past the check of one file the operation is in `raced` |
| `TriggerDispatchProofs` | `DispatchInvariant`, `TypeCorrect`, `Started`, `ReservedRuns`, `SameAnswer`, `Final` | a handler that may start an event finds its own body reserved; started implies known to Temporal; an answer repeats a receipt that is STARTED |
| `FlowProofs`: FlowGraph | `GraphInvariant`, `Ordered`, `GatesHeld`, `Whole`, `Decidable` | `GraphInv`: what the state of a node says of the nodes before it, of its gate, its service, its child run and the level its run has reached; for `Decidable` besides, whose row an approval is (`RowsOwned`) |
| `FlowProofs`: TriggerSchedules | `EditsInvariant`, `Scheduled`, `Settled` | what an edit that awaits the Hub or Temporal knows of its row and target; every target, late write and schedule was given; a trigger without failure or overlap agrees, or has one edit that will make it agree |
| `SandboxExecutionProofs` | `ExecutionInvariant`, `TypeCorrect`, `Leases`, `Repeats`, `Succeeded`, `Refinement` | what a handler past `acquire` knows of its lock and receipt; effects begun are at most one more than the receipts refused, and no more than those while the lock is free and no receipt is stored; a trace follows a receipt |

None of the checked invariants is inductive alone: that a key is dispatched once, for
example, says nothing of a second request that has read the store and is about to
write it. The strengthenings tie each control point of a request to what the store
holds at that point; one lemma per action shows that they are preserved. A frame lemma
says what a step leaves alone or never takes back (an approved row, an event, a final
receipt, a complete snapshot), so that a lemma about one request need not look at the
steps of the others.

Four arguments are about data rather than steps:

- *Sums* (`Admitted`). A fold over a finite set reads a table of its subsets. The table
  exists and any two agree, so the sum obeys its equation whatever member is taken first
  (`SumRemove`), and grows with its set (`SumMonotonic`). A limit is then kept because a
  reservation was admitted against the very sum it enlarges. What the provers cannot do
  is apply the library's induction rule, which takes an operator; a minimal
  counterexample, whose existence is a theorem about well-founded sets, does the same.
- *Levels* (`Ordered`, `Whole`). The compiled order puts a node one level above the
  highest of those it depends on. That such a table exists is proved, not assumed: a
  largest set of nodes that has one, if it were not all, could be extended, because of
  the rest one node depends on none of the others (`LevelsExist`). From it follows that
  all a node depends on comes before it (`PredecessorsComeBefore`), for any plan.
- *Sequences* (`PagesWhole`, `LedgerRefines`). The log of a session is the set of its
  numbered rows, in the table or in the archive, listed in order; since the numbers
  have no gap, a row appended at the end appends to the list, a batch appends all its
  drafts, and a compaction, which moves rows, lists the same. A page takes the smallest
  numbers of its range from either place.
- *Chains* (`Integrity`). That supersession never runs in a circle is stated of sets: every
  set of facts has one whose supersession leads out of it. A step ends only facts that
  had not ended, at one that nothing supersedes, so a set that the step touches has
  such a member and a set that it does not touch had one before (`WholeRevised`).

`Truthful` says what an answer may say of a file that may have been written before the
error: `settled` is exact, `reservation-retained` means counted, with the reservation or
with the cost already on disk. It holds because the answer is written when `withSpendLock`
ends, and `CallInv` ties the entry to how it ends: with `returned` the cost is on disk, with
`thrown`, also behind the rename, the entry is one of the three.

`Lossless` is about operations for which no two jobs saw the file missing at once
(`raced`). For those one job at most is between the check and its receipt, because a second
one finds the file, created by the first; so the backup at the end of its await holds the
facts as they are when it replaces them (no other handler runs between), and nothing writes
or removes the file again. That a job with a rival is in `raced` is a part of the invariant (`Alone`),
and so is what a job knows of its file on each side of the creation (`Awaited`).
For the others nothing of the kind holds: TLC refutes `SnapshotsStay` (section 3).
`Restorable` adds that what a complete snapshot holds is whole, raced for or not, though
the backup may end after edits its plan never saw, and `EndsAreFinal` that between
replacements the past is not rewritten; both follow from `MemoryInv` and are stated by no
run.

The theorems hold for any number of requests, keys, processes, crashes, edits, results,
amounts, limits, events, plans, episodes and facts, under the named assumptions of the
modules only: finiteness where a sum needs it (`CallsAreFinite`, `OpsFinite`); naturals
where arithmetic needs them; that `None`, `Absent` or `Unset` is none of the values and a
reply is no state word (`NoneIsNothing`, `NoneIsNoRow`, `RanksAndAbsent`,
`UnsetIsNothing`, `RepliesApart`); that a plan has no cycle
(`PlansAreAcyclic`; `node-registry.ts:429` refuses one); that a rebuild is planned without other actions
(`Constants` of ContextMemory, as `ContextMaintenanceEngine.plan` demands); and that the
facts a migration found were whole (`LegacyIsWhole`). `Decidable` has a hypothesis of its own,
`ApprovalIdsDiffer`: no approval of a subflow has the id of one of its parent; without it
TLC refutes the statement (section 3). The refinement theorems show that initial states
map to initial states and every step to a step or a stutter of the abstract module.

Only model-checked: liveness (`EveryRequestAnswered`, `RequestsAnswered`,
`EveryCallEnds`, `RestartRepairs`, `RunEnds`, `LeaseReleased`) and everything about
ENABLED, which are outside the prover. `AmbiguousStaysUnassigned` is refuted, so there is
nothing to prove.

## 5. Not modelled, and why

- Encodings, prompts, prices, provider wire formats, route scores, user interface.
- The cache of MCP connections and the discovery of tools: failures there look to
  `callTool` like an unreachable server, which is modelled.
- Packet creation and selection; the details of hydration: both end in an admission or a
  refusal, which are modelled.
- An event that matches no selector, or a condition that does not hold: it starts
  nothing and changes nothing.
- Temporal's retention: a closed run stays known to `describe` for as long as anyone
  asks.
- Conditions, templates and expressions of a Flow: a condition takes either port.
- Tier 1.5 of the Sandbox; executions marked irreversible.
- Context: core memory, embeddings and indexes, retrieval, schema migrations.
- Requests of a dead process that arrive later at another service, except where they are
  the point (the provider, tool, schedule or container that acts after the caller gave up).
- The components listed as `not_modelled`, each with its reason. Most of the repository's
  lines are there: user interface, provider adapters, voice sessions, acceptance scripts
  and benchmarks, where little depends on an order of events; a model would restate them.

## 6. What could come next

1. Space, Sync and projects as implementations of one revision-checked cell, an abstract
   module that TriggerSchedules would implement too.
2. The vault's rotation and the refresh of OAuth tokens: two processes, one refresh token.
3. Two subjects of one kind in CapabilityAuthority, and grants that expire.
4. An abstract memory (facts with a history that is never lost) that ContextMemory
   implements, and an abstract schedule for TriggerSchedules.
5. Readers of the ledger in several steps, as soon as the code reads a page in one
   transaction.
