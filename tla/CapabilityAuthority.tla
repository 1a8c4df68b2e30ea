------------------------ MODULE CapabilityAuthority ------------------------
(***************************************************************************)
(* Authority at the Hub: grants and revocations of capability permissions  *)
(* (CapabilityRegistry and its routes), and the three sources that declare *)
(* what a subject may be granted: the extension registry, the bindings of  *)
(* ECX agents and the Flow's node registry.                                *)
(*                                                                         *)
(* The Hub is one process and its handlers are synchronous: between two    *)
(* writes of one handler there is only a crash.  A Transaction of SQLite   *)
(* is one step.  There is one subject of each kind, one workspace and one  *)
(* scope; requests over the autonomy ceiling are refused and left out.     *)
(***************************************************************************)
EXTENDS Naturals, Sequences

CONSTANTS Keys, Ops, Perms,
          None,
          ExtensionOps,   \* the operations of extension requests
          Mutations,      \* grant and revoke requests
          Definitions,    \* permissions of the core capability definitions
          Baseline,       \* those the migration grants the core subject
          Manifests,
          Declares,       \* the permissions a manifest declares
          RuntimePerms,   \* the permissions of an agent's target
          ReceivePerms,   \* those of agent.result.receive
          NodePerms,      \* those of node.execute
          MaxRank,        \* sensitivity ranks are 1..MaxRank
          MaxRevisions,   \* bound on the revisions of the extension
          MaxCrashes      \* bound on crashes of the Hub

Subjects == {"core", "extension", "agent", "node"}
Declarers == Subjects \ {"core"}
Targets == {"hosted", "local"}

MutationRecords ==
  [action : {"GRANT", "REVOKE"}, key : Keys, op : Ops, subject : Subjects,
   perms : SUBSET Perms, rank : 1..MaxRank]
Bindings == [target : Targets, enabled : BOOLEAN]

ASSUME Constants ==
  /\ MaxRank \in Nat /\ MaxRevisions \in Nat /\ MaxCrashes \in Nat
  /\ Mutations \subseteq MutationRecords /\ ExtensionOps \subseteq Ops
  /\ Definitions \subseteq Perms /\ Baseline \subseteq Definitions
  /\ Declares \in [Manifests -> SUBSET Perms]
  /\ RuntimePerms \in [Targets -> SUBSET Perms]
  /\ ReceivePerms \subseteq Perms /\ NodePerms \subseteq Perms
ASSUME FullRank == MaxRank > 0
ApprovalRows == [request : MutationRecords, status : {"PENDING", "APPROVE", "REFUSE"}]
ASSUME NoneIsNothing == None \notin MutationRecords \cup Bindings \cup ApprovalRows

VARIABLES
  up, crashes,         \* the Hub runs
  baseline, receive,   \* authority_meta: the two migrations that ran
  declared,   \* authority_declarations
  grants,     \* authority_grants: the rank of max_sensitivity, 0 without a row
  approval,   \* approvals: operation -> [request, status]
  recorded,   \* keys of authority_operations
  applied,    \* the mutation the running handler committed and has not recorded
  ext,        \* extension_installations; revision is an index of revisions
  revisions,  \* extension_revisions
  extRecorded,   \* keys of extension_operations
  binding,    \* ecx_agent_bindings
  syncing     \* the running handler wrote the binding and declares it next

meta == <<up, crashes, baseline, receive>>
extension == <<ext, revisions, extRecorded>>
agent == <<binding, syncing>>
mutation == <<approval, recorded, applied>>
vars == <<meta, declared, grants, mutation, extension, agent>>

\* A fresh database, or one of a Hub that knew no agent.result.receive yet.
Fresh == baseline = FALSE /\ binding = None
Legacy == baseline = TRUE /\ binding \in {None} \cup [target : Targets, enabled : {TRUE}]

Init ==
  /\ up = FALSE /\ crashes = 0 /\ receive = FALSE
  /\ Fresh \/ Legacy
  /\ declared = [s \in Subjects |->
       IF s = "agent" /\ binding # None THEN RuntimePerms[binding.target] ELSE {}]
  /\ grants = [s \in Subjects |-> [p \in Perms |-> 0]]
  /\ approval = [o \in Ops |-> None] /\ recorded = {} /\ applied = None
  /\ ext = [state |-> "ABSENT", revision |-> 0, health |-> "UNKNOWN"]
  /\ revisions = <<>> /\ extRecorded = {}
  /\ syncing = FALSE

-----------------------------------------------------------------------------
\* The constructor of the registry.  Each migration runs once, and INSERT OR
\* IGNORE keeps what is there.
Boot ==
  /\ ~up /\ up' = TRUE /\ baseline' = TRUE /\ receive' = TRUE
  /\ grants' = [grants EXCEPT !["core"] = [p \in Perms |->
       IF ~baseline /\ p \in Baseline /\ @[p] = 0 THEN MaxRank ELSE @[p]]]
  /\ declared' = [declared EXCEPT !["agent"] =
       IF ~receive /\ binding # None
         THEN IF binding.enabled THEN @ \cup ReceivePerms ELSE @
         ELSE @]
  /\ UNCHANGED <<crashes, mutation, extension, agent>>

Crash ==
  /\ up /\ crashes < MaxCrashes /\ up' = FALSE /\ crashes' = crashes + 1
  /\ applied' = None /\ syncing' = FALSE
  /\ UNCHANGED <<baseline, receive, declared, grants, approval, recorded, extension, binding>>

\* No handler is between two of its writes.
Free == up /\ applied = None /\ ~syncing

-----------------------------------------------------------------------------
\* authorizeMutation asks for the approval of the key, not of the request.
RowsOf(k) == {o \in Ops : approval[o] # None /\ approval[o].request.key = k}
Approved(k) == \E o \in RowsOf(k) : approval[o].status = "APPROVE"

\* POLICY_ADMIN always requires approval; an operation keeps the row it has.
AskApproval(m) ==
  /\ Free /\ RowsOf(m.key) = {} /\ approval[m.op] = None
  /\ approval' = [approval EXCEPT ![m.op] = [request |-> m, status |-> "PENDING"]]
  /\ UNCHANGED <<meta, declared, grants, recorded, applied, extension, agent>>

\* EDIT and REJECT refuse alike; a decided row is not decided again.
Decide(o, decision) ==
  /\ Free /\ approval[o] # None /\ approval[o].status = "PENDING"
  /\ approval' = [approval EXCEPT ![o].status = decision]
  /\ UNCHANGED <<meta, declared, grants, recorded, applied, extension, agent>>

\* requirementsFor
Requirements(s) == IF s = "core" THEN Definitions ELSE declared[s]

\* authorize: how sensitive data s may use p for.
Right(s, p) == IF p \in Requirements(s) THEN grants[s][p] ELSE 0

\* grant overwrites max_sensitivity, also downwards; revoke deletes.
Effect(m) ==
  [grants EXCEPT ![m.subject] = [p \in Perms |->
     IF p \notin m.perms THEN @[p] ELSE IF m.action = "GRANT" THEN m.rank ELSE 0]]

\* Mutant: a retried key executes again after its result was recorded.
ApplyMutationAgain(m) ==
  /\ Free /\ Approved(m.key)
  /\ m.action = "GRANT" => m.perms \subseteq Requirements(m.subject)
  /\ grants' = Effect(m) /\ applied' = m
  /\ UNCHANGED <<meta, declared, approval, recorded, extension, agent>>

\* mutate, up to the commit of the transaction it executes.  A recorded key
\* answers with its result or with a conflict, and changes nothing.
ApplyMutation(m) ==
  /\ Free /\ Approved(m.key) /\ m.key \notin recorded
  /\ m.action = "GRANT" => m.perms \subseteq Requirements(m.subject)
  /\ grants' = Effect(m) /\ applied' = m
  /\ UNCHANGED <<meta, declared, approval, recorded, extension, agent>>

\* The result is recorded by a statement of its own.
RecordMutation ==
  /\ up /\ applied # None
  /\ recorded' = recorded \cup {applied.key} /\ applied' = None
  /\ UNCHANGED <<meta, declared, grants, approval, extension, agent>>

-----------------------------------------------------------------------------
\* Mutant: the grants of permissions that are not declared any more stay.
RedeclareOnly(s, perms) ==
  /\ declared' = [declared EXCEPT ![s] = perms] /\ UNCHANGED grants

\* Every sync replaces the declarations of a subject and deletes the grants
\* that are not declared any more.
Redeclare(s, perms) ==
  /\ declared' = [declared EXCEPT ![s] = perms]
  /\ grants' = [grants EXCEPT ![s] = [p \in Perms |-> IF p \in perms THEN @[p] ELSE 0]]

SyncNode(present) ==
  /\ Free /\ Redeclare("node", IF present THEN NodePerms ELSE {})
  /\ UNCHANGED <<meta, mutation, extension, agent>>

\* agents.upsert commits alone; the declarations follow.
BindAgent(target, enabled) ==
  /\ Free /\ binding' = [target |-> target, enabled |-> enabled] /\ syncing' = TRUE
  /\ UNCHANGED <<meta, declared, grants, mutation, extension>>

AgentDeclares(b) ==
  IF b.enabled THEN RuntimePerms[b.target] \cup ReceivePerms ELSE {}

SyncAgent ==
  /\ up /\ syncing /\ syncing' = FALSE
  /\ Redeclare("agent", AgentDeclares(binding))
  /\ UNCHANGED <<meta, mutation, extension, binding>>

-----------------------------------------------------------------------------
\* authorize of the extension routes: REVERSIBLE_WRITE is allowed, but an
\* approval row under the key decides first.  Then mutate, one transaction
\* that includes the record of the key.
Admitted(k) == Free /\ (RowsOf(k) = {} \/ Approved(k)) /\ k \notin extRecorded

Installed == ext.state = "INSTALLED"
Current == revisions[ext.revision]

\* insertRevision: the id is a hash of the action, the operation, the manifest
\* and the source, so the same revision cannot be inserted twice.
NewRevision(action, o, manifest, source) ==
  LET r == [action |-> action, op |-> o, manifest |-> manifest, source |-> source]
  IN /\ Len(revisions) < MaxRevisions
     /\ \A i \in DOMAIN revisions : revisions[i] # r
     /\ revisions' = Append(revisions, r)
     /\ ext' = [state |-> "INSTALLED", revision |-> Len(revisions) + 1, health |-> "UNKNOWN"]

Commit(k) == extRecorded' = extRecorded \cup {k} /\ UNCHANGED <<meta, mutation, agent>>

Install(k, o, manifest) ==
  /\ Admitted(k) /\ ~Installed
  /\ NewRevision("INSTALL", o, manifest, 0)
  /\ Redeclare("extension", Declares[manifest]) /\ Commit(k)

Update(k, o, manifest) ==
  /\ Admitted(k) /\ Installed /\ Current.manifest # manifest
  /\ NewRevision("UPDATE", o, manifest, 0)
  /\ Redeclare("extension", Declares[manifest]) /\ Commit(k)

Rollback(k, o, target) ==
  /\ Admitted(k) /\ Installed
  /\ revisions[target].manifest # Current.manifest
  /\ NewRevision("ROLLBACK", o, revisions[target].manifest, target)
  /\ Redeclare("extension", Declares[revisions[target].manifest]) /\ Commit(k)

\* clearSubject deletes what Redeclare with nothing deletes.
Remove(k) ==
  /\ Admitted(k) /\ Installed
  /\ ext' = [ext EXCEPT !.state = "REMOVED", !.health = "UNKNOWN"]
  /\ Redeclare("extension", {}) /\ Commit(k) /\ UNCHANGED revisions

ReportHealth(k, status) ==
  /\ Admitted(k) /\ Installed
  /\ ext' = [ext EXCEPT !.health = status]
  /\ Commit(k) /\ UNCHANGED <<revisions, declared, grants>>

-----------------------------------------------------------------------------
MutationStep ==
  \/ \E m \in Mutations : AskApproval(m) \/ ApplyMutation(m)
  \/ \E o \in Ops, d \in {"APPROVE", "REFUSE"} : Decide(o, d)
  \/ RecordMutation

DeclarationStep ==
  \/ \E present \in BOOLEAN : SyncNode(present)
  \/ \E t \in Targets, enabled \in BOOLEAN : BindAgent(t, enabled)
  \/ SyncAgent

ExtensionStep == \E k \in Keys :
  \/ \E o \in ExtensionOps, manifest \in Manifests : Install(k, o, manifest) \/ Update(k, o, manifest)
  \/ \E o \in ExtensionOps : \E target \in DOMAIN revisions : Rollback(k, o, target)
  \/ Remove(k)
  \/ \E status \in {"HEALTHY", "UNHEALTHY"} : ReportHealth(k, status)

Next == Boot \/ Crash \/ MutationStep \/ DeclarationStep \/ ExtensionStep

Spec == Init /\ [][Next]_vars
-----------------------------------------------------------------------------
TypeOK ==
  /\ up \in BOOLEAN /\ baseline \in BOOLEAN /\ receive \in BOOLEAN /\ syncing \in BOOLEAN
  /\ crashes \in Nat
  /\ declared \in [Subjects -> SUBSET Perms]
  /\ grants \in [Subjects -> [Perms -> 0..MaxRank]]
  /\ approval \in [Ops -> {None} \cup
       [request : Mutations, status : {"PENDING", "APPROVE", "REFUSE"}]]
  /\ recorded \subseteq Keys /\ extRecorded \subseteq Keys
  /\ applied \in {None} \cup Mutations
  /\ binding \in {None} \cup Bindings
  /\ ext \in [state : {"ABSENT", "INSTALLED", "REMOVED"}, revision : Nat,
              health : {"UNKNOWN", "HEALTHY", "UNHEALTHY"}]
  /\ revisions \in Seq([action : {"INSTALL", "UPDATE", "ROLLBACK"}, op : Ops,
                        manifest : Manifests, source : Nat])
  /\ Installed => ext.revision \in DOMAIN revisions

\* What a subject holds, its current source declares: the manifest of the
\* installed revision, the enabled binding (unless a crash fell between the
\* binding and its declarations), the node registry; after a removal, nothing.
Held(s) == {p \in Perms : grants[s][p] > 0}

AuthorityInv ==
  /\ TypeOK
  /\ \A s \in Subjects : Held(s) \subseteq Requirements(s)
  /\ declared["extension"] = IF Installed THEN Declares[Current.manifest] ELSE {}
  /\ up /\ ~syncing /\ crashes = 0 =>
       declared["agent"] = IF binding = None THEN {} ELSE AgentDeclares(binding)

\* Rights widen only by the founding migration or by a mutation under an
\* approved key whose result is not recorded; updates, rollbacks,
\* reinstallations, new bindings and restarts never bring a right back.
Rights == INSTANCE RightsRegister WITH
  approved <- {k \in Keys : Approved(k)},
  settled <- recorded,
  founded <- baseline,
  rights <- [s \in Subjects |-> [p \in Perms |-> Right(s, p)]]

ImplementsRights == Rights!Spec

\* A mutation is applied only as it was approved: a non-approved grant or
\* revoke changes nothing, and a key used for another mutation is a conflict.
AppliedAsApproved ==
  [][\A m \in Mutations : applied = None /\ applied' = m =>
       \E o \in Ops : approval[o] = [request |-> m, status |-> "APPROVE"]]_vars
=============================================================================
