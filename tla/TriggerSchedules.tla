-------------------------- MODULE TriggerSchedules --------------------------
(***************************************************************************)
(* Time triggers of the Flow: the routes that create, update, enable and   *)
(* disable a trigger, the revision that guards its row, the Temporal       *)
(* schedule every edit reconciles after its commit, the reconciliation at  *)
(* boot, and the occurrences a schedule starts.                            *)
(*                                                                         *)
(* The Flow is one process; a handler is split at its awaits.  A content   *)
(* stands for all a PATCH sets besides enabled: the pinned version of the  *)
(* Flow, and the cron expression with its policies.                        *)
(***************************************************************************)
EXTENDS Naturals

CONSTANTS Triggers,
          Edits,         \* edits under way at once
          Contents, None,
          MaxFailures,   \* bound on calls of Temporal that fail or are lost
          MaxCrashes, MaxOccurrences,
          MaxRevision    \* bound on the edits of one trigger

ASSUME Bounds ==
  MaxFailures \in Nat /\ MaxCrashes \in Nat /\ MaxOccurrences \in Nat /\ MaxRevision \in Nat \ {0}

Rows == [revision : Nat \ {0}, content : Contents, enabled : BOOLEAN]
Schedules == [plan : Contents, config : Contents, paused : BOOLEAN]
Requests ==
  [kind : {"create"}, trigger : Triggers, content : Contents, enabled : BOOLEAN]
    \cup [kind : {"update"}, trigger : Triggers, expected : Nat, content : Contents, enabled : BOOLEAN]
    \cup [kind : {"switch"}, trigger : Triggers, expected : Nat, enabled : BOOLEAN]

ASSUME NoneIsNothing == None \notin Rows \cup Schedules \cup Requests

Reconciling == {"describe", "write"}
PCs == {"idle", "authorize"} \cup Reconciling

VARIABLES
  trigger,    \* the table triggers
  schedule,   \* the schedules at Temporal
  request, pc,   \* an edit
  plan,       \* the content whose plan the handler has pinned
  target,     \* the schedule it reconciles to
  found,      \* describe found a schedule
  late,       \* updates Temporal may still apply, after the caller gave up
  up, unsynced,   \* the service listens; triggers its boot has yet to reconcile
  occurrence,     \* what the schedules started
  failures, crashes,
  given,      \* every definition a trigger was given (history)
  failed,     \* since the last sync, a reconciliation of the trigger failed, (history)
  raced       \* or two of them overlapped (history)

edits == <<request, pc, plan, target, found>>
bounds == <<failures, crashes>>
history == <<given, failed, raced>>
vars == <<trigger, schedule, edits, late, up, unsynced, occurrence, bounds, history>>

Idle == [pc |-> [e \in Edits |-> "idle"], local |-> [e \in Edits |-> None],
         found |-> [e \in Edits |-> FALSE]]

Init ==
  /\ trigger = [t \in Triggers |-> None] /\ schedule = [t \in Triggers |-> None]
  /\ pc = Idle.pc /\ request = Idle.local /\ plan = Idle.local /\ target = Idle.local
  /\ found = Idle.found
  /\ late = {} /\ up = TRUE /\ unsynced = {} /\ occurrence = {}
  /\ failures = 0 /\ crashes = 0
  /\ given = [t \in Triggers |-> {}] /\ failed = {} /\ raced = {}

-----------------------------------------------------------------------------
Goto(e, step) == pc' = [pc EXCEPT ![e] = step]
Answer(e) ==
  /\ Goto(e, "idle") /\ found' = [found EXCEPT ![e] = FALSE]
  /\ request' = [request EXCEPT ![e] = None] /\ plan' = [plan EXCEPT ![e] = None]
  /\ target' = [target EXCEPT ![e] = None]
Of(e) == request[e].trigger

\* triggerScheduleOptions: the action from the plan, the rest from the row.
Options(pinned, row) == [plan |-> pinned, config |-> row.content, paused |-> ~row.enabled]

\* setEnabled reads the trigger and pins the plan of what it read; create and
\* update pin the plan of the body.
Begin(e, q) ==
  /\ up /\ pc[e] = "idle"
  /\ q.kind # "create" => trigger[q.trigger].revision < MaxRevision
  /\ q.kind = "create" => \A d \in Edits : request[d] # None => Of(d) # q.trigger
  /\ request' = [request EXCEPT ![e] = q]
  /\ plan' = [plan EXCEPT ![e] = IF q.kind = "switch" THEN trigger[q.trigger].content ELSE q.content]
  /\ Goto(e, "authorize")
  /\ UNCHANGED <<trigger, schedule, target, found, late, up, unsynced, occurrence, bounds, history>>

\* validateAuthority and evaluateTriggerPolicy at the Hub.
Refuse(e) ==
  /\ pc[e] = "authorize" /\ Answer(e)
  /\ UNCHANGED <<trigger, schedule, late, up, unsynced, occurrence, bounds, history>>

Edited(q, row) ==
  CASE q.kind = "create" -> [revision |-> 1, content |-> q.content, enabled |-> q.enabled]
    [] q.kind = "update" -> [revision |-> row.revision + 1, content |-> q.content, enabled |-> q.enabled]
    [] q.kind = "switch" -> [row EXCEPT !.revision = @ + 1, !.enabled = q.enabled]

\* Mutant: the revision is looked at on update only.
CurrentUpdates(q) == q.kind = "update" => trigger[q.trigger].revision = q.expected

\* A create has an id of its own; an edit needs the revision it names.
Current(q) == q.kind # "create" => trigger[q.trigger].revision = q.expected

ReconcilingOf(t) == {e \in Edits : pc[e] \in Reconciling /\ Of(e) = t}

Commit(e) == LET q == request[e] IN
  /\ pc[e] = "authorize"
  /\ IF Current(q)
       THEN LET row == Edited(q, trigger[q.trigger]) IN
            /\ trigger' = [trigger EXCEPT ![q.trigger] = row]
            /\ target' = [target EXCEPT ![e] = Options(plan[e], row)]
            /\ given' = [given EXCEPT ![q.trigger] = @ \cup {Options(row.content, row)}]
            /\ raced' = raced \cup {t \in {q.trigger} : ReconcilingOf(t) # {}}
            /\ Goto(e, "describe") /\ UNCHANGED <<request, plan, found, failed>>
       ELSE Answer(e) /\ UNCHANGED <<trigger, history>>
  /\ UNCHANGED <<schedule, late, up, unsynced, occurrence, bounds>>

\* reconcileTimeTriggerSchedule: describe, then update or create.
Describe(e) ==
  /\ pc[e] = "describe" /\ Goto(e, "write")
  /\ found' = [found EXCEPT ![e] = schedule[Of(e)] # None]
  /\ UNCHANGED <<trigger, schedule, request, plan, target, late, up, unsynced, occurrence, bounds, history>>

\* create fails when the schedule is there already; update replaces it.
Writable(e) == found[e] \/ schedule[Of(e)] = None

\* Mutant: the update replaces action and timing and leaves the state.
WriteUnpaused(e) ==
  /\ pc[e] = "write" /\ Writable(e) /\ Answer(e)
  /\ schedule' = [schedule EXCEPT ![Of(e)] =
                    IF @ = None THEN target[e] ELSE [target[e] EXCEPT !.paused = schedule[Of(e)].paused]]
  /\ UNCHANGED <<trigger, late, up, unsynced, occurrence, bounds, history>>

Write(e) ==
  /\ pc[e] = "write" /\ Writable(e) /\ Answer(e)
  /\ schedule' = [schedule EXCEPT ![Of(e)] = target[e]]
  /\ UNCHANGED <<trigger, late, up, unsynced, occurrence, bounds, history>>

Sent(e) == <<Of(e), target[e], found[e]>>

\* Temporal fails, refuses a second create, or takes a write it never answers.
\* The row stays committed.
WriteFails(e) ==
  /\ pc[e] \in Reconciling /\ Answer(e)
  /\ failed' = failed \cup {Of(e)}
  /\ \/ pc[e] = "write" /\ ~Writable(e) /\ UNCHANGED <<failures, late>>
     \/ /\ failures < MaxFailures /\ failures' = failures + 1
        /\ late' \in {late, late \cup (IF pc[e] = "write" THEN {Sent(e)} ELSE {})}
  /\ UNCHANGED <<trigger, schedule, up, unsynced, occurrence, crashes, given, raced>>

LateWrite(w) ==
  /\ w \in late /\ late' = late \ {w}
  /\ schedule' = [schedule EXCEPT ![w[1]] = IF w[3] \/ @ = None THEN w[2] ELSE @]
  /\ failed' = failed \cup {w[1]}
  /\ UNCHANGED <<trigger, edits, up, unsynced, occurrence, bounds, given, raced>>

-----------------------------------------------------------------------------
\* Writes under way when the process dies may still arrive.
Crash ==
  /\ crashes < MaxCrashes /\ crashes' = crashes + 1 /\ up' = FALSE /\ unsynced' = Triggers
  /\ pc' = Idle.pc /\ request' = Idle.local /\ plan' = Idle.local /\ target' = Idle.local
  /\ found' = Idle.found
  /\ late' \in {late, late \cup {Sent(e) : e \in {d \in Edits : pc[d] = "write"}}}
  /\ UNCHANGED <<trigger, schedule, occurrence, failures, history>>

\* Mutant: the boot reconciles the enabled triggers.
SyncEnabled(t) ==
  /\ ~up /\ t \in unsynced
  /\ unsynced' = unsynced \ {t} /\ UNCHANGED failures
  /\ IF trigger[t] # None /\ (trigger[t] # None => trigger[t].enabled)
       THEN /\ schedule' = [schedule EXCEPT ![t] = Options(trigger[t].content, trigger[t])]
            /\ failed' = failed \ {t} /\ raced' = raced \ {t}
       ELSE UNCHANGED <<schedule, failed, raced>>
  /\ UNCHANGED <<trigger, edits, late, up, occurrence, crashes, given>>

\* reconcilePersistedTimeTriggers, before the service listens.  An error ends
\* the process, and the next boot begins anew.
Sync(t) ==
  /\ ~up /\ t \in unsynced
  /\ \/ /\ unsynced' = unsynced \ {t} /\ UNCHANGED failures
        /\ trigger[t] = None => UNCHANGED <<schedule, failed, raced>>
        /\ trigger[t] # None =>
             /\ schedule' = [schedule EXCEPT ![t] = Options(trigger[t].content, trigger[t])]
             /\ failed' = failed \ {t} /\ raced' = raced \ {t}
     \/ /\ failures < MaxFailures /\ failures' = failures + 1 /\ unsynced' = Triggers
        /\ UNCHANGED <<schedule, failed, raced>>
  /\ UNCHANGED <<trigger, edits, late, up, occurrence, crashes, given>>

Listen ==
  /\ ~up /\ unsynced = {} /\ up' = TRUE
  /\ UNCHANGED <<trigger, schedule, edits, late, unsynced, occurrence, bounds, history>>

-----------------------------------------------------------------------------
\* scheduledTriggerWorkflow: it carries the action it was started with, asks
\* the Hub about it and runs the graph as its child.
Occurrences == [trigger : Triggers, as : Schedules, number : Nat, step : {"authorize", "run", "ended"}]

Fire(t) ==
  /\ schedule[t] # None /\ \A o \in occurrence : o.trigger = t => o.step = "ended"
  /\ ~schedule[t].paused
  /\ \E n \in 1..MaxOccurrences :
       /\ \A o \in occurrence : o.number < n
       /\ occurrence' = occurrence \cup
            {[trigger |-> t, as |-> schedule[t], number |-> n, step |-> "authorize"]}
  /\ UNCHANGED <<trigger, schedule, edits, late, up, unsynced, bounds, history>>

Proceed(o) ==
  /\ o \in occurrence /\ o.step # "ended"
  /\ \E step \in IF o.step = "authorize" THEN {"run", "ended"} ELSE {"ended"} :
       occurrence' = (occurrence \ {o}) \cup {[o EXCEPT !.step = step]}
  /\ UNCHANGED <<trigger, schedule, edits, late, up, unsynced, bounds, history>>

EditStep(e) == Commit(e) \/ Describe(e) \/ Write(e) \/ WriteFails(e)

\* A client names a revision it was told, so not one ahead of the table's.
EditRequests(t) ==
  IF trigger[t] = None
    THEN [kind : {"create"}, trigger : {t}, content : Contents, enabled : BOOLEAN]
    ELSE LET told == 1..trigger[t].revision
         IN [kind : {"update"}, trigger : {t}, expected : told, content : Contents, enabled : BOOLEAN]
              \cup [kind : {"switch"}, trigger : {t}, expected : told, enabled : BOOLEAN]

Next ==
  \/ \E e \in Edits : EditStep(e) \/ Refuse(e)
  \/ \E t \in Triggers :
       Sync(t) \/ Fire(t) \/ \E e \in Edits, q \in EditRequests(t) : Begin(e, q)
  \/ \E w \in late : LateWrite(w)
  \/ \E o \in occurrence : Proceed(o)
  \/ Listen \/ Crash

\* A crashed Flow is started again by its supervisor.
Spec == Init /\ [][Next]_vars /\ WF_vars(Listen) /\ \A t \in Triggers : WF_vars(Sync(t))

-----------------------------------------------------------------------------
TypeOK ==
  /\ trigger \in [Triggers -> Rows \cup {None}]
  /\ schedule \in [Triggers -> Schedules \cup {None}]
  /\ request \in [Edits -> Requests \cup {None}] /\ pc \in [Edits -> PCs]
  /\ plan \in [Edits -> Contents \cup {None}] /\ target \in [Edits -> Schedules \cup {None}]
  /\ found \in [Edits -> BOOLEAN] /\ late \subseteq Triggers \X Schedules \X BOOLEAN
  /\ up \in BOOLEAN /\ unsynced \subseteq Triggers /\ occurrence \subseteq Occurrences
  /\ failures \in Nat /\ crashes \in Nat
  /\ given \in [Triggers -> SUBSET Schedules] /\ failed \subseteq Triggers /\ raced \subseteq Triggers

\* Whatever the order of edits, failures and restarts, a schedule is the whole
\* of one definition its trigger was given, never a plan of one and a timing
\* of another, and what it started ran an enabled definition.
DefinitionScheduled ==
  /\ TypeOK
  /\ \A t \in Triggers : schedule[t] # None => schedule[t] \in given[t]
  /\ \A o \in occurrence : o.as \in given[o.trigger] /\ ~o.as.paused

Agrees(t) == trigger[t] # None => schedule[t] = Options(trigger[t].content, trigger[t])
Quiet(t) == up /\ ReconcilingOf(t) = {} /\ \A w \in late : w[1] # t

\* A schedule agrees with its trigger when no edit is under way, unless since
\* the last restart a reconciliation failed or two of them overlapped.
SettledAgrees == \A t \in Triggers : Quiet(t) /\ t \notin failed \cup raced => Agrees(t)

\* A restart repairs what edits left behind, disabled triggers included: each
\* trigger agrees with its schedule at some point after the boot began.
RestartRepairs == \A t \in Triggers : t \in unsynced ~> Agrees(t)

\* ADR 0036: a disabled trigger must not dispatch.  Its schedule is paused once
\* no edit of it is under way, every one of them answered with success.
DisabledIsPaused ==
  \A t \in Triggers :
    schedule[t] # None /\ (trigger[t] # None => ~trigger[t].enabled) /\ Quiet(t) /\ t \notin failed
      => schedule[t].paused
=============================================================================
