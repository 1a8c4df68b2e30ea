----------------------------- MODULE EffectOnce -----------------------------
(***************************************************************************)
(* What a durable idempotency store promises about a side effect outside   *)
(* the process (ADR-12, ADR-23 points 9-13): for every idempotency key the *)
(* effect happens at most once, only after the key has been claimed        *)
(* durably, and an outcome that is reported as recorded is the outcome the *)
(* effect really had.  Nothing here says how: no requests, no lock file,   *)
(* no approvals.  McpInvocation (Connect) and EcxExecution (Hub) implement *)
(* this module.                                                            *)
(***************************************************************************)
EXTENDS FiniteSets

CONSTANTS Keys,         \* idempotency keys
          Occurrences,  \* who performed the effect, with which outcome
          Outcome(_)    \* the outcome of an occurrence

VARIABLES phase,        \* what the store knows about a key
          effects,      \* the occurrences of the effect so far
          recorded      \* outcomes the store may report for a key

vars == <<phase, effects, recorded>>

Init ==
  /\ phase = [k \in Keys |-> "absent"]
  /\ effects = [k \in Keys |-> {}]
  /\ recorded = [k \in Keys |-> {}]

Claim(k) ==
  /\ phase[k] = "absent"
  /\ phase' = [phase EXCEPT ![k] = "claimed"]
  /\ UNCHANGED <<effects, recorded>>

\* The effect may come late: a claim whose caller has given up is not undone.
Occur(k) ==
  /\ phase[k] \in {"claimed", "unknown"}
  /\ effects[k] = {}
  /\ \E o \in Occurrences : effects' = [effects EXCEPT ![k] = {o}]
  /\ UNCHANGED <<phase, recorded>>

GiveUp(k) ==
  /\ phase[k] = "claimed"
  /\ phase' = [phase EXCEPT ![k] = "unknown"]
  /\ UNCHANGED <<effects, recorded>>

Record(k) ==
  /\ phase[k] \in {"claimed", "unknown"}
  /\ effects[k] # {}
  /\ phase' = [phase EXCEPT ![k] = "known"]
  /\ recorded' = [recorded EXCEPT ![k] = {Outcome(o) : o \in effects[k]}]
  /\ UNCHANGED effects

Next == \E k \in Keys : Claim(k) \/ Occur(k) \/ GiveUp(k) \/ Record(k)

Spec == Init /\ [][Next]_vars
=============================================================================
