---------------------------- MODULE LeasedEffect ----------------------------
(***************************************************************************)
(* What an execution service promises for an idempotency key: an effect is *)
(* begun only by the holder of the key's lease and only while no receipt   *)
(* exists, at most one per lease; a receipt is never replaced.  A crash    *)
(* loses the leases that were held, and nothing is begun under them again. *)
(***************************************************************************)
CONSTANTS Keys, Receipts, None

VARIABLES lease,     \* "free"; "held"; "begun": the holder began the effect; "lost"
          receipt    \* the receipt of a key

vars == <<lease, receipt>>

Init == lease = [k \in Keys |-> "free"] /\ receipt = [k \in Keys |-> None]

Move(k, from, to) == lease[k] = from /\ lease' = [lease EXCEPT ![k] = to]

Take(k) == Move(k, "free", "held") /\ UNCHANGED receipt
Begin(k) == receipt[k] = None /\ Move(k, "held", "begun") /\ UNCHANGED receipt
Record(k) ==
  /\ lease[k] = "begun" /\ receipt[k] = None /\ UNCHANGED lease
  /\ \E r \in Receipts : receipt' = [receipt EXCEPT ![k] = r]
Release(k) ==
  /\ lease[k] \in {"held", "begun"} /\ lease' = [lease EXCEPT ![k] = "free"] /\ UNCHANGED receipt

Crash ==
  /\ lease' = [k \in Keys |-> IF lease[k] = "free" THEN "free" ELSE "lost"]
  /\ UNCHANGED receipt

Next == Crash \/ \E k \in Keys : Take(k) \/ Begin(k) \/ Record(k) \/ Release(k)

Spec == Init /\ [][Next]_vars
=============================================================================
