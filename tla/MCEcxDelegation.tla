--------------------------- MODULE MCEcxDelegation ---------------------------
\* Small instances of EcxDelegation: a fan-out over two packets, and a full and
\* a delta round trip over a packet of their own.
EXTENDS EcxDelegation

FanoutPlan == [d \in {"f"} |-> {1, 2}]
FanoutMode == [d \in {"f"} |-> "fanout"]
AllPlan == [d \in {"f", "full", "delta"} |->
  CASE d = "f" -> {1, 2} [] d = "full" -> {3} [] d = "delta" -> {1}]
AllMode == [d \in {"f", "full", "delta"} |-> IF d = "f" THEN "fanout" ELSE d]
=============================================================================
