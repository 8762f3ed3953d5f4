------------------------------ MODULE MCLinks ------------------------------
(* Bounds and symmetry for the runs of the BLE links.                      *)
EXTENDS LinksProps, TLC

CONSTANT Polled

(* All polls are polls of one device.                                      *)
OneDevicePolled == [p \in Polls |-> Polled]

Symmetry == Permutations(Polls)

(* A third job comes while the others hold the slots only when at most one *)
(* job is on the air and one link is standing, before async_stop.          *)
ThirdWhileCalm ==
  (\A j \in Jobs : pc[j] # "idle") =>
    /\ phase = "running" /\ waiters # <<>> /\ Cardinality(Standing) =< 1
    /\ Cardinality({j \in Jobs : stage[j] # "none"}) =< 1
=============================================================================
