---------------------------- MODULE MCDiscovery ----------------------------
(* Bounds and symmetry for the runs of discovery.                          *)
EXTENDS DiscoveryProps, TLC

CONSTANT Polled

(* All polls are polls of one device.                                      *)
OneDevicePolled == [p \in Polls |-> Polled]

(* No device has two.                                                      *)
OnePollEach == CHOOSE f \in [Polls -> Addrs] : IsInjective(f)

TaskSymmetry == Permutations(Probes) \cup Permutations(Polls)
AddrSymmetry == Permutations(Addrs)

AnyKind         == [a \in Addrs |-> Kinds]
ConnectableOnly == [a \in Addrs |-> {"connectable"}]

NoneConfirmed == confirmed = {}
=============================================================================
