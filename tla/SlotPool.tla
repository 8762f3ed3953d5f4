------------------------------ MODULE SlotPool ------------------------------
(***************************************************************************)
(* What the manager's asyncio.Semaphore promises the jobs that use it: a   *)
(* fixed number of BLE connections, a line served first come first served  *)
(* that nobody overtakes, and the right to give up the place in line.      *)
(***************************************************************************)
EXTENDS Integers, FiniteSets

CONSTANTS Jobs, Capacity

VARIABLES
  line,      \* <<i, j>> if i and j wait and i came no later than j
  holders    \* the jobs that own a slot

poolVars == <<line, holders>>

PoolInit == line = {} /\ holders = {}

InLine == {p[1] : p \in line}
LineWithout(S) == {p \in line : p[1] \notin S /\ p[2] \notin S}

(* Nobody outside G came before one of G.                                  *)
AtFront(G) == \A j \in G, i \in InLine : <<i, j>> \in line => i \in G

(* Job j asks for a slot and the jobs in S give up their places.           *)
Request(j, S) ==
  /\ j \notin InLine \cup holders
  /\ \/ /\ line' = LineWithout(S) \cup (((InLine \ S) \cup {j}) \X {j})
        /\ UNCHANGED holders
     \/ /\ InLine \subseteq S /\ Cardinality(holders) < Capacity
        /\ holders' = holders \cup {j} /\ line' = {}

Withdraw(S) == line' = LineWithout(S) /\ UNCHANGED holders

(* The jobs of R give their slots back, those of G at the front get one.   *)
Serve(R, G) ==
  /\ AtFront(G) /\ line' = LineWithout(G)
  /\ holders' = (holders \ R) \cup G
  /\ Cardinality(holders') <= Capacity

Release(j) == j \in holders /\ \E G \in SUBSET InLine : Serve({j}, G)
Grant      == \E G \in (SUBSET InLine) \ {{}} : Serve({}, G)

PoolNext ==
  \/ \E j \in Jobs : Release(j)
  \/ Grant
  \/ \E S \in SUBSET InLine : Withdraw(S) \/ \E j \in Jobs : Request(j, S)

PoolSpec == PoolInit /\ [][PoolNext]_poolVars

=============================================================================
