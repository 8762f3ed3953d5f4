----------------------------- MODULE MCEntities -----------------------------
(* A device that broadcasts a temperature, which can be read as well, and  *)
(* has a heart rate with one or two RR intervals to read.                  *)
EXTENDS EntitiesProps

OneBroadcast == {"temperature"}
TwoReads     == <<"temperature", "heart_rate">>

HeartRate(n) == Struct({<<"rate", 1>>, <<"rr", n>>})

TheBodies == [temperature |-> {Scalar, Special},
              heart_rate  |-> {HeartRate(1), HeartRate(2)}]
=============================================================================
