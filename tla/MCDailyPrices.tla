--------------------------- MODULE MCDailyPrices ---------------------------
(* Six batches of two symbols over three trade days, with the releases of  *)
(* one bar out of order, a batch that begins before the others, and two    *)
(* readings of one artifact.                                               *)
EXTENDS DailyPrices, TLC

CONSTANTS base, correction, late, backfill, renormalized, other

MCBatch == {base, correction, late, backfill, renormalized, other}
At(price, available) == [price |-> price, available |-> available]

MCRows ==
  base         :> (<<"SPY", 2>> :> At("p", OnDay(3)) @@ <<"GSPC", 2>> :> At("p", OnDay(3))) @@
  correction   :> (<<"SPY", 2>> :> At("q", AtInstant(4, 41))) @@
  late         :> (<<"SPY", 2>> :> At("p", OnDay(3)) @@ <<"SPY", 3>> :> At("p", OnDay(4))) @@
  backfill     :> (<<"SPY", 1>> :> At("p", OnDay(2)) @@ <<"SPY", 2>> :> At("q", OnDay(4))) @@
  renormalized :> (<<"SPY", 2>> :> At("r", OnDay(3)) @@ <<"GSPC", 2>> :> At("p", OnDay(3))) @@
  other        :> (<<"GSPC", 2>> :> At("q", AtInstant(5, 39)) @@ <<"GSPC", 3>> :> At("q", AtInstant(4, 42)))

MCArtifact == [b \in MCBatch |-> IF b = renormalized THEN base ELSE b]

(* Dates, and instants written on the day of the instant, a day later and  *)
(* a day earlier.                                                          *)
MCAsked ==
  {OnDay(d) : d \in 1 .. 5} \cup
  {AtInstant(3, 39), AtInstant(4, 39), AtInstant(4, 41), AtInstant(5, 41), AtInstant(3, 42)}
=============================================================================
