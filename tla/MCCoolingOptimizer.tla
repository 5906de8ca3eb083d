------------------------ MODULE MCCoolingOptimizer ------------------------
EXTENDS LegacyOptimizer, TLC

\* A has a chiller and two terminals with different setpoints, B a chiller and
\* a terminal, C a terminal.
Layout == 1 :> "A" @@ 2 :> "B" @@ 3 :> "A" @@ 4 :> "A" @@ 5 :> "B" @@ 6 :> "C"
Setpoints == 3 :> 4 @@ 4 :> 2 @@ 5 :> 4 @@ 6 :> 4
Capacities == 1 :> 2 @@ 2 :> 1
AllAreas == {"A", "B", "C"}
TwoChillers == {1, 2}
FourTerminals == {3, 4, 5, 6}

\* No heat and cool, some heat and warm, much heat and hot.
AnyReading == {[heat |-> -1, temp |-> 1], [heat |-> 1, temp |-> 5],
               [heat |-> 2, temp |-> 6]}
=============================================================================
