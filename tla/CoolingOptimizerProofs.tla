----------------------- MODULE CoolingOptimizerProofs -----------------------
(***************************************************************************)
(* Proofs about CoolingOptimizer, and about the package it replaced where  *)
(* LegacyOptimizer lets either run, for every set of areas, chillers,      *)
(* terminals and readings and every margin and capacity: its types, and    *)
(* that the greedy loop stays within the capacity, serves the hottest      *)
(* area first and leaves nothing idle.                                     *)
(*                                                                         *)
(* The three follow from Greedy, which speaks of the areas the loop has    *)
(* served so far: what is given and what remains make up the capacity, an  *)
(* area that is short has exhausted it, and the areas after it got         *)
(* nothing.                                                                *)
(***************************************************************************)
EXTENDS LegacyOptimizer, FiniteSetTheorems, TLAPS

\* There is a number of areas.
LEMMA AreasCounted == Cardinality(Areas) \in Nat
BY OptimizerAssumption, FS_CardinalityType

\* The sums of an area, its demand and its share are numbers.
LEMMA AreaTypes ==
    ASSUME TypeOK, NEW a \in Areas
    PROVE  /\ Count(a) \in Nat \ {0} /\ Above(a) \in Int
           /\ Demand(a) \in Nat /\ Share(a) \in Nat
           /\ Share(a) <= remaining /\ Share(a) <= Demand(a)
           /\ Share(a) < Demand(a) => Share(a) = remaining
<1>1. acc[a] \in Accums
  BY DEF TypeOK
<1>2. /\ acc[a].heat \in Nat /\ acc[a].setpoint \in Nat
      /\ acc[a].temp \in Nat /\ acc[a].count \in Nat
  BY <1>1 DEF Accums
<1>3. Count(a) \in Nat \ {0}
  BY <1>2 DEF Count
<1>4. Above(a) \in Int
  BY <1>2, <1>3 DEF Above
<1>5. Demand(a) \in Nat
  BY <1>2, OptimizerAssumption DEF Demand
<1>6. remaining \in Nat
  BY DEF TypeOK
<1>7. /\ Share(a) \in Nat /\ Share(a) <= remaining /\ Share(a) <= Demand(a)
      /\ Share(a) < Demand(a) => Share(a) = remaining
  <2> DEFINE demand == Demand(a)
  <2>1. demand \in Nat
    BY <1>5
  <2> HIDE DEF demand
  <2>2. Share(a) = IF remaining > 0
                   THEN IF demand <= remaining THEN demand ELSE remaining
                   ELSE 0
    BY DEF Share, demand
  <2>3. /\ Share(a) \in Nat /\ Share(a) <= remaining /\ Share(a) <= demand
        /\ Share(a) < demand => Share(a) = remaining
    BY <2>1, <2>2, <1>6
  <2> QED
    BY <2>3 DEF demand
<1> QED
  BY <1>3, <1>4, <1>5, <1>7

\* The type invariant holds at the start.
LEMMA OptimizerTypeInit == Init => TypeOK
<1> SUFFICES ASSUME Init PROVE TypeOK
  OBVIOUS
<1>1. NoAccum \in Accums
  BY DEF NoAccum, Accums
<1>2. acc \in [Areas -> Accums]
  BY <1>1 DEF Init
<1>3. 0 \in 0 .. OutCap /\ 0 \in 0 .. Cardinality(Areas)
  BY AreasCounted, OptimizerAssumption
<1>4. allocated \in [Areas -> Nat]
  BY DEF Init
<1> QED
  BY <1>2, <1>3, <1>4 DEF Init, TypeOK

\* A reading adds to the sums of its area.
LEMMA AddType ==
    ASSUME TypeOK, NEW a \in Areas, NEW d \in Terminals, NEW r \in Readings
    PROVE  Add(a, d, r) \in [Areas -> Accums]
<1>1. acc \in [Areas -> Accums] /\ acc[a] \in Accums
  BY DEF TypeOK
<1>2. /\ acc[a].heat \in Nat /\ acc[a].temp \in Nat /\ acc[a].count \in Nat
  BY <1>1 DEF Accums
<1>3. r.heat \in Int /\ r.temp \in Nat /\ SetpointTemp[d] \in Nat
  BY OptimizerAssumption
<1> DEFINE new == [heat     |-> acc[a].heat + (IF r.heat > 0 THEN r.heat ELSE 0),
                   setpoint |-> SetpointTemp[d],
                   temp     |-> acc[a].temp + r.temp,
                   count    |-> acc[a].count + 1]
<1>4. acc[a].heat + (IF r.heat > 0 THEN r.heat ELSE 0) \in Nat
  BY <1>2, <1>3
<1>5. new \in Accums
  BY <1>2, <1>3, <1>4 DEF Accums
<1>6. [acc EXCEPT ![a] = new] \in [Areas -> Accums]
  <2> HIDE DEF new
  <2> QED
    BY <1>1, <1>5
<1> QED
  BY <1>6 DEF Add

\* While the loops run, the areas are sorted.
Ordered == Allocating => order \in Sorted

\* A loop that goes on has an area to serve.
LEMMA NextArea ==
    ASSUME TypeOK, Ordered, Allocating, done < Cardinality(Areas)
    PROVE  done + 1 \in Ranks /\ order[done + 1] \in Areas
<1>1. done + 1 \in Ranks
  BY AreasCounted DEF TypeOK, Ranks
<1>2. order \in [Ranks -> Areas]
  BY DEF Ordered, Sorted
<1> QED
  BY <1>1, <1>2

\* Every step keeps the types.
LEMMA OptimizerTypeStep == TypeOK /\ Ordered /\ [Next]_vars => TypeOK'
<1> SUFFICES ASSUME TypeOK, Ordered, [Next]_vars PROVE TypeOK'
  OBVIOUS
<1>1. CASE StartRun
  <2>1. NoAccum \in Accums
    BY DEF NoAccum, Accums
  <2>2. acc' \in [Areas -> Accums] /\ allocated' \in [Areas -> Nat]
    BY <2>1, <1>1 DEF StartRun
  <2>3. done' \in 0 .. Cardinality(Areas)
    BY <1>1, AreasCounted DEF StartRun
  <2> QED
    BY <2>2, <2>3, <1>1 DEF StartRun, TypeOK
<1>2. ASSUME NEW d \in Chillers, ReadChiller(d) PROVE TypeOK'
  <2>1. available' \in Nat
    BY <1>2, OptimizerAssumption DEF ReadChiller, TypeOK
  <2> QED
    BY <2>1, <1>2 DEF ReadChiller, TypeOK, allocation
<1>3. ASSUME NEW d \in Terminals, ReadTerminal(d) PROVE TypeOK'
  <2>1. AreaOf[d] \in Areas
    BY OptimizerAssumption DEF Devices
  <2>2. acc' \in [Areas -> Accums]
    BY <2>1, <1>3, AddType DEF ReadTerminal, SkipUnread, TypeOK
  <2> QED
    BY <2>2, <1>3 DEF ReadTerminal, TypeOK, allocation
<1>4. CASE Sort
  <2>1. done' \in 0 .. Cardinality(Areas)
    BY <1>4, AreasCounted DEF Sort
  <2> QED
    BY <2>1, <1>4 DEF Sort, Sorted, TypeOK, accums
<1>5. CASE Allocate
  <2> DEFINE area == order[done + 1]
  <2>1. area \in Areas
    BY <1>5, NextArea DEF Allocate, Allocating
  <2>2. Share(area) \in Nat /\ Share(area) <= remaining
    BY <2>1, AreaTypes
  <2>3. /\ remaining' = remaining - Share(area)
        /\ totalCooling' = totalCooling + Share(area)
        /\ allocated' = [allocated EXCEPT ![area] = Share(area)]
    BY <1>5 DEF Allocate
  <2> HIDE DEF area
  <2>4. remaining' \in Nat /\ totalCooling' \in Nat
    BY <2>2, <2>3 DEF TypeOK
  <2>5. allocated' \in [Areas -> Nat]
    BY <2>2, <2>3 DEF TypeOK
  <2>6. done' \in 0 .. Cardinality(Areas)
    BY <1>5, AreasCounted DEF Allocate, TypeOK
  <2> QED
    BY <2>4, <2>5, <2>6, <1>5 DEF Allocate, TypeOK, accums
<1>6. CASE Suggest
  <2>1. Suggestions \subseteq [kind : {"overcooled", "undercooled"}, area : Areas]
    BY DEF Suggestions
  <2>2. done' \in 0 .. Cardinality(Areas)
    BY <1>6, AreasCounted DEF Suggest
  <2> QED
    BY <2>1, <2>2, <1>6 DEF Suggest, TypeOK, accums, allocation
<1>7. CASE InsertAllocation
  <2>1. order[done + 1] \in Areas
    BY <1>7, NextArea DEF InsertAllocation, Allocating
  <2>2. done' \in 0 .. Cardinality(Areas)
    BY <1>7, AreasCounted DEF InsertAllocation, TypeOK
  <2> QED
    BY <2>1, <2>2, <1>7 DEF InsertAllocation, TypeOK, accums, allocation
<1>8. CASE Publish
  <2>1. queued' \in 0 .. OutCap
    BY <1>8, OptimizerAssumption DEF Publish, HasRoom, TypeOK
  <2> QED
    BY <2>1, <1>8 DEF Publish, TypeOK, accums, allocation
<1>9. CASE Stop
  BY <1>9 DEF Stop, TypeOK, accums, allocation
<1>10. CASE Cancel
  BY <1>10 DEF Cancel, TypeOK, accums, allocation
<1>11. CASE Consume
  <2>1. queued' \in 0 .. OutCap
    BY <1>11, OptimizerAssumption DEF Consume, TypeOK
  <2> QED
    BY <2>1, <1>11 DEF Consume, TypeOK, accums, allocation
<1>12. CASE UNCHANGED vars
  BY <1>12 DEF vars, TypeOK, accums, allocation
<1> QED
  BY <1>1, <1>2, <1>3, <1>4, <1>5, <1>6, <1>7, <1>8, <1>9, <1>10, <1>11, <1>12
     DEF Next, Run

-----------------------------------------------------------------------------
(* The greedy loop.                                                        *)

Served == IF pc = "store" THEN Cardinality(Areas) ELSE done
Short(k) == allocated[order[k]] < Demand(order[k])

\* What the loop has done for the areas served so far.
Greedy ==
    Allocating =>
        /\ totalCooling + remaining = available
        /\ \A k \in 1 .. Served : Short(k) => remaining = 0
        /\ \A k, l \in 1 .. Served : k < l /\ Short(k) => allocated[order[l]] = 0

OptimizerInv == TypeOK /\ Ordered /\ Greedy

\* A step that does not touch the allocation, nor the sums it is made from,
\* keeps the order and the greedy invariant if it stays in its loop.
LEMMA LoopUntouched ==
    ASSUME Ordered, Greedy,
           UNCHANGED <<acc, available, order, remaining, totalCooling, allocated>>,
           Allocating' => Allocating, Served' = Served
    PROVE  Ordered' /\ Greedy'
BY DEF Ordered, Greedy, Short, Served, Sorted, Permutes, Hotter, Above, Count, Demand,
       Ranks

\* Every step keeps the inductive invariant.
LEMMA OptimizerStep == OptimizerInv /\ [Next]_vars => OptimizerInv'
<1> SUFFICES ASSUME OptimizerInv, [Next]_vars PROVE Ordered' /\ Greedy'
  BY OptimizerTypeStep DEF OptimizerInv
<1> USE DEF OptimizerInv
<1>1. CASE StartRun
  BY <1>1 DEF StartRun, Allocating, Ordered, Greedy
<1>2. ASSUME NEW d \in Chillers, ReadChiller(d) PROVE Ordered' /\ Greedy'
  BY <1>2 DEF ReadChiller, Allocating, Ordered, Greedy
<1>3. ASSUME NEW d \in Terminals, ReadTerminal(d) PROVE Ordered' /\ Greedy'
  BY <1>3 DEF ReadTerminal, Allocating, Ordered, Greedy
<1>4. CASE Sort
  <2>1. Ordered'
    BY <1>4 DEF Sort, Ordered, Sorted, Permutes, Hotter, Above, Count, Ranks, accums
  <2>2. /\ totalCooling' + remaining' = available'
        /\ 1 .. Served' = {}
    BY <1>4 DEF Sort, Served, TypeOK, accums
  <2> QED
    BY <2>1, <2>2 DEF Greedy
<1>5. CASE Allocate
  <2>1. Allocating /\ Served = done /\ Served' = done + 1 /\ done \in Nat
    BY <1>5 DEF Allocate, Served, Allocating, TypeOK
  <2>2. PICK n \in Ranks : n = done + 1 /\ order[n] \in Areas
    BY <1>5, <2>1, NextArea DEF Allocate
  <2>3. PICK area \in Areas : area = order[n]
    BY <2>2
  <2>4. /\ Share(area) \in Nat /\ Share(area) <= remaining
        /\ Share(area) < Demand(area) => Share(area) = remaining
    BY <2>3, AreaTypes
  <2>5. /\ remaining' = remaining - Share(area)
        /\ totalCooling' = totalCooling + Share(area)
        /\ allocated' = [allocated EXCEPT ![area] = Share(area)]
        /\ UNCHANGED <<acc, available, order>>
    BY <1>5, <2>2, <2>3 DEF Allocate, accums
  <2>6. Ordered'
    BY <1>5, <2>1, <2>5 DEF Allocate, Ordered, Sorted, Permutes, Hotter, Above, Count,
       Ranks, Allocating
  <2>7. order \in Sorted
    BY <2>1 DEF Ordered
  <2>8. ASSUME NEW k \in 1 .. done
        PROVE  /\ k \in Ranks /\ order[k] \in Areas /\ order[k] # area
               /\ allocated'[order[k]] = allocated[order[k]]
               /\ Short(k)' = Short(k)
    <3>1. k \in Ranks /\ k # n
      BY <2>1, <2>2, AreasCounted DEF Ranks
    <3>2. order[k] \in Areas /\ order[k] # area
      BY <2>3, <2>2, <2>7, <3>1 DEF Sorted, Permutes
    <3>3. allocated'[order[k]] = allocated[order[k]]
      BY <2>5, <3>2 DEF TypeOK
    <3>4. Demand(order[k])' = Demand(order[k])
      BY <2>5 DEF Demand
    <3> QED
      BY <2>5, <3>1, <3>2, <3>3, <3>4 DEF Short
  <2>9. /\ allocated'[area] = Share(area)
        /\ Short(n)' <=> Share(area) < Demand(area)
    <3>1. allocated'[area] = Share(area)
      BY <2>5 DEF TypeOK
    <3>2. Demand(area)' = Demand(area) /\ order'[n] = area
      BY <2>3, <2>5 DEF Demand
    <3> QED
      BY <3>1, <3>2, <2>5 DEF Short
  <2>10. (totalCooling + remaining = available)'
    <3>1. /\ totalCooling + remaining = available /\ available' = available
          /\ totalCooling \in Nat /\ remaining \in Nat
      BY <2>1, <2>5 DEF Greedy, TypeOK
    <3> HIDE DEF OptimizerInv
    <3> QED
      BY <2>4, <2>5, <3>1
  <2>11. remaining = 0 => Share(area) = 0 /\ remaining' = 0
    BY <2>4, <2>5
  <2>12. ASSUME NEW k \in 1 .. Served', Short(k)' PROVE remaining' = 0
    <3>1. CASE k \in 1 .. done
      BY <2>1, <2>8, <2>11, <2>12, <3>1 DEF Greedy
    <3>2. CASE k = n
      <4>1. Share(area) = remaining
        BY <2>4, <2>9, <2>12, <3>2
      <4>2. remaining \in Nat
        BY DEF TypeOK
      <4> QED
        BY <2>5, <4>1, <4>2
    <3> QED
      BY <2>1, <2>2, <3>1, <3>2
  <2>13. ASSUME NEW k \in 1 .. Served', NEW l \in 1 .. Served', k < l, Short(k)'
         PROVE  (allocated[order[l]] = 0)'
    <3>1. k \in 1 .. done /\ Short(k)
      BY <2>1, <2>2, <2>8, <2>13
    <3>2. CASE l \in 1 .. done
      BY <2>1, <2>5, <2>8, <2>13, <3>1, <3>2 DEF Greedy
    <3>3. CASE l = n
      BY <2>1, <2>3, <2>5, <2>9, <2>11, <3>1, <3>3 DEF Greedy
    <3> QED
      BY <2>1, <2>2, <3>2, <3>3
  <2> QED
    BY <2>6, <2>10, <2>12, <2>13 DEF Greedy
<1>6. CASE Suggest
  BY <1>6, LoopUntouched DEF Suggest, Served, Allocating, accums, allocation
<1>7. CASE InsertAllocation
  BY <1>7, LoopUntouched DEF InsertAllocation, Served, Allocating, accums, allocation
<1>8. CASE Publish
  BY <1>8 DEF Publish, Allocating, Ordered, Greedy
<1>9. CASE Stop
  BY <1>9 DEF Stop, Allocating, Ordered, Greedy
<1>10. CASE Cancel
  BY <1>10, LoopUntouched DEF Cancel, Served, Allocating, accums, allocation
<1>11. CASE Consume
  BY <1>11, LoopUntouched DEF Consume, Served, Allocating, accums, allocation
<1>12. CASE UNCHANGED vars
  BY <1>12, LoopUntouched DEF vars, Served, Allocating, accums, allocation
<1> QED
  BY <1>1, <1>2, <1>3, <1>4, <1>5, <1>6, <1>7, <1>8, <1>9, <1>10, <1>11, <1>12
     DEF Next, Run
-----------------------------------------------------------------------------
(* The theorems.                                                           *)

\* The inductive invariant holds in every state.
THEOREM OptimizerInvariant == Spec => []OptimizerInv
<1>1. Init => OptimizerInv
  BY OptimizerTypeInit DEF Init, OptimizerInv, Ordered, Greedy, Allocating
<1>2. OptimizerInv /\ [Next]_vars => OptimizerInv'
  BY OptimizerStep
<1> QED
  BY <1>1, <1>2, PTL DEF Spec

\* Types are kept, for every set of devices and readings.
THEOREM OptimizerTypeCorrect == Spec => []TypeOK
<1>1. OptimizerInv => TypeOK
  BY DEF OptimizerInv
<1> QED
  BY <1>1, OptimizerInvariant, PTL

\* The allocations and what remains always make up the chillers' capacity, and
\* nothing is given that is not there (optimizer.go:199-214).
THEOREM NeverOverCapacity == Spec => []WithinCapacity
<1>1. OptimizerInv => WithinCapacity
  BY DEF OptimizerInv, Greedy, WithinCapacity, TypeOK
<1> QED
  BY <1>1, OptimizerInvariant, PTL

\* What is short in the greedy loop has used up everything, and the cooler
\* areas come later.
LEMMA GreedyIsHottestFirst == OptimizerInv => HottestFirst
<1>1. ASSUME OptimizerInv, pc = "store", NEW a \in Areas, NEW b \in Areas,
             allocated[a] < Demand(a), Cooler(b, a)
      PROVE  allocated[b] = 0
  <2>1. order \in Sorted /\ Served = Cardinality(Areas)
    BY <1>1 DEF OptimizerInv, Ordered, Allocating, Served
  <2>2. PICK k \in Ranks : order[k] = a
    BY <2>1 DEF Sorted, Permutes
  <2>3. PICK l \in Ranks : order[l] = b
    BY <2>1 DEF Sorted, Permutes
  <2>4. Hotter(a, b) /\ ~Hotter(a, a)
    <3>1. /\ Above(a) \in Int /\ Above(b) \in Int
          /\ Count(a) \in Int /\ Count(b) \in Int
      BY <1>1, AreaTypes DEF OptimizerInv
    <3>2. Above(a) * Count(b) \in Int /\ Above(b) * Count(a) \in Int
          /\ Above(a) * Count(a) \in Int
      BY <3>1
    <3> QED
      BY <1>1, <3>2 DEF Cooler, Hotter
  <2>5. k < l
    <3>1. ~(l < k)
      BY <2>1, <2>2, <2>3, <2>4 DEF Sorted
    <3>2. a # b
      BY <2>4
    <3> QED
      BY <2>2, <2>3, <3>1, <3>2, AreasCounted DEF Ranks
  <2>6. k \in 1 .. Served /\ l \in 1 .. Served /\ Short(k)
    BY <1>1, <2>1, <2>2 DEF Ranks, Short
  <2> QED
    BY <1>1, <2>3, <2>5, <2>6 DEF OptimizerInv, Greedy, Allocating
<1>2. ASSUME OptimizerInv, pc = "store", NEW a \in Areas,
             allocated[a] < Demand(a)
      PROVE  totalCooling = available
  <2>1. order \in Sorted /\ Served = Cardinality(Areas)
    BY <1>2 DEF OptimizerInv, Ordered, Allocating, Served
  <2>2. PICK k \in Ranks : order[k] = a
    BY <2>1 DEF Sorted, Permutes
  <2>3. remaining = 0 /\ totalCooling + remaining = available
    BY <1>2, <2>1, <2>2 DEF OptimizerInv, Greedy, Allocating, Short, Ranks
  <2> QED
    BY <1>2, <2>3 DEF OptimizerInv, TypeOK
<1> QED
  BY <1>1, <1>2 DEF HottestFirst

\* An area that is short of its demand leaves nothing to a cooler one, and
\* there is nothing left (optimizer.go:193-223).
THEOREM GreedyAllocation == Spec => []HottestFirst
BY GreedyIsHottestFirst, OptimizerInvariant, PTL

-----------------------------------------------------------------------------
(* Areas without a reading.                                                *)

\* The sums of an area without a reading are all zero, and what is suggested
\* concerns areas with one.
Blank ==
    /\ \A a \in Areas : acc[a].count = 0 => acc[a] = NoAccum
    /\ pc = "read" => suggestions = {}
    /\ NoAdviceWithoutReading

\* The zeros of an area without a reading give no reason to a suggestion.
LEMMA NoReasonWithoutReading ==
    ASSUME TypeOK, Blank, NEW s \in Suggestions
    PROVE  acc[s.area].count > 0
<1>1. PICK a \in Areas :
         /\ a = s.area
         /\ \/ Above(a) < -(OvercoolDelta * Count(a))
            \/ Above(a) > UndercoolDelta * Count(a)
  BY DEF Suggestions
<1>2. acc[a].count \in Nat
  BY DEF TypeOK, Accums
<1>3. ASSUME acc[a].count = 0 PROVE FALSE
  <2>1. Count(a) = 1 /\ Above(a) = 0 - 0 * 1
    BY <1>3 DEF Blank, NoAccum, Above, Count
  <2> QED
    BY <1>1, <2>1, OptimizerAssumption
<1> QED
  BY <1>1, <1>2, <1>3

\* Every step keeps Blank.
LEMMA BlankStep == TypeOK /\ Blank /\ [Next]_vars => Blank'
<1> SUFFICES ASSUME TypeOK, Blank, [Next]_vars PROVE Blank'
  OBVIOUS
<1>1. CASE StartRun
  BY <1>1 DEF StartRun, Blank, NoAdviceWithoutReading
<1>2. ASSUME NEW d \in Chillers, ReadChiller(d) PROVE Blank'
  BY <1>2 DEF ReadChiller, Blank, NoAdviceWithoutReading
<1>3. ASSUME NEW d \in Terminals, ReadTerminal(d) PROVE Blank'
  <2>1. suggestions' = {} /\ pc' = pc
    BY <1>3 DEF ReadTerminal, Blank
  <2>2. CASE acc' = acc
    BY <2>1, <2>2 DEF Blank, NoAdviceWithoutReading
  <2>3. CASE \E r \in Readings : acc' = Add(AreaOf[d], d, r)
    <3>1. AreaOf[d] \in Areas
      BY OptimizerAssumption DEF Devices
    <3>2. acc[AreaOf[d]].count \in Nat
      BY <3>1 DEF TypeOK, Accums
    <3>3. \A a \in Areas :
            acc'[a] = acc[a] \/ acc'[a].count = acc[AreaOf[d]].count + 1
      BY <2>3, <3>1 DEF Add, TypeOK
    <3> QED
      BY <2>1, <3>2, <3>3 DEF Blank, NoAdviceWithoutReading
  <2> QED
    BY <1>3, <2>2, <2>3 DEF ReadTerminal, SkipUnread
<1>4. CASE Sort
  BY <1>4 DEF Sort, Blank, NoAdviceWithoutReading, accums
<1>5. CASE Allocate
  BY <1>5 DEF Allocate, Blank, NoAdviceWithoutReading, accums
<1>6. CASE Suggest
  <2>1. acc' = acc /\ pc' = "store" /\ suggestions' = Suggestions
    BY <1>6 DEF Suggest, accums
  <2> QED
    BY <2>1, NoReasonWithoutReading DEF Blank, NoAdviceWithoutReading
<1>7. CASE InsertAllocation
  BY <1>7 DEF InsertAllocation, Blank, NoAdviceWithoutReading, accums
<1>8. CASE Publish
  BY <1>8 DEF Publish, Blank, NoAdviceWithoutReading, accums
<1>9. CASE Stop
  BY <1>9 DEF Stop, Blank, NoAdviceWithoutReading, accums
<1>10. CASE Cancel
  BY <1>10 DEF Cancel, Blank, NoAdviceWithoutReading, accums
<1>11. CASE Consume
  BY <1>11 DEF Consume, Blank, NoAdviceWithoutReading, accums
<1>12. CASE UNCHANGED vars
  BY <1>12 DEF vars, Blank, NoAdviceWithoutReading, accums
<1> QED
  BY <1>1, <1>2, <1>3, <1>4, <1>5, <1>6, <1>7, <1>8, <1>9, <1>10, <1>11, <1>12
     DEF Next, Run

\* An area without a reading is never called too cold or too warm
\* (optimizer.go:159-189, 226-233).
THEOREM SilentWithoutReading == Spec => []NoAdviceWithoutReading
<1>1. Init => Blank
  BY DEF Init, Blank, NoAdviceWithoutReading
<1>2. TypeOK /\ Blank /\ [Next]_vars => Blank'
  BY BlankStep
<1>3. Blank => NoAdviceWithoutReading
  BY DEF Blank
<1> QED
  BY <1>1, <1>2, <1>3, OptimizerTypeCorrect, PTL DEF Spec

-----------------------------------------------------------------------------
(* The package that cooling_optimizer replaced.                            *)

\* Returning the result to the loop changes the phase alone.
LEMMA StoreAndReturnStep ==
    ASSUME OptimizerInv, Blank, StoreAndReturn
    PROVE  OptimizerInv' /\ Blank'
<1>1. /\ pc' = "select"
      /\ UNCHANGED <<ctxDone, accums, allocation, done, suggestions, stored, queued>>
  BY DEF StoreAndReturn
<1>2. TypeOK'
  BY <1>1 DEF OptimizerInv, TypeOK, accums, allocation
<1>3. Ordered' /\ Greedy'
  BY <1>1 DEF Ordered, Greedy, Allocating
<1>4. Blank'
  BY <1>1 DEF Blank, NoAdviceWithoutReading, accums
<1> QED
  BY <1>2, <1>3, <1>4 DEF OptimizerInv

\* Its other steps are those of the package that replaced it.
LEMMA EitherStep ==
    OptimizerInv /\ Blank /\ [EitherNext]_allVars => OptimizerInv' /\ Blank'
<1>1. EitherNext => Next \/ StoreAndReturn
  BY DEF EitherNext, LegacyNext, Optimize, ReadHistories, Next, Run
<1>2. UNCHANGED allVars => UNCHANGED vars
  BY DEF allVars
<1>3. OptimizerInv => TypeOK
  BY DEF OptimizerInv
<1> QED
  BY <1>1, <1>2, <1>3, OptimizerStep, BlankStep, StoreAndReturnStep

\* Whichever of the two packages runs, and for every margin of the new one, the
\* types are kept, the allocation stays within the capacity and serves the
\* hottest area first, and no area without a reading is called too cold or too
\* warm (internal/optimizer/optimizer.go).
THEOREM EitherAllocatesAlike ==
    EitherSpec => [](/\ TypeOK /\ WithinCapacity
                     /\ HottestFirst /\ NoAdviceWithoutReading)
<1>1. EitherInit => OptimizerInv /\ Blank
  <2>1. Init => OptimizerInv
    BY OptimizerTypeInit DEF Init, OptimizerInv, Ordered, Greedy, Allocating
  <2>2. Init => Blank
    BY DEF Init, Blank, NoAdviceWithoutReading
  <2> QED
    BY <2>1, <2>2 DEF EitherInit
<1>2. OptimizerInv /\ Blank
          => TypeOK /\ WithinCapacity /\ HottestFirst /\ NoAdviceWithoutReading
  <2>1. OptimizerInv => TypeOK /\ WithinCapacity
    BY DEF OptimizerInv, Greedy, WithinCapacity, TypeOK
  <2> QED
    BY <2>1, GreedyIsHottestFirst DEF Blank
<1> QED
  BY <1>1, <1>2, EitherStep, PTL DEF EitherSpec
=============================================================================
