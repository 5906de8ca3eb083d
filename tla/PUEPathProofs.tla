--------------------------- MODULE PUEPathProofs ---------------------------
(***************************************************************************)
(* The calculator for every number of devices, every power and every       *)
(* capacity: types and capacity are kept, and the power of a PUE is what   *)
(* the cache amounted to at one moment, although the sum is taken device   *)
(* by device while readings arrive.                                        *)
(*                                                                         *)
(* The loop visits the devices in the order of their numbers, CachedPower  *)
(* folds them in the order of CHOOSE.  That both give the same is an       *)
(* induction over the sets of devices, which the first part prepares.      *)
(***************************************************************************)
EXTENDS PUEPath, FiniteSetTheorems, WellFoundedInduction, TLAPS

-----------------------------------------------------------------------------
(* Induction over the naturals, from their well-foundedness.               *)

\* The naturals are well-founded.
LEMMA LessIsWellFounded == IsWellFoundedOn({p \in Nat \X Nat : p[1] < p[2]}, Nat)
BY NatLessThanWellFounded DEF OpToRel

\* Some naturals have a least among them.
LEMMA LeastNatural ==
    ASSUME NEW T, T \subseteq Nat, T # {}
    PROVE  \E m \in T : \A k \in T : m <= k
<1> DEFINE R == {p \in Nat \X Nat : p[1] < p[2]}
<1>1. \A k \in Nat, m \in Nat : <<k, m>> \in R <=> k < m
  OBVIOUS
<1>2. IsWellFoundedOn(R, Nat)
  BY LessIsWellFounded
<1> HIDE DEF R
<1>3. PICK m \in T : \A k \in T : ~(<<k, m>> \in R)
  BY <1>2, WFMin
<1>4. m \in Nat /\ \A k \in T : k \in Nat /\ ~(k < m)
  BY <1>1, <1>3
<1> QED
  BY <1>4

\* A set with 0 and every successor of a member holds all naturals.
LEMMA NaturalsBySteps ==
    ASSUME NEW S, 0 \in S, \A n \in Nat : n \in S => n + 1 \in S
    PROVE  \A n \in Nat : n \in S
<1> SUFFICES ASSUME Nat \ S # {} PROVE FALSE
  OBVIOUS
<1>1. PICK m \in Nat \ S : \A k \in Nat \ S : m <= k
  BY LeastNatural
<1>2. m # 0 /\ m - 1 \in Nat /\ (m - 1) + 1 = m /\ ~(m <= m - 1)
  BY <1>1
<1>3. m - 1 \in S
  BY <1>1, <1>2
<1> QED
  BY <1>1, <1>2, <1>3

-----------------------------------------------------------------------------
(* The sum of the powers, and that its order does not matter.              *)

Caches == [Devices -> {None} \cup Powers]

\* A device counts with its power, or with none.
LEMMA PowerIsNat ==
    ASSUME NEW cache \in Caches, NEW d \in CoolingDevices
    PROVE  Power(cache, d) \in Nat
BY PUEAssumption DEF Caches, Power

\* What is left of a set of cooling devices without one of them.
LEMMA OneLess ==
    ASSUME NEW s \in SUBSET CoolingDevices, NEW d \in s
    PROVE  /\ s \ {d} \in SUBSET CoolingDevices
           /\ Cardinality(s) \in Nat \ {0}
           /\ Cardinality(s \ {d}) = Cardinality(s) - 1
<1>1. IsFiniteSet(CoolingDevices)
  BY PUEAssumption, FS_Subset
<1>2. IsFiniteSet(s)
  BY <1>1, FS_Subset
<1>3. Cardinality(s) \in Nat /\ Cardinality(s) # 0
  BY <1>2, FS_EmptySet, FS_CardinalityType
<1> QED
  BY <1>2, <1>3, FS_RemoveElement

\* Some of the cooling devices are finitely many.
LEMMA SizeOfPart ==
    ASSUME NEW s \in SUBSET CoolingDevices
    PROVE  /\ Cardinality(s) \in Nat /\ Cardinality(CoolingDevices) \in Nat
           /\ Cardinality(s) <= Cardinality(CoolingDevices)
           /\ Cardinality(s) = 0 <=> s = {}
<1>1. IsFiniteSet(CoolingDevices)
  BY PUEAssumption, FS_Subset
<1>2. IsFiniteSet(s) /\ Cardinality(s) <= Cardinality(CoolingDevices)
  BY <1>1, FS_Subset
<1> QED
  BY <1>1, <1>2, FS_EmptySet, FS_CardinalityType

Chosen(s) == CHOOSE d \in s : TRUE

\* CHOOSE takes a member.
LEMMA ChosenIsOne == ASSUME NEW s, s # {} PROVE Chosen(s) \in s
BY DEF Chosen

\* The recursion that CachedPower folds, in the order of CHOOSE.
Unfolded(cache, f) ==
    [s \in SUBSET CoolingDevices |->
        IF s = {} THEN 0
        ELSE Power(cache, Chosen(s)) + f[s \ {Chosen(s)}]]

Sums(cache) == CHOOSE f : f = Unfolded(cache, f)

\* The fold is that recursion.
LEMMA CachedPowerIsSum ==
    ASSUME NEW cache PROVE CachedPower(cache) = Sums(cache)[CoolingDevices]
BY DEF CachedPower, Sums, Unfolded, Chosen, MapThenSumSet, MapThenFoldSet

\* The recursion has a solution: it is built for one size of sets after the other.
LEMMA SumsAreDefined ==
    ASSUME NEW cache \in Caches
    PROVE  /\ Sums(cache) = Unfolded(cache, Sums(cache))
           /\ Sums(cache) \in [SUBSET CoolingDevices -> Nat]
<1> DEFINE Solves(f, n) ==
        /\ f \in [SUBSET CoolingDevices -> Nat]
        /\ \A s \in SUBSET CoolingDevices :
              Cardinality(s) <= n => f[s] = Unfolded(cache, f)[s]
           S == {n \in Nat : \E f : Solves(f, n)}
<1>1. 0 \in S
  <2> DEFINE f == [s \in SUBSET CoolingDevices |-> 0]
  <2>1. ASSUME NEW s \in SUBSET CoolingDevices, Cardinality(s) <= 0
        PROVE  f[s] = Unfolded(cache, f)[s]
    <3>1. s = {}
      BY <2>1, SizeOfPart
    <3> QED
      BY <3>1 DEF Unfolded
  <2>2. Solves(f, 0)
    BY <2>1
  <2> QED
    BY <2>2
<1>2. ASSUME NEW n \in Nat, n \in S PROVE n + 1 \in S
  <2>1. PICK f : Solves(f, n)
    BY <1>2
  <2> DEFINE g == [s \in SUBSET CoolingDevices |->
                     IF Cardinality(s) = n + 1 THEN Unfolded(cache, f)[s] ELSE f[s]]
  <2>2. /\ g = [s \in SUBSET CoolingDevices |-> g[s]]
        /\ \A s \in SUBSET CoolingDevices :
              g[s] = IF Cardinality(s) = n + 1 THEN Unfolded(cache, f)[s] ELSE f[s]
    OBVIOUS
  <2> HIDE DEF g
  <2>3. ASSUME NEW s \in SUBSET CoolingDevices, Cardinality(s) <= n + 1
        PROVE  /\ g[s] = Unfolded(cache, g)[s]
               /\ Cardinality(s) = n + 1 => g[s] \in Nat
    <3>1. CASE s = {}
      <4>1. Cardinality(s) = 0 /\ Cardinality(s) <= n /\ Cardinality(s) # n + 1
        BY <3>1, SizeOfPart
      <4>2. g[s] = f[s] /\ f[s] = Unfolded(cache, f)[s]
        BY <2>1, <2>2, <4>1
      <4>3. Unfolded(cache, f)[s] = 0 /\ Unfolded(cache, g)[s] = 0
        BY <3>1 DEF Unfolded
      <4> QED
        BY <4>1, <4>2, <4>3
    <3>2. CASE s # {}
      <4>1. Chosen(s) \in s /\ Chosen(s) \in CoolingDevices
        BY <3>2, ChosenIsOne
      <4>2. /\ s \ {Chosen(s)} \in SUBSET CoolingDevices
            /\ Cardinality(s) \in Nat \ {0}
            /\ Cardinality(s \ {Chosen(s)}) = Cardinality(s) - 1
        BY <4>1, OneLess
      <4>3. g[s \ {Chosen(s)}] = f[s \ {Chosen(s)}]
        <5>1. Cardinality(s \ {Chosen(s)}) # n + 1
          BY <2>3, <4>2
        <5> QED
          BY <2>2, <4>2, <5>1
      <4>4. Unfolded(cache, g)[s] = Unfolded(cache, f)[s]
        BY <4>3 DEF Unfolded
      <4>5. g[s] = Unfolded(cache, f)[s]
        <5>1. CASE Cardinality(s) = n + 1
          BY <2>2, <5>1
        <5>2. CASE Cardinality(s) # n + 1
          <6>1. Cardinality(s) <= n
            BY <2>3, <4>2, <5>2
          <6> QED
            BY <2>1, <2>2, <5>2, <6>1
        <5> QED
          BY <5>1, <5>2
      <4>6. Unfolded(cache, f)[s] \in Nat
        <5>1. Power(cache, Chosen(s)) \in Nat /\ f[s \ {Chosen(s)}] \in Nat
          BY <2>1, <4>1, <4>2, PowerIsNat
        <5> QED
          BY <5>1 DEF Unfolded
      <4> QED
        BY <4>4, <4>5, <4>6
    <3> QED
      BY <3>1, <3>2
  <2>4. g \in [SUBSET CoolingDevices -> Nat]
    <3>1. ASSUME NEW s \in SUBSET CoolingDevices PROVE g[s] \in Nat
      <4>1. CASE Cardinality(s) = n + 1
        <5>1. Cardinality(s) <= n + 1
          BY <4>1
        <5> QED
          BY <2>3, <4>1, <5>1
      <4>2. CASE Cardinality(s) # n + 1
        BY <2>1, <2>2, <4>2
      <4> QED
        BY <4>1, <4>2
    <3> QED
      BY <2>2, <3>1
  <2>5. Solves(g, n + 1)
    <3>1. \A s \in SUBSET CoolingDevices :
              Cardinality(s) <= n + 1 => g[s] = Unfolded(cache, g)[s]
      BY <2>3
    <3> QED
      BY <2>4, <3>1, Zenon
  <2> QED
    BY <2>5
<1>3. PICK f : Solves(f, Cardinality(CoolingDevices))
  <2> HIDE DEF Solves
  <2>1. \A n \in Nat : n \in S
    <3> HIDE DEF S
    <3> QED
      BY <1>1, <1>2, NaturalsBySteps
  <2> QED
    BY <2>1, SizeOfPart
<1>4. f = Unfolded(cache, f)
  <2>1. \A s \in SUBSET CoolingDevices : f[s] = Unfolded(cache, f)[s]
    BY <1>3, SizeOfPart
  <2> QED
    BY <1>3, <2>1 DEF Unfolded
<1>5. Sums(cache) = Unfolded(cache, Sums(cache))
  BY <1>4 DEF Sums
<1>6. Sums(cache) \in [SUBSET CoolingDevices -> Nat]
  <2> DEFINE T == {n \in Nat : \A s \in SUBSET CoolingDevices :
                       Cardinality(s) = n => Sums(cache)[s] \in Nat}
  <2>1. 0 \in T
    <3> SUFFICES ASSUME NEW s \in SUBSET CoolingDevices, Cardinality(s) = 0
                 PROVE  Sums(cache)[s] \in Nat
      OBVIOUS
    <3>1. s = {}
      BY SizeOfPart
    <3> QED
      BY <1>5, <3>1 DEF Unfolded
  <2>2. ASSUME NEW n \in Nat, n \in T PROVE n + 1 \in T
    <3> SUFFICES ASSUME NEW s \in SUBSET CoolingDevices, Cardinality(s) = n + 1
                 PROVE  Sums(cache)[s] \in Nat
      OBVIOUS
    <3>1. s # {}
      BY SizeOfPart
    <3>2. Chosen(s) \in s /\ Chosen(s) \in CoolingDevices
      BY <3>1, ChosenIsOne
    <3>3. Cardinality(s \ {Chosen(s)}) = n
      BY <3>2, OneLess
    <3>4. Sums(cache)[s \ {Chosen(s)}] \in Nat /\ Power(cache, Chosen(s)) \in Nat
      BY <2>2, <3>2, <3>3, PowerIsNat
    <3>5. Unfolded(cache, Sums(cache))[s]
              = Power(cache, Chosen(s)) + Sums(cache)[s \ {Chosen(s)}]
      BY <3>1 DEF Unfolded
    <3> QED
      BY <1>5, <3>4, <3>5
  <2>3. \A n \in Nat : n \in T
    <3> HIDE DEF T
    <3> QED
      BY <2>1, <2>2, NaturalsBySteps
  <2>4. \A s \in SUBSET CoolingDevices : Sums(cache)[s] \in Nat
    BY <2>3, SizeOfPart
  <2> QED
    BY <1>5, <2>4 DEF Unfolded
<1> QED
  BY <1>5, <1>6

\* No device, no power.
LEMMA EmptySum == ASSUME NEW cache \in Caches PROVE Sums(cache)[{}] = 0
BY SumsAreDefined DEF Unfolded

\* Any member can be added last.
LEMMA SumInAnyOrder ==
    ASSUME NEW cache \in Caches, NEW s \in SUBSET CoolingDevices, NEW d \in s
    PROVE  Sums(cache)[s] = Power(cache, d) + Sums(cache)[s \ {d}]
<1> DEFINE Adds(u, e) == Sums(cache)[u] = Power(cache, e) + Sums(cache)[u \ {e}]
           S == {n \in Nat : \A u \in SUBSET CoolingDevices, e \in CoolingDevices :
                    Cardinality(u) = n /\ e \in u => Adds(u, e)}
<1>1. ASSUME NEW u \in SUBSET CoolingDevices, NEW e \in u PROVE u # {}
  OBVIOUS
<1>2. 0 \in S
  BY SizeOfPart
<1>3. ASSUME NEW n \in Nat, n \in S PROVE n + 1 \in S
  <2> SUFFICES ASSUME NEW u \in SUBSET CoolingDevices, NEW e \in CoolingDevices,
                      Cardinality(u) = n + 1, e \in u
               PROVE  Adds(u, e)
    OBVIOUS
  <2> DEFINE c == Chosen(u)
  <2>1. c \in u /\ c \in CoolingDevices
    BY ChosenIsOne
  <2>2. Sums(cache)[u] = Power(cache, c) + Sums(cache)[u \ {c}]
    BY <2>1, SumsAreDefined DEF Unfolded
  <2> HIDE DEF c
  <2>3. CASE e = c
    BY <2>2, <2>3
  <2>4. CASE e # c
    <3>1. Cardinality(u \ {c}) = n /\ Cardinality(u \ {e}) = n
      BY <2>1, OneLess
    <3>2. u \ {c} \in SUBSET CoolingDevices /\ e \in u \ {c}
      BY <2>4
    <3>3. u \ {e} \in SUBSET CoolingDevices /\ c \in u \ {e}
      BY <2>1, <2>4
    <3>4. Adds(u \ {c}, e) /\ Adds(u \ {e}, c)
      BY <1>3, <2>1, <3>1, <3>2, <3>3
    <3>5. (u \ {c}) \ {e} = (u \ {e}) \ {c}
      OBVIOUS
    <3>6. (u \ {c}) \ {e} \in SUBSET CoolingDevices
      OBVIOUS
    <3>7. /\ Power(cache, c) \in Nat /\ Power(cache, e) \in Nat
          /\ Sums(cache)[(u \ {c}) \ {e}] \in Nat
      BY <2>1, <3>6, PowerIsNat, SumsAreDefined
    <3> QED
      BY <2>2, <3>4, <3>5, <3>7
  <2> QED
    BY <2>3, <2>4
<1>4. \A n \in Nat : n \in S
  <2> HIDE DEF S
  <2> QED
    BY <1>2, <1>3, NaturalsBySteps
<1>5. Cardinality(s) \in Nat /\ d \in CoolingDevices
  BY SizeOfPart
<1> QED
  BY <1>4, <1>5

\* The devices that a loop has not reached are the rest of the sum.
LEMMA SumWithoutOne ==
    ASSUME NEW cache \in Caches, NEW s \in SUBSET CoolingDevices, NEW d \in s,
           NEW n \in Nat
    PROVE  n + Sums(cache)[s] = (n + Power(cache, d)) + Sums(cache)[s \ {d}]
<1>1. Sums(cache)[s] = Power(cache, d) + Sums(cache)[s \ {d}]
  BY SumInAnyOrder
<1>2. d \in CoolingDevices /\ s \ {d} \in SUBSET CoolingDevices
  OBVIOUS
<1>3. Power(cache, d) \in Nat /\ Sums(cache)[s \ {d}] \in Nat
  BY <1>2, PowerIsNat, SumsAreDefined
<1> QED
  BY <1>1, <1>3

\* The loop visits the devices in the order of their numbers.
LEMMA MinIsMember ==
    ASSUME NEW s \in SUBSET CoolingDevices, s # {}
    PROVE  Min(s) \in s
<1>1. s \subseteq Nat
  BY PUEAssumption
<1>2. \E d \in s : \A e \in s : d <= e
  BY <1>1, LeastNatural
<1> QED
  BY <1>2 DEF Min

-----------------------------------------------------------------------------
(* Types.                                                                  *)

\* The parts of the type invariant, by who writes them.
Phases == {"select", "devices", "sum", "insert", "stopped"}

ClockTypes ==
    /\ now \in Nat
    /\ calcTick \in BOOLEAN /\ checkTick \in BOOLEAN
    /\ ctxDone \in BOOLEAN /\ listening \in BOOLEAN

CalculatorTypes ==
    /\ devicePowerCache \in Caches
    /\ powerSnapshot \in Caches
    /\ pc \in Phases
    /\ todo \subseteq CoolingDevices
    /\ coolingPower \in Nat

ChannelTypes ==
    /\ outCh \in Seq(Nat)
    /\ Len(outCh) <= OutCap
    /\ latestPUE \in {None} \cup Nat
    /\ raising \in BOOLEAN

TimerTypes ==
    /\ pueViolationStart \in {None} \cup 0 .. now
    /\ calmSince \in {None} \cup 0 .. now

\* The sum so far and the powers of the devices to come make up the power of
\* the copy, which is that of a moment since the copy was taken.
SumInv ==
    /\ pc \in {"devices", "sum", "insert"} => CachedPower(powerSnapshot) \in moments
    /\ pc \in {"sum", "insert"} =>
          coolingPower + Sums(powerSnapshot)[todo] = CachedPower(powerSnapshot)
    /\ pc = "insert" => todo = {}

CalculatorInv == TypeOK /\ SumInv

\* The groups are the type invariant.
LEMMA TypeGroups ==
    TypeOK <=> ClockTypes /\ CalculatorTypes /\ ChannelTypes /\ TimerTypes
<1>1. {calcTick, checkTick, ctxDone, listening, raising} \subseteq BOOLEAN
          <=> /\ calcTick \in BOOLEAN /\ checkTick \in BOOLEAN
              /\ ctxDone \in BOOLEAN /\ listening \in BOOLEAN
              /\ raising \in BOOLEAN
  BY Zenon
<1> QED
  BY <1>1, Zenon DEF TypeOK, ClockTypes, CalculatorTypes, ChannelTypes,
                     TimerTypes, Caches, Phases

\* A cache may be empty.
LEMMA EmptyCache == [d \in Devices |-> None] \in Caches
BY DEF Caches

\* No calculation has begun.
LEMMA InvInit == Init => CalculatorInv
<1> SUFFICES ASSUME Init PROVE CalculatorInv
  OBVIOUS
<1>1. ClockTypes
  BY DEF Init, ClockTypes
<1>2. CalculatorTypes
  BY EmptyCache DEF Init, CalculatorTypes, Phases
<1>3. ChannelTypes
  <2>1. OutCap \in Nat /\ Len(<<>>) = 0 /\ <<>> \in Seq(Nat)
    BY PUEAssumption
  <2>2. 0 <= OutCap
    BY <2>1
  <2> QED
    BY <2>1, <2>2 DEF Init, ChannelTypes
<1>4. TimerTypes
  BY DEF Init, TimerTypes
<1>5. SumInv
  BY DEF Init, SumInv
<1> QED
  BY <1>1, <1>2, <1>3, <1>4, <1>5, TypeGroups DEF CalculatorInv

\* The clock, the tickers and the cancellation.
LEMMA ClockNext == ASSUME TypeOK, [Next]_vars PROVE ClockTypes'
<1>1. ClockTypes
  BY TypeGroups
<1>2. CASE Tick
  <2>1. now' \in Nat
    BY <1>1, <1>2 DEF ClockTypes, Tick
  <2>2. calcTick' \in BOOLEAN /\ checkTick' \in BOOLEAN
    BY <1>1, <1>2, Zenon DEF ClockTypes, Tick
  <2>3. ctxDone' = ctxDone /\ listening' = listening
    BY <1>2 DEF Tick
  <2> QED
    BY <1>1, <2>1, <2>2, <2>3 DEF ClockTypes
<1>3. CASE ~Tick
  <2>1. now' = now
    BY <1>3 DEF Next, vars, clock, Cancel, ReceiveReading, StopListening,
       StartCalculation, Calculate, GetAllDevices, GetAllDevicesFails, AddPower,
       Calculated, InsertAndPublish, StopCalculating, OtherReader, ReceivePUE,
       CheckPUEAlert, AlertInserted
  <2>2. /\ calcTick' = calcTick \/ calcTick' = FALSE
        /\ checkTick' = checkTick \/ checkTick' = FALSE
        /\ ctxDone' = ctxDone \/ ctxDone' = TRUE
        /\ listening' = listening \/ listening' = FALSE
    BY <1>3 DEF Next, vars, clock, Cancel, ReceiveReading, StopListening,
       StartCalculation, Calculate, GetAllDevices, GetAllDevicesFails, AddPower,
       Calculated, InsertAndPublish, StopCalculating, OtherReader, ReceivePUE,
       CheckPUEAlert, AlertInserted
  <2> QED
    BY <1>1, <2>1, <2>2 DEF ClockTypes
<1> QED
  BY <1>2, <1>3

\* A PUE is offered to the channel or taken from it.
LEMMA ChannelNext == ASSUME TypeOK, [Next]_vars PROVE ChannelTypes'
<1>1. ChannelTypes /\ coolingPower \in Nat
  BY TypeGroups DEF CalculatorTypes
<1>2. CASE outCh' = outCh /\ latestPUE' = latestPUE
  <2>1. CASE raising' = raising
    BY <1>1, <1>2, <2>1 DEF ChannelTypes
  <2>2. CASE raising' = (now - pueViolationStart >= Level2Duration)
    BY <1>1, <1>2, <2>2 DEF ChannelTypes
  <2>3. CASE raising' = FALSE
    BY <1>1, <1>2, <2>3 DEF ChannelTypes
  <2> QED
    BY <2>1, <2>2, <2>3
       DEF Next, vars, notifier, Tick, Cancel, ReceiveReading, StopListening,
           StartCalculation, Calculate, GetAllDevices, GetAllDevicesFails,
           AddPower, Calculated, InsertAndPublish, StopCalculating, OtherReader,
           ReceivePUE, CheckPUEAlert, AlertInserted
<1>3. CASE InsertAndPublish
  <2>1. outCh' \in Seq(Nat) /\ Len(outCh') <= OutCap
    BY <1>1, <1>3, PUEAssumption DEF ChannelTypes, InsertAndPublish, HasRoom
  <2> QED
    BY <1>1, <1>3, <2>1 DEF ChannelTypes, InsertAndPublish, notifier
<1>4. CASE OtherReader \/ ReceivePUE
  <2>1. /\ outCh # <<>> /\ outCh' = Tail(outCh)
        /\ latestPUE' = latestPUE \/ latestPUE' = Head(outCh)
        /\ raising' = raising
    BY <1>4 DEF OtherReader, ReceivePUE, notifier
  <2>2. /\ Head(outCh) \in Nat /\ Tail(outCh) \in Seq(Nat)
        /\ Len(Tail(outCh)) <= OutCap
    BY <1>1, <2>1, PUEAssumption DEF ChannelTypes
  <2> QED
    BY <1>1, <2>1, <2>2 DEF ChannelTypes
<1> QED
  BY <1>2, <1>3, <1>4
     DEF Next, vars, notifier, Tick, Cancel, ReceiveReading, StopListening,
         StartCalculation, Calculate, GetAllDevices, GetAllDevicesFails,
         AddPower, Calculated, StopCalculating, CheckPUEAlert, AlertInserted

\* Timers are set to the present and the present never decreases.
LEMMA TimerNext == ASSUME TypeOK, [Next]_vars PROVE TimerTypes'
<1>1. TimerTypes /\ now \in Nat /\ now' \in Nat
  BY TypeGroups, ClockNext DEF ClockTypes
<1>2. now <= now'
  BY <1>1 DEF Next, vars, clock, Tick, Cancel, ReceiveReading, StopListening,
       StartCalculation, Calculate, GetAllDevices, GetAllDevicesFails, AddPower,
       Calculated, InsertAndPublish, StopCalculating, OtherReader, ReceivePUE,
       CheckPUEAlert, AlertInserted
<1>3. pueViolationStart' \in {pueViolationStart, now, None}
  BY DEF Next, vars, notifier, Tick, Cancel, ReceiveReading, StopListening,
       StartCalculation, Calculate, GetAllDevices, GetAllDevicesFails, AddPower,
       Calculated, InsertAndPublish, StopCalculating, OtherReader, ReceivePUE,
       CheckPUEAlert, AlertInserted
<1>4. calmSince' \in {calmSince, now, None}
  <2>1. CASE InsertAndPublish
    <3>1. calmSince' = IF High(coolingPower) THEN None
                       ELSE IF calmSince = None THEN now ELSE calmSince
      BY <2>1 DEF InsertAndPublish
    <3> QED
      BY <3>1
  <2>2. CASE ~InsertAndPublish
    BY <2>2 DEF Next, vars, Tick, Cancel, ReceiveReading, StopListening,
       StartCalculation, Calculate, GetAllDevices, GetAllDevicesFails, AddPower,
       Calculated, StopCalculating, OtherReader, ReceivePUE,
       CheckPUEAlert, AlertInserted
  <2> QED
    BY <2>1, <2>2
<1>5. ASSUME NEW t, t \in {None} \cup 0 .. now PROVE t \in {None} \cup 0 .. now'
  BY <1>1, <1>2, <1>5
<1>6. {None, now} \subseteq {None} \cup 0 .. now'
  BY <1>1, <1>2
<1> QED
  BY <1>1, <1>3, <1>4, <1>5, <1>6 DEF TimerTypes

\* The sums of the next copy.
LEMMA NextSums ==
    /\ CachedPower(powerSnapshot)' = CachedPower(powerSnapshot')
    /\ Sums(powerSnapshot)' = Sums(powerSnapshot')
BY DEF CachedPower, Power, MapThenSumSet, MapThenFoldSet, Sums, Unfolded, Chosen

\* The calculation.  Between the copy and the record nothing else writes the
\* copy, the sum or the phase.
LEMMA CalculationStep ==
    ASSUME TypeOK, SumInv,
           StartCalculation \/ Calculate \/ StopCalculating
    PROVE  CalculatorTypes' /\ SumInv'
<1>1. CalculatorTypes
  BY TypeGroups
<1>2. CASE StartCalculation
  <2>1. /\ pc = "select"
        /\ UNCHANGED <<devicePowerCache, todo, coolingPower>>
    BY <1>2 DEF StartCalculation
  <2>2. CASE ITPower > 0
    <3>1. /\ powerSnapshot' = devicePowerCache
          /\ moments' = {CachedPower(devicePowerCache)} /\ pc' = "devices"
      BY <1>2, <2>2 DEF StartCalculation
    <3>2. CachedPower(powerSnapshot') = CachedPower(devicePowerCache)
      BY <3>1
    <3> QED
      BY <1>1, <2>1, <3>1, <3>2, NextSums DEF CalculatorTypes, SumInv, Phases
  <2>3. CASE ~(ITPower > 0)
    BY <1>1, <1>2, <2>1, <2>3 DEF StartCalculation, CalculatorTypes, SumInv
  <2> QED
    BY <2>2, <2>3
<1>3. CASE EndCalculation /\ devicePowerCache' = devicePowerCache
  BY <1>1, <1>3, EmptyCache DEF EndCalculation, CalculatorTypes, SumInv, Phases
<1>4. CASE StopCalculating
  BY <1>1, <1>4 DEF StopCalculating, CalculatorTypes, SumInv, Phases
<1>5. CASE UNCHANGED <<devicePowerCache, powerSnapshot, moments>>
           /\ (GetAllDevices \/ AddPower \/ Calculated)
  <2>1. /\ CachedPower(powerSnapshot)' = CachedPower(powerSnapshot)
        /\ Sums(powerSnapshot)' = Sums(powerSnapshot)
    BY <1>5, NextSums
  <2>2. CachedPower(powerSnapshot) \in moments
    BY <1>5 DEF SumInv, GetAllDevices, AddPower, Calculated
  <2>3. powerSnapshot \in Caches
    BY <1>1 DEF CalculatorTypes
  <2>4. CachedPower(powerSnapshot) = Sums(powerSnapshot)[CoolingDevices]
    BY CachedPowerIsSum
  <2>5. Sums(powerSnapshot)[CoolingDevices] \in Nat
    BY <2>3, SumsAreDefined
  <2>6. CASE GetAllDevices
    <3>1. todo' = CoolingDevices /\ coolingPower' = 0 /\ pc' = "sum"
      BY <2>6 DEF GetAllDevices
    <3>2. coolingPower' + Sums(powerSnapshot)[todo'] = CachedPower(powerSnapshot)
      BY <2>4, <2>5, <3>1
    <3> QED
      BY <1>1, <1>5, <2>1, <2>2, <3>1, <3>2 DEF CalculatorTypes, SumInv, Phases
  <2>7. CASE AddPower
    <3>1. /\ pc = "sum" /\ pc' = "sum" /\ todo # {}
          /\ coolingPower' = coolingPower + Power(powerSnapshot, Min(todo))
          /\ todo' = todo \ {Min(todo)}
      BY <2>7 DEF AddPower, FromSnapshot
    <3>2. todo \in SUBSET CoolingDevices /\ coolingPower \in Nat
      BY <1>1 DEF CalculatorTypes
    <3>3. Min(todo) \in todo
      BY <3>1, <3>2, MinIsMember
    <3>4. Power(powerSnapshot, Min(todo)) \in Nat
      BY <2>3, <3>2, <3>3, PowerIsNat
    <3>5. coolingPower + Sums(powerSnapshot)[todo]
              = coolingPower' + Sums(powerSnapshot)[todo']
      BY <2>3, <3>1, <3>2, <3>3, SumWithoutOne
    <3> QED
      BY <1>1, <1>5, <2>1, <2>2, <3>1, <3>2, <3>4, <3>5
         DEF CalculatorTypes, SumInv, Phases
  <2>8. CASE Calculated
    BY <1>1, <1>5, <2>1, <2>2, <2>8 DEF Calculated, CalculatorTypes, SumInv, Phases
  <2> QED
    BY <1>5, <2>6, <2>7, <2>8
<1>6. GetAllDevices \/ AddPower \/ Calculated
          => UNCHANGED <<devicePowerCache, powerSnapshot, moments>>
  BY DEF GetAllDevices, AddPower, Calculated
<1>7. GetAllDevicesFails \/ InsertAndPublish
          => EndCalculation /\ devicePowerCache' = devicePowerCache
  BY DEF GetAllDevicesFails, InsertAndPublish
<1> QED
  BY <1>2, <1>3, <1>4, <1>5, <1>6, <1>7 DEF Calculate

\* A reading changes the cache and adds a moment; the copy stays.
LEMMA ReadingStep ==
    ASSUME TypeOK, SumInv, NEW d \in Devices, NEW p \in Powers, ReceiveReading(d, p)
    PROVE  CalculatorTypes' /\ SumInv'
<1>1. CalculatorTypes
  BY TypeGroups
<1>2. /\ devicePowerCache' = [devicePowerCache EXCEPT ![d] = p]
      /\ UNCHANGED <<pc, powerSnapshot, todo, coolingPower>>
  BY DEF ReceiveReading, calc
<1>3. devicePowerCache' \in Caches
  BY <1>1, <1>2 DEF CalculatorTypes, Caches
<1>4. \A m \in moments : m \in moments'
  BY DEF ReceiveReading
<1>5. /\ CachedPower(powerSnapshot)' = CachedPower(powerSnapshot)
      /\ Sums(powerSnapshot)' = Sums(powerSnapshot)
  BY <1>2, NextSums
<1> QED
  BY <1>1, <1>2, <1>3, <1>4, <1>5 DEF CalculatorTypes, SumInv

\* The other steps leave the calculator alone.
LEMMA OtherStep ==
    ASSUME TypeOK, SumInv, UNCHANGED <<devicePowerCache, calc, moments>>
    PROVE  CalculatorTypes' /\ SumInv'
<1>1. CalculatorTypes
  BY TypeGroups
<1>2. /\ CachedPower(powerSnapshot)' = CachedPower(powerSnapshot)
      /\ Sums(powerSnapshot)' = Sums(powerSnapshot)
  BY NextSums DEF calc
<1> QED
  BY <1>1, <1>2 DEF calc, CalculatorTypes, SumInv

\* Every step keeps the invariant.
LEMMA InvNext == ASSUME CalculatorInv, [Next]_vars PROVE CalculatorInv'
<1>1. TypeOK /\ SumInv
  BY DEF CalculatorInv
<1>2. CalculatorTypes' /\ SumInv'
  <2>1. CASE \/ Tick \/ Cancel \/ StopListening \/ OtherReader \/ ReceivePUE
             \/ CheckPUEAlert \/ AlertInserted \/ UNCHANGED vars
    <3>1. UNCHANGED <<devicePowerCache, calc, moments>>
      BY <2>1 DEF vars, Tick, Cancel, StopListening, OtherReader, ReceivePUE,
                  CheckPUEAlert, AlertInserted
    <3> QED
      BY <1>1, <3>1, OtherStep
  <2> QED
    BY <1>1, <2>1, CalculationStep, ReadingStep DEF Next
<1>3. ClockTypes' /\ ChannelTypes' /\ TimerTypes'
  BY <1>1, ClockNext, ChannelNext, TimerNext
<1>4. (ClockTypes /\ CalculatorTypes /\ ChannelTypes /\ TimerTypes => TypeOK)'
  BY TypeGroups, PTL
<1> QED
  BY <1>2, <1>3, <1>4 DEF CalculatorInv

\* The invariant holds in every state.
LEMMA InvAlways == Spec => []CalculatorInv
BY InvInit, InvNext, PTL DEF Spec

-----------------------------------------------------------------------------
\* Every variable keeps its type and the channel its capacity; no timer is
\* ahead of the clock.
THEOREM CalculatorTypeCorrect == Spec => []TypeOK
<1>1. CalculatorInv => TypeOK
  BY DEF CalculatorInv
<1> QED
  BY <1>1, InvAlways, PTL

\* The cooling power of every PUE is what the cache amounted to at one moment
\* since the calculation began, for any number of devices and whatever readings
\* arrive meanwhile.
THEOREM PowerOfOneMoment == Spec => []SumOfOneMoment
<1>1. CalculatorInv => SumOfOneMoment
  <2> SUFFICES ASSUME CalculatorInv, pc = "insert" PROVE coolingPower \in moments
    BY DEF SumOfOneMoment
  <2>1. SumInv /\ powerSnapshot \in Caches /\ coolingPower \in Nat
    BY TypeGroups DEF CalculatorInv, CalculatorTypes
  <2>2. Sums(powerSnapshot)[todo] = 0
    BY <2>1, EmptySum DEF SumInv
  <2>3. coolingPower = CachedPower(powerSnapshot)
    BY <2>1, <2>2 DEF SumInv
  <2> QED
    BY <2>1, <2>3 DEF SumInv
<1> QED
  BY <1>1, InvAlways, PTL
=============================================================================
