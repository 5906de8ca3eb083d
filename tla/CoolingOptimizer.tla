------------------------- MODULE CoolingOptimizer -------------------------
(***************************************************************************)
(* backend/internal/cooling_optimizer/optimizer.go: one run of Optimize    *)
(* after another.  A run reads the latest history of every device, sums    *)
(* heat and temperature by area, sorts the areas by how far they are above *)
(* their setpoint, gives each in that order what it demands or what is     *)
(* left, stores one row per area and a suggestion, and offers its result.  *)
(*                                                                         *)
(* Power is counted in hundredths of a kilowatt: SafetyMargin and          *)
(* Utilization are percentages.  A reading is the heat it shows (the       *)
(* product of the temperature difference and the flow) and the return      *)
(* temperature; the COP of a chiller only words a suggestion.              *)
(* GetAllDevices that fails ends the run before it changed anything.       *)
(* lastPUE is written by the listener and read by nobody.                  *)
(***************************************************************************)
EXTENDS Integers, FiniteSets

CONSTANTS
    Areas,         \* the areas of the devices
    Chillers,      \* chillers, numbered as in the table of devices
    Terminals,     \* precision air conditioners and CDUs, numbered likewise
    AreaOf,        \* [device -> area]
    SetpointTemp,  \* [terminal -> temperature]
    RatedCapacity, \* [chiller -> kW]
    Readings,      \* what a terminal's history may show, [heat, temp]
    SafetyMargin,  \* percent of an area's heat load it demands (110)
    Utilization,   \* percent of the rated capacity that is used (90)
    OvercoolDelta, UndercoolDelta,
    OutCap         \* capacity of the output channel (32)

Devices == Chillers \cup Terminals

ASSUME OptimizerAssumption ==
    /\ Devices \subseteq Nat /\ Chillers \cap Terminals = {}
    /\ IsFiniteSet(Areas)
    /\ AreaOf \in [Devices -> Areas]
    /\ SetpointTemp \in [Terminals -> Nat]
    /\ RatedCapacity \in [Chillers -> Nat]
    /\ Readings \subseteq [heat : Int, temp : Nat]
    /\ SafetyMargin \in Nat /\ Utilization \in Nat
    /\ OvercoolDelta \in Nat /\ UndercoolDelta \in Nat
    /\ OutCap \in Nat

VARIABLES
    ctxDone,       \* the context has been cancelled
    pc,            \* where the run is
    unread,        \* devices whose history has not been asked for
    acc,           \* areaAccums
    available,     \* availableCooling of the chillers seen so far
    order,         \* the areas, sorted
    done,          \* areas the loop under way has dealt with
    remaining,     \* cooling not allocated yet
    totalCooling,  \* cooling allocated
    allocated,     \* AllocatedCooling of each area
    suggestions,   \* suggestions of the run
    stored,        \* areas whose allocation of this run is in the database
    queued         \* results in the output channel

accums == <<unread, acc, available>>
allocation == <<order, remaining, totalCooling, allocated>>
vars == <<ctxDone, pc, accums, allocation, done, suggestions, stored, queued>>

NoAccum == [heat |-> 0, setpoint |-> 0, temp |-> 0, count |-> 0]
Ranks == 1 .. Cardinality(Areas)

Init ==
    /\ ctxDone = FALSE
    /\ pc = "select"
    /\ unread = {}
    /\ acc = [a \in Areas |-> NoAccum]
    /\ available = 0
    /\ order = <<>>
    /\ done = 0
    /\ remaining = 0
    /\ totalCooling = 0
    /\ allocated = [a \in Areas |-> 0]
    /\ suggestions = {}
    /\ stored = {}
    /\ queued = 0

-----------------------------------------------------------------------------
(* Reading.                                                                *)

\* A run that a tick begins after the cancellation is refused its devices and
\* changes nothing: it is no step.
StartRun ==
    /\ pc = "select"
    /\ ~ctxDone
    /\ pc' = "read"
    /\ unread' = Devices
    /\ acc' = [a \in Areas |-> NoAccum]
    /\ available' = 0
    /\ order' = <<>>
    /\ done' = 0
    /\ remaining' = 0
    /\ totalCooling' = 0
    /\ allocated' = [a \in Areas |-> 0]
    /\ suggestions' = {}
    /\ stored' = {}
    /\ UNCHANGED <<ctxDone, queued>>

\* The areas come in any order, the devices of one in that of their ids.
IsNext(d) ==
    /\ d \in unread
    /\ \A e \in unread : AreaOf[e] = AreaOf[d] => d <= e
    /\ \A e \in unread, f \in Devices \ unread :
          AreaOf[e] = AreaOf[f] => AreaOf[d] = AreaOf[e]

ReadChiller(d) ==
    /\ pc = "read"
    /\ IsNext(d)
    /\ unread' = unread \ {d}
    /\ available' = available + RatedCapacity[d] * Utilization
    /\ UNCHANGED <<ctxDone, pc, acc, allocation, done, suggestions, stored, queued>>

\* A negative heat is left out, the temperature counts; the setpoint is that
\* of the last device that has a reading.
Add(a, d, r) ==
    [acc EXCEPT ![a] =
        [heat     |-> acc[a].heat + (IF r.heat > 0 THEN r.heat ELSE 0),
         setpoint |-> SetpointTemp[d],
         temp     |-> acc[a].temp + r.temp,
         count    |-> acc[a].count + 1]]

\* Without a reading the area's sums stay; SetpointAnyway would note the
\* setpoint before it looks at the history.
SetpointAnyway(a, d) == [acc EXCEPT ![a].setpoint = SetpointTemp[d]]
SkipUnread(a, d) == acc

ReadTerminal(d) ==
    /\ pc = "read"
    /\ IsNext(d)
    /\ unread' = unread \ {d}
    /\ \/ acc' = SkipUnread(AreaOf[d], d)
       \/ /\ ~ctxDone
          /\ \E r \in Readings : acc' = Add(AreaOf[d], d, r)
    /\ UNCHANGED <<ctxDone, pc, available, allocation, done, suggestions,
                   stored, queued>>

-----------------------------------------------------------------------------
(* Allocating.                                                             *)

\* ActualTemp - SetpointTemp is Above(a) / Count(a).
Count(a) == IF acc[a].count = 0 THEN 1 ELSE acc[a].count
Above(a) == acc[a].temp - acc[a].setpoint * Count(a)

Cooler(a, b) == Above(a) * Count(b) < Above(b) * Count(a)
Hotter(a, b) == Above(a) * Count(b) > Above(b) * Count(a)

\* What sort.Slice may return: the areas, equals in any order.  ColdestFirst
\* would turn the comparison around.
Permutes(s) ==
    /\ s \in [Ranks -> Areas]
    /\ \A a \in Areas : \E i \in Ranks : s[i] = a
    /\ \A i, j \in Ranks : i # j => s[i] # s[j]
ColdestFirst ==
    {s \in [Ranks -> Areas] :
        Permutes(s) /\ \A i, j \in Ranks : i < j => ~Cooler(s[j], s[i])}
Sorted ==
    {s \in [Ranks -> Areas] :
        Permutes(s) /\ \A i, j \in Ranks : i < j => ~Hotter(s[j], s[i])}

Sort ==
    /\ pc = "read"
    /\ unread = {}
    /\ order' \in Sorted
    /\ remaining' = available
    /\ totalCooling' = 0
    /\ done' = 0
    /\ pc' = "allocate"
    /\ UNCHANGED <<ctxDone, accums, allocated, suggestions, stored, queued>>

Demand(a) == acc[a].heat * SafetyMargin

\* math.Min(demand, remaining), when something remains; WholeDemand forgets
\* the minimum.
WholeDemand(a) == IF remaining > 0 THEN Demand(a) ELSE 0
Share(a) ==
    IF remaining > 0
    THEN IF Demand(a) <= remaining THEN Demand(a) ELSE remaining
    ELSE 0

Allocate ==
    /\ pc = "allocate"
    /\ done < Cardinality(Areas)
    /\ LET area == order[done + 1]
           allocate == Share(area)
       IN  /\ remaining' = remaining - allocate
           /\ totalCooling' = totalCooling + allocate
           /\ allocated' = [allocated EXCEPT ![area] = allocate]
    /\ done' = done + 1
    /\ UNCHANGED <<ctxDone, pc, accums, order, suggestions, stored, queued>>

Suggestions ==
    [kind : {"overcooled"},
     area : {a \in Areas : Above(a) < -(OvercoolDelta * Count(a))}]
    \cup [kind : {"undercooled"},
          area : {a \in Areas : Above(a) > UndercoolDelta * Count(a)}]

Suggest ==
    /\ pc = "allocate"
    /\ done = Cardinality(Areas)
    /\ suggestions' = Suggestions
    /\ done' = 0
    /\ pc' = "store"
    /\ UNCHANGED <<ctxDone, accums, allocation, stored, queued>>

-----------------------------------------------------------------------------
(* Storing and publishing.  An insert that fails is logged.                *)

InsertAllocation ==
    /\ pc = "store"
    /\ done < Cardinality(Areas)
    /\ done' = done + 1
    /\ \/ stored' = stored \cup {order[done + 1]}
       \/ UNCHANGED stored
    /\ UNCHANGED <<ctxDone, pc, accums, allocation, suggestions, queued>>

RoomForOneMore == queued <= OutCap
HasRoom == queued < OutCap

\* A send that waits for room, and one that does not.
BlockingOffer == HasRoom
NonBlockingOffer == TRUE

\* The suggestion is stored or not; a full channel drops the result.
Publish ==
    /\ pc = "store"
    /\ done = Cardinality(Areas)
    /\ NonBlockingOffer
    /\ queued' = IF HasRoom THEN queued + 1 ELSE queued
    /\ pc' = "select"
    /\ UNCHANGED <<ctxDone, accums, allocation, done, suggestions, stored>>

Stop ==
    /\ pc = "select"
    /\ ctxDone
    /\ pc' = "stopped"
    /\ UNCHANGED <<ctxDone, accums, allocation, done, suggestions, stored, queued>>

Cancel ==
    /\ ~ctxDone
    /\ ctxDone' = TRUE
    /\ UNCHANGED <<pc, accums, allocation, done, suggestions, stored, queued>>

\* main's forwarder takes a result.
Consume ==
    /\ queued > 0
    /\ queued' = queued - 1
    /\ UNCHANGED <<ctxDone, pc, accums, allocation, done, suggestions, stored>>

Run ==
    \/ \E d \in Chillers : ReadChiller(d)
    \/ \E d \in Terminals : ReadTerminal(d)
    \/ Sort \/ Allocate \/ Suggest \/ InsertAllocation \/ Publish \/ Stop

Next == StartRun \/ Run \/ Cancel \/ Consume

Spec == Init /\ [][Next]_vars

\* Queries return, so a run under way goes on; nothing is asked of the
\* forwarder.
FairSpec == Spec /\ WF_vars(Run)

-----------------------------------------------------------------------------
Accums == [heat : Nat, setpoint : Nat, temp : Nat, count : Nat]

\* Types, and the capacity of the channel.
TypeOK ==
    /\ ctxDone \in BOOLEAN
    /\ pc \in {"select", "read", "allocate", "store", "stopped"}
    /\ unread \subseteq Devices
    /\ acc \in [Areas -> Accums]
    /\ available \in Nat
    /\ order = <<>> \/ order \in [Ranks -> Areas]
    /\ done \in 0 .. Cardinality(Areas)
    /\ remaining \in Nat
    /\ totalCooling \in Nat
    /\ allocated \in [Areas -> Nat]
    /\ suggestions \subseteq [kind : {"overcooled", "undercooled"}, area : Areas]
    /\ stored \subseteq Areas
    /\ queued \in 0 .. OutCap

Allocating == pc \in {"allocate", "store"}

\* What the areas get together never exceeds what the chillers have
\* (optimizer.go:199-214).
WithinCapacity == Allocating => totalCooling + remaining = available /\ remaining >= 0

\* An area that gets less than it demands leaves nothing unused, and nothing to
\* any area that is less above its setpoint, whatever order sort.Slice left
\* equals in (optimizer.go:193-223).
HottestFirst ==
    pc = "store" =>
        \A a \in Areas : allocated[a] < Demand(a) =>
            /\ totalCooling = available
            /\ \A b \in Areas : Cooler(b, a) => allocated[b] = 0

\* An area none of whose devices has a reading, because the queries failed or
\* found nothing, is not called too cold or too warm (optimizer.go:159-189,
\* 226-233).
NoAdviceWithoutReading ==
    \A s \in suggestions : acc[s.area].count > 0

\* A run under way when the context is cancelled ends, and the loop with it,
\* though nobody takes the results any more (optimizer.go:302-305).
ShutdownCompletes == ctxDone ~> pc = "stopped"
=============================================================================
