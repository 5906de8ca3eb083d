-------------------------- MODULE LegacyOptimizer --------------------------
(***************************************************************************)
(* backend/internal/optimizer/optimizer.go, the package that               *)
(* cooling_optimizer replaced: the same run of Optimize with its margins   *)
(* written in the code, no listener and no output channel.  A run returns  *)
(* its result to the loop, which hands it to the callback OnOptimization;  *)
(* nothing sets the callback at this commit.                               *)
(*                                                                         *)
(* legacy says which of the two packages runs.                             *)
(***************************************************************************)
EXTENDS CoolingOptimizer

VARIABLE legacy

\* areaLoad * 1.1, RatedCoolingCapacity * 0.9, setpoint - 2 and setpoint + 2:
\* the former package knows no other margins.
WrittenMargins ==
    /\ SafetyMargin = 110 /\ Utilization = 90
    /\ OvercoolDelta = 2 /\ UndercoolDelta = 2

allVars == <<vars, legacy>>

ReadHistories == \/ \E d \in Chillers : ReadChiller(d)
                 \/ \E d \in Terminals : ReadTerminal(d)

\* The suggestion is stored or not, and the result goes to the callback.
StoreAndReturn ==
    /\ pc = "store"
    /\ done = Cardinality(Areas)
    /\ pc' = "select"
    /\ UNCHANGED <<ctxDone, accums, allocation, done, suggestions, stored, queued>>

Optimize ==
    \/ ReadHistories \/ Sort \/ Allocate \/ Suggest
    \/ InsertAllocation \/ StoreAndReturn

LegacyNext == StartRun \/ Optimize \/ Stop \/ Cancel

EitherInit ==
    /\ Init
    /\ legacy \in BOOLEAN
    /\ legacy => WrittenMargins

EitherNext ==
    /\ \/ legacy /\ LegacyNext
       \/ ~legacy /\ Next
    /\ UNCHANGED legacy

\* Queries return, so a run under way goes on, and the loop returns when it
\* finds the context cancelled; nothing is asked of the forwarder.
EitherSpec ==
    /\ EitherInit
    /\ [][EitherNext]_allVars
    /\ WF_allVars(EitherNext /\ (Run \/ Optimize))
=============================================================================
