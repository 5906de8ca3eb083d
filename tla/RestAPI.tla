------------------------------ MODULE RestAPI ------------------------------
(***************************************************************************)
(* backend/internal/api/api.go and backend/internal/db/db.go between the   *)
(* start and the end of backend/cmd/main.go: the handlers of the REST API, *)
(* the statements they and the background goroutines run, the pool of      *)
(* connections they share, and the shutdown.                               *)
(*                                                                         *)
(* A request runs at most one statement.  It waits for a connection, runs, *)
(* gives the connection back and answers; or it fails, by an error of the  *)
(* database, by its deadline or because the client left, whether the       *)
(* statement took effect or not.  PostgreSQL runs a statement at one       *)
(* moment, and may not answer at all.                                      *)
(*                                                                         *)
(* One table is written in a behaviour, by the goroutine that owns it: the *)
(* alerts, by the notifier, or one of the tables of timed rows.  The       *)
(* others stay empty.  A row is an id and its time in hours.               *)
(* device_data is read through device_data_5min only, a materialized view  *)
(* that the database brings up to date in its own time                     *)
(* (scripts/init_db.sql:209-231): a prefix of the table.                   *)
(***************************************************************************)
EXTENDS Integers, Sequences, FiniteSets

CONSTANTS
    Clients,      \* clients of the API, one request at a time each
    Workloads,    \* [table, asked]: what is written, what each client asks
    NotANumber,   \* a parameter strconv.Atoi refuses
    NDevices,     \* rows of the devices table
    DeviceType,   \* [device -> type]
    PoolSize,     \* connections of the pool
    Newest,       \* suggestions that are listed (50)
    MaxAlerts, MaxRows, MaxTime   \* bounds on the tables and on the clock

Devices == 1 .. NDevices
Tables == {"pue_records", "cooling_allocation", "device_data",
           "optimization_suggestions"}
Writer == "writer"
Users == Clients \cup {Writer}

\* Routes of the goroutines' own statements.
Statements == {"InsertAlert", "MarkDingTalkSent", "Insert"}

ASSUME APIAssumption ==
    /\ IsFiniteSet(Clients) /\ Writer \notin Clients
    /\ \A w \in Workloads, c \in Clients : \A r \in w.asked[c] :
          r.route \notin Statements /\ (r.hours = NotANumber \/ r.hours \in Int)
    /\ NDevices \in Nat /\ DOMAIN DeviceType = Devices
    /\ PoolSize \in Nat \ {0} /\ Newest \in Nat \ {0}
    /\ {MaxAlerts, MaxRows, MaxTime} \subseteq Nat

VARIABLES
    phase,       \* where main is
    ctxDone,     \* the context of the background goroutines is cancelled
    now,         \* the clock
    workload,    \* what this behaviour writes and asks
    alerts,      \* the alerts table; an alert's id is its place
    rows,        \* the table of timed rows, in the order of the inserts
    refreshed,   \* rows of device_data that device_data_5min shows
    inserted,    \* id of the alert the notifier is pushing, 0 if none
    call,        \* what each user of the pool is doing
    told,        \* history: ids some client was told it had acknowledged
    listed       \* history: ids some client has seen listed

process == <<phase, ctxDone>>
tables == <<alerts, rows, refreshed>>
history == <<told, listed>>
vars == <<process, now, workload, tables, inserted, call, history>>

\* A call holds what was known when it was made, and its answer.
NoRequest == [method |-> "none", route |-> "none", arg |-> 0, hours |-> 0]
Idle == [stage |-> "idle", req |-> NoRequest, known |-> {}, status |-> 0,
         body |-> {}]

Init ==
    /\ phase = "starting"
    /\ ctxDone = FALSE
    /\ now = 0
    /\ workload \in Workloads
    /\ alerts = <<>>
    /\ rows = <<>>
    /\ refreshed = 0
    /\ inserted = 0
    /\ call = [u \in Users |-> Idle]
    /\ told = {}
    /\ listed = {}

-----------------------------------------------------------------------------
(* The queries of db.go.                                                   *)

Table(t) == IF workload.table = t THEN rows ELSE <<>>
Contents(t, places) == {Table(t)[i] : i \in places}
Within(t, hours) == {i \in DOMAIN Table(t) : Table(t)[i].time >= now - hours}

AllDevices == {[id |-> d, time |-> 0] : d \in Devices}
DevicesByType(t) == {r \in AllDevices : DeviceType[r.id] = t}
PUERecords(hours) == Within("pue_records", hours)
CoolingAllocations(hours) == Within("cooling_allocation", hours)

\* device_data_5min: AVG over a bucket, for which one row stands here.
DeviceData5Min == {i \in DOMAIN Table("device_data") : i <= refreshed}

COPHistory(d, hours) ==
    {i \in DeviceData5Min \cap Within("device_data", hours) :
        Table("device_data")[i].id = d}

\* The last bucket of every device that has one.
LatestDeviceStatus ==
    LET data == Table("device_data")
    IN  {i \in DeviceData5Min :
            \A j \in DeviceData5Min : j > i => data[j].id # data[i].id}

\* ORDER BY time DESC LIMIT 50; OldestFirst lacks the DESC.
OldestFirst(t) == {i \in DOMAIN Table(t) : i <= Newest}
NewestFirst(t) == {i \in DOMAIN Table(t) : i > Len(Table(t)) - Newest}
OptimizationSuggestions == NewestFirst("optimization_suggestions")

ActiveAlerts == {i \in DOMAIN alerts : ~alerts[i].acked}

\* Rows an UPDATE with WHERE id = $1 finds; UnacknowledgedRow would look for
\* one that is still to be acknowledged.
UnacknowledgedRow(id) == {i \in DOMAIN alerts : i = id /\ ~alerts[i].acked}
RowWithID(id) == {i \in DOMAIN alerts : i = id}

Acknowledged(id) ==
    [i \in DOMAIN alerts |->
        IF i \in RowWithID(id) THEN [alerts[i] EXCEPT !.acked = TRUE]
        ELSE alerts[i]]

\* One column is set; MarkWholeRow writes the alert as the notifier holds it.
MarkWholeRow(id) == [alerts EXCEPT ![id] = [acked |-> FALSE, sent |-> TRUE]]
Mark(id) == [alerts EXCEPT ![id].sent = TRUE]

-----------------------------------------------------------------------------
(* The handlers of api.go.                                                 *)

Method(route) == IF route = "AcknowledgeAlert" THEN "PUT" ELSE "GET"
TakesID(route) == route \in {"AcknowledgeAlert", "GetDeviceData24h"}

\* Preflight, unknown path, wrong method, bad id: no statement is run.
AnswersAtOnce(r) ==
    \/ r.method = "OPTIONS"
    \/ r.route = "none"
    \/ r.method # Method(r.route)
    \/ TakesID(r.route) /\ r.arg = NotANumber

\* The hours of a history: 24 unless a positive number was asked for.
Hours(r) == IF r.hours # NotANumber /\ r.hours > 0 THEN r.hours ELSE 24

\* The last record of the window; FirstRecord would be the oldest.
FirstRecord(records) == {i \in records : \A j \in records : i <= j}
LastRecord(records) == {i \in records : \A j \in records : j <= i}
CurrentPUE == LastRecord(PUERecords(1))

Body(r) ==
    CASE r.route = "GetAllDevices" -> AllDevices
      [] r.route = "GetDevicesByType" -> DevicesByType(r.arg)
      [] r.route = "GetDeviceData24h" ->
            Contents("device_data", COPHistory(r.arg, Hours(r)))
      [] r.route = "GetLatestDeviceStatus" ->
            Contents("device_data", LatestDeviceStatus)
      [] r.route = "GetPUERecords" -> Contents("pue_records", PUERecords(Hours(r)))
      [] r.route = "GetCurrentPUE" -> Contents("pue_records", CurrentPUE)
      [] r.route = "GetCoolingAllocations" ->
            Contents("cooling_allocation", CoolingAllocations(Hours(r)))
      [] r.route = "GetActiveAlerts" -> ActiveAlerts
      [] r.route = "GetOptimizationSuggestions" ->
            Contents("optimization_suggestions", OptimizationSuggestions)
      [] r.route = "AcknowledgeAlert" -> {}

OK == 200
NotFound == 404
ServerError == 500
Missing(r) ==
    \/ r.route = "AcknowledgeAlert" /\ RowWithID(r.arg) = {}
    \/ r.route = "GetCurrentPUE" /\ PUERecords(1) = {}

-----------------------------------------------------------------------------
(* Calls.                                                                  *)

Holding == {u \in Users : call[u].stage = "querying"}
OneMore == Cardinality(Holding) <= PoolSize
HasConn == Cardinality(Holding) < PoolSize
InFlight(c) == call[c].stage \in {"waiting", "querying", "responding"}
Alive == phase \in {"serving", "draining", "closing"}

\* History: what an answer to r will be held against.
Known(r) ==
    CASE r.route = "GetActiveAlerts" -> told
      [] r.route = "AcknowledgeAlert" -> listed
      [] r.route \in {"GetDeviceData24h", "GetLatestDeviceStatus"} ->
            Contents("device_data", DeviceData5Min)
      [] OTHER -> {rows[i] : i \in DOMAIN rows}

Begin(u, r, known, body) ==
    /\ call[u].stage = "idle"
    /\ call' = [call EXCEPT ![u] =
                    [Idle EXCEPT !.stage = "waiting", !.req = r,
                                 !.known = known, !.body = body]]

Request(c, r) ==
    /\ phase = "serving"
    /\ ~AnswersAtOnce(r)
    /\ Begin(c, r, Known(r), {})
    /\ UNCHANGED <<process, now, workload, tables, inserted, history>>

\* A refusal is answered before anything has changed.
Refuse(c, r) ==
    /\ phase = "serving"
    /\ call[c].stage = "idle"
    /\ AnswersAtOnce(r)
    /\ UNCHANGED vars

\* After Close the pool hands out nothing.
Acquire(u) ==
    /\ phase \in {"serving", "draining"}
    /\ call[u].stage = "waiting"
    /\ HasConn
    /\ call' = [call EXCEPT ![u].stage = "querying"]
    /\ UNCHANGED <<process, now, workload, tables, inserted, history>>

\* What the statement of u changes.
Effect(u) ==
    LET r == call[u].req
    IN  /\ alerts' = CASE r.route = "AcknowledgeAlert" -> Acknowledged(r.arg)
                       [] r.route = "InsertAlert" ->
                            Append(alerts, [acked |-> FALSE, sent |-> FALSE])
                       [] r.route = "MarkDingTalkSent" -> Mark(r.arg)
                       [] OTHER -> alerts
        /\ rows' = IF r.route = "Insert" THEN Append(rows, call[u].body)
                   ELSE rows
        /\ UNCHANGED refreshed

\* The statement succeeds and the connection goes back to the pool.
Query(c) ==
    /\ Alive
    /\ call[c].stage = "querying"
    /\ Effect(c)
    /\ call' = [call EXCEPT ![c].stage = "responding",
                    ![c].status = IF Missing(call[c].req) THEN NotFound ELSE OK,
                    ![c].body = Body(call[c].req)]
    /\ UNCHANGED <<process, now, workload, inserted, history>>

\* Without a connection nothing can have taken effect.
Spent(u) ==
    /\ Alive
    /\ call[u].stage \in {"waiting", "querying"}
    /\ \/ UNCHANGED tables
       \/ call[u].stage = "querying" /\ Effect(u)

Fail(c) ==
    /\ Spent(c)
    /\ call' = [call EXCEPT ![c].stage = "responding",
                            ![c].status = ServerError]
    /\ UNCHANGED <<process, now, workload, inserted, history>>

Answered(c, route) ==
    /\ call[c].stage = "responding"
    /\ call[c].status = OK
    /\ call[c].req.route = route

Respond(c) ==
    /\ Alive
    /\ call[c].stage = "responding"
    /\ told' = IF Answered(c, "AcknowledgeAlert")
               THEN told \cup {call[c].req.arg} ELSE told
    /\ listed' = IF Answered(c, "GetActiveAlerts")
                 THEN listed \cup call[c].body ELSE listed
    /\ call' = [call EXCEPT ![c] = Idle]
    /\ UNCHANGED <<process, now, workload, tables, inserted>>

-----------------------------------------------------------------------------
(* The background goroutine that writes.                                   *)

Statement(route, arg) == [NoRequest EXCEPT !.route = route, !.arg = arg]

InsertAlert ==
    /\ phase = "serving"
    /\ workload.table = "alerts"
    /\ Len(alerts) < MaxAlerts
    /\ Begin(Writer, Statement("InsertAlert", 0), {}, {})
    /\ inserted' = 0
    /\ UNCHANGED <<process, now, workload, tables, history>>

\* The robot has the message; the context of this statement is never cancelled.
MarkDingTalkSent ==
    /\ Alive
    /\ inserted # 0
    /\ Begin(Writer, Statement("MarkDingTalkSent", inserted), {}, {})
    /\ inserted' = 0
    /\ UNCHANGED <<process, now, workload, tables, history>>

\* InsertPUERecord, InsertCoolingAllocation, InsertOptimizationSuggestion or
\* InsertDeviceData: the time is taken before the insert.
Record(d) ==
    /\ phase = "serving"
    /\ workload.table \in Tables
    /\ workload.table # "device_data" => d = 1
    /\ Len(rows) < MaxRows
    /\ Begin(Writer, Statement("Insert", 0), {}, [id |-> d, time |-> now])
    /\ UNCHANGED <<process, now, workload, tables, inserted, history>>

Done ==
    /\ Alive
    /\ call[Writer].stage = "querying"
    /\ Effect(Writer)
    /\ inserted' = IF call[Writer].req.route = "InsertAlert"
                   THEN Len(alerts) + 1 ELSE inserted
    /\ call' = [call EXCEPT ![Writer] = Idle]
    /\ UNCHANGED <<process, now, workload, history>>

Abandon ==
    /\ Spent(Writer)
    /\ call' = [call EXCEPT ![Writer] = Idle]
    /\ UNCHANGED <<process, now, workload, inserted, history>>

-----------------------------------------------------------------------------
(* main: connecting, serving, and the end.                                 *)

\* db.New pings; without a database the process ends at once.
Start ==
    /\ phase = "starting"
    /\ phase' \in {"serving", "exited"}
    /\ UNCHANGED <<ctxDone, now, workload, tables, inserted, call, history>>

\* The background goroutines are cancelled before the server is shut down;
\* CancelDeferred would leave it to the deferred calls, after the pool's Close.
CancelDeferred == ctxDone
CancelFirst == TRUE

Signal ==
    /\ phase = "serving"
    /\ phase' = "draining"
    /\ ctxDone' = CancelFirst
    /\ UNCHANGED <<now, workload, tables, inserted, call, history>>

\* srv.Shutdown returns when no request is in flight, or after ten seconds.
ShutdownReturns ==
    /\ phase = "draining"
    /\ phase' = "closing"
    /\ UNCHANGED <<ctxDone, now, workload, tables, inserted, call, history>>

\* database.Close waits for every connection that was handed out.
CloseReturns ==
    /\ phase = "closing"
    /\ Holding = {}
    /\ phase' = "exited"
    /\ UNCHANGED <<ctxDone, now, workload, tables, inserted, call, history>>

\* The policy of the view: every five minutes, up to five minutes ago.
Refresh ==
    /\ Alive
    /\ workload.table = "device_data"
    /\ refreshed' \in refreshed + 1 .. Len(rows)
    /\ UNCHANGED <<process, now, workload, alerts, rows, inserted, call, history>>

Tick ==
    /\ phase = "serving"
    /\ workload.table \in Tables
    /\ now < MaxTime
    /\ now' = now + 1
    /\ UNCHANGED <<process, workload, tables, inserted, call, history>>

Next ==
    \/ \E c \in Clients : \E r \in workload.asked[c] : Request(c, r) \/ Refuse(c, r)
    \/ \E u \in Users : Acquire(u)
    \/ \E c \in Clients : Query(c) \/ Fail(c) \/ Respond(c)
    \/ InsertAlert \/ MarkDingTalkSent
    \/ \E d \in Devices : Record(d)
    \/ Done \/ Abandon
    \/ Start \/ Signal \/ ShutdownReturns \/ CloseReturns
    \/ Tick \/ Refresh

Spec == Init /\ [][Next]_vars

\* Every handler puts a deadline of 5 or 10 seconds on its statement;
\* NoDeadline would wait as long as the database does.
NoDeadline(c) == FALSE
HasDeadline(c) == InFlight(c)

\* Statements of the background goroutines end with their context; all but
\* that of MarkDingTalkSent, which runs in context.Background().
Uncancellable == call[Writer].req.route = "MarkDingTalkSent"

(***************************************************************************)
(* Deadlines and cancellations fire, a closed pool refuses who waits, an   *)
(* answer is written or its client is gone, and Shutdown and Close return  *)
(* once they may.  The database need not answer anything.                  *)
(***************************************************************************)
Fairness ==
    /\ \A c \in Clients : WF_vars(HasDeadline(c) /\ Fail(c)) /\ WF_vars(Respond(c))
    /\ WF_vars(ctxDone /\ ~Uncancellable /\ Abandon)
    /\ WF_vars(phase = "closing" /\ call[Writer].stage = "waiting" /\ Abandon)
    /\ WF_vars(ShutdownReturns)
    /\ WF_vars(CloseReturns)

FairSpec == Spec /\ Fairness

-----------------------------------------------------------------------------
\* Types, and the size of the pool.
TypeOK ==
    /\ phase \in {"starting", "serving", "draining", "closing", "exited"}
    /\ ctxDone \in BOOLEAN
    /\ now \in Nat
    /\ workload \in Workloads
    /\ alerts \in Seq([acked : BOOLEAN, sent : BOOLEAN])
    /\ rows \in Seq([id : Nat, time : Nat])
    /\ refreshed \in 0 .. Len(rows)
    /\ inserted \in 0 .. Len(alerts)
    /\ DOMAIN call = Users
    /\ \A u \in Users :
          call[u].stage \in {"idle", "waiting", "querying", "responding"}
    /\ Cardinality(Holding) <= PoolSize

\* Once a client has been told that an alert is acknowledged it stays so,
\* whatever the notifier writes to its row, and no list that is asked for
\* afterwards shows it (api.go:260-286, db.go:123-137, 309-315).
AcknowledgedForGood ==
    /\ \A id \in told : id \in DOMAIN alerts /\ alerts[id].acked
    /\ \A c \in Clients :
          Answered(c, "GetActiveAlerts") => call[c].body \cap call[c].known = {}

\* An alert that was listed can be acknowledged: by somebody else too, and again
\* when the first answer was an error although the row was changed.  "Not found"
\* is not among the answers (api.go:275-286).
ListedCanBeAcknowledged ==
    \A c \in Clients :
        (/\ call[c].stage = "responding"
         /\ call[c].req.route = "AcknowledgeAlert"
         /\ call[c].req.arg \in call[c].known) => call[c].status # NotFound

\* What an answer has to show: all that could be read when it was asked for and
\* is still of the window.
Stored(c, hours) == {s \in call[c].known : s.time >= now - hours}
Newer(S, r) == {s \in S : s.time > r.time}

\* No answer is older than its question.  What could be read then is a table as
\* it was stored, or the materialized part of the devices' readings: a history
\* shows all of its window of it, the current PUE and the states of the devices
\* are no older than its newest, no listed suggestion is older than one left
\* out, and "no recent PUE" is said only when there was none (api.go:120-305,
\* db.go:86-108, 212-334).
AnswersAreFresh ==
    \A c \in Clients :
        LET r == call[c].req
            body == call[c].body
        IN  /\ (\/ Answered(c, "GetPUERecords") /\ workload.table = "pue_records"
                \/ /\ Answered(c, "GetCoolingAllocations")
                   /\ workload.table = "cooling_allocation")
                  => Stored(c, Hours(r)) \subseteq body
            /\ (Answered(c, "GetDeviceData24h") /\ workload.table = "device_data")
                  => {s \in Stored(c, Hours(r)) : s.id = r.arg} \subseteq body
            /\ (Answered(c, "GetLatestDeviceStatus") /\ workload.table = "device_data")
                  => \A s \in call[c].known :
                        \E t \in body : t.id = s.id /\ s \notin Newer({s}, t)
            /\ (Answered(c, "GetCurrentPUE") /\ workload.table = "pue_records")
                  => \A s \in body : Newer(Stored(c, 1), s) = {}
            /\ (/\ call[c].status = NotFound /\ r.route = "GetCurrentPUE"
                /\ workload.table = "pue_records")
                  => Stored(c, 1) = {}
            /\ (/\ Answered(c, "GetOptimizationSuggestions")
                /\ workload.table = "optimization_suggestions")
                  => \A t \in body : Newer(call[c].known \ body, t) = {}

\* A request is answered, though the database hangs and others hold every
\* connection (api.go:90-91 and its like), unless the process ends first.
EveryRequestAnswered ==
    \A c \in Clients : InFlight(c) ~> (~InFlight(c) \/ phase = "exited")

\* After the signal the process ends, whatever hangs in the statements of
\* handlers and background goroutines, unless it is the one statement that
\* nothing cancels: MarkDingTalkSent runs in context.Background(), and Close
\* waits for its connection (main.go:230-244, notifier.go:318-320).
ProcessExits ==
    phase = "draining"
        ~> (phase = "exited" \/ [](Uncancellable /\ Writer \in Holding))
=============================================================================
