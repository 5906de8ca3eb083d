--------------------------- MODULE RestAPIProofs ---------------------------
(***************************************************************************)
(* What the clients of the REST API may rely on, for every number of       *)
(* clients, requests, rows, alerts and connections: the pool is not        *)
(* exceeded, an acknowledgement lasts, what was listed can be acknowledged *)
(* and no answer is older than its question.                               *)
(***************************************************************************)
EXTENDS RestAPI, FiniteSetTheorems, WellFoundedInduction, TLAPS

AlertRows == [acked : BOOLEAN, sent : BOOLEAN]
TimedRows == [id : Nat, time : Nat]
Stages == {"idle", "waiting", "querying", "responding"}

\* A call is a record with these fields.
CallWith(s, r, k, st, b) ==
    [stage |-> s, req |-> r, known |-> k, status |-> st, body |-> b]
IsCall(x) == x = CallWith(x.stage, x.req, x.known, x.status, x.body)

CallsTyped ==
    /\ call = [u \in Users |-> call[u]]
    /\ \A u \in Users : IsCall(call[u])

\* The writer's inserts carry a row.
CarriesRow(x) == x.req.route = "Insert" => x.body \in TimedRows

\* What is known of a client's call x while the alerts are a and the ids t are
\* told: a question knows less than the tables hold, an answer stays true.
CallHonest(x, a, t) ==
    /\ x.req.route \notin Statements
    /\ x.stage \in {"waiting", "querying"} =>
          /\ x.req.route = "GetActiveAlerts" => x.known \subseteq t
          /\ x.req.route = "AcknowledgeAlert" => x.known \subseteq DOMAIN a
    /\ x.stage = "responding" /\ x.req.route = "AcknowledgeAlert" =>
          /\ x.status = OK => x.req.arg \in DOMAIN a /\ a[x.req.arg].acked
          /\ x.req.arg \in x.known => x.status # NotFound
    /\ (x.stage = "responding" /\ x.req.route = "GetActiveAlerts" /\ x.status = OK)
          => x.body \subseteq DOMAIN a /\ x.body \cap x.known = {}

ToldAcked == \A id \in told : id \in DOMAIN alerts /\ alerts[id].acked
ListedExist == listed \subseteq DOMAIN alerts

\* Inductive: the answers under way and the questions that will become answers
\* have to be honest before a client can be told anything that lasts.
APIInv ==
    /\ TypeOK
    /\ CallsTyped
    /\ CarriesRow(call[Writer])
    /\ \A c \in Clients : CallHonest(call[c], alerts, told)
    /\ ToldAcked
    /\ ListedExist

\* What a step may do to the tables.
TablesGrow ==
    /\ alerts' \in Seq(AlertRows)
    /\ Len(alerts') >= Len(alerts)
    /\ \A i \in DOMAIN alerts : alerts[i].acked => alerts'[i].acked
    /\ rows' \in Seq(TimedRows)
    /\ refreshed' \in 0 .. Len(rows')

-----------------------------------------------------------------------------
LEMMA WriterIsUser == Writer \in Users /\ Clients \subseteq Users
BY DEF Users

\* A call is replaced by another.
LEMMA CallReplaced ==
    ASSUME CallsTyped, NEW u \in Users, NEW x, IsCall(x),
           call' = [call EXCEPT ![u] = x]
    PROVE  /\ CallsTyped'
           /\ call'[u] = x
           /\ \A v \in Users : v # u => call'[v] = call[v]
<1>1. \A v \in Users : call'[v] = IF v = u THEN x ELSE call[v]
  BY DEF CallsTyped
<1>2. call' = [v \in Users |-> call'[v]]
  BY <1>1 DEF CallsTyped
<1>3. \A v \in Users : IsCall(call'[v])
  BY <1>1 DEF CallsTyped
<1> QED
  BY <1>1, <1>2, <1>3 DEF CallsTyped, IsCall

LEMMA CallWithIsCall ==
    ASSUME NEW s, NEW r, NEW k, NEW st, NEW b
    PROVE  /\ IsCall(CallWith(s, r, k, st, b))
           /\ CallWith(s, r, k, st, b).stage = s
           /\ CallWith(s, r, k, st, b).req = r
           /\ CallWith(s, r, k, st, b).known = k
           /\ CallWith(s, r, k, st, b).status = st
           /\ CallWith(s, r, k, st, b).body = b
BY DEF IsCall, CallWith

\* The pool is not exceeded when nobody takes a connection.
LEMMA HoldingKept ==
    ASSUME TypeOK, \A u \in Users : call'[u].stage = "querying" => call[u].stage = "querying"
    PROVE  Cardinality(Holding') <= PoolSize
<1>1. IsFiniteSet(Users)
  BY APIAssumption, FS_AddElement DEF Users
<1>2. IsFiniteSet(Holding)
  BY <1>1, FS_Subset DEF Holding
<1>3. Holding' \in SUBSET Holding
  BY DEF Holding
<1>4. /\ IsFiniteSet(Holding')
      /\ Cardinality(Holding') <= Cardinality(Holding)
  BY <1>2, <1>3, FS_Subset
<1>5. Cardinality(Holding) \in Nat /\ Cardinality(Holding') \in Nat /\ PoolSize \in Nat
  BY <1>2, <1>4, FS_CardinalityType, APIAssumption
<1>6. Cardinality(Holding) <= PoolSize
  BY DEF TypeOK
<1> QED
  BY <1>4, <1>5, <1>6

\* One that takes a connection finds one.
LEMMA HoldingGrows ==
    ASSUME TypeOK, HasConn, NEW u \in Users,
           \A v \in Users : v # u /\ call'[v].stage = "querying" => call[v].stage = "querying"
    PROVE  Cardinality(Holding') <= PoolSize
<1>1. IsFiniteSet(Users)
  BY APIAssumption, FS_AddElement DEF Users
<1>2. IsFiniteSet(Holding)
  BY <1>1, FS_Subset DEF Holding
<1>3. /\ IsFiniteSet(Holding \cup {u})
      /\ Cardinality(Holding \cup {u}) = IF u \in Holding THEN Cardinality(Holding)
                                         ELSE Cardinality(Holding) + 1
  BY <1>2, FS_AddElement
<1>4. Holding' \in SUBSET (Holding \cup {u})
  BY DEF Holding
<1>5. IsFiniteSet(Holding') /\ Cardinality(Holding') <= Cardinality(Holding \cup {u})
  BY <1>3, <1>4, FS_Subset
<1>6. /\ Cardinality(Holding) \in Nat /\ Cardinality(Holding') \in Nat
      /\ Cardinality(Holding \cup {u}) \in Nat /\ PoolSize \in Nat
  BY <1>2, <1>3, <1>5, FS_CardinalityType, APIAssumption
<1>7. Cardinality(Holding) < PoolSize
  BY DEF HasConn
<1> QED
  BY <1>3, <1>5, <1>6, <1>7

\* An honest call stays honest while the tables and the promises grow.
LEMMA HonestyLasts ==
    ASSUME TypeOK, TablesGrow, told \subseteq told', NEW x, CallHonest(x, alerts, told)
    PROVE  CallHonest(x, alerts', told')
<1>1. DOMAIN alerts \subseteq DOMAIN alerts'
  <2>1. /\ Len(alerts) \in Nat /\ Len(alerts') \in Nat
        /\ DOMAIN alerts = 1 .. Len(alerts) /\ DOMAIN alerts' = 1 .. Len(alerts')
        /\ Len(alerts') >= Len(alerts)
    BY DEF TypeOK, TablesGrow
  <2> QED
    BY <2>1
<1> QED
  BY <1>1 DEF TablesGrow, CallHonest

-----------------------------------------------------------------------------
(* The statements.                                                         *)

LEMMA AppendAlert ==
    ASSUME alerts \in Seq(AlertRows), NEW e \in AlertRows, alerts' = Append(alerts, e)
    PROVE  /\ alerts' \in Seq(AlertRows)
           /\ Len(alerts') = Len(alerts) + 1
           /\ \A i \in DOMAIN alerts : alerts'[i] = alerts[i]
OBVIOUS

LEMMA SeqOfFunction ==
    ASSUME NEW S, NEW n \in Nat, NEW f \in [1 .. n -> S]
    PROVE  f \in Seq(S) /\ Len(f) = n
OBVIOUS

LEMMA UpdateAlerts ==
    ASSUME alerts \in Seq(AlertRows), alerts' \in [DOMAIN alerts -> AlertRows]
    PROVE  /\ alerts' \in Seq(AlertRows)
           /\ Len(alerts') = Len(alerts)
<1>1. PICK n \in Nat : n = Len(alerts) /\ DOMAIN alerts = 1 .. n
  OBVIOUS
<1>2. PICK f \in [1 .. n -> AlertRows] : f = alerts'
  BY <1>1
<1>3. f \in Seq(AlertRows) /\ Len(f) = n
  BY SeqOfFunction
<1> QED
  BY <1>1, <1>2, <1>3

\* What the statement of u leaves: only the insert of an alert makes the table
\* longer, and nothing takes an acknowledgement back.
LEMMA EffectGrows ==
    ASSUME APIInv, NEW u \in Users, Effect(u)
    PROVE  /\ TablesGrow
           /\ Len(alerts') = IF call[u].req.route = "InsertAlert"
                             THEN Len(alerts) + 1 ELSE Len(alerts)
           /\ (call[u].req.route = "AcknowledgeAlert" /\ call[u].req.arg \in DOMAIN alerts)
                 => alerts'[call[u].req.arg].acked
<1>0. alerts \in Seq(AlertRows) /\ rows \in Seq(TimedRows)
  BY DEF APIInv, TypeOK, AlertRows, TimedRows
<1>1. /\ alerts \in Seq(AlertRows) /\ rows \in Seq(TimedRows)
      /\ Len(alerts) \in Nat
      /\ \A i \in DOMAIN alerts : alerts[i] \in AlertRows
  BY <1>0
<1>2. rows' \in Seq(TimedRows) /\ refreshed' \in 0 .. Len(rows')
  <2>0. refreshed \in 0 .. Len(rows) /\ refreshed' = refreshed
    BY DEF APIInv, TypeOK, Effect
  <2>1. CASE call[u].req.route = "Insert"
    <3>1. u = Writer
      BY <2>1 DEF APIInv, CallHonest, Users, Statements
    <3>2. call[u].body \in TimedRows
      BY <2>1, <3>1 DEF APIInv, CarriesRow
    <3>3. PICK b \in TimedRows : b = call[u].body
      BY <3>2
    <3>4. rows' = Append(rows, b)
      BY <2>1, <3>3 DEF Effect
    <3>5. rows' \in Seq(TimedRows) /\ Len(rows') = Len(rows) + 1 /\ Len(rows) \in Nat
      BY <1>1, <3>4
    <3> QED
      BY <2>0, <3>5
  <2>2. CASE call[u].req.route # "Insert"
    <3>1. rows' = rows
      BY <2>2 DEF Effect
    <3> QED
      BY <1>1, <2>0, <3>1
  <2> QED
    BY <2>1, <2>2
<1>3. CASE call[u].req.route = "InsertAlert"
  <2>1. alerts' = Append(alerts, [acked |-> FALSE, sent |-> FALSE])
    BY <1>3 DEF Effect
  <2>2. [acked |-> FALSE, sent |-> FALSE] \in AlertRows
    BY DEF AlertRows
  <2>3. /\ alerts' \in Seq(AlertRows) /\ Len(alerts') = Len(alerts) + 1
        /\ \A i \in DOMAIN alerts : alerts'[i] = alerts[i]
    BY <1>1, <2>1, <2>2, AppendAlert
  <2> QED
    BY <1>1, <1>2, <1>3, <2>3 DEF TablesGrow
<1>4. CASE call[u].req.route = "AcknowledgeAlert"
  <2>1. alerts' = Acknowledged(call[u].req.arg)
    BY <1>4 DEF Effect
  <2>2. \A i \in DOMAIN alerts :
           /\ [alerts[i] EXCEPT !.acked = TRUE] \in AlertRows
           /\ [alerts[i] EXCEPT !.acked = TRUE].acked
    BY <1>1 DEF AlertRows
  <2>3. /\ alerts' \in [DOMAIN alerts -> AlertRows]
        /\ \A i \in DOMAIN alerts : alerts[i].acked => alerts'[i].acked
        /\ call[u].req.arg \in DOMAIN alerts => alerts'[call[u].req.arg].acked
    BY <1>1, <2>1, <2>2 DEF Acknowledged, RowWithID
  <2> QED
    BY <1>1, <1>2, <1>4, <2>3, UpdateAlerts DEF TablesGrow
<1>5. CASE call[u].req.route = "MarkDingTalkSent"
  <2>1. alerts' = Mark(call[u].req.arg)
    BY <1>5 DEF Effect
  <2>2. \A i \in DOMAIN alerts :
           /\ [alerts[i] EXCEPT !.sent = TRUE] \in AlertRows
           /\ [alerts[i] EXCEPT !.sent = TRUE].acked = alerts[i].acked
    BY <1>1 DEF AlertRows
  <2>3. /\ alerts' \in [DOMAIN alerts -> AlertRows]
        /\ \A i \in DOMAIN alerts : alerts[i].acked => alerts'[i].acked
    BY <1>1, <2>1, <2>2 DEF Mark
  <2> QED
    BY <1>1, <1>2, <1>5, <2>3, UpdateAlerts DEF TablesGrow
<1>6. CASE call[u].req.route \notin {"InsertAlert", "AcknowledgeAlert", "MarkDingTalkSent"}
  <2>1. alerts' = alerts
    BY <1>6 DEF Effect
  <2> QED
    BY <1>1, <1>2, <1>6, <2>1 DEF TablesGrow
<1> QED
  BY <1>3, <1>4, <1>5, <1>6

LEMMA SameTables ==
    ASSUME APIInv, UNCHANGED tables
    PROVE  TablesGrow /\ Len(alerts') = Len(alerts)
BY DEF APIInv, TypeOK, AlertRows, TimedRows, tables, TablesGrow

LEMMA HistoryKept ==
    ASSUME APIInv, TablesGrow, UNCHANGED history
    PROVE  ToldAcked' /\ ListedExist' /\ told' = told
<1>1. DOMAIN alerts \subseteq DOMAIN alerts'
  <2>1. /\ Len(alerts) \in Nat /\ Len(alerts') \in Nat
        /\ DOMAIN alerts = 1 .. Len(alerts) /\ DOMAIN alerts' = 1 .. Len(alerts')
        /\ Len(alerts') >= Len(alerts)
    BY DEF APIInv, TypeOK, TablesGrow
  <2> QED
    BY <2>1
<1> QED
  BY <1>1 DEF APIInv, ToldAcked, ListedExist, TablesGrow, history

LEMMA InsertedKept ==
    ASSUME APIInv, TablesGrow, inserted' \in {0, inserted}
    PROVE  inserted' \in 0 .. Len(alerts')
<1>1. PICK m \in Nat, n \in Nat : m = Len(alerts) /\ n = Len(alerts')
  BY DEF APIInv, TypeOK, TablesGrow
<1>2. inserted \in 0 .. m /\ n >= m
  BY <1>1 DEF APIInv, TypeOK, TablesGrow
<1> QED
  BY <1>1, <1>2

-----------------------------------------------------------------------------
(* A step of one user of the pool.                                         *)

LEMMA CallStep ==
    ASSUME APIInv, NEW u \in Users, NEW x, IsCall(x), x.stage \in Stages,
           call' = [call EXCEPT ![u] = x],
           UNCHANGED <<process, now, workload>>,
           TablesGrow, inserted' \in 0 .. Len(alerts'),
           told \subseteq told', ToldAcked', ListedExist',
           x.stage = "querying" => HasConn,
           u = Writer => CarriesRow(x),
           u \in Clients => CallHonest(x, alerts', told')
    PROVE  APIInv'
<1>1. /\ CallsTyped'
      /\ call'[u] = x
      /\ \A v \in Users : v # u => call'[v] = call[v]
  BY CallReplaced DEF APIInv
<1>2. TypeOK
  BY DEF APIInv
<1>3. Cardinality(Holding') <= PoolSize
  <2>1. CASE HasConn
    BY <1>1, <1>2, <2>1, HoldingGrows
  <2>2. CASE ~HasConn
    BY <1>1, <1>2, <2>2, HoldingKept
  <2> QED
    BY <2>1, <2>2
<1>4. TypeOK'
  <2>1. /\ phase' = phase /\ ctxDone' = ctxDone /\ now' = now
        /\ workload' = workload
    BY DEF process
  <2>2. /\ DOMAIN call' = Users
        /\ \A v \in Users : call'[v].stage \in Stages
    BY <1>1, <1>2 DEF TypeOK, CallsTyped, Stages
  <2>3. /\ alerts' \in Seq(AlertRows) /\ rows' \in Seq(TimedRows)
        /\ refreshed' \in 0 .. Len(rows')
    BY DEF TablesGrow
  <2> QED
    BY <1>2, <1>3, <2>1, <2>2, <2>3 DEF TypeOK, Stages, AlertRows, TimedRows
<1>5. CarriesRow(call'[Writer])
  BY <1>1, WriterIsUser DEF APIInv
<1>6. \A c \in Clients : CallHonest(call'[c], alerts', told')
  <2> SUFFICES ASSUME NEW c \in Clients
               PROVE  CallHonest(call'[c], alerts', told')
    OBVIOUS
  <2>1. CASE c = u
    BY <1>1, <2>1
  <2>2. CASE c # u
    <3>1. call'[c] = call[c]
      BY <1>1, <2>2, WriterIsUser
    <3>2. CallHonest(call[c], alerts, told)
      BY DEF APIInv
    <3> QED
      BY <1>2, <3>1, <3>2, HonestyLasts
  <2> QED
    BY <2>1, <2>2
<1> QED
  BY <1>1, <1>4, <1>5, <1>6 DEF APIInv

\* A step that leaves the calls, the rows and the history alone.
LEMMA ProcessStep ==
    ASSUME APIInv, UNCHANGED <<workload, alerts, rows, inserted, call, history>>,
           refreshed' \in 0 .. Len(rows),
           phase' \in {"starting", "serving", "draining", "closing", "exited"},
           ctxDone' \in BOOLEAN, now' \in Nat
    PROVE  APIInv'
<1>1. /\ alerts' = alerts /\ rows' = rows /\ told' = told /\ listed' = listed
      /\ call' = call /\ inserted' = inserted /\ workload' = workload
      /\ refreshed' \in 0 .. Len(rows')
  BY DEF history
<1>2. Holding' = Holding
  BY <1>1 DEF Holding
<1>3. TypeOK'
  BY <1>1, <1>2 DEF APIInv, TypeOK
<1>4. CallsTyped' /\ CarriesRow(call[Writer])' /\ ToldAcked' /\ ListedExist'
  BY <1>1 DEF APIInv, CallsTyped, CarriesRow, ToldAcked, ListedExist
<1>5. \A c \in Clients : CallHonest(call'[c], alerts', told')
  BY <1>1 DEF APIInv
<1> QED
  BY <1>3, <1>4, <1>5 DEF APIInv

\* A call of which the stage, the status and the body are set.
LEMMA CallFields ==
    ASSUME CallsTyped, NEW u \in Users, NEW st
    PROVE  /\ [call EXCEPT ![u].stage = "querying"] =
                 [call EXCEPT ![u] = CallWith("querying", call[u].req,
                     call[u].known, call[u].status, call[u].body)]
           /\ [call EXCEPT ![u].stage = "responding", ![u].status = st] =
                 [call EXCEPT ![u] = CallWith("responding", call[u].req,
                     call[u].known, st, call[u].body)]
<1>1. PICK f, x : f = call /\ x = f[u]
  OBVIOUS
<1>2. f = [v \in Users |-> f[v]] /\ x = CallWith(x.stage, x.req, x.known, x.status, x.body)
  BY <1>1 DEF CallsTyped, IsCall
<1>3. [f EXCEPT ![u].stage = "querying"] = [f EXCEPT ![u] = [x EXCEPT !.stage = "querying"]]
  BY <1>1, <1>2
<1>4. [f EXCEPT ![u].stage = "responding", ![u].status = st] =
         [f EXCEPT ![u] = [x EXCEPT !.stage = "responding", !.status = st]]
  BY <1>1, <1>2
<1>5. PICK s, r, k, st1, b1 :
         /\ s = x.stage /\ r = x.req /\ k = x.known /\ st1 = x.status /\ b1 = x.body
  OBVIOUS
<1>6. x = CallWith(s, r, k, st1, b1)
  BY <1>2, <1>5
<1>7. [x EXCEPT !.stage = "querying"] = CallWith("querying", r, k, st1, b1)
  BY <1>6 DEF CallWith
<1>8. PICK y : y = [x EXCEPT !.stage = "responding"]
  OBVIOUS
<1>9. y = CallWith("responding", r, k, st1, b1)
  BY <1>6, <1>8 DEF CallWith
<1>10. [y EXCEPT !.status = st] = CallWith("responding", r, k, st, b1)
  BY <1>9 DEF CallWith
<1>11. [x EXCEPT !.stage = "responding", !.status = st] = [y EXCEPT !.status = st]
  BY <1>8
<1>12. [call EXCEPT ![u].stage = "querying"] =
          [call EXCEPT ![u] = CallWith("querying", call[u].req,
              call[u].known, call[u].status, call[u].body)]
  BY <1>1, <1>3, <1>5, <1>7, Zenon
<1>13. [call EXCEPT ![u].stage = "responding", ![u].status = st] =
          [call EXCEPT ![u] = CallWith("responding", call[u].req,
              call[u].known, st, call[u].body)]
  BY <1>1, <1>4, <1>5, <1>10, <1>11, Zenon
<1> QED
  BY <1>12, <1>13, Zenon

LEMMA AnswerFields ==
    ASSUME CallsTyped, NEW u \in Users, NEW st, NEW b,
           call' = [call EXCEPT ![u].stage = "responding", ![u].status = st, ![u].body = b]
    PROVE  call' = [call EXCEPT ![u] = CallWith("responding", call[u].req,
                                                call[u].known, st, b)]
<1>1. PICK f, x : f = call /\ x = f[u]
  OBVIOUS
<1>2. f = [v \in Users |-> f[v]] /\ x = CallWith(x.stage, x.req, x.known, x.status, x.body)
  BY <1>1 DEF CallsTyped, IsCall
<1>3. [f EXCEPT ![u].stage = "responding", ![u].status = st, ![u].body = b] =
         [f EXCEPT ![u] = [x EXCEPT !.stage = "responding", !.status = st, !.body = b]]
  BY <1>1, <1>2
<1>4. PICK s, r, k, st1, b1 :
         /\ s = x.stage /\ r = x.req /\ k = x.known /\ st1 = x.status /\ b1 = x.body
  OBVIOUS
<1>5. x = CallWith(s, r, k, st1, b1)
  BY <1>2, <1>4
<1>6. PICK y : y = [x EXCEPT !.stage = "responding"]
  OBVIOUS
<1>7. y = CallWith("responding", r, k, st1, b1)
  BY <1>5, <1>6 DEF CallWith
<1>8. PICK z : z = [y EXCEPT !.status = st]
  OBVIOUS
<1>9. z = CallWith("responding", r, k, st, b1)
  BY <1>7, <1>8 DEF CallWith
<1>10. [z EXCEPT !.body = b] = CallWith("responding", r, k, st, b)
  BY <1>9 DEF CallWith
<1>11. [x EXCEPT !.stage = "responding", !.status = st, !.body = b] = [z EXCEPT !.body = b]
  BY <1>6, <1>8
<1> QED
  BY <1>1, <1>3, <1>4, <1>10, <1>11, Zenon

LEMMA IdleIsCall ==
    /\ Idle = CallWith("idle", NoRequest, {}, 0, {})
    /\ IsCall(Idle) /\ CarriesRow(Idle)
    /\ \A a, t : CallHonest(Idle, a, t)
<1>1. Idle = CallWith("idle", NoRequest, {}, 0, {})
  BY DEF Idle, CallWith
<1>2. IsCall(Idle) /\ Idle.stage = "idle" /\ Idle.req = NoRequest
  BY <1>1, CallWithIsCall
<1>3. NoRequest.route = "none"
  BY DEF NoRequest
<1> QED
  BY <1>1, <1>2, <1>3 DEF CarriesRow, CallHonest, Statements

LEMMA FreshCall ==
    ASSUME NEW r, NEW k, NEW b
    PROVE  [Idle EXCEPT !.stage = "waiting", !.req = r, !.known = k, !.body = b] =
               CallWith("waiting", r, k, 0, b)
<1>1. PICK x : x = Idle
  OBVIOUS
<1>2. PICK y : y = [x EXCEPT !.stage = "waiting"]
  OBVIOUS
<1>3. y = CallWith("waiting", NoRequest, {}, 0, {})
  BY <1>1, <1>2, IdleIsCall DEF CallWith
<1>4. PICK z : z = [y EXCEPT !.req = r]
  OBVIOUS
<1>5. z = CallWith("waiting", r, {}, 0, {})
  BY <1>3, <1>4 DEF CallWith
<1>6. PICK w : w = [z EXCEPT !.known = k]
  OBVIOUS
<1>7. w = CallWith("waiting", r, k, 0, {})
  BY <1>5, <1>6 DEF CallWith
<1>8. [w EXCEPT !.body = b] = CallWith("waiting", r, k, 0, b)
  BY <1>7 DEF CallWith
<1>9. [x EXCEPT !.stage = "waiting", !.req = r, !.known = k, !.body = b] =
         [w EXCEPT !.body = b]
  BY <1>2, <1>4, <1>6
<1> QED
  BY <1>1, <1>8, <1>9

LEMMA BeginCalls ==
    ASSUME NEW u, NEW r, NEW k, NEW b, Begin(u, r, k, b)
    PROVE  /\ call' = [call EXCEPT ![u] = CallWith("waiting", r, k, 0, b)]
           /\ call[u].stage = "idle"
<1>1. PICK x : x = [Idle EXCEPT !.stage = "waiting", !.req = r, !.known = k, !.body = b]
  OBVIOUS
<1>2. x = CallWith("waiting", r, k, 0, b)
  BY <1>1, FreshCall, Zenon
<1>3. call' = [call EXCEPT ![u] = x] /\ call[u].stage = "idle"
  BY <1>1 DEF Begin
<1> QED
  BY <1>2, <1>3

-----------------------------------------------------------------------------
(* The actions.                                                            *)

LEMMA RequestStep ==
    ASSUME APIInv, NEW c \in Clients, NEW r \in workload.asked[c], Request(c, r)
    PROVE  APIInv'
<1> DEFINE x == CallWith("waiting", r, Known(r), 0, {})
<1>1. c \in Users /\ c # Writer
  BY WriterIsUser, APIAssumption
<1>2. call' = [call EXCEPT ![c] = x]
  BY BeginCalls DEF Request
<1>3. UNCHANGED <<process, now, workload>> /\ UNCHANGED tables
      /\ UNCHANGED history /\ inserted' = inserted
  BY DEF Request
<1>4. TablesGrow
  BY <1>3, SameTables
<1>5. inserted' \in 0 .. Len(alerts') /\ ToldAcked' /\ ListedExist' /\ told' = told
  BY <1>3, <1>4, InsertedKept, HistoryKept
<1>6. IsCall(x) /\ x.stage = "waiting" /\ x.req = r /\ x.known = Known(r)
  BY CallWithIsCall
<1>7. CallHonest(x, alerts, told)
  <2>1. r.route \notin Statements
    BY APIAssumption DEF APIInv, TypeOK
  <2>2. /\ r.route = "GetActiveAlerts" => Known(r) \subseteq told
        /\ r.route = "AcknowledgeAlert" => Known(r) \subseteq DOMAIN alerts
    BY DEF Known, APIInv, ListedExist
  <2> QED
    BY <1>6, <2>1, <2>2 DEF CallHonest
<1>8. CallHonest(x, alerts', told')
  BY <1>4, <1>5, <1>7, HonestyLasts DEF APIInv
<1> HIDE DEF x
<1> QED
  BY <1>1, <1>2, <1>3, <1>4, <1>5, <1>6, <1>8, CallStep DEF Stages

LEMMA AcquireStep ==
    ASSUME APIInv, NEW u \in Users, Acquire(u)
    PROVE  APIInv'
<1> DEFINE x == CallWith("querying", call[u].req, call[u].known,
                         call[u].status, call[u].body)
<1>1. call' = [call EXCEPT ![u] = x]
  BY CallFields DEF Acquire, APIInv
<1>2. /\ UNCHANGED <<process, now, workload>> /\ UNCHANGED tables
      /\ UNCHANGED history /\ inserted' = inserted
      /\ HasConn /\ call[u].stage = "waiting"
  BY DEF Acquire
<1>3. TablesGrow
  BY <1>2, SameTables
<1>4. inserted' \in 0 .. Len(alerts') /\ ToldAcked' /\ ListedExist' /\ told' = told
  BY <1>2, <1>3, InsertedKept, HistoryKept
<1>5. /\ IsCall(x) /\ x.stage = "querying" /\ x.req = call[u].req
      /\ x.known = call[u].known /\ x.body = call[u].body
  BY CallWithIsCall
<1>6. u = Writer => CarriesRow(x)
  BY <1>5 DEF APIInv, CarriesRow
<1>7. u \in Clients => CallHonest(x, alerts', told')
  <2> SUFFICES ASSUME u \in Clients
               PROVE  CallHonest(x, alerts', told')
    OBVIOUS
  <2>1. CallHonest(call[u], alerts, told)
    BY DEF APIInv
  <2>2. CallHonest(x, alerts, told)
    BY <1>2, <1>5, <2>1 DEF CallHonest
  <2> QED
    BY <1>3, <1>4, <2>2, HonestyLasts DEF APIInv
<1> HIDE DEF x
<1> QED
  BY <1>1, <1>2, <1>3, <1>4, <1>5, <1>6, <1>7, CallStep DEF Stages

LEMMA QueryStep ==
    ASSUME APIInv, NEW c \in Clients, Query(c)
    PROVE  APIInv'
<1> DEFINE r == call[c].req
           x == CallWith("responding", r, call[c].known,
                         IF Missing(r) THEN NotFound ELSE OK, Body(r))
<1>1. c \in Users /\ c # Writer
  BY WriterIsUser, APIAssumption
<1>2. call' = [call EXCEPT ![c] = x]
  <2>1. PICK st, b : st = (IF Missing(r) THEN NotFound ELSE OK) /\ b = Body(r)
    OBVIOUS
  <2>2. call' = [call EXCEPT ![c].stage = "responding", ![c].status = st, ![c].body = b]
    BY <2>1 DEF Query
  <2>3. call' = [call EXCEPT ![c] = CallWith("responding", r, call[c].known, st, b)]
    BY <1>1, <2>2, AnswerFields, Zenon DEF APIInv
  <2> QED
    BY <2>1, <2>3
<1>3. /\ UNCHANGED <<process, now, workload>>
      /\ UNCHANGED history /\ inserted' = inserted
      /\ Effect(c) /\ call[c].stage = "querying"
  BY DEF Query
<1>4. /\ TablesGrow
      /\ (r.route = "AcknowledgeAlert" /\ r.arg \in DOMAIN alerts) => alerts'[r.arg].acked
  BY <1>1, <1>3, EffectGrows
<1>5. inserted' \in 0 .. Len(alerts') /\ ToldAcked' /\ ListedExist' /\ told' = told
  BY <1>3, <1>4, InsertedKept, HistoryKept
<1>6. /\ IsCall(x) /\ x.stage = "responding" /\ x.req = r
      /\ x.known = call[c].known /\ x.body = Body(r)
      /\ x.status = IF Missing(r) THEN NotFound ELSE OK
  BY CallWithIsCall
<1>7. CallHonest(call[c], alerts, told)
  BY DEF APIInv
<1>8. DOMAIN alerts \subseteq DOMAIN alerts'
  <2>1. /\ Len(alerts) \in Nat /\ Len(alerts') \in Nat
        /\ DOMAIN alerts = 1 .. Len(alerts) /\ DOMAIN alerts' = 1 .. Len(alerts')
        /\ Len(alerts') >= Len(alerts)
    BY <1>4 DEF APIInv, TypeOK, TablesGrow
  <2> QED
    BY <2>1
<1>9. CallHonest(x, alerts', told')
  <2>1. r.route \notin Statements
    BY <1>7 DEF CallHonest
  <2>2. CASE r.route = "AcknowledgeAlert"
    <3>1. Missing(r) <=> r.arg \notin DOMAIN alerts
      BY <2>2 DEF Missing, RowWithID
    <3>2. x.status = OK => r.arg \in DOMAIN alerts' /\ alerts'[r.arg].acked
      BY <1>4, <1>6, <1>8, <2>2, <3>1 DEF OK, NotFound
    <3>3. r.arg \in call[c].known => x.status # NotFound
      BY <1>3, <1>6, <1>7, <2>2, <3>1 DEF CallHonest, OK, NotFound
    <3> QED
      BY <1>6, <2>1, <2>2, <3>2, <3>3 DEF CallHonest
  <2>3. CASE r.route = "GetActiveAlerts"
    <3>1. Body(r) = ActiveAlerts
      BY <2>3 DEF Body
    <3>2. call[c].known \subseteq told
      BY <1>3, <1>7, <2>3 DEF CallHonest
    <3>3. ActiveAlerts \subseteq DOMAIN alerts' /\ ActiveAlerts \cap call[c].known = {}
      BY <1>8, <3>2 DEF ActiveAlerts, APIInv, ToldAcked
    <3> QED
      BY <1>6, <2>1, <2>3, <3>1, <3>3 DEF CallHonest
  <2>4. CASE r.route \notin {"AcknowledgeAlert", "GetActiveAlerts"}
    BY <1>6, <2>1, <2>4 DEF CallHonest
  <2> QED
    BY <2>2, <2>3, <2>4
<1> HIDE DEF x
<1> QED
  BY <1>1, <1>2, <1>3, <1>4, <1>5, <1>6, <1>9, CallStep DEF Stages

\* A statement that fails may have taken effect.
LEMMA SpentGrows ==
    ASSUME APIInv, NEW u \in Users, Spent(u)
    PROVE  TablesGrow
BY EffectGrows, SameTables DEF Spent

LEMMA FailStep ==
    ASSUME APIInv, NEW c \in Clients, Fail(c)
    PROVE  APIInv'
<1> DEFINE x == CallWith("responding", call[c].req, call[c].known,
                         ServerError, call[c].body)
<1>1. c \in Users /\ c # Writer
  BY WriterIsUser, APIAssumption
<1>2. call' = [call EXCEPT ![c] = x]
  BY <1>1, CallFields DEF Fail, APIInv
<1>3. /\ UNCHANGED <<process, now, workload>>
      /\ UNCHANGED history /\ inserted' = inserted
  BY DEF Fail
<1>4. TablesGrow
  BY <1>1, SpentGrows DEF Fail
<1>5. inserted' \in 0 .. Len(alerts') /\ ToldAcked' /\ ListedExist' /\ told' = told
  BY <1>3, <1>4, InsertedKept, HistoryKept
<1>6. /\ IsCall(x) /\ x.stage = "responding" /\ x.req = call[c].req
      /\ x.status = ServerError
  BY CallWithIsCall
<1>7. CallHonest(call[c], alerts, told)
  BY DEF APIInv
<1>8. CallHonest(x, alerts', told')
  BY <1>6, <1>7 DEF CallHonest, OK, NotFound, ServerError
<1> HIDE DEF x
<1> QED
  BY <1>1, <1>2, <1>3, <1>4, <1>5, <1>6, <1>8, CallStep DEF Stages

LEMMA RespondStep ==
    ASSUME APIInv, NEW c \in Clients, Respond(c)
    PROVE  APIInv'
<1>1. c \in Users /\ c # Writer
  BY WriterIsUser, APIAssumption
<1>2. /\ call' = [call EXCEPT ![c] = Idle]
      /\ UNCHANGED <<process, now, workload>> /\ UNCHANGED tables
      /\ inserted' = inserted /\ call[c].stage = "responding"
  BY DEF Respond
<1>3. TablesGrow /\ alerts' = alerts
  BY <1>2, SameTables DEF tables
<1>4. CallHonest(call[c], alerts, told)
  BY DEF APIInv
<1>5. told \subseteq told' /\ ToldAcked'
  <2>1. Answered(c, "AcknowledgeAlert") =>
           call[c].req.arg \in DOMAIN alerts /\ alerts[call[c].req.arg].acked
    BY <1>4 DEF Answered, CallHonest
  <2> QED
    BY <1>3, <2>1 DEF Respond, APIInv, ToldAcked
<1>6. ListedExist'
  <2>1. Answered(c, "GetActiveAlerts") => call[c].body \subseteq DOMAIN alerts
    BY <1>4 DEF Answered, CallHonest
  <2> QED
    BY <1>3, <2>1 DEF Respond, APIInv, ListedExist
<1>7. inserted' \in 0 .. Len(alerts')
  BY <1>2, <1>3, InsertedKept
<1>8. IsCall(Idle) /\ Idle.stage = "idle" /\ CallHonest(Idle, alerts', told')
  BY IdleIsCall DEF Idle
<1> QED
  BY <1>1, <1>2, <1>3, <1>5, <1>6, <1>7, <1>8, CallStep DEF Stages

LEMMA WriterBegins ==
    ASSUME APIInv, NEW r, NEW b, Begin(Writer, r, {}, b),
           r.route = "Insert" => b \in TimedRows,
           inserted' \in {0, inserted},
           UNCHANGED <<process, now, workload, tables, history>>
    PROVE  APIInv'
<1> DEFINE x == CallWith("waiting", r, {}, 0, b)
<1>1. call' = [call EXCEPT ![Writer] = x]
  BY BeginCalls
<1>2. TablesGrow
  BY SameTables
<1>3. inserted' \in 0 .. Len(alerts') /\ ToldAcked' /\ ListedExist' /\ told' = told
  BY <1>2, InsertedKept, HistoryKept
<1>4. IsCall(x) /\ x.stage = "waiting" /\ x.req = r /\ x.body = b
  BY CallWithIsCall
<1>5. CarriesRow(x)
  BY <1>4 DEF CarriesRow
<1>6. Writer \in Users /\ Writer \notin Clients
  BY WriterIsUser, APIAssumption
<1> HIDE DEF x
<1> QED
  BY <1>1, <1>2, <1>3, <1>4, <1>5, <1>6, CallStep DEF Stages

LEMMA WriterEnds ==
    ASSUME APIInv, call' = [call EXCEPT ![Writer] = Idle], TablesGrow,
           inserted' \in 0 .. Len(alerts'),
           UNCHANGED <<process, now, workload, history>>
    PROVE  APIInv'
<1>1. ToldAcked' /\ ListedExist' /\ told' = told
  BY HistoryKept
<1>2. IsCall(Idle) /\ Idle.stage = "idle" /\ CarriesRow(Idle)
  BY IdleIsCall DEF Idle
<1>3. Writer \in Users /\ Writer \notin Clients
  BY WriterIsUser, APIAssumption
<1> QED
  BY <1>1, <1>2, <1>3, CallStep DEF Stages

LEMMA WriterStep ==
    ASSUME APIInv,
           InsertAlert \/ MarkDingTalkSent \/ (\E d \in Devices : Record(d)) \/ Done \/ Abandon
    PROVE  APIInv'
<1>1. CASE InsertAlert
  <2>1. Statement("InsertAlert", 0).route # "Insert"
    BY DEF Statement, NoRequest
  <2> QED
    BY <1>1, <2>1, WriterBegins DEF InsertAlert
<1>2. CASE MarkDingTalkSent
  <2>1. Statement("MarkDingTalkSent", inserted).route # "Insert"
    BY DEF Statement, NoRequest
  <2> QED
    BY <1>2, <2>1, WriterBegins DEF MarkDingTalkSent
<1>3. ASSUME NEW d \in Devices, Record(d)
      PROVE  APIInv'
  <2>1. d \in Nat /\ now \in Nat
    BY APIAssumption DEF Devices, APIInv, TypeOK
  <2>2. [id |-> d, time |-> now] \in TimedRows
    BY <2>1 DEF TimedRows
  <2> QED
    BY <1>3, <2>2, WriterBegins DEF Record
<1>4. CASE Done
  <2>1. TablesGrow /\ Len(alerts') = IF call[Writer].req.route = "InsertAlert"
                                     THEN Len(alerts) + 1 ELSE Len(alerts)
    BY <1>4, EffectGrows, WriterIsUser DEF Done
  <2>2. PICK m \in Nat : m = Len(alerts) /\ inserted \in 0 .. m
    BY DEF APIInv, TypeOK
  <2>3. inserted' \in 0 .. Len(alerts')
    BY <1>4, <2>1, <2>2 DEF Done
  <2> QED
    BY <1>4, <2>1, <2>3, WriterEnds DEF Done
<1>5. CASE Abandon
  <2>1. TablesGrow
    BY <1>5, SpentGrows, WriterIsUser DEF Abandon
  <2>2. inserted' \in 0 .. Len(alerts')
    BY <1>5, <2>1, InsertedKept DEF Abandon
  <2> QED
    BY <1>5, <2>1, <2>2, WriterEnds DEF Abandon
<1> QED
  BY <1>1, <1>2, <1>3, <1>4, <1>5

LEMMA MainStep ==
    ASSUME APIInv, Start \/ Signal \/ ShutdownReturns \/ CloseReturns \/ Tick \/ Refresh
    PROVE  APIInv'
<1>1. phase \in {"starting", "serving", "draining", "closing", "exited"}
      /\ ctxDone \in BOOLEAN /\ now \in Nat
      /\ refreshed \in 0 .. Len(rows) /\ Len(rows) \in Nat
  BY DEF APIInv, TypeOK
<1>2. /\ UNCHANGED <<workload, alerts, rows, inserted, call, history>>
      /\ refreshed' \in 0 .. Len(rows)
      /\ phase' \in {"starting", "serving", "draining", "closing", "exited"}
      /\ ctxDone' \in BOOLEAN /\ now' \in Nat
  <2>1. CASE Start \/ ShutdownReturns \/ CloseReturns
    BY <1>1, <2>1 DEF Start, ShutdownReturns, CloseReturns, tables
  <2>2. CASE Signal
    BY <1>1, <2>2 DEF Signal, CancelFirst, tables
  <2>3. CASE Tick
    BY <1>1, <2>3 DEF Tick, process, tables
  <2>4. CASE Refresh
    <3>1. refreshed' \in refreshed + 1 .. Len(rows)
      BY <2>4 DEF Refresh
    <3>2. refreshed' \in 0 .. Len(rows)
      BY <1>1, <3>1
    <3> QED
      BY <1>1, <2>4, <3>2 DEF Refresh, process
  <2> QED
    BY <2>1, <2>2, <2>3, <2>4
<1> QED
  BY <1>2, ProcessStep

LEMMA Stutter ==
    ASSUME APIInv, UNCHANGED vars
    PROVE  APIInv'
<1>1. /\ UNCHANGED <<workload, alerts, rows, inserted, call, history>>
      /\ phase' = phase /\ ctxDone' = ctxDone /\ now' = now /\ refreshed' = refreshed
  BY DEF vars, process, tables
<1> QED
  BY <1>1, ProcessStep DEF APIInv, TypeOK

LEMMA APIStep == APIInv /\ [Next]_vars => APIInv'
<1> SUFFICES ASSUME APIInv, [Next]_vars
             PROVE  APIInv'
  OBVIOUS
<1>1. ASSUME NEW c \in Clients, NEW r \in workload.asked[c],
             Request(c, r) \/ Refuse(c, r)
      PROVE  APIInv'
  BY <1>1, RequestStep, Stutter DEF Refuse
<1>2. ASSUME NEW u \in Users, Acquire(u)
      PROVE  APIInv'
  BY <1>2, AcquireStep
<1>3. ASSUME NEW c \in Clients, Query(c) \/ Fail(c) \/ Respond(c)
      PROVE  APIInv'
  BY <1>3, QueryStep, FailStep, RespondStep
<1>4. CASE InsertAlert \/ MarkDingTalkSent \/ (\E d \in Devices : Record(d)) \/ Done \/ Abandon
  BY <1>4, WriterStep
<1>5. CASE Start \/ Signal \/ ShutdownReturns \/ CloseReturns \/ Tick \/ Refresh
  BY <1>5, MainStep
<1>6. CASE UNCHANGED vars
  BY <1>6, Stutter
<1> QED
  BY <1>1, <1>2, <1>3, <1>4, <1>5, <1>6 DEF Next

LEMMA APIStart == Init => APIInv
<1> SUFFICES ASSUME Init
             PROVE  APIInv
  OBVIOUS
<1>1. call = [u \in Users |-> Idle] /\ \A u \in Users : call[u] = Idle
  BY DEF Init
<1>2. CallsTyped /\ CarriesRow(call[Writer])
      /\ \A c \in Clients : CallHonest(call[c], alerts, told)
  BY <1>1, IdleIsCall, WriterIsUser DEF CallsTyped
<1>3. Idle.stage = "idle"
  BY DEF Idle
<1>4. Cardinality(Holding) <= PoolSize
  <2>1. Holding = {}
    BY <1>1, <1>3 DEF Holding
  <2> QED
    BY <2>1, FS_EmptySet, APIAssumption
<1>5. TypeOK
  <2>1. /\ alerts \in Seq([acked : BOOLEAN, sent : BOOLEAN])
        /\ rows \in Seq([id : Nat, time : Nat]) /\ Len(alerts) = 0
        /\ Len(rows) = 0
    BY DEF Init
  <2>2. inserted \in 0 .. Len(alerts) /\ refreshed \in 0 .. Len(rows)
    BY <2>1 DEF Init
  <2>3. DOMAIN call = Users /\ \A u \in Users : call[u].stage = "idle"
    BY <1>1, <1>3
  <2> QED
    BY <1>4, <2>1, <2>2, <2>3 DEF Init, TypeOK
<1> QED
  BY <1>2, <1>5 DEF Init, APIInv, ToldAcked, ListedExist

LEMMA APIInvariant == Spec => []APIInv
<1>1. APIInv /\ [Next]_vars => APIInv'
  BY APIStep
<1> QED
  BY <1>1, APIStart, PTL DEF Spec

-----------------------------------------------------------------------------
\* The state is typed, and no more than PoolSize connections are out, in every
\* behaviour (db.go:20-33, api.go).
THEOREM PoolIsRespected == Spec => []TypeOK
<1>1. APIInv => TypeOK
  BY DEF APIInv
<1> QED
  BY <1>1, APIInvariant, PTL

\* Once a client has been told that an alert is acknowledged it stays so, and no
\* list that is asked for afterwards shows it, however many clients, alerts and
\* failures there are (api.go:260-286, db.go:123-137, 309-315).
THEOREM AcknowledgementLasts == Spec => []AcknowledgedForGood
<1>1. APIInv => AcknowledgedForGood
  BY DEF APIInv, ToldAcked, CallHonest, AcknowledgedForGood, Answered
<1> QED
  BY <1>1, APIInvariant, PTL

\* No acknowledgement of an alert that some client had seen listed is answered
\* with "not found" (api.go:275-286).
THEOREM ListedIsFound == Spec => []ListedCanBeAcknowledged
<1>1. APIInv => ListedCanBeAcknowledged
  BY DEF APIInv, CallHonest, ListedCanBeAcknowledged
<1> QED
  BY <1>1, APIInvariant, PTL

-----------------------------------------------------------------------------
(* Freshness: the table of timed rows is in the order of its times, because*)
(* its one writer takes the time before the insert and makes one insert at *)
(* a time.                                                                 *)

RowSet == {rows[i] : i \in DOMAIN rows}

\* What device_data_5min shows, and who reads it.
ViewSet == Contents("device_data", DeviceData5Min)
ViewRoutes == {"GetDeviceData24h", "GetLatestDeviceStatus"}

RowsInOrder ==
    /\ \A i, j \in DOMAIN rows : i <= j => rows[i].time <= rows[j].time
    /\ \A i \in DOMAIN rows : rows[i].time <= now

\* The row of an insert under way is as new as any stored.
InsertInOrder(x) ==
    x.req.route = "Insert" =>
        x.body.time <= now /\ \A i \in DOMAIN rows : rows[i].time <= x.body.time

\* A call x is the answer to this route while table t is the one written.
Given(x, t, route, table) ==
    x.stage = "responding" /\ x.status = OK /\ x.req.route = route /\ t = table

Window(x, n, hours) == {s \in x.known : s.time >= n - hours}

WholeWindow(x, t, n) ==
    (\/ Given(x, t, "GetPUERecords", "pue_records")
     \/ Given(x, t, "GetCoolingAllocations", "cooling_allocation"))
       => Window(x, n, Hours(x.req)) \subseteq x.body

WholeHistory(x, t, n) ==
    Given(x, t, "GetDeviceData24h", "device_data")
       => {s \in Window(x, n, Hours(x.req)) : s.id = x.req.arg} \subseteq x.body

NoOlderState(x, t) ==
    Given(x, t, "GetLatestDeviceStatus", "device_data")
       => \A s \in x.known : \E b \in x.body : b.id = s.id /\ s \notin Newer({s}, b)

NoNewerPUE(x, t, n) ==
    /\ Given(x, t, "GetCurrentPUE", "pue_records")
         => \A s \in x.body : Newer(Window(x, n, 1), s) = {}
    /\ (x.status = NotFound /\ x.req.route = "GetCurrentPUE" /\ t = "pue_records")
         => Window(x, n, 1) = {}

NewestListed(x, t) ==
    Given(x, t, "GetOptimizationSuggestions", "optimization_suggestions")
       => \A b \in x.body : Newer(x.known \ x.body, b) = {}

FreshAnswer(x, t, n) ==
    /\ WholeWindow(x, t, n) /\ WholeHistory(x, t, n)
    /\ NoOlderState(x, t) /\ NoNewerPUE(x, t, n) /\ NewestListed(x, t)

AlertRoutes == {"GetActiveAlerts", "AcknowledgeAlert"}

\* A question about the rows knows no more than the table R holds, one about the
\* view no more than the view V shows.
CallFresh(x, t, R, V, n) ==
    /\ Hours(x.req) \in Int
    /\ x.stage # "responding" => x.status = 0
    /\ x.req.route \notin AlertRoutes =>
          /\ x.known \subseteq TimedRows
          /\ x.stage \in {"waiting", "querying"} => x.known \subseteq R
    /\ (x.req.route \in ViewRoutes /\ x.stage \in {"waiting", "querying"})
          => x.known \subseteq V
    /\ FreshAnswer(x, t, n)

FreshInv ==
    /\ RowsInOrder
    /\ InsertInOrder(call[Writer])
    /\ \A c \in Clients : CallFresh(call[c], workload.table, RowSet, ViewSet, now)

LEMMA FreshSuffices ==
    ASSUME FreshInv
    PROVE  AnswersAreFresh
<1> SUFFICES ASSUME NEW c \in Clients
             PROVE  /\ (\/ Answered(c, "GetPUERecords") /\ workload.table = "pue_records"
                        \/ /\ Answered(c, "GetCoolingAllocations")
                           /\ workload.table = "cooling_allocation")
                          => Stored(c, Hours(call[c].req)) \subseteq call[c].body
                    /\ (Answered(c, "GetDeviceData24h") /\ workload.table = "device_data")
                          => {s \in Stored(c, Hours(call[c].req)) : s.id = call[c].req.arg}
                                \subseteq call[c].body
                    /\ (Answered(c, "GetLatestDeviceStatus") /\ workload.table = "device_data")
                          => \A s \in call[c].known :
                                \E t \in call[c].body : t.id = s.id /\ s \notin Newer({s}, t)
                    /\ (Answered(c, "GetCurrentPUE") /\ workload.table = "pue_records")
                          => \A s \in call[c].body : Newer(Stored(c, 1), s) = {}
                    /\ (/\ call[c].status = NotFound /\ call[c].req.route = "GetCurrentPUE"
                        /\ workload.table = "pue_records")
                          => Stored(c, 1) = {}
                    /\ (/\ Answered(c, "GetOptimizationSuggestions")
                        /\ workload.table = "optimization_suggestions")
                          => \A t \in call[c].body :
                                Newer(call[c].known \ call[c].body, t) = {}
  BY DEF AnswersAreFresh
<1>1. FreshAnswer(call[c], workload.table, now)
  BY DEF FreshInv, CallFresh
<1>2. \A hours : Stored(c, hours) = Window(call[c], now, hours)
  BY DEF Stored, Window
<1>3. \A route, table :
         (Answered(c, route) /\ workload.table = table)
            => Given(call[c], workload.table, route, table)
  BY DEF Answered, Given
<1> QED
  BY <1>1, <1>2, <1>3
     DEF FreshAnswer, WholeWindow, WholeHistory, NoOlderState, NoNewerPUE, NewestListed

\* An answer stays fresh while time passes: its window only shrinks.
LEMMA FreshnessLasts ==
    ASSUME NEW x, NEW t, NEW R, NEW S, NEW V, NEW W, NEW n \in Nat, NEW m \in Nat,
           n <= m, R \subseteq S, V \subseteq W, CallFresh(x, t, R, V, n)
    PROVE  CallFresh(x, t, S, W, m)
<1>1. Hours(x.req) \in Int
  BY DEF CallFresh
<1>2. x.req.route \notin AlertRoutes =>
         \A h \in Int : Window(x, m, h) \subseteq Window(x, n, h)
  <2> SUFFICES ASSUME x.known \subseteq TimedRows, NEW h \in Int, NEW s \in Window(x, m, h)
               PROVE  s \in Window(x, n, h)
    BY DEF CallFresh
  <2>1. s \in x.known /\ s.time \in Nat /\ s.time >= m - h
    BY DEF Window, TimedRows
  <2> QED
    BY <2>1 DEF Window
<1>3. WholeWindow(x, t, m)
  BY <1>1, <1>2 DEF CallFresh, FreshAnswer, WholeWindow, Given, AlertRoutes
<1>4. WholeHistory(x, t, m)
  BY <1>1, <1>2 DEF CallFresh, FreshAnswer, WholeHistory, Given, AlertRoutes
<1>5. NoNewerPUE(x, t, m)
  <2>1. x.req.route = "GetCurrentPUE" => Window(x, m, 1) \subseteq Window(x, n, 1)
    BY <1>2 DEF AlertRoutes
  <2>2. \A s : Window(x, m, 1) \subseteq Window(x, n, 1) =>
            Newer(Window(x, m, 1), s) \subseteq Newer(Window(x, n, 1), s)
    BY DEF Newer
  <2> QED
    BY <2>1, <2>2 DEF CallFresh, FreshAnswer, NoNewerPUE, Given
<1>6. NoOlderState(x, t) /\ NewestListed(x, t)
  BY DEF CallFresh, FreshAnswer
<1> QED
  BY <1>3, <1>4, <1>5, <1>6 DEF CallFresh, FreshAnswer

\* A call that is not an answer is fresh.
LEMMA NoAnswerIsFresh ==
    ASSUME NEW x, NEW t, NEW R, NEW V, NEW n, Hours(x.req) \in Int,
           x.stage # "responding" \/ x.status \notin {OK, NotFound},
           x.stage # "responding" => x.status = 0,
           x.req.route \notin AlertRoutes =>
              /\ x.known \subseteq TimedRows
              /\ x.stage \in {"waiting", "querying"} => x.known \subseteq R,
           (x.req.route \in ViewRoutes /\ x.stage \in {"waiting", "querying"})
              => x.known \subseteq V
    PROVE  CallFresh(x, t, R, V, n)
<1>1. \A route, table : ~Given(x, t, route, table)
  BY DEF Given
<1>2. x.status # NotFound
  BY DEF NotFound
<1> QED
  BY <1>1, <1>2 DEF CallFresh, FreshAnswer, WholeWindow, WholeHistory, NoOlderState,
                    NoNewerPUE, NewestListed

-----------------------------------------------------------------------------
(* The last of some places.                                                *)

LEMMA LessIsWellFounded == IsWellFoundedOn({p \in Nat \X Nat : p[1] < p[2]}, Nat)
BY NatLessThanWellFounded DEF OpToRel

LEMMA LeastNatural ==
    ASSUME NEW T, T \subseteq Nat, T # {}
    PROVE  \E m \in T : \A k \in T : m <= k
<1> DEFINE R == {p \in Nat \X Nat : p[1] < p[2]}
<1>1. \A k \in Nat, m \in Nat : <<k, m>> \in R <=> k < m
  OBVIOUS
<1>2. IsWellFoundedOn(R, Nat)
  BY LessIsWellFounded
<1> HIDE DEF R
<1>3. PICK m \in T : \A k \in T : ~(<<k, m>> \in R)
  BY <1>2, WFMin
<1>4. m \in Nat /\ \A k \in T : k \in Nat /\ ~(k < m)
  BY <1>1, <1>3
<1> QED
  BY <1>4

LEMMA GreatestPlace ==
    ASSUME NEW n \in Nat, NEW I, I \subseteq 1 .. n, I # {}
    PROVE  \E m \in I : \A k \in I : k <= m
<1> DEFINE T == {n - i : i \in I}
<1>1. T \subseteq Nat /\ T # {}
  <2>1. \A i \in I : i \in 1 .. n /\ n - i \in Nat
    OBVIOUS
  <2>2. PICK i : i \in I
    OBVIOUS
  <2>3. n - i \in T
    BY <2>2
  <2> QED
    BY <2>1, <2>3
<1>2. PICK m \in T : \A k \in T : m <= k
  <2> HIDE DEF T
  <2> QED
    BY <1>1, LeastNatural
<1>3. PICK i \in I : m = n - i
  BY <1>2
<1>4. \A k \in I : n - i <= n - k
  BY <1>2, <1>3
<1>5. \A k \in I : k \in Int /\ i \in Int
  BY <1>3
<1> QED
  BY <1>3, <1>4, <1>5

\* A time of the rows, and what a place later than another holds.
LEMMA RowTimes ==
    ASSUME APIInv, FreshInv
    PROVE  /\ Len(rows) \in Nat /\ DOMAIN rows = 1 .. Len(rows)
           /\ \A i \in DOMAIN rows : rows[i] \in TimedRows /\ rows[i].time \in Nat
           /\ \A i, j \in DOMAIN rows : i <= j => ~(rows[i].time > rows[j].time)
<1>1. rows \in Seq(TimedRows)
  BY DEF APIInv, TypeOK, TimedRows
<1>2. \A i \in DOMAIN rows : rows[i] \in TimedRows /\ rows[i].time \in Nat
  <2>1. \A i \in DOMAIN rows : rows[i] \in TimedRows
    BY <1>1
  <2> QED
    BY <2>1 DEF TimedRows
<1>3. \A i, j \in DOMAIN rows : i <= j => ~(rows[i].time > rows[j].time)
  BY <1>2 DEF FreshInv, RowsInOrder
<1> QED
  BY <1>1, <1>2, <1>3

LEMMA WindowIsShown ==
    ASSUME APIInv, FreshInv, NEW t, workload.table = t, NEW h \in Int,
           NEW x, x.known \subseteq RowSet
    PROVE  Window(x, now, h) \subseteq Contents(t, Within(t, h))
<1> SUFFICES ASSUME NEW s \in Window(x, now, h)
             PROVE  s \in Contents(t, Within(t, h))
  OBVIOUS
<1>1. s \in RowSet /\ s.time >= now - h
  BY DEF Window
<1>2. PICK i \in DOMAIN rows : s = rows[i]
  BY <1>1 DEF RowSet
<1>3. Table(t) = rows
  BY DEF Table
<1>4. i \in Within(t, h)
  BY <1>1, <1>2, <1>3 DEF Within
<1> QED
  BY <1>2, <1>3, <1>4 DEF Contents

\* The view shows the first rows of the devices' table, and no others.
LEMMA ViewRows ==
    /\ ViewSet \subseteq RowSet
    /\ workload.table = "device_data" =>
          /\ DeviceData5Min = {i \in DOMAIN rows : i <= refreshed}
          /\ \A s \in ViewSet : \E i \in DeviceData5Min : s = rows[i]
    /\ workload.table # "device_data" => ViewSet = {}
BY DEF ViewSet, RowSet, Contents, DeviceData5Min, Table

LEMMA HistoryIsShown ==
    ASSUME APIInv, FreshInv, workload.table = "device_data",
           NEW h \in Int, NEW d, NEW x, x.known \subseteq ViewSet
    PROVE  {s \in Window(x, now, h) : s.id = d}
              \subseteq Contents("device_data", COPHistory(d, h))
<1> DEFINE t == "device_data"
<1> SUFFICES ASSUME NEW s \in Window(x, now, h), s.id = d
             PROVE  s \in Contents(t, COPHistory(d, h))
  OBVIOUS
<1>1. s \in ViewSet /\ s.time >= now - h
  BY DEF Window
<1>2. PICK i \in DeviceData5Min : s = rows[i] /\ i \in DOMAIN rows
  BY <1>1, ViewRows
<1>3. Table(t) = rows
  BY DEF Table
<1>4. i \in COPHistory(d, h)
  BY <1>1, <1>2, <1>3 DEF COPHistory, Within
<1> QED
  BY <1>2, <1>3, <1>4 DEF Contents

\* Of every device that has a row in the view the last one there is shown.
LEMMA StatesAreShown ==
    ASSUME APIInv, FreshInv, workload.table = "device_data", NEW s \in ViewSet
    PROVE  \E b \in Contents("device_data", LatestDeviceStatus) :
              b.id = s.id /\ s \notin Newer({s}, b)
<1> DEFINE t == "device_data"
           I == {j \in DeviceData5Min : rows[j].id = s.id}
<1>0. DeviceData5Min \subseteq DOMAIN rows
  BY ViewRows
<1>1. PICK i \in DeviceData5Min : s = rows[i] /\ i \in DOMAIN rows
  BY <1>0, ViewRows
<1>2. Table(t) = rows
  BY DEF Table
<1>3. Len(rows) \in Nat /\ I \subseteq 1 .. Len(rows) /\ I # {}
  BY <1>0, <1>1, RowTimes
<1>4. PICK m \in I : \A k \in I : k <= m
  <2> HIDE DEF I
  <2> QED
    BY <1>3, GreatestPlace
<1>5. /\ m \in DeviceData5Min /\ m \in DOMAIN rows
      /\ rows[m].id = s.id /\ i <= m
  BY <1>0, <1>1, <1>4
<1>6. \A j \in DeviceData5Min : j > m => rows[j].id # rows[m].id
  <2> SUFFICES ASSUME NEW j \in DeviceData5Min, j > m, rows[j].id = rows[m].id
               PROVE  FALSE
    OBVIOUS
  <2>1. j <= m
    BY <1>4, <1>5
  <2>2. j \in Nat /\ m \in Nat
    BY <1>0, <1>5, RowTimes
  <2> QED
    BY <2>1, <2>2
<1>7. m \in LatestDeviceStatus
  BY <1>2, <1>5, <1>6 DEF LatestDeviceStatus
<1>8. rows[m] \in Contents(t, LatestDeviceStatus)
  BY <1>2, <1>7 DEF Contents
<1>9. s \notin Newer({s}, rows[m])
  BY <1>1, <1>5, RowTimes DEF Newer
<1> QED
  BY <1>5, <1>8, <1>9

\* The current PUE is the newest of the last hour.
LEMMA PUEIsNewest ==
    ASSUME APIInv, FreshInv, workload.table = "pue_records",
           NEW x, x.known \subseteq RowSet
    PROVE  /\ \A b \in Contents("pue_records", CurrentPUE) : Newer(Window(x, now, 1), b) = {}
           /\ PUERecords(1) = {} => Window(x, now, 1) = {}
<1> DEFINE t == "pue_records"
<1>1. Table(t) = rows
  BY DEF Table
<1>2. \A s \in Window(x, now, 1) : \E i \in PUERecords(1) : s = rows[i]
  <2> SUFFICES ASSUME NEW s \in Window(x, now, 1)
               PROVE  \E i \in PUERecords(1) : s = rows[i]
    OBVIOUS
  <2>1. s \in Contents(t, Within(t, 1))
    BY WindowIsShown
  <2> QED
    BY <1>1, <2>1 DEF Contents, PUERecords
<1>3. ASSUME NEW b \in Contents(t, CurrentPUE), NEW s \in Window(x, now, 1), s.time > b.time
      PROVE  FALSE
  <2>1. PICK m \in CurrentPUE : b = rows[m]
    BY <1>1 DEF Contents
  <2>2. PICK i \in PUERecords(1) : s = rows[i]
    BY <1>2
  <2>3. m \in DOMAIN rows /\ i \in DOMAIN rows /\ i <= m
    BY <1>1, <2>1, <2>2 DEF CurrentPUE, LastRecord, PUERecords, Within
  <2> QED
    BY <1>3, <2>1, <2>2, <2>3, RowTimes
<1> QED
  BY <1>2, <1>3 DEF Newer

\* What is not among the newest is no newer than what is.
LEMMA SuggestionsAreNewest ==
    ASSUME APIInv, FreshInv, workload.table = "optimization_suggestions",
           NEW x, x.known \subseteq RowSet,
           x.body = Contents("optimization_suggestions", OptimizationSuggestions)
    PROVE  \A b \in x.body : Newer(x.known \ x.body, b) = {}
<1> DEFINE t == "optimization_suggestions"
<1>1. Table(t) = rows
  BY DEF Table
<1>2. ASSUME NEW b \in x.body, NEW s \in x.known \ x.body, s.time > b.time
      PROVE  FALSE
  <2>1. PICK j \in OptimizationSuggestions : b = rows[j]
    BY <1>1 DEF Contents
  <2>2. PICK i \in DOMAIN rows : s = rows[i]
    BY DEF RowSet
  <2>3. i \notin OptimizationSuggestions
    BY <1>1, <1>2, <2>2 DEF Contents
  <2>4. PICK n \in Nat : n = Len(rows) /\ DOMAIN rows = 1 .. n
    BY RowTimes
  <2>5. j \in 1 .. n /\ j > n - Newest /\ i \in 1 .. n /\ ~(i > n - Newest)
    BY <1>1, <2>1, <2>2, <2>3, <2>4 DEF OptimizationSuggestions, NewestFirst
  <2>6. i <= j
    BY <2>5, APIAssumption
  <2> QED
    BY <1>2, <2>1, <2>2, <2>4, <2>5, <2>6, RowTimes
<1> QED
  BY <1>2 DEF Newer

LEMMA HoursAreNumbers ==
    ASSUME APIInv, NEW c \in Clients, NEW r \in workload.asked[c]
    PROVE  Hours(r) \in Int
<1>1. r.hours = NotANumber \/ r.hours \in Int
  BY APIAssumption DEF APIInv, TypeOK
<1> QED
  BY <1>1 DEF Hours

\* A query answers with what the table holds.
LEMMA QueryIsFresh ==
    ASSUME APIInv, FreshInv, NEW c \in Clients, call[c].stage = "querying",
           NEW x, x = CallWith("responding", call[c].req, call[c].known,
                               IF Missing(call[c].req) THEN NotFound ELSE OK,
                               Body(call[c].req))
    PROVE  CallFresh(x, workload.table, RowSet, ViewSet, now)
<1> DEFINE r == call[c].req
           t == workload.table
<1>1. /\ x.stage = "responding" /\ x.req = r /\ x.known = call[c].known
      /\ x.status = (IF Missing(r) THEN NotFound ELSE OK) /\ x.body = Body(r)
  BY CallWithIsCall
<1>2. /\ Hours(x.req) \in Int
      /\ x.req.route \notin AlertRoutes => x.known \subseteq TimedRows /\ x.known \subseteq RowSet
      /\ x.req.route \in ViewRoutes => x.known \subseteq ViewSet
  BY <1>1 DEF FreshInv, CallFresh
<1>3. WholeWindow(x, t, now)
  <2>1. CASE Given(x, t, "GetPUERecords", "pue_records")
    <3>1. x.body = Contents("pue_records", Within("pue_records", Hours(x.req)))
      BY <1>1, <2>1 DEF Given, Body, PUERecords
    <3>2. x.known \subseteq RowSet
      BY <1>2, <2>1 DEF Given, AlertRoutes
    <3> QED
      BY <1>2, <2>1, <3>1, <3>2, WindowIsShown DEF Given, WholeWindow
  <2>2. CASE Given(x, t, "GetCoolingAllocations", "cooling_allocation")
    <3>1. x.body = Contents("cooling_allocation", Within("cooling_allocation", Hours(x.req)))
      BY <1>1, <2>2 DEF Given, Body, CoolingAllocations
    <3>2. x.known \subseteq RowSet
      BY <1>2, <2>2 DEF Given, AlertRoutes
    <3> QED
      BY <1>2, <2>2, <3>1, <3>2, WindowIsShown DEF Given, WholeWindow
  <2> QED
    BY <2>1, <2>2 DEF WholeWindow
<1>4. WholeHistory(x, t, now)
  <2> SUFFICES ASSUME Given(x, t, "GetDeviceData24h", "device_data")
               PROVE  {s \in Window(x, now, Hours(x.req)) : s.id = x.req.arg} \subseteq x.body
    BY DEF WholeHistory
  <2>1. x.body = Contents("device_data", COPHistory(x.req.arg, Hours(x.req)))
    BY <1>1 DEF Given, Body
  <2>2. x.known \subseteq ViewSet /\ t = "device_data"
    BY <1>2 DEF Given, ViewRoutes
  <2> QED
    BY <1>2, <2>1, <2>2, HistoryIsShown
<1>5. NoOlderState(x, t)
  <2> SUFFICES ASSUME Given(x, t, "GetLatestDeviceStatus", "device_data"),
                      NEW s \in x.known
               PROVE  \E b \in x.body : b.id = s.id /\ s \notin Newer({s}, b)
    BY DEF NoOlderState
  <2>1. x.body = Contents("device_data", LatestDeviceStatus)
    BY <1>1 DEF Given, Body
  <2>2. s \in ViewSet /\ t = "device_data"
    BY <1>2 DEF Given, ViewRoutes
  <2> QED
    BY <2>1, <2>2, StatesAreShown
<1>6. NoNewerPUE(x, t, now)
  <2>1. CASE x.req.route = "GetCurrentPUE" /\ t = "pue_records"
    <3>1. x.body = Contents("pue_records", CurrentPUE)
      BY <1>1, <2>1 DEF Body
    <3>2. x.known \subseteq RowSet
      BY <1>2, <2>1 DEF AlertRoutes
    <3>3. x.status = NotFound => PUERecords(1) = {}
      BY <1>1, <2>1 DEF Missing, OK, NotFound
    <3> QED
      BY <2>1, <3>1, <3>2, <3>3, PUEIsNewest DEF NoNewerPUE
  <2> QED
    BY <2>1 DEF NoNewerPUE, Given
<1>7. NewestListed(x, t)
  <2> SUFFICES ASSUME Given(x, t, "GetOptimizationSuggestions", "optimization_suggestions")
               PROVE  \A b \in x.body : Newer(x.known \ x.body, b) = {}
    BY DEF NewestListed
  <2>1. x.body = Contents("optimization_suggestions", OptimizationSuggestions)
    BY <1>1 DEF Given, Body
  <2>2. x.known \subseteq RowSet /\ t = "optimization_suggestions"
    BY <1>2 DEF Given, AlertRoutes
  <2> QED
    BY <2>1, <2>2, SuggestionsAreNewest
<1> QED
  BY <1>1, <1>2, <1>3, <1>4, <1>5, <1>6, <1>7 DEF CallFresh, FreshAnswer

-----------------------------------------------------------------------------
(* The steps.                                                              *)

\* The view shows more rows when rows are added, or when it is refreshed.
LEMMA ViewGrows ==
    ASSUME APIInv, workload' = workload,
           DOMAIN rows \subseteq DOMAIN rows', \A i \in DOMAIN rows : rows'[i] = rows[i],
           refreshed' \in Nat, refreshed <= refreshed'
    PROVE  ViewSet \subseteq ViewSet'
<1> SUFFICES ASSUME workload.table = "device_data"
             PROVE  ViewSet \subseteq ViewSet'
  BY ViewRows
<1>1. \A s \in ViewSet : \E i \in DOMAIN rows : i <= refreshed /\ s = rows[i]
  BY ViewRows
<1>2. refreshed \in Nat /\ \A i \in DOMAIN rows : i \in Nat
  BY DEF APIInv, TypeOK
<1>3. \A i \in DOMAIN rows' : i <= refreshed' => rows'[i] \in ViewSet'
  BY DEF ViewSet, Contents, DeviceData5Min, Table
<1> QED
  BY <1>1, <1>2, <1>3

\* Time passes, the view is refreshed, or nothing happens.
LEMMA FreshElsewhere ==
    ASSUME APIInv, FreshInv, UNCHANGED <<workload, rows, call>>,
           now' \in {now, now + 1}, refreshed' \in Nat, refreshed <= refreshed'
    PROVE  FreshInv'
<1>1. now \in Nat /\ now' \in Nat /\ now <= now'
  BY DEF APIInv, TypeOK
<1>2. rows' = rows /\ call' = call /\ workload' = workload
  OBVIOUS
<1>3. RowSet' = RowSet /\ ViewSet \subseteq ViewSet'
  BY <1>2, ViewGrows DEF RowSet
<1>4. RowsInOrder'
  <2>1. \A i \in DOMAIN rows : rows[i].time \in Nat /\ rows[i].time <= now
    BY RowTimes DEF FreshInv, RowsInOrder
  <2>2. \A i \in DOMAIN rows : rows[i].time <= now'
    BY <1>1, <2>1
  <2> QED
    BY <1>2, <2>2 DEF FreshInv, RowsInOrder
<1>5. InsertInOrder(call[Writer])'
  <2>1. call[Writer].req.route = "Insert" => call[Writer].body.time \in Nat
    BY DEF APIInv, CarriesRow, TimedRows
  <2>2. call[Writer].req.route = "Insert" => call[Writer].body.time <= now'
    BY <1>1, <2>1 DEF FreshInv, InsertInOrder
  <2> QED
    BY <1>2, <2>2 DEF FreshInv, InsertInOrder
<1>6. \A c \in Clients : CallFresh(call[c], workload.table, RowSet, ViewSet', now')
  <2> SUFFICES ASSUME NEW c \in Clients
               PROVE  CallFresh(call[c], workload.table, RowSet, ViewSet', now')
    OBVIOUS
  <2>1. CallFresh(call[c], workload.table, RowSet, ViewSet, now)
    BY DEF FreshInv
  <2> QED
    BY <1>1, <1>3, <2>1, FreshnessLasts
<1> QED
  BY <1>2, <1>3, <1>4, <1>5, <1>6 DEF FreshInv

\* A step of a client leaves the rows alone.
LEMMA ClientLeavesRows ==
    ASSUME APIInv, NEW c \in Clients, Effect(c)
    PROVE  rows' = rows /\ refreshed' = refreshed
<1>1. call[c].req.route # "Insert"
  BY DEF APIInv, CallHonest, Statements
<1> QED
  BY <1>1 DEF Effect

LEMMA FreshClient ==
    ASSUME APIInv, FreshInv, NEW c \in Clients, NEW x, call' = [call EXCEPT ![c] = x],
           IsCall(x), UNCHANGED <<rows, refreshed, now, workload>>,
           CallFresh(x, workload.table, RowSet, ViewSet, now)
    PROVE  FreshInv'
<1>1. c \in Users /\ c # Writer /\ Writer \in Users /\ Clients \subseteq Users
  BY WriterIsUser, APIAssumption
<1>2. call'[c] = x /\ \A v \in Users : v # c => call'[v] = call[v]
  BY <1>1, CallReplaced DEF APIInv
<1>3. RowSet' = RowSet /\ ViewSet' = ViewSet
  BY DEF RowSet, ViewSet, Contents, DeviceData5Min, Table
<1>4. RowsInOrder' /\ InsertInOrder(call[Writer])'
  BY <1>1, <1>2 DEF FreshInv, RowsInOrder, InsertInOrder
<1>5. \A d \in Clients : CallFresh(call'[d], workload.table, RowSet, ViewSet, now)
  <2> SUFFICES ASSUME NEW d \in Clients
               PROVE  CallFresh(call'[d], workload.table, RowSet, ViewSet, now)
    OBVIOUS
  <2>1. CASE d = c
    BY <1>2, <2>1
  <2>2. CASE d # c
    <3>1. call'[d] = call[d]
      BY <1>1, <1>2, <2>2
    <3> QED
      BY <3>1 DEF FreshInv
  <2> QED
    BY <2>1, <2>2
<1> QED
  BY <1>3, <1>4, <1>5 DEF FreshInv

\* A step of the writer leaves the calls of the clients alone.
LEMMA FreshWriter ==
    ASSUME APIInv, FreshInv, NEW x, call' = [call EXCEPT ![Writer] = x], IsCall(x),
           UNCHANGED <<now, workload>>, RowsInOrder', RowSet \subseteq RowSet',
           ViewSet \subseteq ViewSet', InsertInOrder(x)'
    PROVE  FreshInv'
<1>1. Writer \in Users /\ Writer \notin Clients /\ Clients \subseteq Users
  BY WriterIsUser, APIAssumption
<1>2. call'[Writer] = x /\ \A v \in Users : v # Writer => call'[v] = call[v]
  BY <1>1, CallReplaced DEF APIInv
<1>3. InsertInOrder(call[Writer])'
  BY <1>2 DEF InsertInOrder
<1>4. now \in Nat /\ now <= now
  BY DEF APIInv, TypeOK
<1>5. \A c \in Clients : CallFresh(call'[c], workload.table, RowSet', ViewSet', now)
  <2> SUFFICES ASSUME NEW c \in Clients
               PROVE  CallFresh(call'[c], workload.table, RowSet', ViewSet', now)
    OBVIOUS
  <2>1. call'[c] = call[c]
    BY <1>1, <1>2
  <2>2. CallFresh(call[c], workload.table, RowSet, ViewSet, now)
    BY DEF FreshInv
  <2> QED
    BY <1>4, <2>1, <2>2, FreshnessLasts
<1> QED
  BY <1>3, <1>5 DEF FreshInv

\* The writer's statement takes effect: a row is stored last.
LEMMA EffectInOrder ==
    ASSUME APIInv, FreshInv, Effect(Writer), UNCHANGED <<now, workload>>
    PROVE  RowsInOrder' /\ RowSet \subseteq RowSet' /\ ViewSet \subseteq ViewSet'
<1> DEFINE b == call[Writer].body
<1>0. refreshed \in Nat /\ refreshed' = refreshed /\ refreshed <= refreshed
  BY DEF APIInv, TypeOK, Effect
<1>1. CASE call[Writer].req.route = "Insert"
  <2>1. b \in TimedRows /\ b.time \in Nat /\ b.time <= now
        /\ \A i \in DOMAIN rows : rows[i].time <= b.time
    BY <1>1 DEF APIInv, CarriesRow, TimedRows, FreshInv, InsertInOrder
  <2>2. rows' = Append(rows, b)
    BY <1>1 DEF Effect
  <2> HIDE DEF b
  <2>3. rows \in Seq(TimedRows)
    BY DEF APIInv, TypeOK, TimedRows
  <2>4. PICK n \in Nat : n = Len(rows) /\ DOMAIN rows = 1 .. n
    BY <2>3
  <2>5. /\ DOMAIN rows' = 1 .. n + 1 /\ rows'[n + 1] = b
        /\ \A i \in 1 .. n : rows'[i] = rows[i]
    BY <2>1, <2>2, <2>3, <2>4
  <2>6. \A i \in 1 .. n + 1 : i \in 1 .. n \/ i = n + 1
    BY <2>4
  <2>7. RowSet \subseteq RowSet'
    <3> SUFFICES ASSUME NEW i \in 1 .. n
                 PROVE  rows[i] \in RowSet'
      BY <2>4 DEF RowSet
    <3>1. i \in DOMAIN rows' /\ rows'[i] = rows[i]
      BY <2>4, <2>5
    <3> QED
      BY <3>1 DEF RowSet
  <2>8. \A i \in DOMAIN rows' : rows'[i].time <= now /\ rows'[i].time <= b.time
    <3> SUFFICES ASSUME NEW i \in 1 .. n + 1
                 PROVE  rows'[i].time <= now /\ rows'[i].time <= b.time
      BY <2>5
    <3>1. CASE i \in 1 .. n
      BY <2>1, <2>4, <2>5, <3>1 DEF FreshInv, RowsInOrder
    <3>2. CASE i = n + 1
      BY <2>1, <2>5, <3>2
    <3> QED
      BY <2>6, <3>1, <3>2
  <2>9. \A i, j \in DOMAIN rows' : i <= j => rows'[i].time <= rows'[j].time
    <3> SUFFICES ASSUME NEW i \in 1 .. n + 1, NEW j \in 1 .. n + 1, i <= j
                 PROVE  rows'[i].time <= rows'[j].time
      BY <2>5
    <3>1. CASE j = n + 1
      BY <2>5, <2>8, <3>1
    <3>2. CASE j \in 1 .. n
      <4>1. i \in 1 .. n
        BY <2>4, <3>2
      <4> QED
        BY <2>4, <2>5, <3>2, <4>1 DEF FreshInv, RowsInOrder
    <3> QED
      BY <2>6, <3>1, <3>2
  <2>10. DOMAIN rows \subseteq DOMAIN rows' /\ \A i \in DOMAIN rows : rows'[i] = rows[i]
    BY <2>4, <2>5
  <2>11. ViewSet \subseteq ViewSet'
    BY <1>0, <2>10, ViewGrows
  <2> QED
    BY <2>7, <2>8, <2>9, <2>11 DEF RowsInOrder
<1>2. CASE call[Writer].req.route # "Insert"
  <2>1. rows' = rows
    BY <1>2 DEF Effect
  <2>2. ViewSet \subseteq ViewSet'
    BY <1>0, <2>1, ViewGrows
  <2> QED
    BY <2>1, <2>2 DEF FreshInv, RowsInOrder, RowSet
<1> QED
  BY <1>1, <1>2

LEMMA SameRows ==
    ASSUME FreshInv, UNCHANGED <<rows, refreshed, now, workload>>
    PROVE  RowsInOrder' /\ RowSet \subseteq RowSet' /\ ViewSet \subseteq ViewSet'
BY DEF FreshInv, RowsInOrder, RowSet, ViewSet, Contents, DeviceData5Min, Table

LEMMA FreshRequest ==
    ASSUME APIInv, FreshInv, NEW c \in Clients, NEW r \in workload.asked[c], Request(c, r)
    PROVE  FreshInv'
<1> DEFINE x == CallWith("waiting", r, Known(r), 0, {})
<1>1. call' = [call EXCEPT ![c] = x]
  BY BeginCalls DEF Request
<1>2. UNCHANGED <<now, workload>> /\ UNCHANGED <<rows, refreshed>>
  BY DEF Request, tables
<1>3. IsCall(x) /\ x.stage = "waiting" /\ x.req = r /\ x.known = Known(r) /\ x.status = 0
  BY CallWithIsCall
<1>4. /\ r.route \notin AlertRoutes => Known(r) \subseteq TimedRows /\ Known(r) \subseteq RowSet
      /\ r.route \in ViewRoutes => Known(r) \subseteq ViewSet
  <2>1. RowSet \subseteq TimedRows /\ ViewSet \subseteq RowSet
    BY RowTimes, ViewRows DEF RowSet
  <2>2. CASE r.route \in ViewRoutes
    <3>1. Known(r) = ViewSet
      BY <2>2 DEF Known, ViewRoutes, ViewSet
    <3> QED
      BY <2>1, <3>1
  <2>3. CASE r.route \notin ViewRoutes /\ r.route \notin AlertRoutes
    <3>1. Known(r) = RowSet
      BY <2>3 DEF Known, ViewRoutes, AlertRoutes, RowSet
    <3> QED
      BY <2>1, <2>3, <3>1
  <2>4. CASE r.route \in AlertRoutes
    BY <2>4 DEF AlertRoutes, ViewRoutes
  <2> QED
    BY <2>2, <2>3, <2>4
<1> HIDE DEF x
<1>5. CallFresh(x, workload.table, RowSet, ViewSet, now)
  BY <1>3, <1>4, HoursAreNumbers, NoAnswerIsFresh
<1> QED
  BY <1>1, <1>2, <1>3, <1>5, FreshClient

LEMMA FreshAcquire ==
    ASSUME APIInv, FreshInv, NEW u \in Users, Acquire(u)
    PROVE  FreshInv'
<1>0. PICK x : x = CallWith("querying", call[u].req, call[u].known,
                            call[u].status, call[u].body)
  OBVIOUS
<1>1. call' = [call EXCEPT ![u] = x]
  BY <1>0, CallFields DEF Acquire, APIInv
<1>2. UNCHANGED <<now, workload>> /\ UNCHANGED <<rows, refreshed>> /\ call[u].stage = "waiting"
  BY DEF Acquire, tables
<1>3. /\ IsCall(x) /\ x.stage = "querying" /\ x.req = call[u].req
      /\ x.known = call[u].known /\ x.status = call[u].status /\ x.body = call[u].body
  BY <1>0, CallWithIsCall
<1>4. CASE u \in Clients
  <2>1. CallFresh(call[u], workload.table, RowSet, ViewSet, now)
    BY <1>4 DEF FreshInv
  <2>2. CallFresh(x, workload.table, RowSet, ViewSet, now)
    BY <1>2, <1>3, <2>1, NoAnswerIsFresh DEF CallFresh
  <2> QED
    BY <1>1, <1>2, <1>3, <1>4, <2>2, FreshClient
<1>5. CASE u = Writer
  <2>1. InsertInOrder(x)'
    BY <1>2, <1>3, <1>5 DEF FreshInv, InsertInOrder
  <2> QED
    BY <1>1, <1>2, <1>3, <1>5, <2>1, SameRows, FreshWriter
<1> QED
  BY <1>4, <1>5 DEF Users

LEMMA FreshQuery ==
    ASSUME APIInv, FreshInv, NEW c \in Clients, Query(c)
    PROVE  FreshInv'
<1> DEFINE r == call[c].req
           st == IF Missing(r) THEN NotFound ELSE OK
           x == CallWith("responding", r, call[c].known, st, Body(r))
<1>1. call' = [call EXCEPT ![c] = x]
  <2>1. PICK s, b : s = st /\ b = Body(r)
    OBVIOUS
  <2>2. call' = [call EXCEPT ![c].stage = "responding", ![c].status = s, ![c].body = b]
    BY <2>1 DEF Query
  <2>3. call' = [call EXCEPT ![c] = CallWith("responding", r, call[c].known, s, b)]
    BY <2>2, WriterIsUser, AnswerFields, Zenon DEF APIInv
  <2> QED
    BY <2>1, <2>3
<1>2. UNCHANGED <<now, workload>> /\ UNCHANGED <<rows, refreshed>> /\ call[c].stage = "querying"
  BY ClientLeavesRows DEF Query
<1>3. IsCall(x)
  BY CallWithIsCall
<1>4. CallFresh(x, workload.table, RowSet, ViewSet, now)
  BY <1>2, QueryIsFresh
<1> HIDE DEF x
<1> QED
  BY <1>1, <1>2, <1>3, <1>4, FreshClient

LEMMA FreshEnd ==
    ASSUME APIInv, FreshInv, NEW c \in Clients, Fail(c) \/ Respond(c)
    PROVE  FreshInv'
<1>1. CallFresh(call[c], workload.table, RowSet, ViewSet, now)
  BY DEF FreshInv
<1>2. CASE Fail(c)
  <2> DEFINE x == CallWith("responding", call[c].req, call[c].known,
                           ServerError, call[c].body)
  <2>1. call' = [call EXCEPT ![c] = x]
    BY <1>2, WriterIsUser, CallFields DEF Fail, APIInv
  <2>2. UNCHANGED <<now, workload>> /\ UNCHANGED <<rows, refreshed>>
    BY <1>2, ClientLeavesRows DEF Fail, Spent, tables
  <2>3. /\ IsCall(x) /\ x.stage = "responding" /\ x.req = call[c].req
        /\ x.known = call[c].known /\ x.status = ServerError
    BY CallWithIsCall
  <2> HIDE DEF x
  <2>4. CallFresh(x, workload.table, RowSet, ViewSet, now)
    BY <1>1, <2>3, NoAnswerIsFresh DEF CallFresh, OK, NotFound, ServerError
  <2> QED
    BY <2>1, <2>2, <2>3, <2>4, FreshClient
<1>3. CASE Respond(c)
  <2>1. call' = [call EXCEPT ![c] = Idle] /\ UNCHANGED <<now, workload>> /\ UNCHANGED <<rows, refreshed>>
    BY <1>3 DEF Respond, tables
  <2>2. /\ Idle.stage = "idle" /\ Idle.status = 0 /\ Idle.known = {}
        /\ Hours(Idle.req) \in Int
    BY DEF Idle, NoRequest, Hours
  <2>3. CallFresh(Idle, workload.table, RowSet, ViewSet, now)
    BY <2>2, NoAnswerIsFresh
  <2> QED
    BY <2>1, <2>3, IdleIsCall, FreshClient
<1> QED
  BY <1>2, <1>3

LEMMA FreshWriting ==
    ASSUME APIInv, FreshInv,
           InsertAlert \/ MarkDingTalkSent \/ (\E d \in Devices : Record(d)) \/ Done \/ Abandon
    PROVE  FreshInv'
<1>0. Idle.req.route # "Insert"
  BY DEF Idle, NoRequest
<1>1. ASSUME NEW r, NEW b, Begin(Writer, r, {}, b), UNCHANGED <<now, workload, tables>>,
             r.route = "Insert" =>
                b.time <= now /\ \A i \in DOMAIN rows : rows[i].time <= b.time
      PROVE  FreshInv'
  <2> DEFINE x == CallWith("waiting", r, {}, 0, b)
  <2>1. call' = [call EXCEPT ![Writer] = x] /\ UNCHANGED <<rows, refreshed>>
    BY <1>1, BeginCalls DEF tables
  <2>2. IsCall(x) /\ x.req = r /\ x.body = b
    BY CallWithIsCall
  <2> HIDE DEF x
  <2>3. InsertInOrder(x)'
    BY <1>1, <2>1, <2>2 DEF InsertInOrder
  <2> QED
    BY <1>1, <2>1, <2>2, <2>3, SameRows, FreshWriter
<1>2. CASE InsertAlert
  <2>1. Statement("InsertAlert", 0).route # "Insert"
    BY DEF Statement, NoRequest
  <2> QED
    BY <1>1, <1>2, <2>1 DEF InsertAlert
<1>3. CASE MarkDingTalkSent
  <2>1. Statement("MarkDingTalkSent", inserted).route # "Insert"
    BY DEF Statement, NoRequest
  <2> QED
    BY <1>1, <1>3, <2>1 DEF MarkDingTalkSent
<1>4. ASSUME NEW d \in Devices, Record(d)
      PROVE  FreshInv'
  <2> DEFINE b == [id |-> d, time |-> now]
  <2>1. b.time = now /\ now \in Nat
    BY DEF APIInv, TypeOK
  <2>2. b.time <= now /\ \A i \in DOMAIN rows : rows[i].time <= b.time
    BY <2>1 DEF FreshInv, RowsInOrder
  <2>3. Begin(Writer, Statement("Insert", 0), {}, b) /\ UNCHANGED <<now, workload, tables>>
    BY <1>4 DEF Record
  <2> HIDE DEF b
  <2> QED
    BY <1>1, <2>2, <2>3
<1>5. CASE Done \/ Abandon
  <2>1. call' = [call EXCEPT ![Writer] = Idle] /\ UNCHANGED <<now, workload>>
    BY <1>5 DEF Done, Abandon
  <2>2. RowsInOrder' /\ RowSet \subseteq RowSet' /\ ViewSet \subseteq ViewSet'
    <3>1. CASE Effect(Writer)
      BY <2>1, <3>1, EffectInOrder
    <3>2. CASE UNCHANGED tables
      BY <2>1, <3>2, SameRows DEF tables
    <3> QED
      BY <1>5, <3>1, <3>2 DEF Done, Abandon, Spent
  <2>3. InsertInOrder(Idle)'
    BY <1>0 DEF InsertInOrder, Idle, NoRequest
  <2> QED
    BY <2>1, <2>2, <2>3, IdleIsCall, FreshWriter
<1> QED
  BY <1>2, <1>3, <1>4, <1>5

LEMMA FreshStep == APIInv /\ FreshInv /\ [Next]_vars => FreshInv'
<1> SUFFICES ASSUME APIInv, FreshInv, [Next]_vars
             PROVE  FreshInv'
  OBVIOUS
<1>0. refreshed \in Nat /\ refreshed <= refreshed
  BY DEF APIInv, TypeOK
<1>1. ASSUME NEW c \in Clients, NEW r \in workload.asked[c], Request(c, r) \/ Refuse(c, r)
      PROVE  FreshInv'
  BY <1>0, <1>1, FreshRequest, FreshElsewhere DEF Refuse, vars, tables
<1>2. ASSUME NEW u \in Users, Acquire(u)
      PROVE  FreshInv'
  BY <1>2, FreshAcquire
<1>3. ASSUME NEW c \in Clients, Query(c) \/ Fail(c) \/ Respond(c)
      PROVE  FreshInv'
  BY <1>3, FreshQuery, FreshEnd
<1>4. CASE InsertAlert \/ MarkDingTalkSent \/ (\E d \in Devices : Record(d)) \/ Done \/ Abandon
  BY <1>4, FreshWriting
<1>5. CASE Start \/ Signal \/ ShutdownReturns \/ CloseReturns \/ Tick \/ Refresh
  <2>1. CASE Refresh
    <3>1. refreshed' \in refreshed + 1 .. Len(rows) /\ Len(rows) \in Nat
      BY <2>1 DEF Refresh, APIInv, TypeOK
    <3>2. refreshed' \in Nat /\ refreshed <= refreshed'
      BY <1>0, <3>1
    <3> QED
      BY <2>1, <3>2, FreshElsewhere DEF Refresh
  <2>2. CASE ~Refresh
    BY <1>0, <1>5, <2>2, FreshElsewhere
       DEF Start, Signal, ShutdownReturns, CloseReturns, Tick, tables
  <2> QED
    BY <2>1, <2>2
<1>6. CASE UNCHANGED vars
  BY <1>0, <1>6, FreshElsewhere DEF vars, tables
<1> QED
  BY <1>1, <1>2, <1>3, <1>4, <1>5, <1>6 DEF Next

LEMMA FreshStart == Init => FreshInv
<1> SUFFICES ASSUME Init
             PROVE  FreshInv
  OBVIOUS
<1>1. call = [u \in Users |-> Idle] /\ \A u \in Users : call[u] = Idle
  BY DEF Init
<1>2. rows = <<>> /\ DOMAIN rows = {}
  BY DEF Init
<1>3. RowsInOrder /\ InsertInOrder(call[Writer])
  BY <1>1, <1>2, WriterIsUser DEF RowsInOrder, InsertInOrder, Idle, NoRequest
<1>4. /\ Idle.stage = "idle" /\ Idle.status = 0 /\ Idle.known = {}
      /\ Hours(Idle.req) \in Int
  BY DEF Idle, NoRequest, Hours
<1>5. CallFresh(Idle, workload.table, RowSet, ViewSet, now)
  BY <1>4, NoAnswerIsFresh
<1> QED
  BY <1>1, <1>3, <1>5, WriterIsUser DEF FreshInv

\* Whatever the tables, the requests, the pool, the failures and the moments at
\* which device_data_5min is refreshed, no answer is older than its question: a
\* history shows all of its window that could be read when it was asked for -
\* the table, or for the readings of the devices the materialized part of it -,
\* the current PUE and the states of the devices are no older than the newest of
\* that, no listed suggestion is older than one left out (api.go:120-305,
\* db.go:86-108, 212-334, scripts/init_db.sql:209-231).
THEOREM AnswersStayFresh == Spec => []AnswersAreFresh
<1>1. APIInv /\ FreshInv /\ [Next]_vars => FreshInv'
  BY FreshStep
<1>2. FreshInv => AnswersAreFresh
  BY FreshSuffices
<1> QED
  BY <1>1, <1>2, FreshStart, APIInvariant, PTL DEF Spec
=============================================================================
