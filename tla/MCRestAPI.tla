------------------------------ MODULE MCRestAPI ------------------------------
(* Instances of RestAPI for TLC.                                           *)
EXTENDS RestAPI, TLC

CONSTANTS c1, c2

Ask(method, route, arg, hours) ==
    [method |-> method, route |-> route, arg |-> arg, hours |-> hours]
Get(route) == Ask("GET", route, 0, NotANumber)
Put(arg) == Ask("PUT", "AcknowledgeAlert", arg, NotANumber)
Types == 1 :> "chiller" @@ 2 :> "cdu"

\* Requests that are refused.
Refused ==
    {Get("none"), Put(NotANumber), Ask("PUT", "GetActiveAlerts", 0, 0),
     Ask("GET", "GetDeviceData24h", NotANumber, 1),
     Ask("OPTIONS", "GetAllDevices", 0, 0)}

\* While `table' is written one client asks Q and the other for the devices.
Reading(table, Q) ==
    [table |-> table,
     asked |-> c1 :> Q @@ c2 :> {Ask("GET", "GetDevicesByType", "chiller", 0)}]

\* Two clients list and acknowledge the same alerts; one reads, while another
\* takes its connection, each of the tables of timed rows.
EveryWorkload ==
    {[table |-> "alerts",
      asked |-> c1 :> ({Get("GetActiveAlerts"), Put(1)} \cup Refused)
             @@ c2 :> {Get("GetActiveAlerts"), Put(1)}],
     Reading("pue_records",
         {Ask("GET", "GetPUERecords", 0, 1), Get("GetPUERecords"),
          Get("GetCurrentPUE")}),
     Reading("cooling_allocation",
         {Ask("GET", "GetCoolingAllocations", 0, 1), Get("GetAllDevices")}),
     Reading("device_data",
         {Ask("GET", "GetDeviceData24h", 1, 1), Get("GetLatestDeviceStatus")}),
     Reading("optimization_suggestions", {Get("GetOptimizationSuggestions")})}
=============================================================================
