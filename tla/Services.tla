------------------------------ MODULE Services ------------------------------
(***************************************************************************)
(* The daemon's services and the query paths side by side.  They share no  *)
(* variables: an instance chooses the one that takes steps and the others  *)
(* stay as they started.  A mirror of job ads either follows the log entry *)
(* by entry, with attributes deleted, or compacts and reloads it too.      *)
(***************************************************************************)
EXTENDS Hub, Coordinator, Managers, Exporters, JobMetrics, JobAds,
        HistoryImport, QueueClient, Join, Session, Select, Ansi, Flight

CONSTANT Parts   \* the parts that may be chosen

VARIABLE part

Follows == ScheddNew \/ ScheddDestroy \/ ScheddSet \/ ScheddDelete \/ Apply \/ Restart
Reloads ==
    \/ ScheddNew \/ ScheddDestroy \/ ScheddSet \/ ScheddCompacts
    \/ Apply \/ Restart \/ ReloadRotated \/ ReloadResync

SomeOf(S) == CHOOSE x \in S : TRUE

ServicesInit ==
    /\ part \in Parts
    /\ HubInit /\ ExportersInit /\ Init /\ AnsiInit
    /\ IF part = "coordinator" THEN CoordInit ELSE CoordStart(SomeOf(CoordBudgets))
    /\ IF part = "managers" THEN ManagersInit ELSE ManagersStart(SomeOf(Configs))
    /\ IF part = "metrics" THEN MetricsInit ELSE MetricsStart(SomeOf(SamplerBudgets))
    /\ IF part = "import" THEN ImportInit ELSE ImportStart(SomeOf(ImportSources))
    /\ IF part = "queue" THEN QueueInit ELSE QueueStart(SomeOf(QueueLoads))
    /\ IF part = "session" THEN SessionInit ELSE SessionStart("local")
    /\ IF part = "select" THEN SelectInit ELSE SelectStart(SomeOf(SelectStatements), SomeOf(SelectStores))
    /\ IF part = "flight" THEN FlightInit ELSE FlightStart(SomeOf(FlightBudgets))
    /\ IF part = "join" THEN JoinInit
                        ELSE JoinStart(SomeOf(JoinStatements), SomeOf(JoinStores), FALSE)

AllVars == <<part, hubvars, coordvars, managervars, exportervars, metricsvars, vars,
             importvars, queuevars, joinvars, sessionvars, selectvars, ansivars, flightvars>>

Stays(p) ==
    /\ part = p /\ UNCHANGED part
    /\ p \notin {"hub"} => UNCHANGED hubvars
    /\ p \notin {"coordinator"} => UNCHANGED coordvars
    /\ p \notin {"managers"} => UNCHANGED managervars
    /\ p \notin {"exporters"} => UNCHANGED exportervars
    /\ p \notin {"metrics"} => UNCHANGED metricsvars
    /\ p \notin {"ads", "reloaded_ads"} => UNCHANGED vars
    /\ p \notin {"import"} => UNCHANGED importvars
    /\ p \notin {"queue"} => UNCHANGED queuevars
    /\ p \notin {"join"} => UNCHANGED joinvars
    /\ p \notin {"session"} => UNCHANGED sessionvars
    /\ p \notin {"select"} => UNCHANGED selectvars
    /\ p \notin {"ansi"} => UNCHANGED ansivars
    /\ p \notin {"flight"} => UNCHANGED flightvars

ServicesNext ==
    \/ Stays("hub") /\ HubNext
    \/ Stays("coordinator") /\ CoordNext
    \/ Stays("managers") /\ ManagersNext
    \/ Stays("exporters") /\ ExportersNext
    \/ Stays("metrics") /\ MetricsNext
    \/ Stays("ads") /\ Follows
    \/ Stays("reloaded_ads") /\ Reloads
    \/ Stays("import") /\ ImportNext
    \/ Stays("queue") /\ QueueNext
    \/ Stays("join") /\ JoinNext
    \/ Stays("session") /\ SessionNext
    \/ Stays("select") /\ SelectNext
    \/ Stays("ansi") /\ AnsiNext
    \/ Stays("flight") /\ FlightNext

ServicesSpec == ServicesInit /\ [][ServicesNext]_AllVars

-----------------------------------------------------------------------------
\* A jobs table that is followed entry by entry shows each proc's merged view,
\* whatever the order in which the cluster's and the proc's attributes were
\* logged and wherever the tailer restarted (chainFromParent, the children
\* fan-out, rebuildChildren).
TailShowsMergedView == part = "ads" => JobsShowMergedView
=============================================================================
