------------------------------ MODULE Managers ------------------------------
(***************************************************************************)
(* cmd/htcondordb: the managers that start and stop the daemon's writers   *)
(* from its configuration, and server/owners.go, the registry of the       *)
(* tables each of them maintains.  condor_reconfig applies the managers    *)
(* one after another; a manager that another one still keeps from a table  *)
(* is deferred to the end.  Spellings of table names are folded.           *)
(***************************************************************************)
EXTENDS Integers, Sequences, FiniteSets, SequencesExt

CONSTANTS
    Configs,        \* the configurations a reconfigure may read
    LaunchFaults,   \* {"tailer"}: a later step of launch may fail
    MaxReconfig,    \* bounds: reconfigures,
    MaxSelfExit     \*   writers that end by themselves

VARIABLES
    dapply,   \* the thread that applies a configuration: what it is at, its queue,
              \* reconfigRetry.pending, whether it is the start or the final flush
    dman,     \* per manager: its settings, its writers and the tables they write
    downed,   \* TableOwners.byOwner
    dleft

managervars == <<dapply, dman, downed, dleft>>

(***************************************************************************)
(* The managers in the order of main.go's OnReconfig calls.                *)
(***************************************************************************)
Order == <<"sched", "mirror", "exp", "ced", "fed", "imp">>
Manager == ToSet(Order)
Owning == {"sched", "ced", "fed", "imp"}      \* register tables with TableOwners
Supervising == {"exp", "imp"}                 \* run child processes
StopOrder == <<"fed", "ced", "sched">>           \* deferred Stop calls, last deferred first

-----------------------------------------------------------------------------
(***************************************************************************)
(* The settings that a configuration resolves to: whether the manager is   *)
(* on, the tables its writers maintain, an error found before anything is  *)
(* changed, and one found after the old writers are gone.                  *)
(***************************************************************************)
Off == [on |-> FALSE, tables |-> {}, err |-> FALSE, late |-> FALSE, sig |-> 0]

JobQueueTables == {"jobs"}

\* scheddSyncSettings.ownedTables
OwnedTables(cfg) ==
    {"syncstatus"}
      \cup (IF cfg.jobLog THEN JobQueueTables ELSE {})
      \cup (IF cfg.jobLog /\ cfg.metrics THEN {"job_metrics"} ELSE {})
      \cup (IF cfg.history THEN {"history"} ELSE {})
      \cup (IF cfg.epoch THEN {"epoch_history"} ELSE {})

\* checkFederationExclusive
FederationExclusive(cfg) == cfg.federate /\ cfg.syncSchedd

ResolveSched(cfg) ==
    IF ~cfg.syncSchedd THEN Off
    ELSE [on |-> TRUE, tables |-> OwnedTables(cfg), late |-> FALSE, sig |-> cfg.sig,
          err |-> FederationExclusive(cfg) \/ (~cfg.jobLog /\ ~cfg.history /\ ~cfg.epoch)]

ResolveCedar(cfg) ==
    IF cfg.sources = {} THEN Off
    ELSE [on |-> TRUE, tables |-> {s.target : s \in cfg.sources}, late |-> FALSE, sig |-> 0,
          err |-> \E s \in cfg.sources : ~s.addressed]

\* HubTables: the federated tables, the hub's own and the heartbeats.
HubTables(cfg) == cfg.federated \cup {"federation_sources", "syncstatus"}
ResolveFederation(cfg) ==
    IF ~cfg.federate THEN Off
    ELSE [on |-> TRUE, tables |-> HubTables(cfg), late |-> ~cfg.dir, sig |-> cfg.sig,
          err |-> FederationExclusive(cfg)]

\* resolveImporterSettings and resolveBinary: without the program the jobs are
\* left to an external runner, whose tables stay writable.
ResolveImporter(cfg) ==
    IF cfg.imports = {} THEN Off
    ELSE IF ~cfg.importBin THEN [Off EXCEPT !.late = TRUE]
    ELSE [Off EXCEPT !.on = TRUE, !.tables = cfg.imports]

ResolveExporter(cfg) == IF cfg.exporters THEN [Off EXCEPT !.on = TRUE, !.sig = cfg.sig] ELSE Off
ResolveMirrorOut(cfg) == IF cfg.mirrorOut THEN [Off EXCEPT !.on = TRUE] ELSE Off

Resolve(m, cfg) ==
    CASE m = "sched"  -> ResolveSched(cfg)
      [] m = "mirror" -> ResolveMirrorOut(cfg)
      [] m = "exp"    -> ResolveExporter(cfg)
      [] m = "ced"    -> ResolveCedar(cfg)
      [] m = "fed"    -> ResolveFederation(cfg)
      [] m = "imp"    -> ResolveImporter(cfg)

-----------------------------------------------------------------------------
(***************************************************************************)
(* A manager: the settings it runs with; its writers: "none", "live",      *)
(* "child" (a child process runs), "ending" (it has exited and its         *)
(* supervisor is about to note it), "dead" (all gone, not yet joined);     *)
(* whether their context is cancelled; the tables they write; tables whose *)
(* tailers were cancelled but never joined.                                *)
(***************************************************************************)
Idle == [cur |-> Off, run |-> "none", cancelled |-> FALSE, tables |-> {}, stray |-> {}]

ManagersStart(cfg) ==
    /\ dapply = [pc |-> "enter", queue |-> Order, cfg |-> cfg, pending |-> <<>>,
                 boot |-> TRUE, flush |-> FALSE]
    /\ dman = [m \in Manager |-> Idle]
    /\ downed = [m \in Owning |-> {}]
    /\ dleft = [reconfig |-> MaxReconfig, exit |-> MaxSelfExit]
ManagersInit == \E cfg \in Configs : ManagersStart(cfg)

\* The tables a manager's writers may be writing now.
Writing(m) ==
    dman[m].stray \cup (IF dman[m].run \in {"live", "child"} THEN dman[m].tables ELSE {})

At(m) == dapply.queue # <<>> /\ Head(dapply.queue) = m
\* apply and Stop hold the manager's mutex while they wait for its writers.
Locked(m) == dapply.pc \in {"join", "stopping"} /\ At(m)

\* A manager that failed at the start ends the daemon; on a reconfigure the
\* failure is logged and the next manager is applied.
Advance(failed) ==
    dapply' = IF failed /\ dapply.boot
                THEN [dapply EXCEPT !.pc = "stop", !.queue = StopOrder]
                ELSE [dapply EXCEPT !.pc = "enter", !.queue = Tail(@)]

\* TableOwners.Claim and Set; Claim is given the tables held as well as the next
\* ones.  (Mutant: only the next ones, which releases the others too early.)
Conflict(m, tables) == \E o \in Owning \ {m} : downed[o] \cap tables # {}
ClaimedNextOnly(m, tables) == tables
Claimed(m, tables) == downed[m] \cup tables
Set(m, tables) == downed' = [downed EXCEPT ![m] = tables]

\* reconfigRetry.run defers a conflict to flush; flush itself, and the start,
\* report it.
ClaimRefused(m) ==
    IF dapply.boot \/ dapply.flush THEN Advance(TRUE)
    ELSE dapply' = [dapply EXCEPT !.queue = Tail(@), !.pending = Append(@, m)]

\* The early return of apply.  The hub is also restarted after it ended by itself.
Unchanged(m, next) == next = dman[m].cur

(***************************************************************************)
(* apply, up to the wait for the old writers: nothing changed; an error;   *)
(* a claim refused; or the claim made and the old writers cancelled.       *)
(***************************************************************************)
ApplyEnter(m) ==
    LET next == Resolve(m, dapply.cfg) IN
    /\ dapply.pc = "enter" /\ At(m)
    /\ \/ /\ Unchanged(m, next) /\ ~next.err
          /\ Advance(FALSE) /\ UNCHANGED <<dman, downed>>
       \/ next.err /\ Advance(TRUE) /\ UNCHANGED <<dman, downed>>
       \/ /\ ~Unchanged(m, next) /\ ~next.err
          /\ IF m \in Owning /\ next.on /\ Conflict(m, Claimed(m, next.tables))
               THEN ClaimRefused(m) /\ UNCHANGED <<dman, downed>>
               ELSE /\ dapply' = [dapply EXCEPT !.pc = "join"]
                    /\ dman' = [dman EXCEPT ![m].cancelled = TRUE]
                    /\ IF m \in Owning /\ next.on THEN Set(m, Claimed(m, next.tables))
                                                  ELSE UNCHANGED downed
    /\ UNCHANGED dleft

\* The old writers are gone.
Gone(m) == dman[m].run \in {"none", "dead"}

\* launch, and its like in the other managers.
Launched(man, next) == [man EXCEPT !.cur = next, !.run = "live", !.tables = next.tables]

(***************************************************************************)
(* The rest of apply: the registry gets exactly the new tables, then the   *)
(* new writers start.  launch may fail after it started a tailer, which is *)
(* then cancelled and not waited for.                                      *)
(***************************************************************************)
ApplyFinish(m) ==
    LET next == Resolve(m, dapply.cfg)
        reset == [dman EXCEPT ![m] = [Idle EXCEPT !.stray = Writing(m)]]
    IN
    /\ dapply.pc = "join" /\ At(m) /\ Gone(m)
    /\ \/ /\ ~next.late
          /\ Advance(FALSE)
          /\ dman' = IF next.on THEN [reset EXCEPT ![m] = Launched(@, next)] ELSE reset
          /\ IF m \in Owning THEN Set(m, next.tables) ELSE UNCHANGED downed
       \/ /\ next.late /\ Set(m, {}) /\ dman' = reset /\ Advance(m = "fed")
       \/ /\ m = "sched" /\ next.on /\ "tailer" \in LaunchFaults
          /\ Set(m, {}) /\ Advance(TRUE)
          /\ dman' = [reset EXCEPT ![m].stray = @ \cup next.tables]
    /\ UNCHANGED dleft

\* flush: the deferred managers once more, in order; then the daemon serves.
ApplyDone ==
    /\ dapply.pc = "enter" /\ dapply.queue = <<>>
    /\ dapply' = IF dapply.pending = <<>>
                   THEN [dapply EXCEPT !.pc = "serve", !.boot = FALSE, !.flush = FALSE]
                   ELSE [dapply EXCEPT !.queue = dapply.pending, !.pending = <<>>, !.flush = TRUE]
    /\ UNCHANGED <<dman, downed, dleft>>

Reconfigure(cfg) ==
    /\ dapply.pc = "serve" /\ dleft.reconfig > 0
    /\ dleft' = [dleft EXCEPT !.reconfig = @ - 1]
    /\ dapply' = [dapply EXCEPT !.pc = "enter", !.queue = Order, !.cfg = cfg]
    /\ UNCHANGED <<dman, downed>>

-----------------------------------------------------------------------------
\* Writers in this process return once their context is cancelled; so does a
\* supervisor between two children, and at last a tailer nobody waits for.
WritersReturn(m) ==
    /\ \/ /\ dman[m].run = "live" /\ dman[m].cancelled
          /\ dman' = [dman EXCEPT ![m].run = "dead"]
       \/ /\ dman[m].stray # {}
          /\ dman' = [dman EXCEPT ![m].stray = {}]
    /\ UNCHANGED <<dapply, downed, dleft>>

\* A tailer panics (runGuardedTailer), or the hub cannot open its tables: its
\* tables stay owned.
WritersEnd(m) ==
    /\ m \in {"sched", "fed"} /\ dman[m].run = "live" /\ ~dman[m].cancelled
    /\ dleft.exit > 0 /\ dleft' = [dleft EXCEPT !.exit = @ - 1]
    /\ dman' = [dman EXCEPT ![m].run = "dead"]
    /\ UNCHANGED <<dapply, downed>>

\* federationManager.forget: the next apply starts a hub again.
Forget ==
    /\ dman["fed"].run = "dead" /\ ~dman["fed"].cancelled /\ ~Locked("fed")
    /\ dman["fed"].cur # Off /\ dman' = [dman EXCEPT !["fed"].cur = Off]
    /\ UNCHANGED <<dapply, downed, dleft>>

(***************************************************************************)
(* supervise and runOnce of the exporter and importer managers: a child    *)
(* runs under a session minted for it; after it has exited, by itself, by  *)
(* the liveness monitor or by a cancellation, markExit takes the manager's *)
(* mutex.  An import child refused its table is not relaunched.            *)
(***************************************************************************)
ChildStart(m) ==
    /\ m \in Supervising /\ dman[m].run = "live" /\ ~dman[m].cancelled
    /\ dman' = [dman EXCEPT ![m].run = "child"]
    /\ UNCHANGED <<dapply, downed, dleft>>

ChildExit(m) ==
    /\ dman[m].run = "child"
    /\ dman' = [dman EXCEPT ![m].run = "ending"]
    /\ UNCHANGED <<dapply, downed, dleft>>

MarkExit(m) ==
    /\ dman[m].run = "ending" /\ ~Locked(m)
    /\ dman' = [dman EXCEPT ![m].run = "live"]
    /\ UNCHANGED <<dapply, downed, dleft>>

ExitTableReadOnly ==
    /\ dman["imp"].run = "ending" /\ ~Locked("imp") /\ ~dman["imp"].cancelled
    /\ dleft.exit > 0 /\ dleft' = [dleft EXCEPT !.exit = @ - 1]
    /\ dman' = [dman EXCEPT !["imp"].run = "dead"]
    /\ UNCHANGED <<dapply, downed>>

-----------------------------------------------------------------------------
(***************************************************************************)
(* Shutdown: the deferred calls of main's run, each Stop cancels its       *)
(* writers, waits for them and releases their tables; then the context is  *)
(* cancelled and the store is closed, which unmaps its segments.           *)
(***************************************************************************)
DaemonStop ==
    /\ dapply.pc = "serve"
    /\ dapply' = [dapply EXCEPT !.pc = "stop", !.queue = StopOrder]
    /\ UNCHANGED <<dman, downed, dleft>>

StopManager(m) ==
    /\ dapply.pc \in {"stop", "stopping"} /\ At(m)
    /\ IF ~Gone(m)
         THEN /\ dapply.pc = "stop" /\ dapply' = [dapply EXCEPT !.pc = "stopping"]
              /\ dman' = [dman EXCEPT ![m].cancelled = TRUE] /\ UNCHANGED downed
         ELSE /\ dapply' = [dapply EXCEPT !.pc = "stop", !.queue = Tail(@)]
              /\ dman' = [dman EXCEPT ![m] = [Idle EXCEPT !.stray = Writing(m)]]
              /\ Set(m, {})
    /\ UNCHANGED dleft

CloseStore ==
    /\ dapply.pc = "stop" /\ dapply.queue = <<>>
    /\ dapply' = [dapply EXCEPT !.pc = "closed"]
    /\ dman' = [m \in Manager |-> [dman[m] EXCEPT !.cancelled = dman[m].run # "none"]]
    /\ UNCHANGED <<downed, dleft>>

-----------------------------------------------------------------------------
\* The managers' apply, Stop and supervise, which take these steps.
ScheddSyncApply == ApplyEnter("sched") \/ ApplyFinish("sched")
MirrorOutApply == ApplyEnter("mirror") \/ ApplyFinish("mirror")
ExporterApply == ApplyEnter("exp") \/ ApplyFinish("exp")
CedarSyncApply == ApplyEnter("ced") \/ ApplyFinish("ced")
FederationApply == ApplyEnter("fed") \/ ApplyFinish("fed")
ImporterApply == ApplyEnter("imp") \/ ApplyFinish("imp")

ScheddSyncStop == StopManager("sched")
CedarSyncStop == StopManager("ced")
FederationStop == StopManager("fed")

ExporterSupervise == ChildStart("exp") \/ ChildExit("exp") \/ MarkExit("exp")
ImporterSupervise == ChildStart("imp") \/ ChildExit("imp") \/ MarkExit("imp")

ManagersNext ==
    \/ ScheddSyncApply \/ MirrorOutApply \/ ExporterApply
    \/ CedarSyncApply \/ FederationApply \/ ImporterApply
    \/ ScheddSyncStop \/ CedarSyncStop \/ FederationStop
    \/ ExporterSupervise \/ ImporterSupervise
    \/ \E m \in Manager : WritersReturn(m) \/ WritersEnd(m)
    \/ \E cfg \in Configs : Reconfigure(cfg)
    \/ ApplyDone \/ Forget \/ ExitTableReadOnly \/ DaemonStop \/ CloseStore

\* Fairness: the applying thread runs on, goroutines return after a cancellation,
\* a child ends after SIGTERM and SIGKILL, and a supervisor runs on.
ManagersSpec ==
    /\ ManagersInit /\ [][ManagersNext]_managervars
    /\ WF_managervars(ApplyDone)
    /\ \A m \in Manager :
        /\ WF_managervars(ApplyEnter(m)) /\ WF_managervars(ApplyFinish(m))
        /\ WF_managervars(WritersReturn(m)) /\ WF_managervars(MarkExit(m))
        /\ WF_managervars(dman[m].cancelled /\ ChildExit(m))

-----------------------------------------------------------------------------
(***************************************************************************)
(* Across reconfigures that move tables between managers, every table that *)
(* a writer is writing is registered to its manager and to no other, so    *)
(* that no two write it and the server refuses remote writes to it.        *)
(***************************************************************************)
WritersOwnTheirTables ==
    \A m \in Owning : \A t \in Writing(m) :
        /\ t \in downed[m]
        /\ \A o \in Owning \ {m} : t \notin downed[o] \cup Writing(o)

(***************************************************************************)
(* A reconfigure, and the start, come to an end (the comments of the       *)
(* managers' apply say that it stops the running supervisors and starts    *)
(* fresh ones).                                                            *)
(***************************************************************************)
ReconfigureEnds == dapply.pc \in {"enter", "join"} ~> dapply.pc \in {"serve", "stop"}
=============================================================================
