----------------------------- MODULE Exporters -----------------------------
(***************************************************************************)
(* cmd/htcondordb/exporter_manager.go: the supervisors of the change-data  *)
(* exporters and an operator's reset of one.  Exporters do not interact,   *)
(* so the module follows one name; what the child itself does is in        *)
(* KafkaExporter, OpenSearchExporter and DropboxExporter.                  *)
(***************************************************************************)
EXTENDS Integers, FiniteSets

CONSTANTS
    ExporterFaults,   \* {"reregister"}: registered again while its old child drains
    MaxSupervisor,    \* bounds: supervisors started,
    MaxReset,         \*   operator resets,
    MaxLaunch         \*   children launched

ASSUME ExportersAssumption ==
    MaxSupervisor \in Nat /\ MaxReset \in Nat /\ MaxLaunch \in Nat

VARIABLES
    xreg,     \* whether the catalog lists the exporter
    xsup,     \* its supervisors, by number: where each is, whether it is cancelled
    xmap,     \* reconcileLoop's supervisors[name], or 0
    xrt,      \* m.runtime[name]: whether it is there, whose child cancelChild stops, resetReq
    xstate,   \* the exporter's durable state: "none" or "saved"
    xclean,   \* history: the state was cleared and no child was launched since
    xleft

exportervars == <<xreg, xsup, xmap, xrt, xstate, xclean, xleft>>

NoRuntime == [known |-> FALSE, child |-> 0, reset |-> FALSE]
NoSupervisor == [pc |-> "gone", cancelled |-> FALSE, killed |-> FALSE]

ExportersInit ==
    /\ xreg = TRUE /\ xmap = 0 /\ xrt = NoRuntime
    /\ xsup = [i \in 1..MaxSupervisor |-> NoSupervisor]
    /\ xstate = "none" /\ xclean = FALSE
    /\ xleft = [supervisor |-> 1, reset |-> MaxReset, launch |-> MaxLaunch]

Draining == \E i \in DOMAIN xsup : xsup[i].pc # "gone"

\* CreateExporter and DropExporter, requests of clients; dropping removes the state.
CatalogChange ==
    /\ xreg' = ~xreg
    /\ xreg \/ ~Draining \/ "reregister" \in ExporterFaults
    /\ xstate' = IF xreg THEN "none" ELSE xstate
    /\ UNCHANGED <<xsup, xmap, xrt, xclean, xleft>>

(***************************************************************************)
(* reconcile: a dropped exporter's supervisor is cancelled, not waited for,*)
(* and its runtime forgotten; a registered one gets a supervisor.          *)
(***************************************************************************)
ReconcileExporters ==
    \/ /\ ~xreg /\ xmap # 0
       /\ xsup' = [xsup EXCEPT ![xmap].cancelled = TRUE, ![xmap].killed = TRUE]
       /\ xmap' = 0 /\ xrt' = NoRuntime
       /\ UNCHANGED <<xreg, xstate, xclean, xleft>>
    \/ /\ xreg /\ xmap = 0 /\ xleft.supervisor <= MaxSupervisor
       /\ xmap' = xleft.supervisor
       /\ xsup' = [xsup EXCEPT ![xmap'].pc = "top"]
       /\ xleft' = [xleft EXCEPT !.supervisor = @ + 1]
       /\ UNCHANGED <<xreg, xrt, xstate, xclean>>

-----------------------------------------------------------------------------
\* setChildCancel, which creates the runtime if it is not there.
SetChildCancel(i) == [known |-> TRUE, child |-> i, reset |-> xrt.reset]

\* supervise: the loop ends when its context is cancelled; otherwise runOnce
\* mints a session, publishes the child's cancel and starts the child.
Launch(i) ==
    /\ xsup[i].pc = "top"
    /\ IF xsup[i].cancelled
         THEN xsup' = [xsup EXCEPT ![i] = NoSupervisor] /\ UNCHANGED <<xrt, xclean, xleft>>
         ELSE /\ xleft.launch > 0 /\ xleft' = [xleft EXCEPT !.launch = @ - 1]
              /\ \E minted \in BOOLEAN :
                    /\ xsup' = [xsup EXCEPT ![i].pc = IF minted THEN "child" ELSE "ended",
                                            ![i].killed = FALSE]
                    /\ xrt' = IF minted THEN SetChildCancel(i) ELSE xrt
                    /\ xclean' = (xclean /\ ~minted)
    /\ UNCHANGED <<xreg, xmap, xstate>>

\* The child saves its state; a killed one until its grace is over.  The state
\* of a dropped exporter is not saved.
ChildSaves(i) ==
    /\ xsup[i].pc = "child" /\ xreg /\ xstate' = "saved"
    /\ UNCHANGED <<xreg, xsup, xmap, xrt, xclean, xleft>>

\* monitorLiveness: no beat for the timeout.
LivenessKill(i) ==
    /\ xsup[i].pc = "child" /\ ~xsup[i].killed
    /\ xsup' = [xsup EXCEPT ![i].killed = TRUE]
    /\ UNCHANGED <<xreg, xmap, xrt, xstate, xclean, xleft>>

\* The child exits: markExit and the deferred setChildCancel(name, nil); either
\* creates the runtime if it was forgotten.
ChildEnds(i) ==
    /\ xsup[i].pc = "child"
    /\ xsup' = [xsup EXCEPT ![i].pc = "ended"]
    /\ xrt' = SetChildCancel(0)
    /\ UNCHANGED <<xreg, xmap, xstate, xclean, xleft>>

\* After runOnce: consumeReset and clearExporterState, which may fail and is not
\* tried again; without a reset the supervisor backs off.
AfterRun(i) ==
    /\ xsup[i].pc = "ended"
    /\ IF xsup[i].cancelled
         THEN xsup' = [xsup EXCEPT ![i] = NoSupervisor] /\ UNCHANGED <<xrt, xstate, xclean>>
         ELSE IF xrt.known /\ xrt.reset
         THEN /\ xrt' = [xrt EXCEPT !.reset = FALSE]
              /\ xsup' = [xsup EXCEPT ![i].pc = "top"]
              /\ \/ xstate' = "none" /\ xclean' = TRUE
                 \/ UNCHANGED <<xstate, xclean>>
         ELSE xsup' = [xsup EXCEPT ![i].pc = "backoff"] /\ UNCHANGED <<xrt, xstate, xclean>>
    /\ UNCHANGED <<xreg, xmap, xleft>>

Backoff(i) ==
    /\ xsup[i].pc = "backoff"
    /\ xsup' = [xsup EXCEPT ![i].pc = "top"]
    /\ UNCHANGED <<xreg, xmap, xrt, xstate, xclean, xleft>>

(***************************************************************************)
(* Resync, the operator's reset: the request is noted and the child asked  *)
(* to stop.  (Mutant: the state is cleared at once.)                       *)
(***************************************************************************)
ResyncClears(st) == [state |-> "none", clean |-> TRUE]
ResyncLeaves(st) == [state |-> st, clean |-> xclean]

Resync ==
    /\ xrt.known /\ xleft.reset > 0 /\ xleft' = [xleft EXCEPT !.reset = @ - 1]
    /\ xrt' = [xrt EXCEPT !.reset = TRUE]
    /\ xsup' = IF xrt.child = 0 THEN xsup ELSE [xsup EXCEPT ![xrt.child].killed = TRUE]
    /\ xstate' = ResyncLeaves(xstate).state /\ xclean' = ResyncLeaves(xstate).clean
    /\ UNCHANGED <<xreg, xmap>>

ExportersNext ==
    \/ CatalogChange \/ ReconcileExporters \/ Resync
    \/ \E i \in DOMAIN xsup :
        \/ Launch(i) \/ ChildSaves(i) \/ LivenessKill(i) \/ ChildEnds(i)
        \/ AfterRun(i) \/ Backoff(i)

ExportersSpec == ExportersInit /\ [][ExportersNext]_exportervars

-----------------------------------------------------------------------------
(***************************************************************************)
(* Once a supervisor has cleared the state for a reset, the next child     *)
(* finds it cleared: the child that was asked to stop, which still saves   *)
(* while it drains, cannot bring its cursor back.                          *)
(***************************************************************************)
ResetStaysClear == xclean => xstate = "none"
=============================================================================
