----------------------------- MODULE MCManagers -----------------------------
(***************************************************************************)
(* TLC instances of Managers: the configurations a reconfigure may read.   *)
(***************************************************************************)
EXTENDS Managers

Nothing ==
    [sig |-> 0, syncSchedd |-> FALSE, jobLog |-> FALSE, metrics |-> FALSE, history |-> FALSE,
     epoch |-> FALSE, sources |-> {}, federate |-> FALSE, federated |-> {"jobs", "history"},
     dir |-> TRUE, imports |-> {}, importBin |-> TRUE, exporters |-> FALSE, mirrorOut |-> FALSE]
Source(t) == [target |-> t, addressed |-> TRUE]
Unaddressed(t) == [target |-> t, addressed |-> FALSE]
Mirror == [Nothing EXCEPT !.syncSchedd = TRUE, !.jobLog = TRUE]

\* A table moves between the schedd mirror, CEDAR sync, federation and the
\* importer; some configurations are refused, alone or for what they claim.
MCConfigs == {
    Nothing,
    [Mirror EXCEPT !.metrics = TRUE, !.history = TRUE, !.exporters = TRUE],
    [Mirror EXCEPT !.epoch = TRUE, !.sources = {Source("history")}, !.exporters = TRUE,
                   !.sig = 1],
    [Nothing EXCEPT !.federate = TRUE],
    [Nothing EXCEPT !.federate = TRUE, !.federated = {"jobs"}, !.imports = {"history"},
                    !.mirrorOut = TRUE],
    [Nothing EXCEPT !.federate = TRUE, !.dir = FALSE, !.imports = {"history"},
                    !.importBin = FALSE],
    [Mirror EXCEPT !.imports = {"history", "epoch_history"}],
    [Mirror EXCEPT !.federate = TRUE],
    [Nothing EXCEPT !.syncSchedd = TRUE, !.history = TRUE,
                    !.sources = {Source("jobs"), Unaddressed("t")}],
    [Nothing EXCEPT !.sources = {Source("jobs"), Source("epoch_history")},
                    !.imports = {"history"}]}
=============================================================================
