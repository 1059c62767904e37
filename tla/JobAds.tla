------------------------------- MODULE JobAds -------------------------------
(***************************************************************************)
(* How scheddsync.JobSync composes the attributes of a row.                *)
(*                                                                         *)
(* HTCondor keeps cluster-wide attributes on the cluster ad and chains the *)
(* cluster's proc ads to it; the mirror flattens that into self-contained  *)
(* proc rows.  The incremental path (applyEntry) copies the cluster's      *)
(* attributes into a new proc row and fans later cluster edits out through *)
(* an in-memory index of children; the reload path (reconciler) merges     *)
(* runs of the log onto the stored rows, then chains and sweeps.  This     *)
(* module relates both to the schedd's own ads.                            *)
(*                                                                         *)
(* Positions, crashes and retries are module JobSync; here the tailer      *)
(* applies the log in order, lags, restarts in place, or reloads.          *)
(***************************************************************************)
EXTENDS Integers, Sequences, SequencesExt

CONSTANTS
    Cluster, Proc,          \* cluster ad keys ("0C.-1") and proc ad keys ("C.P")
    ParentOf,               \* clusterKeyOf
    ClusterAttr, ProcAttr,  \* attributes the schedd sets on each kind of ad
    Val,                    \* attribute values
    None,                   \* the ad does not define the attribute
    NoRow,                  \* there is no ad
    NoKey,                  \* the reconciler has no current key
    Deletes,                \* the schedd deletes attributes
    Compacts, Resyncs,      \* the log is compacted; an operator resyncs
    MaxOps                  \* bound on the schedd's operations

Attr == ClusterAttr \cup ProcAttr
Key == Cluster \cup Proc

ASSUME AdAssumption ==
    /\ Cluster \cap Proc = {} /\ NoKey \notin Key
    /\ ParentOf \in [Proc -> Cluster]
    /\ None \notin Val
    /\ {Deletes, Compacts, Resyncs} \subseteq BOOLEAN
    /\ MaxOps \in Nat

Ad == [Attr -> Val \cup {None}]
EmptyAd == [a \in Attr |-> None]

VARIABLES
    ads,        \* the schedd's ads
    used,       \* keys the schedd has ever used (ids are not reused)
    log,        \* the entries of the current job_queue.log
    ops,        \* how many operations the schedd has done
    applied,    \* how many entries the tailer has applied
    rows,       \* the mirror: jobs for proc keys, clusters for cluster keys
    children,   \* s.children: the proc rows a cluster edit fans out to
    rotated     \* the log was compacted and has not been reloaded

vars == <<ads, used, log, ops, applied, rows, children, rotated>>

LogEntry == [op : {"new", "destroy", "set", "del"}, key : Key,
             attr : Attr \cup {None}, val : Val \cup {None}]

AttrOf(k) == IF k \in Cluster THEN ClusterAttr ELSE ProcAttr
NoChildren == [c \in Cluster |-> {}]

-----------------------------------------------------------------------------
(***************************************************************************)
(* The schedd (external): what it may do to its ads, and what it logs.     *)
(***************************************************************************)
Logs(op, k, a, v, ad) ==
    /\ ops < MaxOps
    /\ ops' = ops + 1
    /\ ads' = [ads EXCEPT ![k] = ad]
    /\ log' = Append(log, [op |-> op, key |-> k, attr |-> a, val |-> v])
    /\ UNCHANGED <<applied, rows, children, rotated>>

ScheddNew ==
    \E k \in Key \ used :
        /\ k \in Proc => ads[ParentOf[k]] # NoRow
        /\ used' = used \cup {k}
        /\ Logs("new", k, None, None, EmptyAd)

ScheddDestroy ==
    \E k \in Key :
        /\ ads[k] # NoRow
        /\ k \in Cluster => \A p \in Proc : ParentOf[p] = k => ads[p] = NoRow
        /\ Logs("destroy", k, None, None, NoRow)
        /\ UNCHANGED used

ScheddSet ==
    \E k \in Key, v \in Val : \E a \in AttrOf(k) :
        /\ ads[k] # NoRow
        /\ Logs("set", k, a, v, [ads[k] EXCEPT ![a] = v])
        /\ UNCHANGED used

ScheddDelete ==
    \E k \in Key, a \in Attr :
        /\ Deletes
        /\ ads[k] # NoRow /\ ads[k][a] # None
        /\ Logs("del", k, a, None, [ads[k] EXCEPT ![a] = None])
        /\ UNCHANGED used

\* A compacted log: for each live ad, in some order, its NewClassAd and its
\* attributes.
AdEntries(k) ==
    <<[op |-> "new", key |-> k, attr |-> None, val |-> None]>> \o
    SetToSeq({[op |-> "set", key |-> k, attr |-> a, val |-> ads[k][a]] :
                a \in {b \in Attr : ads[k][b] # None}})

ScheddCompacts ==
    /\ Compacts /\ ~rotated
    /\ \E order \in SetToSeqs({k \in Key : ads[k] # NoRow}) :
         log' = FlattenSeq([i \in DOMAIN order |-> AdEntries(order[i])])
    /\ applied' = 0
    /\ rotated' = TRUE
    /\ UNCHANGED <<ads, used, ops, rows, children>>

-----------------------------------------------------------------------------
(***************************************************************************)
(* The incremental path.                                                   *)
(***************************************************************************)
\* db.Txn.SetAttribute creates an empty ad for a key it does not find;
\* DeleteAttribute on an absent key is a no-op (external).
SetAttribute(ad, a, v) == [(IF ad = NoRow THEN EmptyAd ELSE ad) EXCEPT ![a] = v]
DeleteAttribute(ad, a) == IF ad = NoRow THEN NoRow ELSE [ad EXCEPT ![a] = None]

\* chainAttrsInto: the parent's attributes that dst does not define.
ChainAttrsInto(dst, parent) ==
    IF parent = NoRow THEN dst
    ELSE [a \in Attr |-> IF dst[a] # None THEN dst[a] ELSE parent[a]]

Kids(k) == IF k \in Cluster THEN children[k] ELSE {}

\* The rows an attribute edit of k is applied to.
Reached(k) == {k} \cup Kids(k)

\* applyEntry for a data entry e.
ApplyEntry(e) ==
    \/ /\ e.op = "new"
       /\ rows' = [rows EXCEPT ![e.key] =
                     IF e.key \in Proc THEN ChainAttrsInto(EmptyAd, rows[ParentOf[e.key]])
                                       ELSE EmptyAd]
       /\ children' = IF e.key \in Proc
                      THEN [children EXCEPT ![ParentOf[e.key]] = @ \cup {e.key}]
                      ELSE children
    \/ /\ e.op = "destroy"
       /\ rows' = [rows EXCEPT ![e.key] = NoRow]
       /\ children' = IF e.key \in Proc
                      THEN [children EXCEPT ![ParentOf[e.key]] = @ \ {e.key}]
                      ELSE [children EXCEPT ![e.key] = {}]
    \/ /\ e.op = "set"
       /\ rows' = [k \in Key |-> IF k \in Reached(e.key)
                                 THEN SetAttribute(rows[k], e.attr, e.val) ELSE rows[k]]
       /\ UNCHANGED children
    \/ /\ e.op = "del"
       /\ rows' = [k \in Key |-> IF k \in Reached(e.key)
                                 THEN DeleteAttribute(rows[k], e.attr) ELSE rows[k]]
       /\ UNCHANGED children

Apply ==
    /\ ~rotated /\ applied < Len(log)
    /\ ApplyEntry(log[applied + 1])
    /\ applied' = applied + 1
    /\ UNCHANGED <<ads, used, log, ops, rotated>>

\* (Mutant: the index is not rebuilt.)
RebuildNoChildren == NoChildren

\* rebuildChildren: every proc row registered under its cluster.
RebuildChildren == [c \in Cluster |-> {p \in Proc : rows[p] # NoRow /\ ParentOf[p] = c}]

\* A restart that resumes in place.
Restart ==
    /\ ~rotated
    /\ children' = RebuildChildren
    /\ UNCHANGED <<ads, used, log, ops, applied, rows, rotated>>

-----------------------------------------------------------------------------
(***************************************************************************)
(* The reload path.  The reconciler's state while it reads the log: the    *)
(* current key's run, the rows it has written and the keys it has seen.    *)
(***************************************************************************)
NewRun(k) == [key |-> k, ad |-> EmptyAd, dels |-> {}, destroy |-> FALSE]

\* flush: merge the run onto the row already present; deletes after sets.
Flush(r) ==
    LET run == r.run
        base == IF r.rows[run.key] = NoRow THEN EmptyAd ELSE r.rows[run.key]
        merged == [a \in Attr |-> IF a \in run.dels THEN None
                                  ELSE IF run.ad[a] # None THEN run.ad[a] ELSE base[a]]
    IN  IF run.key = NoKey THEN r
        ELSE IF run.destroy
        THEN [r EXCEPT !.rows[run.key] = NoRow, !.seen = @ \ {run.key}]
        ELSE [r EXCEPT !.rows[run.key] = merged, !.seen = @ \cup {run.key}]

\* reconciler.apply for entry e.
Reconcile(r0, e) ==
    LET r == IF e.key # r0.run.key THEN [Flush(r0) EXCEPT !.run = NewRun(e.key)] ELSE r0 IN
    CASE e.op = "new"     -> [r EXCEPT !.run = NewRun(e.key)]
      [] e.op = "destroy" -> [r EXCEPT !.run.destroy = TRUE]
      [] e.op = "set"     -> [r EXCEPT !.run.ad[e.attr] = e.val, !.run.destroy = FALSE]
      [] e.op = "del"     -> [r EXCEPT !.run.ad[e.attr] = None, !.run.dels = @ \cup {e.attr}]


Reconciled ==
    Flush(FoldLeft(Reconcile, [run |-> NewRun(NoKey), rows |-> rows, seen |-> {}], log))

\* chainReconciledProcs, for the proc rows the reload saw.
ChainReconciledProcs(r) ==
    [k \in Key |-> IF k \in Proc /\ k \in r.seen
                   THEN ChainAttrsInto(r.rows[k], r.rows[ParentOf[k]]) ELSE r.rows[k]]

\* (Mutant: no sweep.)
SweepNoKeys(r) == ChainReconciledProcs(r)

\* sweepKeys: the keys held before that the log does not contain.
SweepKeys(r) ==
    [k \in Key |-> IF rows[k] # NoRow /\ k \notin r.seen THEN NoRow
                   ELSE ChainReconciledProcs(r)[k]]

\* reconcileReload, which also forgets the children.
ReconcileReload ==
    /\ rows' = SweepKeys(Reconciled)
    /\ children' = NoChildren
    /\ applied' = Len(log)
    /\ rotated' = FALSE
    /\ UNCHANGED <<ads, used, log, ops>>

ReloadRotated == rotated /\ ReconcileReload
ReloadResync == Resyncs /\ ~rotated /\ ReconcileReload

-----------------------------------------------------------------------------
Init ==
    /\ ads = [k \in Key |-> NoRow]
    /\ used = {}
    /\ log = <<>>
    /\ ops = 0
    /\ applied = 0
    /\ rows = [k \in Key |-> NoRow]
    /\ children = NoChildren
    /\ rotated = FALSE

Schedd == ScheddNew \/ ScheddDestroy \/ ScheddSet \/ ScheddDelete \/ ScheddCompacts
Tailer == Apply \/ Restart \/ ReloadRotated \/ ReloadResync
Next == Schedd \/ Tailer
Spec == Init /\ [][Next]_vars

-----------------------------------------------------------------------------
(***************************************************************************)
(* Properties.                                                             *)
(***************************************************************************)
CaughtUp == ~rotated /\ applied = Len(log)

\* condor_q's merged view of a proc: its own attributes win.
MergedView(p) ==
    IF ads[p] = NoRow THEN NoRow ELSE ChainAttrsInto(ads[p], ads[ParentOf[p]])

\* A caught-up jobs table shows each proc's merged view, whatever the order in
\* which the cluster's and the proc's attributes were logged and wherever the
\* tailer restarted (chainFromParent, the children fan-out, rebuildChildren).
JobsShowMergedView == CaughtUp => \A p \in Proc : rows[p] = MergedView(p)

\* A caught-up mirror has a row for exactly the schedd's ads and holds the
\* clusters as the schedd does, however it got there: entry by entry, through a
\* reload of a live log or of a compacted one.  Nothing that a reload merges,
\* chains or sweeps leaves a phantom or drops a live job (applyEntry and
\* reconciler.apply, flush and sweepKeys agree).
ReconciledExact ==
    CaughtUp =>
        /\ \A c \in Cluster : rows[c] = ads[c]
        /\ \A k \in Key : (rows[k] = NoRow) <=> (ads[k] = NoRow)
=============================================================================
