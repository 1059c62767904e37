-------------------------------- MODULE Join --------------------------------
(***************************************************************************)
(* repl/join.go: the client-side join.  A statement is split into          *)
(* constraints pushed into each table's scan, conditions that decide a     *)
(* pairing and a residue applied after the last step; the tables are then  *)
(* read one at a time, each narrowed to the keys in hand, and folded into  *)
(* the rows through a hash of the equality keys.  All of it must be        *)
(* invisible: the answer is that of the statement as written.              *)
(*                                                                         *)
(* A table is a sequence of ads, an ad gives "k" and "x" a value or        *)
(* "undef"; a row in flight is the tuple of the ads it was built from, 0   *)
(* where a LEFT JOIN found none.  A reference is <<side, attribute>>.  A   *)
(* predicate is a set of conjuncts [op, l, r, strips]: "join" compares two *)
(* references, "test" a reference with a literal, "missing" asks whether   *)
(* it is undefined; strips says whether stripExpr knows its nodes.         *)
(* Rendering and the order of the rows beyond the ORDER BY are left out.   *)
(***************************************************************************)
EXTENDS Integers, Sequences, FiniteSets, Functions, FiniteSetsExt

CONSTANTS
    JoinStatements,       \* the statements: kinds, on, where, items, order, distinct,
                          \* limit, asOf, window, tx (in a transaction that has written
                          \* the tables), agg (COUNT(*), with group and having)
    JoinStores,           \* the contents of the tables
    MaxJoinTables, MaxJoinSideRows, MaxJoinPairs, MaxJoinOutputRows, MaxJoinKeyBatch,
    MinRightRowsPerKey    \* the code's limits, scaled down

VARIABLES
    jpc,       \* "plan", "server", "fetch", "run", "finish", "done", "refused"
    jstmt, jstore,
    jserver,   \* e.serverJoin
    jplan,     \* joinPlan
    jstep,     \* the step of the pipeline
    jads,      \* the ads fetched for it
    jrows, jbudget

joinvars == <<jpc, jstmt, jstore, jserver, jplan, jstep, jads, jrows, jbudget>>

Values == {"undef", "0", "1", "true", "2"}
Attributes == {"k", "x"}
NoPlan == [none |-> TRUE]

JoinStart(stmt, store, server) ==
    /\ jpc = "plan" /\ jstmt = stmt /\ jstore = store /\ jserver = server
    /\ jplan = NoPlan /\ jstep = 0 /\ jads = {} /\ jrows = {} /\ jbudget = MaxJoinPairs
JoinInit ==
    \E stmt \in JoinStatements, store \in JoinStores, server \in BOOLEAN :
        Len(store) = Len(stmt.kinds) + 1 /\ JoinStart(stmt, store, server)

(* The references of a conjunct and the sides they are on. *)
References(c) == IF c.op = "join" THEN {c.l, c.r} ELSE {c.l}
SidesOf(c) == {ref[1] : ref \in References(c)}
SoleSide(c, s) == SidesOf(c) = {s}
Tables(st) == 1 .. Len(st.kinds) + 1
AllOn(st) == UNION {st.on[i] : i \in 1 .. Len(st.on)}

-----------------------------------------------------------------------------
(***************************************************************************)
(* ClassAd evaluation (external): == is undefined on an undefined operand  *)
(* and coerces booleans to numbers; only true keeps a row.                 *)
(***************************************************************************)
ClassAdEqual(a, b) ==
    /\ "undef" \notin {a, b}
    /\ a = b \/ {a, b} = {"1", "true"}

IsTrue(c, val) ==
    CASE c.op = "join"    -> ClassAdEqual(val[c.l], val[c.r])
      [] c.op = "test"    -> ClassAdEqual(val[c.l], c.r)
      [] c.op = "missing" -> val[c.l] = "undef"

AllTrue(cs, val) == \A c \in cs : IsTrue(c, val)

(* The values a reference has in an ad of table s on its own, and in the   *)
(* composite row over the attributes of project.                           *)
OfAd(store, s, id) == [ref \in {s} \X Attributes |-> store[s][id][ref[2]]]
OfRow(store, project, t) ==
    [ref \in (DOMAIN project) \X Attributes |->
        IF ref[1] > Len(t) \/ t[ref[1]] = 0 \/ ref[2] \notin project[ref[1]]
        THEN "undef" ELSE store[ref[1]][t[ref[1]]][ref[2]]]

-----------------------------------------------------------------------------
(* Planning. *)

(* validateJoinClauses, the forward references of planStep and             *)
(* refuseUnsupportedJoin.                                                  *)
Supported(st) ==
    /\ Cardinality(Tables(st)) \in 2 .. MaxJoinTables
    /\ ~st.window
    /\ \A i \in 1 .. Len(st.on) : \A c \in st.on[i] : SidesOf(c) \subseteq 1 .. i + 1

NullExtendable(st, s) == s > 1 /\ st.kinds[s - 1] = "LEFT"

(* planStep: what stays with the pairing of step i. *)
StepCondition(st, i) ==
    {c \in st.on[i] :
        \/ \A s \in Tables(st) : ~SoleSide(c, s)
        \/ ~SoleSide(c, i + 1) /\ st.kinds[i] = "LEFT"}

(* planWhere: what may filter a scan. *)
WherePushesAll(st) ==
    {c \in st.where : \E s \in Tables(st) : SoleSide(c, s)}
WherePushes(st) ==
    {c \in st.where : \E s \in Tables(st) : SoleSide(c, s) /\ ~NullExtendable(st, s)}

(* pushTo: a conjunct that cannot be stripped waits for the end. *)
Pushed(st) ==
    WherePushes(st) \cup UNION {st.on[i] \ StepCondition(st, i) : i \in 1 .. Len(st.on)}
SideWhere(st, s) == {c \in Pushed(st) : c.strips /\ SoleSide(c, s)}
Post(st) == (st.where \ WherePushes(st)) \cup {c \in Pushed(st) : ~c.strips}

(* extractEqui: equalities of the table of step i with those before it, as *)
(* [acc, side].                                                            *)
Equi(st, i) ==
    {e \in {[acc |-> c.l, side |-> c.r] : c \in {d \in st.on[i] : d.op = "join" /\ d.strips}}
       \cup {[acc |-> c.r, side |-> c.l] : c \in {d \in st.on[i] : d.op = "join" /\ d.strips}} :
        e.side[1] = i + 1 /\ e.acc[1] <= i}

(* planProjection: the attributes the statement reads of each table, or    *)
(* the whole ad: for *, for an aggregate, and when it reads nothing of it. *)
Project(st) ==
    LET reads(s) == {ref[2] : ref \in {q \in st.items \cup st.order
                            \cup UNION {References(c) : c \in st.where \cup AllOn(st)} : q[1] = s}}
    IN  [s \in Tables(st) |->
            IF st.items = {} \/ st.agg \/ reads(s) = {} THEN Attributes ELSE reads(s)]

PlanJoin(st) ==
    [where   |-> [s \in Tables(st) |-> SideWhere(st, s)],
     cond    |-> [i \in 1 .. Len(st.kinds) |-> StepCondition(st, i)],
     equi    |-> [i \in 1 .. Len(st.kinds) |-> Equi(st, i)],
     post    |-> Post(st),
     project |-> Project(st)]

ExecJoin ==
    /\ jpc = "plan"
    /\ IF ~Supported(jstmt) THEN jpc' = "refused" /\ UNCHANGED jplan
       ELSE jpc' = "server" /\ jplan' = PlanJoin(jstmt)
    /\ UNCHANGED <<jstmt, jstore, jserver, jstep, jads, jrows, jbudget>>

-----------------------------------------------------------------------------
(* Execution. *)

RowVals(t) == OfRow(jstore, jplan.project, t)
AdVals(s, id) == OfAd(jstore, s, id)

Scan(s) == {id \in DOMAIN jstore[s] : AllTrue(jplan.where[s], AdVals(s, id))}

(* The rows step i makes of tuples and the candidate ads of each. *)
Paired(i, rows, candidates) ==
    LET matches(t) == {id \in candidates[t] : AllTrue(jplan.cond[i], RowVals(Append(t, id)))}
    IN  UNION {{Append(t, id) : id \in matches(t)} : t \in rows}
          \cup (IF jstmt.kinds[i] # "LEFT" THEN {}
                ELSE {Append(t, 0) : t \in {u \in rows : matches(u) = {}}})

(* Which rows may be kept by applyLimit: any that the ORDER BY does not    *)
(* rule out.  compareValues sorts undefined last; compareCells, of the     *)
(* groups' text, sorts words after numbers.                                *)
Rank(v) == CASE v = "0" -> 0 [] v \in {"1", "true"} -> 1 [] v = "2" -> 2 [] OTHER -> 3
CellRank(v) == CASE v = "0" -> 0 [] v = "1" -> 1 [] v = "2" -> 2 [] v = "true" -> 3 [] OTHER -> 4
Precedes(order, val, other) == \E ref \in order : Rank(val[ref]) < Rank(other[ref])
Keepable(limit, rows, before) ==
    IF limit = 0 \/ Cardinality(rows) <= limit THEN {rows}
    ELSE {kept \in kSubset(limit, rows) : \A t \in kept, u \in rows \ kept : <<u, t>> \notin before}

(* serverJoinEligible and readsInTx. *)
ServerEligible ==
    /\ jserver /\ ~jstmt.asOf /\ Len(jstmt.kinds) = 1 /\ ~jstmt.tx
    /\ \A e \in jplan.equi[1] : e.acc[1] = 1

(* joinServerSide: the store pairs two tables by the plan it is sent       *)
(* (external), and may limit what it returns.  An older one declines.  It  *)
(* does not see what a transaction has written, here the last ad of each.  *)
LimitPushes(st) == st.limit > 0 /\ st.order = {} /\ ~st.distinct /\ ~st.agg
Committed(s) == {id \in Scan(s) : jstmt.tx => id < Len(jstore[s])}
ServerRows ==
    LET firsts == {<<id>> : id \in Committed(1)}
    IN  {t \in Paired(1, firsts, [f \in firsts |-> Committed(2)]) : AllTrue(jplan.post, RowVals(t))}

ServerJoins ==
    /\ jpc = "server" /\ ServerEligible
    /\ \E kept \in IF LimitPushes(jstmt)
                   THEN Keepable(jstmt.limit, ServerRows, {})
                   ELSE {ServerRows} : jrows' = kept
    /\ jpc' = "finish"
    /\ UNCHANGED <<jstmt, jstore, jserver, jplan, jstep, jads, jbudget>>

(* runJoinPipeline begins: the first table, wrapped. *)
FetchFirst ==
    /\ jpc = "server"
    /\ LET ads == Scan(1) IN
         /\ jpc' = IF Cardinality(ads) > MaxJoinSideRows THEN "refused" ELSE "fetch"
         /\ jrows' = {<<id>> : id \in ads} /\ jstep' = 1
    /\ UNCHANGED <<jstmt, jstore, jserver, jplan, jads, jbudget>>

(* keyLiterals: the distinct values of the one equality's key, none when   *)
(* there are too many.                                                     *)
KeyLiterals ==
    IF Cardinality(jplan.equi[jstep]) # 1 THEN {}
    ELSE LET e == CHOOSE q \in jplan.equi[jstep] : TRUE
             lits == {RowVals(t)[e.acc] : t \in jrows} \ {"undef"}
         IN  IF Cardinality(lits) > MaxJoinKeyBatch THEN {} ELSE lits

(* decideKeyBatch; cheapRowCount may not know the size of the table.       *)
KeyBatches(lits) ==
    IF lits = {} THEN {FALSE}
    ELSE IF jplan.where[jstep + 1] # {}
              \/ Len(jstore[jstep + 1]) >= Cardinality(lits) * MinRightRowsPerKey
         THEN {TRUE} ELSE BOOLEAN

FetchStep ==
    LET s == jstep + 1
        lits == KeyLiterals
        key(id) == AdVals(s, id)[(CHOOSE q \in jplan.equi[jstep] : TRUE).side]
    IN
    /\ jpc = "fetch"
    /\ \E batch \in KeyBatches(lits) :
         jads' = {id \in Scan(s) : batch => \E v \in lits : ClassAdEqual(key(id), v)}
    /\ jpc' = IF Cardinality(jads') > MaxJoinSideRows THEN "refused" ELSE "run"
    /\ UNCHANGED <<jstmt, jstore, jserver, jplan, jstep, jrows, jbudget>>

(* bucketKey, of one value: numbers and booleans in one form, nothing for  *)
(* undefined.                                                              *)
BucketKey(v) == CASE v = "true" -> "1" [] OTHER -> v
AccKey(i, t) == [e \in jplan.equi[i] |-> BucketKey(RowVals(t)[e.acc])]
SideKey(i, id) == [e \in jplan.equi[i] |-> BucketKey(AdVals(i + 1, id)[e.side])]

Candidates(i, ads, t) ==
    IF jplan.equi[i] = {} THEN ads
    ELSE IF "undef" \in Range(AccKey(i, t)) THEN {}
    ELSE {id \in ads : SideKey(i, id) = AccKey(i, t)}

(* runStep: the budget is that of the whole statement; after the last step *)
(* the residue of the WHERE.                                               *)
RunStep ==
    LET candidates == [t \in jrows |-> Candidates(jstep, jads, t)]
        pairs == FoldFunction(+, 0, [t \in jrows |-> Cardinality(candidates[t])])
        rows == Paired(jstep, jrows, candidates)
        last == jstep = Len(jstmt.kinds)
    IN
    /\ jpc = "run"
    /\ jbudget' = jbudget - pairs
    /\ jrows' = IF last THEN {t \in rows : AllTrue(jplan.post, RowVals(t))} ELSE rows
    /\ jstep' = jstep + 1
    /\ jpc' = IF jbudget' < 0 \/ Cardinality(rows) > MaxJoinOutputRows THEN "refused"
              ELSE IF last THEN "finish" ELSE "fetch"
    /\ jads' = {}
    /\ UNCHANGED <<jstmt, jstore, jserver, jplan>>

(* fetchJoinSide: only a plain read is projected. *)
Fetched(s) == IF jstmt.asOf \/ jstmt.tx THEN Attributes ELSE jplan.project[s]

(* dedupeAds: one row of each composite ad, whatever of it is selected. *)
Composite(t) ==
    [s \in 1 .. Len(t) |-> IF t[s] = 0 THEN "none"
                           ELSE [a \in Fetched(s) |-> jstore[s][t[s]][a]]]
Deduped(rows) == {CHOOSE t \in rows : Composite(t) = q : q \in {Composite(t) : t \in rows}}

(* aggregateJoinRows: the rows grouped by the columns selected, counted,   *)
(* and filtered by the HAVING.                                             *)
JoinGroups(rows, columns) ==
    LET label(t) == [ref \in columns |-> RowVals(t)[ref]]
    IN  {[label |-> l, n |-> Cardinality({t \in rows : label(t) = l})] : l \in {label(t) : t \in rows}}
AggregateJoinRows(rows) == {g \in JoinGroups(rows, jstmt.items) : g.n > jstmt.having}
GroupBefore(groups) ==
    {<<g, h>> \in groups \X groups :
        \E ref \in jstmt.order : CellRank(g.label[ref]) < CellRank(h.label[ref])}
RowBefore(rows) ==
    {<<t, u>> \in rows \X rows : Precedes(jstmt.order, RowVals(t), RowVals(u))}

(* finishJoin: the grouping, or DISTINCT; ORDER BY; LIMIT. *)
FinishJoin ==
    /\ jpc = "finish"
    /\ LET groups == AggregateJoinRows(jrows)
           rows == IF jstmt.distinct THEN Deduped(jrows) ELSE jrows
       IN  jrows' \in IF jstmt.agg THEN Keepable(jstmt.limit, groups, GroupBefore(groups))
                      ELSE Keepable(jstmt.limit, rows, RowBefore(rows))
    /\ jpc' = "done"
    /\ UNCHANGED <<jstmt, jstore, jserver, jplan, jstep, jads, jbudget>>

JoinNext ==
    \/ ExecJoin \/ ServerJoins \/ FetchFirst \/ FetchStep \/ RunStep \/ FinishJoin

JoinSpec == JoinInit /\ [][JoinNext]_joinvars

-----------------------------------------------------------------------------
(***************************************************************************)
(* The statement as written: every combination of ads, a condition at a    *)
(* time over whole ads, no pushdown, no hash and no batching.              *)
(***************************************************************************)
WholeVals(t) == OfRow(jstore, [s \in Tables(jstmt) |-> Attributes], t)

Joined[i \in Nat] ==
    IF i = 0 THEN {<<id>> : id \in DOMAIN jstore[1]}
    ELSE LET matches(t) == {id \in DOMAIN jstore[i + 1] :
                 AllTrue(jstmt.on[i], WholeVals(Append(t, id)))}
         IN  UNION {{Append(t, id) : id \in matches(t)} : t \in Joined[i - 1]}
               \cup {Append(t, 0) : t \in {u \in Joined[i - 1] :
                                             jstmt.kinds[i] = "LEFT" /\ matches(u) = {}}}

Reference ==
    {t \in Joined[Len(jstmt.kinds)] : AllTrue(jstmt.where, WholeVals(t))}

(* renderJoinRows: a row shows the columns selected, or all. *)
Shown(t) ==
    LET refs == IF jstmt.items = {} THEN Tables(jstmt) \X Attributes ELSE jstmt.items
    IN  [ref \in refs |-> WholeVals(t)[ref]]

(* The groups of a GROUP BY; without one, an empty answer is one group. *)
RefGrouped ==
    {g \in JoinGroups(Reference, jstmt.group)
             \cup (IF jstmt.group = {} /\ Reference = {} THEN {[label |-> << >>, n |-> 0]} ELSE {}) :
        g.n > jstmt.having}

Asked(all) == IF jstmt.limit > 0 /\ jstmt.limit < all THEN jstmt.limit ELSE all

(***************************************************************************)
(* The answer of a join (finishJoin) is that of the statement as written,  *)
(* however planStep and planWhere split it, decideKeyBatch narrowed the    *)
(* scans, runStep hashed the rows or the store paired them, in or out of a *)
(* transaction: only rows, or groups with their counts, of the reference;  *)
(* as many as the LIMIT asks for, counting a DISTINCT one once; and none   *)
(* left out that sorts before one that is there.  The statements leave out *)
(* what the code answers differently: see MCServices.                      *)
(***************************************************************************)
JoinExact ==
    jpc = "done" =>
        IF jstmt.agg
        THEN LET groups == RefGrouped
             IN  /\ jrows \subseteq groups /\ Cardinality(jrows) = Asked(Cardinality(groups))
                 /\ \A g \in jrows, h \in groups \ jrows : <<h, g>> \notin GroupBefore({g, h})
        ELSE LET all == Reference
                 distinct == IF jstmt.distinct THEN {Shown(t) : t \in all} ELSE all
             IN  /\ jrows \subseteq all
                 /\ jstmt.distinct => Cardinality({Shown(t) : t \in jrows}) = Cardinality(jrows)
                 /\ Cardinality(jrows) = Asked(Cardinality(distinct))
                 /\ \A t \in jrows, u \in all \ jrows :
                      Precedes(jstmt.order, WholeVals(u), WholeVals(t))
                        => jstmt.distinct /\ \E q \in jrows : Shown(q) = Shown(u)
=============================================================================
