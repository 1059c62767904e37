------------------------------- MODULE Select -------------------------------
(***************************************************************************)
(* repl/exec.go, windowfn.go, setop.go, aggexpr.go and stream.go: the      *)
(* evaluation of a SELECT of one table, or of a UNION of two, over what    *)
(* the server filtered.  What is pushed to the server (a limit, an order,  *)
(* a grouping), what is done here, and whether the rows are collected or   *)
(* streamed, must not show in the answer.                                  *)
(*                                                                         *)
(* An ad has a group "g" and a value "v", each <<"n", i>> (a number),      *)
(* <<"s", i>> (a string of digits) or <<"u", 0>> (undefined).  A cell is   *)
(* what is displayed of it, an integer: strings and numbers look alike.    *)
(* Names, expressions, rendering and EXPLAIN are left out.                 *)
(***************************************************************************)
EXTENDS Integers, Sequences, FiniteSets, SequencesExt, FiniteSetsExt

CONSTANTS
    SelectStatements,   \* the statements: via, from, where, items, agg, bucket, having, window,
                        \* qualify, distinct, union, order, limit, asOf
    SelectStores        \* the contents of the two tables, in the order of the scan

VARIABLES
    qpc,       \* "exec", "branch" or "done"
    qstmt, qstore,
    qbranch,   \* the branches of the UNION evaluated so far
    qrows      \* the rows of the result so far

selectvars == <<qpc, qstmt, qstore, qbranch, qrows>>

SelectStart(stmt, store) ==
    qpc = "exec" /\ qstmt = stmt /\ qstore = store /\ qbranch = 0 /\ qrows = <<>>
SelectInit == \E stmt \in SelectStatements, store \in SelectStores : SelectStart(stmt, store)

(* valueDisplay: "undefined" sorts after digits; an aggregate of nothing   *)
(* is empty and sorts first.                                               *)
UndefinedCell == 9
EmptyCell == -1
Cell(v) == IF v[1] = "u" THEN UndefinedCell ELSE v[2]

(* The rows of an ad; the columns are g, v, or both, * being both. *)
Render(st, ad) ==
    CASE st.items = "g" -> <<Cell(ad.g)>>
      [] OTHER          -> <<Cell(ad.g), Cell(ad.v)>>

Matches(st, ad) == st.where = "all" \/ ad.v[1] = "n"
Matching(st, table) == SelectSeq(table, LAMBDA ad : Matches(st, ad))

-----------------------------------------------------------------------------
(* compareValues and compareCells, as "comes before". *)
ValueRank(v) == CASE v[1] = "n" -> 0 [] v[1] = "s" -> 1 [] OTHER -> 2
ValueBefore(a, b) ==
    \/ ValueRank(a) < ValueRank(b)
    \/ ValueRank(a) = ValueRank(b) /\ ValueRank(a) # 2 /\ a[2] < b[2]
CellBefore(a, b) == a < b

(* A stable sort, ascending or descending. *)
StableSort(s, Before(_, _), desc) ==
    LET before(i, j) == IF desc THEN Before(s[j], s[i]) ELSE Before(s[i], s[j])
        place(i) == 1 + Cardinality({j \in DOMAIN s :
                            before(j, i) \/ (~before(i, j) /\ j < i)})
    IN  [p \in DOMAIN s |-> s[CHOOSE i \in DOMAIN s : place(i) = p]]

SortAds(st, ads) ==
    IF st.order.col = 0 THEN ads
    ELSE StableSort(ads, LAMBDA a, b : IF st.order.col = 1 THEN ValueBefore(a.g, b.g)
                                       ELSE ValueBefore(a.v, b.v), st.order.desc)
SortRows(st, rows) ==
    IF st.order.col = 0 THEN rows
    ELSE StableSort(rows, LAMBDA a, b : CellBefore(a[st.order.col], b[st.order.col]),
                    st.order.desc)

ApplyLimit(st, rows) ==
    IF st.limit > 0 /\ Len(rows) > st.limit THEN SubSeq(rows, 1, st.limit) ELSE rows

(* dedupeAds and dedupeRows: the first of each. *)
Dedupe(s) ==
    FoldLeft(LAMBDA seen, x : IF x \in ToSet(seen) THEN seen ELSE Append(seen, x), <<>>, s)

-----------------------------------------------------------------------------
(***************************************************************************)
(* Aggregates.  aggregateAds: COUNT(star), COUNT(v), COUNT(DISTINCT v), a  *)
(* COUNT with a FILTER that keeps numbers, SUM(v) and MAX(v) of numbers.   *)
(***************************************************************************)
Numbers(ads) == SelectSeq(ads, LAMBDA ad : ad.v[1] = "n")
AggregateAds(agg, ads) ==
    LET values == SelectSeq(ads, LAMBDA ad : ad.v[1] # "u")
        numbers == Numbers(ads)
    IN CASE agg = "count"    -> Len(ads)
         [] agg = "count_v"  -> Len(values)
         [] agg = "filtered" -> Len(numbers)
         [] agg = "distinct" -> Cardinality({Cell(ad.v) : ad \in ToSet(values)})
         [] agg = "sum"      -> IF numbers = <<>> THEN EmptyCell
                                ELSE FoldLeft(LAMBDA sum, ad : sum + ad.v[2], 0, numbers)
         [] agg = "max"      -> IF numbers = <<>> THEN EmptyCell
                                ELSE Max({ad.v[2] : ad \in ToSet(numbers)})
         [] OTHER            -> EmptyCell

(* effectiveGroupBy: DISTINCT of columns is a GROUP BY of them. *)
Grouped(st) == st.agg # "none" \/ (st.distinct /\ st.items # "star")

(* bucketFloor *)
BucketFloor(v, width) == (v \div width) * width

(* The group of an ad: none for an aggregate of the whole table, the       *)
(* bucket of v, or the columns.  A row whose time is undefined drops out.  *)
GroupLabel(st, ad) ==
    IF st.bucket > 0 THEN <<BucketFloor(ad.v[2], st.bucket)>>
    ELSE IF st.items = "none" THEN <<>> ELSE Render(st, ad)
InSeries(st, ad) == st.bucket = 0 \/ ad.v[1] = "n"

(* aggProjector: HAVING is over the count, and drops what is not true. *)
Having(st, n) == st.having = 0 \/ (n # EmptyCell /\ n > st.having)
GroupRow(st, label, n) == IF st.agg = "none" THEN label ELSE Append(label, n)

(* execAggregateAsOf, execAggregateBucket: groups in the order first seen; *)
(* with no GROUP BY an empty table is still one group.                     *)
ReduceHere(st, ads) ==
    LET rows == SelectSeq(ads, LAMBDA ad : InSeries(st, ad))
        labels == IF rows = <<>> /\ st.items = "none" /\ st.bucket = 0 THEN << <<>> >>
                  ELSE Dedupe([i \in DOMAIN rows |-> GroupLabel(st, rows[i])])
        value(label) == AggregateAds(st.agg, SelectSeq(rows, LAMBDA ad : GroupLabel(st, ad) = label))
        kept == SelectSeq(labels, LAMBDA label : Having(st, value(label)))
    IN  [i \in DOMAIN kept |-> GroupRow(st, kept[i], value(kept[i]))]

(* execAggregate, execArchiveAggregate, execAggregateBucketServer: the     *)
(* server reduces (external), in an order of its own; an AS OF read and a  *)
(* server too old for the operation are reduced here.                      *)
ServerReduces(st) == ~st.asOf
Aggregated(st, ads) ==
    LET here == ReduceHere(st, ads) IN
    {here} \cup IF ServerReduces(st) THEN {Reverse(here)} ELSE {}

-----------------------------------------------------------------------------
(***************************************************************************)
(* Ranking windows over v, partitioned by g.  windowValues: each partition *)
(* is sorted, then assignRanks walks it.                                   *)
(***************************************************************************)
AssignRank(fn, pos, tied, previous) ==
    CASE fn = "ROW_NUMBER" -> pos
      [] fn = "RANK"       -> IF tied THEN previous ELSE pos
      [] fn = "DENSE_RANK" -> IF tied THEN previous ELSE previous + 1

WindowValues(st, ads) ==
    LET partition(i) == SelectSeq([j \in DOMAIN ads |-> j],
                                  LAMBDA j : Cell(ads[j].g) = Cell(ads[i].g))
        ordered(i) == StableSort(partition(i), LAMBDA a, b :
                                     CellBefore(Cell(ads[a].v), Cell(ads[b].v)), FALSE)
        ranks(i) == LET idx == ordered(i)
                        rank[pos \in 0 .. Len(idx)] ==
                            IF pos = 0 THEN 0
                            ELSE AssignRank(st.window, pos,
                                    pos > 1 /\ Cell(ads[idx[pos - 1]].v) = Cell(ads[idx[pos]].v),
                                    rank[pos - 1])
                    IN  rank[CHOOSE pos \in DOMAIN idx : idx[pos] = i]
    IN  [i \in DOMAIN ads |-> ranks(i)]

(* qualifyKeep, then the rows, the statement's order and its limit; the    *)
(* limit is never pushed below the ranking.                                *)
ExecSelectWindow(st, table) ==
    LET ads == Matching(st, table)
        ranks == WindowValues(st, ads)
        kept == SelectSeq([i \in DOMAIN ads |-> i],
                          LAMBDA i : st.qualify = 0 \/ ranks[i] <= st.qualify)
    IN  ApplyLimit(st, SortRows(st, [p \in DOMAIN kept |->
            Append(Render(st, ads[kept[p]]), ranks[kept[p]])]))

-----------------------------------------------------------------------------
(* execSelect of plain rows.  The limit is pushed to the server where it   *)
(* only cuts the scan short.                                               *)
PushLimitSorted(st) == st.limit > 0 /\ ~st.distinct
PushLimit(st) == st.limit > 0 /\ st.order.col = 0 /\ ~st.distinct

(* projectionAttrs: only the columns named, and what they are ordered by,  *)
(* cross the wire; whole ads for *, AS OF and DISTINCT.                    *)
Projected(st, ad) ==
    IF st.items \in {"star", "gv"} \/ st.asOf \/ st.distinct \/ st.order.col = 2 THEN ad
    ELSE [ad EXCEPT !.v = <<"u", 0>>]

FetchedRows(st, table) ==
    LET ads == Matching(st, table)
        projected == [i \in DOMAIN ads |-> Projected(st, ads[i])]
    IN  IF PushLimit(st) THEN ApplyLimit(st, projected) ELSE projected

(* tryTopK: one order term, a limit, columns; numericOrderCol holds of a   *)
(* column that is a number in every row.                                   *)
TopKPlan(st, table) ==
    /\ st.limit > 0 /\ st.order.col # 0
    /\ st.items # "star" /\ ~st.asOf /\ ~st.distinct
    /\ \A i \in DOMAIN table : (IF st.order.col = 1 THEN table[i].g ELSE table[i].v)[1] = "n"

(* The server's top k of equal rows may be any (external): here the last   *)
(* in the scan.                                                            *)
TopK(st, table) ==
    ApplyLimit(st, SortAds(st, Reverse(Matching(st, table))))

RenderAds(st, ads) == [i \in DOMAIN ads |-> Render(st, ads[i])]

PlainRows(st, table) ==
    LET ads == FetchedRows(st, table)
        whole == IF st.distinct THEN Dedupe(ads) ELSE ads
    IN  {RenderAds(st, ApplyLimit(st, SortAds(st, whole)))}
          \cup IF TopKPlan(st, table) THEN {RenderAds(st, TopK(st, table))} ELSE {}

(* execSelect: the answers it may give. *)
ExecSelectRows(st, table) ==
    IF Grouped(st)
    THEN {ApplyLimit(st, SortRows(st, rows)) : rows \in Aggregated(st, Matching(st, table))}
    ELSE IF st.window # "none" THEN {ExecSelectWindow(st, table)}
    ELSE PlainRows(st, table)

-----------------------------------------------------------------------------
(* StreamSelect: what is not streamable is collected first.  streamable    *)
(* does not look for a UNION or a window: only the scan of the first table *)
(* is then streamed.                                                       *)
Streamable(st) == st.order.col = 0 /\ ~st.distinct /\ ~st.asOf /\ ~Grouped(st)
StreamRows(st, table) ==
    LET ads == ApplyLimit(st, Matching(st, table)) IN RenderAds(st, ads)

ExecOne ==
    /\ qpc = "exec" /\ qstmt.union = "none" /\ ~(qstmt.via = "stream" /\ Streamable(qstmt))
    /\ qrows' \in ExecSelectRows(qstmt, qstore[1])
    /\ qpc' = "done"
    /\ UNCHANGED <<qstmt, qstore, qbranch>>

StreamSelect ==
    /\ qpc = "exec" /\ qstmt.via = "stream" /\ Streamable(qstmt)
    /\ qrows' = StreamRows(qstmt, qstore[1])
    /\ qpc' = "done"
    /\ UNCHANGED <<qstmt, qstore, qbranch>>

(* execSetOp: the branches in turn, without the operation's order and with *)
(* what is left of the limit only where nothing reorders or removes rows.  *)
SetOpPushLimit(st) == st.limit > 0 /\ st.order.col = 0 /\ st.union = "all"
BranchLimit(st, n) == IF SetOpPushLimit(st) THEN st.limit - n ELSE 0

ExecBranch ==
    /\ \/ qpc = "exec" /\ qstmt.union # "none" /\ ~(qstmt.via = "stream" /\ Streamable(qstmt))
       \/ qpc = "branch" /\ qbranch < 2
    /\ ~(SetOpPushLimit(qstmt) /\ BranchLimit(qstmt, Len(qrows)) <= 0)
    /\ \E rows \in ExecSelectRows([qstmt EXCEPT !.order = [col |-> 0, desc |-> FALSE],
                                                !.limit = BranchLimit(qstmt, Len(qrows))],
                                  qstore[qbranch + 1]) :
         qrows' = qrows \o rows
    /\ qbranch' = qbranch + 1 /\ qpc' = "branch"
    /\ UNCHANGED <<qstmt, qstore>>

FinishSetOp ==
    /\ qpc = "branch"
    /\ qbranch = 2 \/ (SetOpPushLimit(qstmt) /\ BranchLimit(qstmt, Len(qrows)) <= 0)
    /\ qrows' = LET all == IF qstmt.union = "distinct" THEN Dedupe(qrows) ELSE qrows
                IN  ApplyLimit(qstmt, SortRows(qstmt, all))
    /\ qpc' = "done"
    /\ UNCHANGED <<qstmt, qstore, qbranch>>

SelectNext == ExecOne \/ StreamSelect \/ ExecBranch \/ FinishSetOp

SelectSpec == SelectInit /\ [][SelectNext]_selectvars

-----------------------------------------------------------------------------
(***************************************************************************)
(* The statement by the definition of each clause, as the number of times  *)
(* a row belongs in the answer before the limit.                           *)
(***************************************************************************)
RefRank(st, table, i) ==
    LET peers == {j \in DOMAIN table : Matches(st, table[j]) /\ Cell(table[j].g) = Cell(table[i].g)}
        less == {j \in peers : Cell(table[j].v) < Cell(table[i].v)}
    IN CASE st.window = "ROW_NUMBER" ->
              1 + Cardinality(less) + Cardinality({j \in peers : j < i /\ Cell(table[j].v) = Cell(table[i].v)})
         [] st.window = "RANK"       -> 1 + Cardinality(less)
         [] st.window = "DENSE_RANK" -> 1 + Cardinality({Cell(table[j].v) : j \in less})

RefRow(st, table, i) ==
    IF st.window = "none" THEN Render(st, table[i])
    ELSE Append(Render(st, table[i]), RefRank(st, table, i))

RefGroups(st, table) ==
    LET in == {i \in DOMAIN table : Matches(st, table[i]) /\ (st.bucket = 0 \/ table[i].v[1] = "n")}
        members(label) == {i \in in : GroupLabel(st, table[i]) = label}
        values(label) == {i \in members(label) : table[i].v[1] # "u"}
        numbers(label) == {i \in members(label) : table[i].v[1] = "n"}
        value(label) ==
            CASE st.agg = "count"    -> Cardinality(members(label))
              [] st.agg = "count_v"  -> Cardinality(values(label))
              [] st.agg = "filtered" -> Cardinality(numbers(label))
              [] st.agg = "distinct" -> Cardinality({Cell(table[i].v) : i \in values(label)})
              [] st.agg = "sum" /\ numbers(label) # {} ->
                     MapThenSumSet(LAMBDA i : table[i].v[2], numbers(label))
              [] st.agg = "max" /\ numbers(label) # {} -> Max({table[i].v[2] : i \in numbers(label)})
              [] OTHER -> EmptyCell
        labels == {GroupLabel(st, table[i]) : i \in in}
                    \cup IF st.items = "none" /\ st.bucket = 0 THEN {<<>>} ELSE {}
    IN  {GroupRow(st, label, value(label)) : label \in {l \in labels : Having(st, value(l))}}

RefTimes(st, table, row) ==
    IF Grouped(st) THEN (IF row \in RefGroups(st, table) THEN 1 ELSE 0)
    ELSE LET times == Cardinality({i \in DOMAIN table :
                 /\ Matches(st, table[i])
                 /\ st.qualify = 0 \/ RefRank(st, table, i) <= st.qualify
                 /\ RefRow(st, table, i) = row})
         IN  IF st.distinct /\ times > 1 THEN 1 ELSE times

RefRows(st, table) ==
    IF Grouped(st) THEN RefGroups(st, table) ELSE {RefRow(st, table, i) : i \in DOMAIN table}

ExpectedTimes(row) ==
    IF qstmt.union = "none" THEN RefTimes(qstmt, qstore[1], row)
    ELSE LET n == RefTimes(qstmt, qstore[1], row) + RefTimes(qstmt, qstore[2], row)
         IN  IF qstmt.union = "distinct" /\ n > 1 THEN 1 ELSE n
ExpectedRows ==
    {row \in RefRows(qstmt, qstore[1]) \cup (IF qstmt.union = "none" THEN {} ELSE RefRows(qstmt, qstore[2])) :
        ExpectedTimes(row) > 0}

RowPrecedes(a, b) ==
    LET c == qstmt.order.col IN
    c # 0 /\ c <= Len(a) /\ IF qstmt.order.desc THEN b[c] < a[c] ELSE a[c] < b[c]

(***************************************************************************)
(* The answer to a SELECT (execSelect, execSetOp, StreamSelect) is what    *)
(* its clauses define, whatever was pushed to the server or reduced here:  *)
(* each row as often as it belongs, as many as the LIMIT asks for, in the  *)
(* order asked for, and none left out that sorts before one that is there. *)
(* So is the answer that is streamed, of a statement without UNION and     *)
(* windows or of one that StreamSelect collects first (MCStreamedShapes:   *)
(* the others are not).                                                    *)
(***************************************************************************)
SelectExact ==
    qpc = "done" =>
        LET times(row) == Cardinality({p \in DOMAIN qrows : qrows[p] = row})
            all == MapThenSumSet(ExpectedTimes, ExpectedRows)
        IN  /\ \A row \in ToSet(qrows) : times(row) <= ExpectedTimes(row)
            /\ Len(qrows) = IF qstmt.limit > 0 /\ qstmt.limit < all THEN qstmt.limit ELSE all
            /\ \A p \in DOMAIN qrows : \A q \in 1 .. p - 1 : ~RowPrecedes(qrows[p], qrows[q])
            /\ \A p \in DOMAIN qrows : \A row \in ExpectedRows :
                 RowPrecedes(row, qrows[p]) => times(row) = ExpectedTimes(row)
=============================================================================
