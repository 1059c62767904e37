----------------------------- MODULE MCServices -----------------------------
(***************************************************************************)
(* TLC instances of Services: the batches of a client of the raft group,   *)
(* the queries of a daemon, the statements and stores of the query paths,  *)
(* and what the Flight service is asked.                                   *)
(***************************************************************************)
EXTENDS Services, MCManagers, MCAnsi, MCJobAds

MCBatches == << <<[table |-> "ads", ok |-> TRUE], [table |-> "jobs", ok |-> TRUE]>>,
                <<[table |-> "jobs", ok |-> TRUE], [table |-> "ads", ok |-> FALSE]>>,
                <<[table |-> "ro", ok |-> TRUE]>> >>

\* An election and a restart; and an apply that fails before a restart.
MCCoordBudgets == {[elect |-> 1, restart |-> 1, fail |-> 0], [elect |-> 0, restart |-> 1, fail |-> 1]}

\* A second run that reports; a fault at any point of a shorter log; and two,
\* so that a restart follows a mark that was not stored.
MCSamplerBudgets ==
    {[commits |-> 7, faults |-> 0], [commits |-> 5, faults |-> 1], [commits |-> 4, faults |-> 2]}

-----------------------------------------------------------------------------

\* One query in detail; two, of which one grows the pool; and two while a
\* session, a dial, a probe or a write fails.
QueueLoad(queries, vias, n, begins, faults) ==
    [queries |-> queries, vias |-> vias, rows |-> n, begins |-> begins, faults |-> faults]
MCQueueLoads ==
    {QueueLoad({"q1"}, {"chunks", "fd"}, 3, 1, 1), QueueLoad({"q1", "q2"}, {"fd"}, 1, 3, 0),
     QueueLoad({"q1", "q2"}, {"fd"}, 0, 2, 1)}

-----------------------------------------------------------------------------
JEq(a, b) == [op |-> "join", l |-> a, r |-> b, strips |-> TRUE]
JTest(a, v) == [op |-> "test", l |-> a, r |-> v, strips |-> TRUE]
JMissing(a) == [op |-> "missing", l |-> a, r |-> "undef", strips |-> TRUE]
JStatement(kinds, on, where) ==
    [kinds |-> kinds, on |-> on, where |-> where, items |-> {}, order |-> {},
     distinct |-> FALSE, limit |-> 0, asOf |-> FALSE, window |-> FALSE, tx |-> FALSE,
     agg |-> FALSE, group |-> {}, having |-> -1]

K(s) == <<s, "k">>
XX(s) == <<s, "x">>
JKinds == {"INNER", "LEFT"}

\* two tables, then three, one of them with a LEFT JOIN in the middle
MCTwoTable ==
    {JStatement(<<k>>, <<on>>, w) :
        k \in JKinds,
        on \in {{JEq(K(1), K(2))}, {JEq(K(2), K(1)), JTest(XX(1), "1")},
                {JEq(K(1), K(2)), JTest(XX(2), "1")}, {JTest(XX(2), "1")}},
        w \in {{}, {JTest(XX(1), "1")}, {JTest(XX(2), "1")}, {JMissing(K(2))},
               {[JTest(XX(1), "1") EXCEPT !.strips = FALSE]}}}
MCThreeTable ==
    {JStatement(<<k1, k2>>, <<{JEq(K(1), K(2))}, on>>, w) :
        k1 \in JKinds, k2 \in JKinds,
        on \in {{JEq(K(3), K(1))}, {JEq(K(2), K(3)), JTest(XX(1), "1")},
                {JEq(K(1), K(3)), JEq(XX(2), XX(3))}},
        w \in {{}, {JTest(XX(2), "1")}, {JMissing(XX(3))}}}
\* Columns, an order and a limit; DISTINCT of whole rows and of all that is read.
MCJoin12(k) == JStatement(<<k>>, <<{JEq(K(1), K(2))}>>, {})
MCShaped ==
    {[MCJoin12(k) EXCEPT !.items = {XX(1), K(2)}, !.limit = n, !.order = o, !.tx = x] :
        k \in JKinds, n \in {0, 1}, o \in {{}, {XX(1)}}, x \in BOOLEAN}
    \cup {[MCJoin12("LEFT") EXCEPT !.distinct = TRUE, !.items = c, !.limit = n, !.order = o] :
             c \in {{}, {K(1), K(2)}}, n \in {0, 1}, o \in {{}, {K(2)}}}
    \cup {[JStatement(<<"CROSS">>, <<{}>>, {}) EXCEPT !.items = {XX(1)}, !.limit = n] : n \in {0, 1}}
MCGrouped ==
    {[MCJoin12(k) EXCEPT !.agg = TRUE, !.items = c, !.group = c, !.having = h, !.limit = n,
                         !.order = {XX(2)}] :
        k \in JKinds, c \in {{XX(2)}, {XX(2), K(1)}}, h \in {-1, 1}, n \in {0, 1}}
    \cup {[JStatement(<<"CROSS">>, <<{}>>, {}) EXCEPT !.agg = TRUE, !.having = 0]}
MCRefused ==
    {[JStatement(<<"INNER">>, <<{}>>, {}) EXCEPT !.window = TRUE],
     JStatement(<<"INNER", "INNER">>, <<{JEq(K(1), K(3))}, {}>>, {}),
     [JStatement(<<"CROSS">>, <<{}>>, {}) EXCEPT !.asOf = TRUE]}
MCJoinStatements == MCTwoTable \cup MCThreeTable \cup MCShaped \cup MCGrouped \cup MCRefused

\* Statements that are answered differently from how they are written, each
\* enough to violate JoinExact: an ON conjunct on the right of an earlier LEFT
\* JOIN is pushed into its scan; DISTINCT compares more than the columns
\* selected; a COUNT of no rows has no row; a GROUP BY of what is not selected
\* is not grouped.
MCPushdown ==
    {JStatement(<<"LEFT", "INNER">>, <<{JEq(K(1), K(2))}, {JEq(K(3), K(1)), JTest(XX(2), "1")}>>, {})}
MCDistinctColumns == {[MCJoin12("INNER") EXCEPT !.distinct = TRUE, !.items = {XX(1)}]}
MCEmptyCount == {[MCJoin12("INNER") EXCEPT !.agg = TRUE]}
MCUnselectedGroup == {[MCJoin12("INNER") EXCEPT !.agg = TRUE, !.group = {XX(2)}]}

JAd(k, x) == [k |-> k, x |-> x]
MCTwoStores ==
    {<<a, b>> :
        a \in {<<JAd("1", "1")>>, <<JAd("1", "0"), JAd("undef", "1")>>, <<JAd("true", "1"), JAd("1", "1")>>},
        b \in {<<>>, <<JAd("true", "0")>>, <<JAd("1", "1"), JAd("undef", "1")>>, <<JAd("1", "1"), JAd("true", "0"), JAd("0", "1")>>}}
MCJoinStores ==
    MCTwoStores \cup {Append(s, c) : s \in MCTwoStores,
                                    c \in {<<JAd("1", "1")>>, <<JAd("true", "0"), JAd("undef", "1")>>}}

-----------------------------------------------------------------------------
SelBase ==
    [via |-> "exec", where |-> "all", items |-> "gv", agg |-> "none", bucket |-> 0,
     having |-> 0, window |-> "none", qualify |-> 0, distinct |-> FALSE, union |-> "none",
     order |-> [col |-> 0, desc |-> FALSE], limit |-> 0, asOf |-> FALSE]
SelOrders(cols) == [col : cols, desc : BOOLEAN]
MCPlain ==
    {[SelBase EXCEPT !.items = it, !.distinct = d, !.order = o, !.limit = n, !.where = w] :
        it \in {"star", "g", "gv"}, d \in BOOLEAN, o \in SelOrders({0, 1}), n \in {0, 1, 2}, w \in {"all", "num"}}
    \cup {[SelBase EXCEPT !.order = o, !.limit = n] : o \in SelOrders({2}), n \in {0, 1}}
MCAggregates ==
    {[SelBase EXCEPT !.items = it, !.agg = a, !.having = h, !.order = [col |-> 1, desc |-> d],
                     !.limit = n, !.asOf = d] :
        it \in {"g", "none"}, a \in {"count", "count_v", "filtered", "distinct", "sum", "max"},
        h \in {0, 1}, n \in {0, 1}, d \in BOOLEAN}
    \cup {[SelBase EXCEPT !.items = "none", !.agg = "count", !.bucket = 2, !.order = o, !.limit = n] :
        o \in SelOrders({0, 2}), n \in {0, 1}}
MCWindows ==
    {[SelBase EXCEPT !.window = w, !.qualify = q, !.order = o, !.limit = n] :
        w \in {"ROW_NUMBER", "RANK", "DENSE_RANK"}, q \in {0, 1, 2}, o \in SelOrders({0, 3}), n \in {0, 2}}
MCUnions ==
    {[SelBase EXCEPT !.items = it, !.union = u, !.order = o, !.limit = n] :
        it \in {"g", "star"}, u \in {"all", "distinct"}, o \in SelOrders({0, 1}), n \in {0, 2}}
MCStreams ==
    {[s EXCEPT !.via = "stream"] :
        s \in MCPlain \cup MCAggregates \cup {q \in MCWindows \cup MCUnions : ~Streamable(q)}}
\* Statements that streamable lets through and that StreamSelect answers wrongly:
\* a UNION with its first branch, a window without its ranks.
MCStreamedShapes ==
    {[s EXCEPT !.via = "stream"] : s \in {q \in MCWindows \cup MCUnions : Streamable(q)}}
MCSelectStatements == MCPlain \cup MCAggregates \cup MCWindows \cup MCUnions \cup MCStreams
SelAd(g, v) == [g |-> IF g = 0 THEN <<"u", 0>> ELSE <<"s", g>>, v |-> IF v = 0 THEN <<"u", 0>> ELSE <<"n", v>>]
MCSelectStores ==
    {<<a, b>> : a \in {<<>>, <<SelAd(1, 2), SelAd(0, 1), SelAd(1, 2)>>, <<SelAd(2, 0), SelAd(1, 3), SelAd(2, 1), SelAd(1, 3)>>,
                       <<SelAd(1, 1), SelAd(1, 2), SelAd(1, 1), SelAd(1, 3)>>},
                b \in {<<SelAd(1, 2)>>, <<SelAd(3, 0), SelAd(1, 3)>>}}

-----------------------------------------------------------------------------
\* Three attributes for two columns, and a private one before them.
MCAttrOrder == <<"p", "b", "c", "d">>
IntCol == [kind |-> "int", nullable |-> FALSE]
StrCol == [kind |-> "string", nullable |-> TRUE]
MCSamples ==
    {[p |-> NotSeen, b |-> NotSeen, c |-> IntCol, d |-> NotSeen],
     [p |-> StrCol, b |-> IntCol, c |-> IntCol, d |-> StrCol],
     [p |-> IntCol, b |-> StrCol, c |-> NotSeen, d |-> NotSeen],
     [p |-> NotSeen, b |-> Untyped, c |-> StrCol, d |-> IntCol]}
Star == [cols |-> <<>>, param |-> "none"]
StarParam == [cols |-> <<>>, param |-> "c"]
Pick == [cols |-> <<"c">>, param |-> "none"]
MCBound == {[kind |-> "int"], [kind |-> "real"], [kind |-> "string"]}

\* What an instance of the Flight service is asked.
Reader(calls, queries, n, restarts) ==
    [ticks |-> 2, rpcs |-> n, restarts |-> restarts, calls |-> calls, clients |-> {"reader"},
     atonce |-> 2, queries |-> queries]
MCBudgets ==
    {[Reader({"direct"}, {Star}, 3, 1) EXCEPT !.ticks = 1],
     [Reader({"direct"}, {Star}, 3, 1) EXCEPT !.atonce = 1],
     [Reader({"direct"}, {Star}, 2, 0) EXCEPT !.clients = {"reader", "daemon"}, !.ticks = 1],
     [Reader({"prepare", "info", "get"}, {Star}, 3, 0) EXCEPT !.ticks = 1],
     [Reader({"prepare", "info", "get"}, {Star}, 3, 0) EXCEPT !.atonce = 1],
     [Reader({"prepare", "bind", "get", "close"}, {StarParam}, 4, 0) EXCEPT !.atonce = 1],
     [Reader({"direct", "schema", "get"}, {Pick}, 3, 0) EXCEPT !.atonce = 1]}
=============================================================================
