------------------------------- MODULE MCAnsi -------------------------------
(***************************************************************************)
(* TLC instances of Ansi: every comparison, IN, BETWEEN and IS NULL over four*)
(* columns, alone and in the compounds of two, under NOT and not.          *)
(***************************************************************************)
EXTENDS Ansi

Int1 == [kind |-> "int", v |-> 1]
Str1 == [kind |-> "string", v |-> 2]
Str2 == [kind |-> "string", v |-> 3]
BoolT == [kind |-> "bool", v |-> 1]
MCAnsiColumns == [Cpus |-> "int", Owner |-> "string", Idle |-> "bool", Req |-> "opaque"]
Lit(x) == [k |-> "lit", value |-> x]
Hole == [k |-> "param"]
Cmp(c, o, a) == [k |-> "cmp", col |-> c, op |-> o, arg |-> a]
In(c, as) == [k |-> "in", col |-> c, args |-> as]
Btw(c, l, h) == [k |-> "between", col |-> c, lo |-> l, hi |-> h]
Nul(c, n) == [k |-> "isnull", col |-> c, neg |-> n]
Not(p) == [k |-> "not", p |-> p]
MCAtoms ==
    {Cmp(c, o, a) : c \in {"Cpus", "Owner", "Idle", "Req", "Nope"}, o \in {"=", "<>", "<"},
                    a \in {Lit(Int1), Lit(Str1), Lit(BoolT), Hole}}
    \union {In("Cpus", <<Hole, Lit(Int1)>>), In("Owner", <<Lit(Str1), Hole>>), In("Owner", <<Hole>>)}
    \union {Btw("Cpus", Hole, Lit(Int1)), Btw("Owner", Lit(Str1), Hole), Btw("Cpus", Lit(Int1), Hole)}
    \union {Nul(c, n) : c \in {"Cpus", "Owner", "Req"}, n \in BOOLEAN}
MCCore == {Cmp("Cpus", "=", Hole), Cmp("Cpus", "<", Lit(Int1)), Cmp("Owner", "=", Hole),
           Cmp("Owner", "=", Lit(Str2)), Cmp("Idle", "<>", Hole), Nul("Owner", FALSE),
           In("Owner", <<Lit(Str1), Hole>>), Btw("Cpus", Hole, Lit(Int1))}
MCPairs == {[k |-> c, l |-> p, r |-> q] : c \in {"or", "and"}, p, q \in MCCore}
MCPredicates == MCAtoms \union {Not(p) : p \in MCAtoms} \union {Not(Not(p)) : p \in MCCore}
    \union MCPairs \union {Not(p) : p \in MCPairs}
    \union {[k |-> c, l |-> p, r |-> Not(q)] : c \in {"or", "and"}, p, q \in MCCore}
MCAnsiAds == [Cpus : {Undefined, [kind |-> "int", v |-> 0], Int1}, Owner : {Undefined, Str1, Str2},
              Idle : {Undefined, BoolT}, Req : {Undefined}]
MCBindValues == {Undefined, Int1, [kind |-> "real", v |-> 0], Str1, BoolT, [kind |-> "unrenderable", v |-> 0]}
=============================================================================
