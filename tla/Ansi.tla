-------------------------------- MODULE Ansi --------------------------------
(***************************************************************************)
(* The ANSI predicate lowering (src/ansi): a SQL predicate becomes a       *)
(* ClassAd constraint, or is refused.  LowerTemplate parses and lowers the *)
(* text once with its placeholders open; Bind fills them, as often as the  *)
(* client likes, and the constraint is what the store evaluates.           *)
(*                                                                         *)
(* A predicate is its parse tree, a constraint the tree the ClassAd parser *)
(* reads back: the lowering brackets every compound, so the two trees are  *)
(* the same shape and the characters between them are left out.  A cell of *)
(* an ad is a typed value or Undefined; SQL reads Undefined as NULL.  The  *)
(* cells of a typed column hold that type or nothing.                      *)
(***************************************************************************)
EXTENDS Integers, Sequences, FiniteSets

CONSTANTS
    AnsiColumns,      \* column name -> kind; "opaque" is present without a type
    Predicates,       \* the SQL predicates clients send
    AnsiAds,          \* the ads a constraint is evaluated on: column -> cell
    BindValues,       \* the values a client may bind
    NegatedNulls,     \* whether a client binds NULL below a NOT
    MaxBinds          \* bound: binds of one prepared predicate

VARIABLES
    asked,            \* the predicate being served, or NoPredicate
    template,         \* its lowered form with the slots open, or Refused
    boundValues,      \* the values of the last accepted bind
    constraint,       \* the constraint they made, or Refused
    bindCount

ansivars == <<asked, template, boundValues, constraint, bindCount>>

NoPredicate == [k |-> "none"]
Refused == [k |-> "refused"]

Undefined == [kind |-> "null", v |-> 0]
NumericKinds == {"int", "real", "timestamp"}

-----------------------------------------------------------------------------
(* Lowering: src/ansi/lower.go.                                            *)

Flip(pol) == IF pol = "positive" THEN "negated" ELSE "positive"

\* A literal the column cannot hold is refused: its comparison would be an
\* ERROR that filters out every row.
KindFits(kind, litKind) ==
    CASE kind = "string"       -> litKind = "string"
      [] kind \in NumericKinds -> litKind \in {"int", "real"}
      [] kind = "bool"         -> litKind = "bool"
      [] OTHER                 -> TRUE

\* The ClassAd operator a comparison lowers to, or "refused".  (Mutant: the
\* comparison that ignores case.)
LowerStringFolds(op, pol) ==
    IF op = "=" /\ pol = "positive" THEN "==" ELSE "refused"

LowerStringCompare(op, pol) ==
    IF op = "=" /\ pol = "positive" THEN "=?=" ELSE "refused"

LowerCompare(kind, op, pol) ==
    CASE kind = "string" -> LowerStringCompare(op, pol)
      [] kind \in NumericKinds \union {"bool"} ->
            CASE op = "="  -> "=="
              [] op = "<>" -> "!="
              [] OTHER     -> op
      [] OTHER -> "refused"

\* A comparison with its right-hand side: a literal is checked and rendered,
\* a placeholder becomes a slot that stands for the WHOLE comparison.  Both
\* are refused alike where the comparison has no lowering.
LowerOperand(col, op, arg, pol) ==
    LET kind == AnsiColumns[col]
        cad  == LowerCompare(kind, op, pol)
    IN  IF cad = "refused" \/ (arg.k = "lit" /\ ~KindFits(kind, arg.value.kind))
        THEN Refused
        ELSE IF arg.k = "lit"
             THEN [k |-> "cad", col |-> col, op |-> cad, value |-> arg.value]
             ELSE [k |-> "slot", col |-> col, op |-> cad, kind |-> kind]

\* Two lowered operands under a ClassAd connective.
Connect(c, l, r) ==
    IF Refused \in {l, r} THEN Refused ELSE [k |-> c, l |-> l, r |-> r]

RECURSIVE LowerIn(_, _, _)
LowerIn(col, args, pol) ==
    LET head == LowerOperand(col, "=", Head(args), pol)
    IN  IF Len(args) = 1 THEN head ELSE Connect("||", head, LowerIn(col, Tail(args), pol))

\* BETWEEN lowers its bounds as if positive: only strings mind, and they
\* are refused first.
LowerBetween(col, lo, hi) ==
    IF AnsiColumns[col] = "string" THEN Refused
    ELSE Connect("&&", LowerOperand(col, ">=", lo, "positive"),
                       LowerOperand(col, "<=", hi, "positive"))

\* parsePredicate: one comparison.  An unknown column is refused before
\* anything else is read.
LowerPredicate(p, pol) ==
    IF p.col \notin DOMAIN AnsiColumns THEN Refused
    ELSE CASE p.k = "isnull"  -> [k |-> "is", col |-> p.col, neg |-> p.neg]
           [] p.k = "in"      -> LowerIn(p.col, p.args, pol)
           [] p.k = "between" -> LowerBetween(p.col, p.lo, p.hi)
           [] OTHER           -> LowerOperand(p.col, p.op, p.arg, pol)

RECURSIVE LowerTree(_, _)
LowerTree(p, pol) ==
    CASE p.k = "or"  -> Connect("||", LowerTree(p.l, pol), LowerTree(p.r, pol))
      [] p.k = "and" -> Connect("&&", LowerTree(p.l, pol), LowerTree(p.r, pol))
      [] p.k = "not" ->
            LET inner == LowerTree(p.p, Flip(pol))
            IN  IF inner = Refused THEN Refused ELSE [k |-> "!", p |-> inner]
      [] OTHER -> LowerPredicate(p, pol)

\* The slots of a template, in source order, each with whether an odd number
\* of negations stands above it.
RECURSIVE Slots(_, _)
Slots(t, pol) ==
    CASE t.k = "slot"          -> <<[kind |-> t.kind, pol |-> pol]>>
      [] t.k = "!"             -> Slots(t.p, Flip(pol))
      [] t.k \in {"&&", "||"}  -> Slots(t.l, pol) \o Slots(t.r, pol)
      [] OTHER                 -> <<>>

-----------------------------------------------------------------------------
(* Binding: src/ansi/param.go.                                             *)

\* Binding a slot: NULL collapses the whole comparison to false.
RenderSlot(slot, value) ==
    IF value.kind = "null"
    THEN [k |-> "const", v |-> FALSE]
    ELSE [k |-> "cad", col |-> slot.col, op |-> slot.op, value |-> value]

RECURSIVE RenderTree(_, _)
RenderTree(t, vals) ==
    CASE t.k = "slot" -> RenderSlot(t, vals[1])
      [] t.k = "!"    -> [k |-> "!", p |-> RenderTree(t.p, vals)]
      [] t.k \in {"&&", "||"} ->
            LET n == Len(Slots(t.l, "positive"))
            IN  [k |-> t.k, l |-> RenderTree(t.l, SubSeq(vals, 1, n)),
                            r |-> RenderTree(t.r, SubSeq(vals, n + 1, Len(vals)))]
      [] OTHER -> t

\* normalize and check: a value with no ClassAd scalar form (NaN, an
\* infinity, an integer past 63 bits) is refused, and so is one the column
\* cannot hold; NULL fits everywhere.
Bindable(slot, value) ==
    \/ value.kind = "null"
    \/ value.kind # "unrenderable" /\ KindFits(slot.kind, value.kind)

BindTemplate(t, vals) ==
    LET slots == Slots(t, "positive")
    IN  IF Len(vals) # Len(slots) THEN Refused
        ELSE IF \E i \in DOMAIN slots : ~Bindable(slots[i], vals[i]) THEN Refused
        ELSE RenderTree(t, vals)

-----------------------------------------------------------------------------
(* What a ClassAd constraint is worth on an ad (the classad library), and  *)
(* what SQL says of the row.  Both have the values T, F and U.             *)

Truth(b) == IF b THEN "T" ELSE "F"
And3(a, b) == IF "F" \in {a, b} THEN "F" ELSE IF "U" \in {a, b} THEN "U" ELSE "T"
Or3(a, b) == IF "T" \in {a, b} THEN "T" ELSE IF "U" \in {a, b} THEN "U" ELSE "F"
Not3(a) == CASE a = "T" -> "F" [] a = "F" -> "T" [] OTHER -> "U"

Ordered(op, a, b) ==
    CASE op \in {"=", "=="}  -> a = b
      [] op \in {"<>", "!="} -> a # b
      [] op = "<"  -> a < b
      [] op = "<=" -> a <= b
      [] op = ">"  -> a > b
      [] OTHER     -> a >= b

\* A string is 2 * word + case: `==` folds the case, `=?=` and SQL do not.
Folded(x) == IF x.kind = "string" THEN x.v \div 2 ELSE x.v

CompareClassAd(op, cell, value) ==
    CASE op = "=?=" -> Truth(cell.kind # "null" /\ cell.v = value.v)
      [] cell.kind = "null" -> "U"
      [] OTHER -> Truth(Ordered(op, Folded(cell), Folded(value)))

RECURSIVE EvalClassAd(_, _)
EvalClassAd(c, ad) ==
    CASE c.k = "const" -> Truth(c.v)
      [] c.k = "is"    -> Truth((ad[c.col].kind = "null") # c.neg)
      [] c.k = "!"     -> Not3(EvalClassAd(c.p, ad))
      [] c.k = "&&"    -> And3(EvalClassAd(c.l, ad), EvalClassAd(c.r, ad))
      [] c.k = "||"    -> Or3(EvalClassAd(c.l, ad), EvalClassAd(c.r, ad))
      [] OTHER         -> CompareClassAd(c.op, ad[c.col], c.value)

CompareSql(op, cell, value) ==
    IF "null" \in {cell.kind, value.kind} THEN "U" ELSE Truth(Ordered(op, cell.v, value.v))

\* The operands of a predicate in source order, for reading the bound values.
OperandsOf(p) ==
    CASE p.k = "in"      -> p.args
      [] p.k = "between" -> <<p.lo, p.hi>>
      [] p.k = "isnull"  -> <<>>
      [] OTHER           -> <<p.arg>>

RECURSIVE Holes(_)
Holes(p) ==
    CASE p.k \in {"or", "and"} -> Holes(p.l) + Holes(p.r)
      [] p.k = "not"           -> Holes(p.p)
      [] OTHER -> Cardinality({i \in DOMAIN OperandsOf(p) : OperandsOf(p)[i].k = "param"})

\* Operand i of a predicate with the values of its holes put in.
OperandValue(p, vals, i) ==
    LET args == OperandsOf(p)
    IN  IF args[i].k = "lit" THEN args[i].value
        ELSE vals[Cardinality({j \in 1 .. i : args[j].k = "param"})]

RECURSIVE AnyTrue(_)
AnyTrue(s) == IF s = <<>> THEN "F" ELSE Or3(Head(s), AnyTrue(Tail(s)))

RECURSIVE EvalSql(_, _, _)
EvalSql(p, vals, ad) ==
    LET left  == SubSeq(vals, 1, Holes(p.l))
        right == SubSeq(vals, Holes(p.l) + 1, Len(vals))
        cmp(op, i) == CompareSql(op, ad[p.col], OperandValue(p, vals, i))
    IN  CASE p.k = "or"  -> Or3(EvalSql(p.l, left, ad), EvalSql(p.r, right, ad))
          [] p.k = "and" -> And3(EvalSql(p.l, left, ad), EvalSql(p.r, right, ad))
          [] p.k = "not" -> Not3(EvalSql(p.p, vals, ad))
          [] p.k = "isnull"  -> Truth((ad[p.col].kind = "null") # p.neg)
          [] p.k = "in"      -> AnyTrue([i \in DOMAIN p.args |-> cmp("=", i)])
          [] p.k = "between" -> And3(cmp(">=", 1), cmp("<=", 2))
          [] OTHER           -> cmp(p.op, 1)

-----------------------------------------------------------------------------
AnsiInit ==
    /\ asked = NoPredicate
    /\ template = Refused
    /\ boundValues = <<>>
    /\ constraint = Refused
    /\ bindCount = 0

\* LowerTemplate: the predicate of a statement being planned.
LowerTemplate ==
    /\ asked = NoPredicate
    /\ \E p \in Predicates :
          /\ asked' = p
          /\ template' = LowerTree(p, "positive")
    /\ UNCHANGED <<boundValues, constraint, bindCount>>

\* The values a client can send for a template: as many as it has slots, or
\* one more or less.
Bindings(t) ==
    LET slots == Slots(t, "positive")
        ok(vals) == \A i \in DOMAIN vals \intersect DOMAIN slots :
                       vals[i].kind = "null" => NegatedNulls \/ slots[i].pol = "positive"
    IN  {vals \in UNION {[1 .. n -> BindValues] :
                            n \in {m \in (Len(slots) - 1) .. (Len(slots) + 1) : m >= 0}} : ok(vals)}

\* Template.Bind, for a first bind or a rebind of the same statement.  Lower
\* is a bind of no values, which a predicate with placeholders refuses.  A
\* refused bind leaves the statement's values as they were.
Bind ==
    /\ asked # NoPredicate /\ template # Refused
    /\ bindCount < MaxBinds
    /\ \E vals \in Bindings(template) :
          LET bound == BindTemplate(template, vals)
          IN  /\ constraint' = IF bound = Refused THEN constraint ELSE bound
              /\ boundValues' = IF bound = Refused THEN boundValues ELSE vals
    /\ bindCount' = bindCount + 1
    /\ UNCHANGED <<asked, template>>

AnsiNext == LowerTemplate \/ Bind

AnsiSpec == AnsiInit /\ [][AnsiNext]_ansivars

-----------------------------------------------------------------------------
\* Lower's contract: over every ad, the ClassAd constraint is true exactly
\* where the SQL predicate, with the values of the last accepted bind, admits
\* the row.  Three-valued logic makes the two differ only in compounds: an
\* identity test is false where SQL is NULL, a bound NULL renders a constant,
\* and either is visible once a NOT stands above it.
LowerExact ==
    constraint # Refused =>
        \A ad \in AnsiAds :
            (EvalClassAd(constraint, ad) = "T") <=> (EvalSql(asked, boundValues, ad) = "T")
=============================================================================
