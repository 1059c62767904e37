------------------------------- MODULE Flight -------------------------------
(***************************************************************************)
(* The Flight SQL endpoint (src/flightsvc): a client is told a statement's *)
(* schema by one RPC (prepare, GetSchema, GetFlightInfo) and fetches its   *)
(* rows by another (DoGet), while the schema is derived again each time    *)
(* from a sample of a table that is being written to.                      *)
(*                                                                         *)
(*   - schemaCache (schemacache.go): one entry per privilege, for a TTL;   *)
(*   - typeMemory (columntypes.go): the columns the endpoint settled on,   *)
(*     in the order first seen, persisted by flush and read at a start;    *)
(*   - prepared (prepared.go): the statement handles, their owner, their   *)
(*     bound values and the fingerprint of the schema last reported;       *)
(*   - streams (server.go): a slot for each stream being delivered.        *)
(*                                                                         *)
(* An RPC is several steps, because another RPC may run between them: it   *)
(* reads the cache and samples the table on a miss, it reconciles what it  *)
(* sampled, it fills the cache, it flushes the memory if that is dirty     *)
(* (the image is taken under the lock, the file is written without it),    *)
(* and it finishes with the decisions.                                     *)
(* A fingerprint is the list of decisions itself.  There is one table, and *)
(* the tail column, always last and never typed anew, is left out.  What   *)
(* the file promises is not promised when its write fails, when two writes *)
(* overtake each other, or when the daemon dies before the write that the  *)
(* cache entry did not wait for: those are FlightFaults.  A column past    *)
(* ColumnLimit is served where the measurement has it, and no promise is   *)
(* made of its position.                                                   *)
(***************************************************************************)
EXTENDS Integers, Sequences, FiniteSets, SequencesExt

CONSTANTS
    AttrOrder,        \* the attributes, in the order a measurement lists them
    PrivateAttrs,     \* those an unprivileged type report leaves out
    Samples,          \* what a sample of the table may show: attr -> NotSeen,
                      \* Untyped or a shape [kind, nullable]
    RetypeAgreement,  \* retypeAgreement
    ColumnLimit,      \* columns one table may remember (typeMemory.limit)
    SchemaTTL,        \* ticks a cache entry lives
    PreparedTTL,      \* ticks a statement lives
    MaxPrepared,      \* live statements (prepared.max)
    MaxStreams,       \* concurrent streams
    Clients,          \* the identities that call
    Privileged,       \* those authorized at DAEMON
    BoundValues,      \* the values clients bind besides NULL: [kind]
    FlightFaults,     \* "flush_fails", "stop_before_flush", "late_write"
    FlightBudgets     \* bounds: the ticks, rpcs and restarts a behaviour has, how
                      \* many rpcs at once, which calls by which clients, and
                      \* of which statements: [cols, param], cols <<>> for *

VARIABLES
    fclock,
    cache,            \* private? -> entry
    memory,           \* [gen, cols, dirty]
    saved,            \* the memory file
    handles,          \* handle -> statement
    tickets,          \* client -> the last direct ticket it holds
    rpcs,             \* the RPCs in progress
    streaming,        \* stream slots taken
    delivered,        \* the last stream: what it carried and what was promised
    shown,            \* the longest column list an unprivileged reader saw
    budget            \* what is left of the behaviour's bounds

flightvars == <<fclock, cache, memory, saved, handles, tickets, rpcs,
                streaming, delivered, shown, budget>>

Untyped == [kind |-> "untyped", nullable |-> TRUE]
NotSeen == [kind |-> "absent", nullable |-> TRUE]
NoEntry == [live |-> FALSE, decisions |-> <<>>, at |-> 0]
NoPending == [shape |-> Untyped, seen |-> 0]
NoColumns == [gen |-> 0, cols |-> <<>>, dirty |-> FALSE]
\* A pin is the set of the schema it names, and empty when nothing was promised.
NoPin == {}
Unbound == [kind |-> "unbound"]

-----------------------------------------------------------------------------
(* Measuring and settling: columntypes.go.                                 *)

\* What a type report drawn from a sample says to a reader: one decision for each
\* attribute in the sample, without the private ones for an unprivileged
\* reader.
Measured(sample, private) ==
    LET seen(a) == sample[a] # NotSeen /\ (private \/ a \notin PrivateAttrs)
        attrs   == SelectSeq(AttrOrder, seen)
    IN  [i \in DOMAIN attrs |-> [name |-> attrs[i], shape |-> sample[attrs[i]]]]

IsTyped(d) == d.shape # Untyped
NamesOf(ds) == [i \in DOMAIN ds |-> ds[i].name]

\* The measurement's word on a settled column, if the sample has it.
Says(measure, name) == {d \in ToSet(measure) : d.name = name}

\* noteRetype and the agreement that clears it: one derivation's evidence
\* folded into one settled column.  A candidate is replaced, not merged, when
\* the measurement asks for something else again; a measurement that shows
\* the settled shape clears it; an absent or untyped attribute is no evidence.
NoteRetype(col, shape) ==
    LET seen == IF col.pending.shape = shape THEN col.pending.seen + 1 ELSE 1
    IN  IF shape = Untyped THEN col
        ELSE IF shape = col.shape THEN [col EXCEPT !.pending = NoPending]
        ELSE IF seen >= RetypeAgreement
             THEN [col EXCEPT !.shape = shape, !.pending = NoPending]
             ELSE [col EXCEPT !.pending = [shape |-> shape, seen |-> seen]]

SettleColumn(col, measure) ==
    LET says == Says(measure, col.name)
    IN  IF says = {} THEN col ELSE NoteRetype(col, (CHOOSE d \in says : TRUE).shape)

\* The columns a table remembers after one derivation: every remembered one,
\* in place, and the new typed ones appended.  A privileged measurement adds
\* nothing, and nothing is added past the limit.
Remembered(cols, measure, private) ==
    LET settled == [i \in DOMAIN cols |-> SettleColumn(cols[i], measure)]
        new(d)  == IsTyped(d) /\ d.name \notin ToSet(NamesOf(cols))
        added   == SelectSeq(measure, new)
        room    == IF private THEN 0
                   ELSE IF Len(cols) + Len(added) <= ColumnLimit THEN Len(added)
                   ELSE IF ColumnLimit > Len(cols) THEN ColumnLimit - Len(cols) ELSE 0
    IN  settled \o [i \in 1 .. room |->
            [name |-> added[i].name, shape |-> added[i].shape, pending |-> NoPending]]

\* The decisions published: a settled column keeps its place whether or not
\* this sample has it, as measured when the measurement agrees and always
\* nullable otherwise; then whatever is new, in the measurement's order.
\* (Mutant: a column that this sample lacks loses its place.)
SettledPresent(cols, measure) ==
    LET present(col) == Says(measure, col.name) # {}
        kept   == SelectSeq(cols, present)
        new(d) == d.name \notin ToSet(NamesOf(cols))
    IN  [i \in DOMAIN kept |-> [name |-> kept[i].name, shape |-> SettleColumn(kept[i], measure).shape]]
        \o SelectSeq(measure, new)

Settled(cols, measure) ==
    LET settle(col) ==
            LET now  == SettleColumn(col, measure).shape
                says == Says(measure, col.name)
            IN  [name |-> col.name,
                 shape |-> IF \E d \in says : d.shape = now THEN now
                           ELSE [now EXCEPT !.nullable = TRUE]]
        new(d) == d.name \notin ToSet(NamesOf(cols))
    IN  [i \in DOMAIN cols |-> settle(cols[i])] \o SelectSeq(measure, new)

\* recordChange: a derivation that added or retyped a column is a new
\* generation.
Generation(old, cols) ==
    LET shapes(cs) == [i \in DOMAIN cs |-> <<cs[i].name, cs[i].shape>>]
    IN  IF shapes(cols) = shapes(old.cols) THEN old.gen ELSE old.gen + 1

-----------------------------------------------------------------------------
(* Planning: statement.go.                                                 *)

\* project: SELECT * publishes every decision; a named column must be typed.
Projects(q, ds) == \A c \in ToSet(q.cols) : \E d \in ToSet(ds) : d.name = c /\ IsTyped(d)
ProjectedColumns(q, ds) ==
    IF q.cols = <<>> THEN ds
    ELSE [i \in DOMAIN q.cols |-> CHOOSE d \in ToSet(ds) : d.name = q.cols[i]]

\* templateFor: the placeholder's column must be known and typed.
Template(q, ds) == q.param = "none" \/ \E d \in ToSet(ds) : d.name = q.param /\ IsTyped(d)

\* check, for one value: an integer and a real both fit every numeric column, a
\* NULL fits every column.
Fits(value, kind) ==
    \/ value.kind \in {"null", kind}
    \/ value.kind \in {"int", "real"} /\ kind \in {"int", "real", "timestamp"}

\* constraintFor: as many values as placeholders, each fit for its column.
Binds(q, ds, value) ==
    IF q.param = "none" THEN value.kind = "unbound"
    ELSE /\ value.kind # "unbound"
         /\ \E d \in ToSet(ds) : d.name = q.param /\ IsTyped(d) /\ Fits(value, d.shape.kind)

Plans(q, ds) == Template(q, ds) /\ Projects(q, ds)

\* checkPin: an empty pin promised nothing.
PinHolds(pinned, ds) == pinned = NoPin \/ pinned = {ds}

-----------------------------------------------------------------------------
(* The statement table: prepared.go.                                       *)

Live == {h \in DOMAIN handles : handles[h].created + PreparedTTL >= fclock}
Expired(hs) == [h \in (DOMAIN hs \intersect Live) |-> hs[h]]
\* get, bind, repin, remove: the caller must own the handle.
Owned(h, who) == h \in Live /\ handles[h].owner = who

-----------------------------------------------------------------------------
FlightStart(b) ==
    /\ budget = b
    /\ fclock = 0
    /\ cache = [p \in BOOLEAN |-> NoEntry]
    /\ memory = NoColumns /\ saved = NoColumns
    /\ handles = <<>>
    /\ tickets = [c \in Clients |-> [q |-> CHOOSE q \in b.queries : TRUE, fp |-> NoPin]]
    /\ rpcs = {}
    /\ streaming = 0
    /\ delivered = [got |-> NoPin, told |-> NoPin]
    /\ shown = <<>>
FlightInit == \E b \in FlightBudgets : FlightStart(b)

TickFlight ==
    /\ budget.ticks > 0
    /\ budget' = [budget EXCEPT !.ticks = @ - 1]
    /\ fclock' = fclock + 1
    /\ UNCHANGED <<cache, memory, saved, handles, tickets, rpcs, streaming, delivered, shown>>

\* tableSchemaWith up to the type report: the cache answers or, past its TTL
\* (and with a TTL of zero, always), the table, which is being written to all
\* the while, is sampled.
CacheHit(private) == cache[private].live /\ fclock - cache[private].at < SchemaTTL

CallRpc(rpc) ==
    LET private == rpc.who \in Privileged
    IN  /\ budget.rpcs > 0 /\ rpc.op \in budget.calls
        /\ rpc.who \in budget.clients
        /\ Cardinality(rpcs) < budget.atonce
        /\ budget' = [budget EXCEPT !.rpcs = @ - 1]
        /\ cache' = IF CacheHit(private) THEN cache ELSE [cache EXCEPT ![private] = NoEntry]
        /\ IF CacheHit(private)
           THEN rpcs' = rpcs \union {[rpc EXCEPT !.id = budget.rpcs, !.pc = "planned",
                                                 !.ds = cache[private].decisions]}
           ELSE \E sample \in Samples :
                  rpcs' = rpcs \union {[rpc EXCEPT !.id = budget.rpcs,
                                                   !.ds = Measured(sample, private)]}

Rpc(op, who, h, q, value, pin, told) ==
    [id |-> 0, op |-> op, who |-> who, h |-> h, q |-> q, value |-> value, pin |-> pin,
     told |-> told, pc |-> "measured", ds |-> <<>>, image |-> NoColumns]

\* CreatePreparedStatement ("prepare"), GetFlightInfoStatement ("direct") and
\* GetSchemaStatement ("schema"): a statement to plan.
PlanQuery ==
    /\ \E who \in Clients, q \in budget.queries, op \in {"prepare", "direct", "schema"} :
          CallRpc(Rpc(op, who, 0, q, Unbound, NoPin, NoPin))
    /\ UNCHANGED <<fclock, memory, saved, handles, tickets, streaming, delivered, shown>>

\* GetSchemaPreparedStatement, GetFlightInfoPreparedStatement and
\* DoPutPreparedStatementQuery: get the handle, which also drops what has
\* expired, and plan its statement.
PlanHandle ==
    /\ \E h \in DOMAIN handles, op \in {"info", "bind"},
          value \in {Unbound, [kind |-> "null"]} \union BoundValues :
          /\ (op = "info") <=> (value = Unbound)
          /\ Owned(h, handles[h].owner)
          /\ CallRpc(Rpc(op, handles[h].owner, h, handles[h].query, value, NoPin, NoPin))
    /\ handles' = Expired(handles)
    /\ UNCHANGED <<fclock, memory, saved, tickets, streaming, delivered, shown>>

\* DoGetPreparedStatement and DoGetStatement up to the sample: the handle's
\* values and pin are read now, and a stream slot is taken or the call is
\* refused.
FetchRows ==
    /\ streaming < MaxStreams
    /\ streaming' = streaming + 1
    /\ \/ \E h \in DOMAIN handles :
             /\ Owned(h, handles[h].owner)
             /\ CallRpc(Rpc("get", handles[h].owner, h, handles[h].query, handles[h].bound,
                            handles[h].fp, handles[h].told))
             /\ handles' = Expired(handles)
       \/ \E who \in Clients :
             /\ tickets[who].fp # NoPin
             /\ CallRpc(Rpc("get", who, 0, tickets[who].q, Unbound, tickets[who].fp, tickets[who].fp))
             /\ UNCHANGED handles
    /\ UNCHANGED <<fclock, memory, saved, tickets, delivered, shown>>

\* reconcile.  The measurement may be older than another RPC's that
\* reconciled first.
ReconcileTypes ==
    \E r \in rpcs :
        LET cols == Remembered(memory.cols, r.ds, r.who \in Privileged)
        IN  /\ r.pc = "measured"
            /\ memory' = [gen |-> Generation(memory, cols), cols |-> cols,
                          dirty |-> memory.dirty \/ cols # memory.cols]
            /\ rpcs' = (rpcs \ {r}) \union
                  {[r EXCEPT !.pc = "reconciled", !.ds = Settled(memory.cols, r.ds)]}
            /\ UNCHANGED <<fclock, cache, saved, handles, tickets, streaming, delivered, shown, budget>>

\* put: the entry may replace a later derivation's.  What follows is a flush,
\* which does nothing unless the memory is dirty.
PutSchema ==
    \E r \in rpcs :
        /\ r.pc = "reconciled"
        /\ cache' = [cache EXCEPT ![r.who \in Privileged] =
                         [live |-> SchemaTTL > 0, decisions |-> r.ds, at |-> fclock]]
        /\ rpcs' = (rpcs \ {r}) \union {[r EXCEPT !.pc = IF memory.dirty THEN "flush" ELSE "planned"]}
        /\ UNCHANGED <<fclock, memory, saved, handles, tickets, streaming, delivered, shown, budget>>

\* flush: the image is taken, and the memory is clean, under the lock; the
\* file is replaced afterwards, so that an older image may replace a newer one
\* ("late_write").
FlushImage ==
    \E r \in rpcs :
        /\ r.pc = "flush"
        /\ "late_write" \in FlightFaults \/ \A q \in rpcs : q.pc # "write"
        /\ memory' = [memory EXCEPT !.dirty = FALSE]
        /\ rpcs' = (rpcs \ {r}) \union
              {[r EXCEPT !.pc = IF memory.dirty THEN "write" ELSE "planned", !.image = memory']}
        /\ UNCHANGED <<fclock, cache, saved, handles, tickets, streaming, delivered, shown, budget>>

FlushWrite ==
    \E r \in rpcs :
        /\ r.pc = "write"
        /\ \/ saved' = r.image
           \/ "flush_fails" \in FlightFaults /\ UNCHANGED saved
        /\ rpcs' = (rpcs \ {r}) \union {[r EXCEPT !.pc = "planned", !.image = NoColumns]}
        /\ UNCHANGED <<fclock, cache, memory, handles, tickets, streaming, delivered, shown, budget>>

\* The columns of a published schema that the memory keeps in place, by name:
\* the typed ones up to the limit.
Positions(ds) ==
    LET names == NamesOf(SelectSeq(ds, IsTyped))
    IN  SubSeq(names, 1, IF Len(names) <= ColumnLimit THEN Len(names) ELSE ColumnLimit)

\* What an unprivileged reader of SELECT * has been shown of them: a client
\* keeps the longest list.
Shows(r, ds) ==
    IF r.who \in Privileged \/ r.q.cols # <<>> \/ Len(Positions(ds)) <= Len(shown)
    THEN shown ELSE Positions(ds)

\* An RPC that plans ends: it reports the schema it planned, under a new
\* handle, a ticket, the old handle, which is re-pinned, or alone; or it is
\* refused.
Prepare(r) ==
    /\ r.op = "prepare"
    /\ LET ok == Plans(r.q, r.ds) /\ Cardinality(Live) < MaxPrepared
           fp == {ProjectedColumns(r.q, r.ds)}
           st == [query |-> r.q, owner |-> r.who, created |-> fclock, bound |-> Unbound,
                  fp |-> fp, told |-> fp]
       IN  /\ handles' = IF ~ok THEN Expired(handles)
                         ELSE [h \in DOMAIN Expired(handles) \union {r.id} |->
                                  IF h = r.id THEN st ELSE handles[h]]
           /\ shown' = IF Plans(r.q, r.ds) THEN Shows(r, r.ds) ELSE shown
    /\ UNCHANGED tickets

\* repin: every call on a handle that reports a schema moves its pin to it.
RepinNever(old, fp) == old
Repin(old, fp) == fp

Report(r) ==
    /\ r.op \in {"direct", "info", "schema"}
    /\ LET ok == Plans(r.q, r.ds)
           fp == {ProjectedColumns(r.q, r.ds)}
       IN  /\ tickets' = IF ok /\ r.op = "direct"
                         THEN [tickets EXCEPT ![r.who] = [q |-> r.q, fp |-> fp]] ELSE tickets
           /\ handles' = IF ok /\ r.op = "info" /\ r.h \in DOMAIN handles
                         THEN [handles EXCEPT ![r.h].fp = Repin(@, fp), ![r.h].told = fp] ELSE handles
           /\ shown' = IF ok THEN Shows(r, r.ds) ELSE shown

\* DoPut: validate before storing, so that a rejected bind leaves the
\* statement as it was.
StoreBind(r) ==
    /\ r.op = "bind"
    /\ handles' = IF Owned(r.h, r.who) /\ Template(r.q, r.ds) /\ Binds(r.q, r.ds, r.value)
                  THEN [Expired(handles) EXCEPT ![r.h].bound = r.value] ELSE Expired(handles)
    /\ UNCHANGED <<tickets, shown>>

FinishPlan ==
    /\ \E r \in rpcs :
          /\ r.pc = "planned"
          /\ Prepare(r) \/ Report(r) \/ StoreBind(r)
          /\ rpcs' = rpcs \ {r}
    /\ UNCHANGED <<fclock, cache, memory, saved, streaming, delivered, budget>>

\* doGetQuery from the constraint on: the values must bind and the schema
\* must be the pinned one, or the slot is given back and nothing is sent.
DeliverStream ==
    \E r \in rpcs :
        /\ r.op = "get" /\ r.pc = "planned"
        /\ IF /\ Template(r.q, r.ds) /\ Binds(r.q, r.ds, r.value)
              /\ Projects(r.q, r.ds) /\ PinHolds(r.pin, ProjectedColumns(r.q, r.ds))
           THEN /\ delivered' = [got |-> {ProjectedColumns(r.q, r.ds)}, told |-> r.told]
                /\ rpcs' = (rpcs \ {r}) \union {[r EXCEPT !.pc = "streaming"]}
                /\ UNCHANGED streaming
           ELSE /\ rpcs' = rpcs \ {r}
                /\ streaming' = streaming - 1
                /\ UNCHANGED delivered
        /\ UNCHANGED <<fclock, cache, memory, saved, handles, tickets, shown, budget>>

\* The stream ends, whole or by an error: the slot outlives the call.
EndStream ==
    \E r \in rpcs :
        /\ r.pc = "streaming"
        /\ rpcs' = rpcs \ {r}
        /\ streaming' = streaming - 1
        /\ UNCHANGED <<fclock, cache, memory, saved, handles, tickets, delivered, shown, budget>>

ClosePreparedStatement ==
    /\ \E h \in DOMAIN handles :
          /\ budget.rpcs > 0 /\ "close" \in budget.calls
          /\ handles' = [g \in DOMAIN handles \ {h} |-> handles[g]]
    /\ budget' = [budget EXCEPT !.rpcs = @ - 1]
    /\ UNCHANGED <<fclock, cache, memory, saved, tickets, rpcs, streaming, delivered, shown>>

\* The daemon stops and starts: every RPC ends, the handles and the cache
\* are gone, and newTypeMemory reads the file.  A ticket is the client's.
RestartFlight ==
    /\ budget.restarts > 0
    /\ \/ "stop_before_flush" \in FlightFaults
       \/ \A r \in rpcs : r.pc \notin {"reconciled", "flush", "write"}
    /\ budget' = [budget EXCEPT !.restarts = @ - 1]
    /\ memory' = saved
    /\ cache' = [p \in BOOLEAN |-> NoEntry]
    /\ handles' = <<>> /\ rpcs' = {} /\ streaming' = 0
    /\ UNCHANGED <<fclock, saved, tickets, delivered, shown>>

FlightNext ==
    \/ TickFlight \/ PlanQuery \/ PlanHandle \/ FetchRows
    \/ ReconcileTypes \/ PutSchema \/ FlushImage \/ FlushWrite
    \/ FinishPlan \/ DeliverStream \/ EndStream \/ ClosePreparedStatement \/ RestartFlight

FlightSpec == FlightInit /\ [][FlightNext]_flightvars

-----------------------------------------------------------------------------
\* columntypes.go 36-44: order is append-only even when type is not.  What an
\* unprivileged client was shown of the first ColumnLimit columns, and what it is
\* about to be shown, is a prefix of the columns the endpoint holds now, and
\* names nothing private: a client that reads by position is never shifted,
\* through expiry, an attribute that leaves the sample, a retype, a privileged
\* reader's derivations, an older measurement that reconciles or is cached
\* late, and a restart.  The comment's "always" goes further than this: past
\* the limit, as 326-329 warn, a column stands where the measurement has it.
SchemaPrefix ==
    LET published == {shown} \union
            {Positions(r.ds) : r \in {q \in rpcs : q.pc = "planned" /\ q.who \notin Privileged}}
    IN  \A names \in published : /\ IsPrefix(names, NamesOf(memory.cols))
                                 /\ ToSet(names) \intersect PrivateAttrs = {}

\* pin.go: a stream has the columns and types that its ticket was issued with
\* or, on a prepared statement, those the last call on its handle reported, or
\* the client gets an error: never another shape, whatever the table, the cache
\* and the other RPCs did in between.  (GetSchemaStatement reports a schema and
\* gives nothing to fetch with: it promises nothing of a later ticket.)
FetchedAsPromised == delivered.got = delivered.told
=============================================================================
