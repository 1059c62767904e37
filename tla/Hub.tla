-------------------------------- MODULE Hub --------------------------------
(***************************************************************************)
(* federate/hub.go and discovery.go: how the hub comes to know a schedd,   *)
(* pairs it with a spoke, streams from it, reports on it in                *)
(* federation_sources, and retires it.  Sources do not interact, so the    *)
(* module follows one schedd; its tables stream alike (TableSink,          *)
(* ArchiveSink), so one stands for all.                                    *)
(*                                                                         *)
(* Spellings of a name (foldSnapshot, mergeRestored, legacy directories),  *)
(* row counts and metrics are left out.                                    *)
(***************************************************************************)
EXTENDS Integers, Sequences, FiniteSets

CONSTANTS
    Addr, NoAddr,   \* spoke addresses; none
    RetireAfter,    \* Config.RetireAfter, in ticks of the hub's clock
    RowRefresh,     \* sourceRowRefresh, in ticks
    MaxClock,       \* bounds: ticks of the clock,
    MaxHubFault,    \*   crashes, failed removals and failed writes,
    MaxPass         \*   discovery passes

ASSUME HubAssumption == RetireAfter \in Nat

VARIABLES
    hclock,    \* the hub's clock
    hub,       \* the Run goroutine: pc, step of a retirement, runStart, discoveryDone,
               \* the configured static spoke
    src,       \* h.sources[schedd]
    hrow,      \* its federation_sources row
    hcursor,   \* whether its cursor file exists
    hdata,     \* its rows in the hub's mutable tables: "none", "partial" or "full"
    hstat,     \* the runner's cedarsync.Status, and what refreshState saw of it
    hseen,     \* history of this run: the last known answer about membership, the time of
               \* the last contact
    hleft      \* faults and passes left

hubvars == <<hclock, hub, src, hrow, hcursor, hdata, hstat, hseen, hleft>>

-----------------------------------------------------------------------------
NoSource ==
    [known |-> FALSE, static |-> FALSE, dropped |-> FALSE, inSet |-> FALSE,
     addr |-> NoAddr, unverified |-> FALSE, untrusted |-> FALSE, declined |-> FALSE,
     collector |-> 0, contact |-> 0, retiring |-> 0, runner |-> NoAddr,
     stable |-> {}, wrote |-> 0]
NoStatus == [connected |-> FALSE, synced |-> FALSE, news |-> FALSE, tried |-> FALSE]
NoSourceRow == [present |-> FALSE]
NothingSeen == [match |-> "unknown", contact |-> 0]

HubInit ==
    /\ hclock = 1
    /\ hub = [pc |-> "down", step |-> 0, start |-> 0, done |-> FALSE, static |-> NoAddr]
    /\ src = NoSource /\ hrow = NoSourceRow
    /\ hcursor = FALSE /\ hdata = "none"
    /\ hstat = NoStatus /\ hseen = NothingSeen
    /\ hleft = [fault |-> MaxHubFault, pass |-> MaxPass]

LastSeen(s) == IF s.contact > s.collector THEN s.contact ELSE s.collector

\* unseenFor: the time the hub was down does not count.
UnseenFor(s) == hclock - (IF LastSeen(s) < hub.start THEN hub.start ELSE LastSeen(s))

\* startRunners and stopRunners.
Started(s) ==
    IF s.unverified \/ s.addr = NoAddr THEN s ELSE [s EXCEPT !.runner = s.addr]
Stopped(s) == [s EXCEPT !.runner = NoAddr]
StatusOf(s) == IF s.runner = src.runner THEN hstat ELSE NoStatus

(***************************************************************************)
(* stateOf and notCaughtUp; stale is what staleness measures of the last   *)
(* heartbeat: "unknown", "over" the threshold, or "within" it.             *)
(***************************************************************************)
StateOf(s, stale) ==
    CASE s.retiring > 0                      -> "retiring"
      [] hub.done /\ ~s.inSet                -> "absent"
      [] s.unverified                        -> "untrusted"
      [] s.addr = NoAddr /\ s.untrusted      -> "untrusted"
      [] s.addr = NoAddr                     -> "absent"
      [] stale # "within" \/ ~hstat.synced   -> "stale"
      [] OTHER                               -> "fresh"

(***************************************************************************)
(* writeSourceRow: at once when a stable field changed, for the times alone*)
(* once in RowRefresh.                                                     *)
(***************************************************************************)
Stable(s, stale) ==
    [state |-> StateOf(s, stale), addr |-> s.addr, static |-> s.static,
     retiring |-> s.retiring, synced |-> hstat.synced, connected |-> hstat.connected]

RowOf(s, stale) ==
    [present |-> TRUE, state |-> StateOf(s, stale), synced |-> hstat.synced,
     addr |-> s.addr, static |-> s.static, retiring |-> s.retiring,
     collector |-> s.collector, contact |-> s.contact]

WriteSourceRow(next) ==
    /\ hub' = [hub EXCEPT !.pc = next]
    /\ \/ ~src.known /\ UNCHANGED <<src, hrow, hleft>>
       \/ /\ src.known
          /\ \E stale \in {"unknown", "over", "within"} :
                IF src.stable = {Stable(src, stale)} /\ hclock - src.wrote < RowRefresh
                  THEN UNCHANGED <<src, hrow>>
                  ELSE /\ hrow' = RowOf(src, stale)
                       /\ src' = [src EXCEPT !.stable = {Stable(src, stale)}, !.wrote = hclock]
          /\ UNCHANGED hleft
       \/ \* the commit fails and is logged
          /\ src.known /\ hleft.fault > 0 /\ hleft' = [hleft EXCEPT !.fault = @ - 1]
          /\ UNCHANGED <<src, hrow>>
    /\ UNCHANGED <<hclock, hcursor, hdata, hstat, hseen>>

-----------------------------------------------------------------------------
\* Run: ensureTables and loadSources, under the configuration of this start.
HubLoad ==
    /\ hub.pc = "down"
    /\ \E a \in Addr \cup {NoAddr} :
          hub' = [pc |-> "restore", step |-> 0, start |-> hclock, done |-> FALSE, static |-> a]
    /\ src' = IF ~hrow.present THEN NoSource
              ELSE [NoSource EXCEPT !.known = TRUE, !.addr = hrow.addr, !.static = hrow.static,
                       !.collector = hrow.collector, !.contact = hrow.contact,
                       !.retiring = hrow.retiring]
    /\ hstat' = NoStatus /\ hseen' = NothingSeen
    /\ UNCHANGED <<hclock, hrow, hcursor, hdata, hleft>>

\* The restored row is rewritten before anything slower.
HubRewrite == hub.pc = "restore" /\ WriteSourceRow("revalidate")

(***************************************************************************)
(* revalidateRestored, ValidateRestored, and the start of the runners.     *)
(* hostValid asks a resolver, whose answer is an input.                    *)
(***************************************************************************)
RestoredValid(hostOK) ==
    IF hub.static # NoAddr THEN hub.static = src.addr ELSE hostOK

HubRevalidate ==
    /\ hub.pc = "revalidate"
    /\ \E hostOK \in BOOLEAN :
        LET checked == src.addr # NoAddr /\ src.retiring = 0
            s == [src EXCEPT !.unverified = checked /\ ~RestoredValid(hostOK)]
        IN  src' = IF src.retiring = 0 THEN Started(s) ELSE s
    /\ hub' = [hub EXCEPT !.pc = "write"]
    /\ UNCHANGED <<hclock, hrow, hcursor, hdata, hstat, hseen, hleft>>

-----------------------------------------------------------------------------
(***************************************************************************)
(* pair: of the spokes that claim the schedd, those whose host is valid;   *)
(* among several, the ones that sync and are caught up; exactly one.       *)
(***************************************************************************)
Claims == {c \in SUBSET [addr : Addr, valid : BOOLEAN, live : BOOLEAN] : Cardinality(c) <= 2}
PairCandidates(claims) ==
    LET valid == {c \in claims : c.valid}
    IN  IF Cardinality(valid) > 1 THEN {c \in valid : c.live} ELSE valid
PairedSpoke(claims) ==
    IF Cardinality(PairCandidates(claims)) = 1
      THEN (CHOOSE c \in PairCandidates(claims) : TRUE).addr ELSE NoAddr
Untrusted(claims) == claims # {} /\ \A c \in claims : ~c.valid
Declined(claims) == PairedSpoke(claims) = NoAddr /\ ~Untrusted(claims) /\ claims # {}

(***************************************************************************)
(* Discover: what one pass says of the schedd.  Each of the collector's    *)
(* three answers may be missing; a static spoke is known without them.     *)
(***************************************************************************)
Discover(static, presentOK, matchOK, spokesOK, present, match, claims) ==
    LET cs == IF matchOK /\ spokesOK /\ match THEN claims ELSE {}
        st == static # NoAddr
    IN  [matchKnown |-> matchOK, matched |-> st \/ (matchOK /\ match),
         present |-> st \/ (presentOK /\ present) \/ (matchOK /\ match),
         presentKnown |-> presentOK,
         spoke |-> IF st THEN static ELSE PairedSpoke(cs), static |-> st,
         untrusted |-> ~st /\ Untrusted(cs), declined |-> ~st /\ Declined(cs)]

\* Every answer of the collector, under a configured static spoke or none.
Snapshots ==
    [a \in Addr \cup {NoAddr} |->
        {Discover(a, q[1], q[2], q[3], q[4], q[5], c) :
            q \in [1..5 -> BOOLEAN], c \in Claims}]

\* admit: a schedd in the AP set.
Admit(s, snap) ==
    LET new == snap.spoke # NoAddr
        t == [s EXCEPT !.known = TRUE, !.inSet = TRUE, !.dropped = FALSE,
                       !.collector = hclock, !.retiring = 0,
                       !.untrusted = snap.untrusted, !.declined = snap.declined,
                       !.unverified = @ /\ ~new,
                       !.addr = IF new THEN snap.spoke ELSE @,
                       !.runner = IF new /\ snap.spoke # s.addr THEN NoAddr ELSE @]
    IN  Started(t)

\* A member that is not in the AP set: it leaves if it is present and does not
\* match, or was dropped from the static list.
Unmatched(s, snap) ==
    LET leaving == s.dropped \/ (snap.presentKnown /\ snap.present)
        t == [s EXCEPT !.inSet = FALSE]
    IN  IF leaving /\ s.retiring = 0 THEN Stopped([t EXCEPT !.retiring = hclock]) ELSE t

HubDiscover ==
    /\ hub.pc = "run" /\ hleft.pass > 0 /\ hleft' = [hleft EXCEPT !.pass = @ - 1]
    /\ \E snap \in Snapshots[hub.static] :
        LET s0 == [src EXCEPT !.dropped = @ \/ (src.static /\ ~snap.static),
                              !.static = snap.static]
            s1 == IF snap.static \/ (snap.matchKnown /\ snap.matched) THEN Admit(s0, snap)
                  ELSE IF snap.matchKnown /\ s0.known THEN Unmatched(s0, snap) ELSE s0
        IN  \* nothing learned at all is an error that changes nothing
            IF ~snap.matchKnown /\ ~snap.static
              THEN UNCHANGED <<src, hub, hstat, hseen>>
              ELSE /\ src' = s1 /\ hstat' = StatusOf(s1)
                   /\ hub' = [hub EXCEPT !.pc = "refresh", !.done = @ \/ snap.matchKnown]
                   /\ hseen' = [hseen EXCEPT
                         !.match = IF snap.matched THEN "yes"
                                   ELSE IF snap.matchKnown THEN "no" ELSE @,
                         !.contact = IF snap.matched THEN hclock ELSE @]
    /\ UNCHANGED <<hclock, hrow, hcursor, hdata>>

-----------------------------------------------------------------------------
\* observeRunners: a session open now, or opened since the last pass.
RunnerReached == hstat.connected \/ hstat.news

\* Due for retirement.  (Mutant: before any discovery of this run too.)
DueAlways(s) ==
    \/ s.retiring > 0 /\ hclock - s.retiring >= RetireAfter
    \/ ~s.inSet /\ s.retiring = 0 /\ UnseenFor(s) >= RetireAfter
       /\ (s.runner = NoAddr \/ hstat.tried)

Due(s) ==
    /\ s.known /\ hub.done
    /\ \/ s.retiring > 0 /\ hclock - s.retiring >= RetireAfter
       \/ ~s.inSet /\ s.retiring = 0 /\ UnseenFor(s) >= RetireAfter
          /\ (s.runner = NoAddr \/ hstat.tried)

\* refreshState up to the rows: note contact, then retire what is due.
HubRefresh ==
    /\ hub.pc \in {"run", "refresh"}
    /\ LET s == [src EXCEPT !.contact = IF src.known /\ RunnerReached THEN hclock ELSE @]
       IN  /\ src' = IF Due(s) THEN Stopped(s) ELSE s
           /\ hstat' = IF Due(s) THEN NoStatus ELSE [hstat EXCEPT !.news = FALSE]
           /\ hub' = [hub EXCEPT !.pc = IF Due(s) THEN "retire" ELSE "write", !.step = IF Due(s) THEN 1 ELSE 0]
    /\ UNCHANGED <<hclock, hrow, hcursor, hdata, hseen, hleft>>

HubWrite == hub.pc = "write" /\ WriteSourceRow("run")

\* Retire: the administrator's request.
HubRetireRequest ==
    /\ hub.pc = "run" /\ (src.known \/ hrow.present)
    /\ src' = Stopped(src) /\ hstat' = NoStatus
    /\ hub' = [hub EXCEPT !.pc = "retire", !.step = 1]
    /\ hseen' = [hseen EXCEPT !.contact = LastSeen(src)]
    /\ UNCHANGED <<hclock, hrow, hcursor, hdata, hleft>>

(***************************************************************************)
(* retire, after the runners are stopped: the cursors durably, the source's*)
(* row, its data rows, then the hub forgets it.  Each step may fail and    *)
(* then ends the retirement.                                               *)
(***************************************************************************)
\* (Mutant: the data rows go first.)
RetireOrderRowsFirst == <<"data", "cursors", "row">>

RetireOrder == <<"cursors", "row", "data">>

HubRetireStep ==
    /\ hub.pc = "retire" /\ hub.step <= Len(RetireOrder)
    /\ LET op == RetireOrder[hub.step] IN
        \/ /\ hub' = [hub EXCEPT !.step = @ + 1]
           /\ hcursor' = (hcursor /\ op # "cursors")
           /\ hrow' = IF op = "row" THEN NoSourceRow ELSE hrow
           /\ src' = IF op = "row" THEN [src EXCEPT !.stable = {}] ELSE src
           /\ hdata' = IF op = "data" THEN "none" ELSE hdata
           /\ UNCHANGED hleft
        \/ \* a removal fails; the rows of some tables may be gone
           /\ hleft.fault > 0 /\ hleft' = [hleft EXCEPT !.fault = @ - 1]
           /\ hub' = [hub EXCEPT !.pc = "write", !.step = 0]
           /\ hdata' \in IF op = "data" THEN {hdata, IF hdata = "none" THEN "none" ELSE "partial"}
                         ELSE {hdata}
           /\ hcursor' \in IF op = "cursors" THEN {hcursor, FALSE} ELSE {hcursor}
           /\ UNCHANGED <<hrow, src>>
    /\ UNCHANGED <<hclock, hstat, hseen>>

HubForget ==
    /\ hub.pc = "retire" /\ hub.step > Len(RetireOrder)
    /\ src' = NoSource /\ hub' = [hub EXCEPT !.pc = "write", !.step = 0]
    /\ UNCHANGED <<hclock, hrow, hcursor, hdata, hstat, hseen, hleft>>

-----------------------------------------------------------------------------
\* The stream's goroutine (module TableSink has its details): it connects and
\* resumes, or replays everything after a Reset; a replay ends with the rows
\* complete and the cursor stored.
RunnerConnect ==
    /\ src.runner # NoAddr /\ ~hstat.connected
    /\ \/ /\ hstat' = [connected |-> TRUE, synced |-> FALSE, news |-> TRUE, tried |-> TRUE]
          /\ hseen' = [hseen EXCEPT !.contact = hclock]
       \/ ~hstat.tried /\ hstat' = [hstat EXCEPT !.tried = TRUE] /\ UNCHANGED hseen
    /\ UNCHANGED <<hclock, hub, src, hrow, hcursor, hdata, hleft>>

RunnerReset ==
    /\ hstat.connected
    /\ hcursor' = FALSE /\ hstat' = [hstat EXCEPT !.synced = FALSE, !.news = TRUE]
    /\ hdata' = IF hdata = "full" THEN "full" ELSE "partial"
    /\ UNCHANGED <<hclock, hub, src, hrow, hseen, hleft>>

RunnerSynced ==
    /\ hstat.connected /\ ~hstat.synced
    /\ hcursor \/ hdata # "none"
    /\ hstat' = [hstat EXCEPT !.synced = TRUE, !.news = TRUE]
    /\ hdata' = IF hcursor THEN hdata ELSE "full"
    /\ hcursor' = TRUE
    /\ UNCHANGED <<hclock, hub, src, hrow, hseen, hleft>>

RunnerDrop ==
    /\ hstat.connected
    /\ hstat' = [hstat EXCEPT !.connected = FALSE, !.synced = FALSE]
    /\ UNCHANGED <<hclock, hub, src, hrow, hcursor, hdata, hseen, hleft>>

HubCrash ==
    /\ hub.pc # "down" /\ hleft.fault > 0 /\ hleft' = [hleft EXCEPT !.fault = @ - 1]
    /\ hub' = [pc |-> "down", step |-> 0, start |-> 0, done |-> FALSE, static |-> NoAddr]
    /\ src' = NoSource /\ hstat' = NoStatus /\ hseen' = NothingSeen
    /\ UNCHANGED <<hclock, hrow, hcursor, hdata>>

HubClock ==
    /\ hclock < MaxClock /\ hclock' = hclock + 1
    /\ UNCHANGED <<hub, src, hrow, hcursor, hdata, hstat, hseen, hleft>>

HubNext ==
    \/ HubLoad \/ HubRewrite \/ HubRevalidate \/ HubDiscover \/ HubRefresh \/ HubWrite
    \/ HubRetireRequest \/ HubRetireStep \/ HubForget
    \/ RunnerConnect \/ RunnerReset \/ RunnerSynced \/ RunnerDrop
    \/ HubCrash \/ HubClock

HubSpec == HubInit /\ [][HubNext]_hubvars

-----------------------------------------------------------------------------
(***************************************************************************)
(* What stands for complete rows exists only while the hub's tables hold   *)
(* them, across retirement, its failures and a restart: a cursor file, from*)
(* which a rediscovered source would resume past rows that a retirement    *)
(* deleted, and a federation_sources row that says Synced or fresh, which  *)
(* makes a job that is missing from the tables gone at the AP (the order   *)
(* of the steps of retire).                                                *)
(***************************************************************************)
RowsVouchedFor ==
    hcursor \/ (hrow.present /\ (hrow.synced \/ hrow.state = "fresh")) => hdata = "full"

(***************************************************************************)
(* The hub retires a source on its own only if the last answer of this run *)
(* about the AP set was known and left it out, and, unless it is leaving,  *)
(* neither the collector nor its spoke was heard of for RetireAfter.       *)
(***************************************************************************)
RetiredOnlyWhenGone ==
    [][hub.pc \in {"run", "refresh"} /\ hub'.pc = "retire" /\ ~HubRetireRequest =>
          /\ hseen.match = "no"
          /\ src.retiring > 0 \/ hclock - hseen.contact >= RetireAfter]_hubvars
=============================================================================
