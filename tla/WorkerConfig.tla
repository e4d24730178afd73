---------------------------- MODULE WorkerConfig ----------------------------
(***************************************************************************)
(* How pushpin-proxy derives the configuration of each worker              *)
(* (src/proxy/app.cpp): App::Private::run() reads the settings, trims the  *)
(* empty entries out of every spec list (trimlist), parses the XFF rules   *)
(* (parse_xffRule), clamps max_open_requests to client_maxconn and divides *)
(* it among the workers; runLoop's startup loop then copies the global     *)
(* Engine::Configuration for worker n, sets its id and, with more than one *)
(* worker, suffixes its client id and its IPC endpoint specs with -n.      *)
(*                                                                         *)
(* Data abstraction: an endpoint spec is a record of its kind (an ipc:     *)
(* spec, any other spec, or the empty string of an unset setting), the     *)
(* setting and list position it was configured at, and the sequence of     *)
(* "-n" suffixes appended to it; two specs name the same endpoint exactly  *)
(* when these agree.  Only the settings go through trimlist/suffixSpec(s)  *)
(* are modelled; the constants given as SingleFields and ListFields stand  *)
(* for the QString and the QStringList settings of lines 729-738.         *)
(***************************************************************************)
EXTENDS Integers, Sequences, SequencesExt, CInt

CONSTANTS
    SingleFields,        \* inspectSpec, acceptSpec, ... (one spec each)
    ListFields,          \* wsControlInitSpecs, intServerInSpecs, ... (lists)
    MaxListLen,          \* longest spec list configured
    WorkerCounts,        \* values of proxy/workers
    MaxOpenValues,       \* values of proxy/max_open_requests (-1: unset)
    ClientMaxconnValues, \* values of runner/client_maxconn
    XffInputs            \* x_forwarded_for lists to parse

ASSUME FieldsAssumption ==
    /\ SingleFields \cap ListFields = {}
    /\ MaxListLen \in Nat
ASSUME SessionsAssumption ==
    /\ WorkerCounts \subseteq Int
    /\ MaxOpenValues \subseteq Int
    /\ ClientMaxconnValues \subseteq Nat

\* an unset QString setting, an "ipc:..." spec, any other ("tcp://...") spec
Kinds == {"empty", "ipc", "tcp"}

\* the spec configured at position i of setting f
Configured(kind, f, i) == [kind |-> kind, at |-> <<f, i>>, sfx |-> <<>>]

\* a QStringList setting as read from the settings file
ConfiguredList(f, kinds) == [i \in 1 .. Len(kinds) |-> Configured(kinds[i], f, i)]

(***************************************************************************)
(* trimlist(): remove the empty strings of a list in place, stepping the   *)
(* index back after each removal (line 55).                                *)
(***************************************************************************)
\* Mutant of TrimFrom: the index is not stepped back after a removal.
RECURSIVE TrimFromNoStepBack(_, _)
TrimFromNoStepBack(list, n) ==
    IF n >= Len(list) THEN list
    ELSE IF list[n + 1].kind = "empty"
         THEN TrimFromNoStepBack(RemoveAt(list, n + 1), n + 1)
         ELSE TrimFromNoStepBack(list, n + 1)

RECURSIVE TrimFrom(_, _)
TrimFrom(list, n) ==
    IF n >= Len(list) THEN list
    ELSE IF list[n + 1].kind = "empty"
         THEN TrimFrom(RemoveAt(list, n + 1), (n - 1) + 1)
         ELSE TrimFrom(list, n + 1)

trimlist(list) == TrimFrom(list, 0)

\* what trimlist() is for: the list without its empty entries, in order
TrimmedRef(list) == SelectSeq(list, LAMBDA e : e.kind # "empty")

(***************************************************************************)
(* parse_xffRule(): an entry is "truncate:<x>", "append" or anything else. *)
(* An entry "truncate:<x>" whose x is not a number ends the parse and      *)
(* returns the rule built so far (line 70).                                *)
(***************************************************************************)
XffEntries == [kind : {"truncate"}, x : 0 .. 2, ok : BOOLEAN]
                \cup {[kind |-> "append"], [kind |-> "other"]}

\* XffRule(): the default rule (no truncation, no append)
NoTruncate == -1
DefaultXffRule == [truncate |-> NoTruncate, append |-> FALSE]

\* Mutant of ParseXffFrom: the first truncate:N wins instead of the last.
RECURSIVE ParseXffFromFirst(_, _)
ParseXffFromFirst(in, out) ==
    IF in = <<>> THEN out
    ELSE LET s == Head(in) IN
         CASE s.kind = "truncate" /\ ~s.ok -> out
           [] s.kind = "truncate" ->
                ParseXffFromFirst(Tail(in),
                    [out EXCEPT !.truncate = IF @ = NoTruncate THEN s.x ELSE @])
           [] s.kind = "append" ->
                ParseXffFromFirst(Tail(in), [out EXCEPT !.append = TRUE])
           [] OTHER -> ParseXffFromFirst(Tail(in), out)

RECURSIVE ParseXffFrom(_, _)
ParseXffFrom(in, out) ==
    IF in = <<>> THEN out
    ELSE LET s == Head(in) IN
         CASE s.kind = "truncate" /\ ~s.ok -> out
           [] s.kind = "truncate" ->
                ParseXffFrom(Tail(in), [out EXCEPT !.truncate = s.x])
           [] s.kind = "append" ->
                ParseXffFrom(Tail(in), [out EXCEPT !.append = TRUE])
           [] OTHER -> ParseXffFrom(Tail(in), out)

parse_xffRule(in) == ParseXffFrom(in, DefaultXffRule)

\* the rule a list of well-formed entries states: the last truncate:N wins,
\* append is set if listed
XffRef(in) ==
    LET truncs == SelectSeq(in, LAMBDA e : e.kind = "truncate") IN
    [truncate |-> IF truncs = <<>> THEN NoTruncate ELSE Last(truncs).x,
     append   |-> \E i \in 1 .. Len(in) : in[i].kind = "append"]

(***************************************************************************)
(* Per-worker derivation.                                                  *)
(***************************************************************************)

\* suffixSpec(): an ipc: spec gets "-i" appended
suffixSpec(s, i) ==
    IF s.kind = "ipc" THEN [s EXCEPT !.sfx = Append(@, i)] ELSE s

\* suffixSpecs(): only a list of exactly one ipc: spec is suffixed
suffixSpecs(l, i) ==
    IF Len(l) = 1 /\ l[1].kind = "ipc" THEN <<suffixSpec(l[1], i)>> ELSE l

\* sessionsMax should not exceed clientMaxconn (lines 575-578)
SessionsTotal(maxOpen, clientMaxconn) ==
    IF maxOpen >= 0
    THEN IF maxOpen < clientMaxconn THEN maxOpen ELSE clientMaxconn
    ELSE clientMaxconn

\* Mutant of GlobalConfig: the division rounds up.
GlobalConfigCeil(single, lists, total, workers) ==
    [id         |-> 0,
     clientId   |-> <<>>,
     single     |-> [f \in SingleFields |-> Configured(single[f], f, 1)],
     lists      |-> [f \in ListFields |-> trimlist(ConfiguredList(f, lists[f]))],
     sessionsMax |-> (total + workers - 1) \div workers]

\* the global Engine::Configuration (the fields modelled)
GlobalConfig(single, lists, total, workers) ==
    [id         |-> 0,
     clientId   |-> <<>>,
     single     |-> [f \in SingleFields |-> Configured(single[f], f, 1)],
     lists      |-> [f \in ListFields |-> trimlist(ConfiguredList(f, lists[f]))],
     sessionsMax |-> CDiv(total, workers)]

\* Mutant of WorkerConfigOf: wconfig.id = n is missing.
WorkerConfigOfNoId(g, n, workers) ==
    IF workers > 1
    THEN [g EXCEPT !.clientId = Append(@, n),
                   !.single = [f \in SingleFields |-> suffixSpec(@[f], n)],
                   !.lists = [f \in ListFields |-> suffixSpecs(@[f], n)]]
    ELSE g

\* Mutant of WorkerConfigOf: specs are suffixed only from three workers on.
WorkerConfigOfFromThree(g, n, workers) ==
    IF workers > 2
    THEN [g EXCEPT !.id = n,
                   !.clientId = Append(@, n),
                   !.single = [f \in SingleFields |-> suffixSpec(@[f], n)],
                   !.lists = [f \in ListFields |-> suffixSpecs(@[f], n)]]
    ELSE [g EXCEPT !.id = n]

\* Mutant of WorkerConfigOf: the client id is suffixed with the worker count.
WorkerConfigOfCountSuffix(g, n, workers) ==
    IF workers > 1
    THEN [g EXCEPT !.id = n,
                   !.clientId = Append(@, workers),
                   !.single = [f \in SingleFields |-> suffixSpec(@[f], n)],
                   !.lists = [f \in ListFields |-> suffixSpecs(@[f], n)]]
    ELSE [g EXCEPT !.id = n]

\* the body of the startup loop for worker n (lines 721-739)
WorkerConfigOf(g, n, workers) ==
    IF workers > 1
    THEN [g EXCEPT !.id = n,
                   !.clientId = Append(@, n),
                   !.single = [f \in SingleFields |-> suffixSpec(@[f], n)],
                   !.lists = [f \in ListFields |-> suffixSpecs(@[f], n)]]
    ELSE [g EXCEPT !.id = n]

VARIABLES
    workerCount,   \* proxy/workers
    sessionsTotal, \* sessionsMax after the clamp, before the division
    global,        \* the global Engine::Configuration
    n,             \* index of the startup loop
    wconfigs,      \* the configurations handed to the EngineThreads
    crashed        \* the process died of SIGFPE (sessionsMax / 0)

vars == <<workerCount, sessionsTotal, global, n, wconfigs, crashed>>

\* the global configuration of a process that never computed one
NoConfig == [id |-> -1]

\* App::Private::run(): settings read, lists trimmed, sessions divided;
\* proxy/workers is not checked, and an int division by zero traps
Init ==
    \E wc \in WorkerCounts, single \in [SingleFields -> Kinds],
       lists \in [ListFields -> BoundedSeq(Kinds, MaxListLen)],
       maxOpen \in MaxOpenValues, clientMaxconn \in ClientMaxconnValues :
        /\ workerCount = wc
        /\ sessionsTotal = SessionsTotal(maxOpen, clientMaxconn)
        /\ crashed = (wc = 0)
        /\ global = IF wc = 0 THEN NoConfig
                    ELSE GlobalConfig(single, lists, sessionsTotal, wc)
        /\ n = 0
        /\ wconfigs = <<>>

\* one iteration of `for(int n = 0; n < workerCount; ++n)` in runLoop
DeriveWorker ==
    /\ ~crashed
    /\ n < workerCount
    /\ wconfigs' = Append(wconfigs, WorkerConfigOf(global, n, workerCount))
    /\ n' = n + 1
    /\ UNCHANGED <<workerCount, sessionsTotal, global, crashed>>

\* the loop is over (or the process is gone)
Done == crashed \/ n >= workerCount

\* every worker's configuration has been handed out
Derived ==
    /\ Done
    /\ UNCHANGED vars

Next == DeriveWorker \/ Derived

Spec == Init /\ [][Next]_vars

(***************************************************************************)
(* Properties.                                                             *)
(***************************************************************************)

Endpoint == [kind : Kinds, at : (SingleFields \cup ListFields) \X Nat,
             sfx : Seq(Nat)]

TypeOK ==
    /\ workerCount \in WorkerCounts
    /\ sessionsTotal \in Int
    /\ crashed \in BOOLEAN
    /\ n \in 0 .. (IF workerCount > 0 THEN workerCount ELSE 0)
    /\ Len(wconfigs) = n
    /\ \A i \in 1 .. n :
         /\ wconfigs[i].id = i - 1
         /\ \A f \in SingleFields : wconfigs[i].single[f] \in Endpoint
         /\ \A f \in ListFields : wconfigs[i].lists[f] \in Seq(Endpoint)

\* the IPC endpoints a worker binds or connects to
IpcEndpoints(c) ==
    {c.single[f] : f \in {g \in SingleFields : c.single[g].kind = "ipc"}}
    \cup UNION {{e \in ToSet(c.lists[f]) : e.kind = "ipc"} : f \in ListFields}

\* The specification (WorkerConfig, Endpoint specs): in multi-worker mode
\* every IPC endpoint is suffixed with -n, so no two workers share one.
\* suffixSpecs() suffixes a list only when it holds exactly one spec.
IpcEndpointsDistinct ==
    \A i, j \in 1 .. Len(wconfigs) :
        i # j => IpcEndpoints(wconfigs[i]) \cap IpcEndpoints(wconfigs[j]) = {}

\* The single IPC specs and the single-spec IPC lists are per worker: what
\* suffixSpec() and suffixSpecs() do guarantee, for any number of workers.
SingletonIpcPerWorker ==
    \A i, j \in 1 .. Len(wconfigs) : i # j =>
        /\ \A f \in SingleFields :
             wconfigs[i].single[f].kind = "ipc" =>
                 wconfigs[i].single[f] # wconfigs[j].single[f]
        /\ \A f \in ListFields :
             (Len(wconfigs[i].lists[f]) = 1 /\ wconfigs[i].lists[f][1].kind = "ipc")
                 => wconfigs[i].lists[f] # wconfigs[j].lists[f]

\* Every worker gets its own client id (the ZeroMQ identity of its sockets).
ClientIdsDistinct ==
    \A i, j \in 1 .. Len(wconfigs) :
        i # j => wconfigs[i].clientId # wconfigs[j].clientId

\* The per-worker session caps add up to no more than the clamped
\* max_open_requests: the workers together never admit more sessions
\* than configured (sessions_max = total / workers).
SessionsWithinTotal ==
    LET add(acc, c) == acc + c.sessionsMax IN
    FoldLeft(add, 0, wconfigs) <= sessionsTotal

\* trimlist() removes exactly the empty entries and keeps the order, also
\* when two empty entries follow each other.
TrimlistCorrect ==
    \A l \in BoundedSeq(Kinds, MaxListLen + 1) :
        LET specs == ConfiguredList("x", l) IN
        trimlist(specs) = TrimmedRef(specs)

\* On lists of well-formed entries parse_xffRule() yields the rule they
\* state: the last truncate:N and whether append is listed.
XffRuleCorrect ==
    \A in \in XffInputs :
        (\A i \in 1 .. Len(in) : in[i].kind = "truncate" => in[i].ok)
            => parse_xffRule(in) = XffRef(in)

\* The specification (4.I): the supervisor spawns `workers` threads, each
\* with its share of sessions_max.  Whatever proxy/workers says, the
\* settings lead to a running proxy with at least one worker: run() never
\* divides by a zero worker count and runLoop() never starts none.
StartsWorkers == Done => ~crashed /\ Len(wconfigs) > 0

=============================================================================
