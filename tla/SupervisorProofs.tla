-------------------------- MODULE SupervisorProofs --------------------------
(***************************************************************************)
(* Proofs about the worker supervisor (Supervisor.tla), for every number  *)
(* of workers N >= 1 and every reload bound.                              *)
(*                                                                         *)
(* The invariant AcceptedWorkersRunning (a thread kept by runLoop has a    *)
(* running engine) is not inductive by itself: a worker could be stopped   *)
(* or fail while it is in `threads`.  IInv adds why neither happens: the   *)
(* only start() call is the first closure on a worker's queue and runs     *)
(* before the worker wakes the main thread, and a stop() closure is only   *)
(* queued after `threads` has been cleared.                                *)
(***************************************************************************)
EXTENDS Supervisor, TLAPS

(***************************************************************************)
(* Lemmas about ToSet, the set of elements of a sequence.                  *)
(***************************************************************************)

LEMMA ToSetEmpty == ToSet(<<>>) = {}
  BY DEF ToSet

LEMMA ToSetType ==
  ASSUME NEW S, NEW s \in Seq(S)
  PROVE  ToSet(s) \subseteq S
  BY DEF ToSet

LEMMA ToSetAppend ==
  ASSUME NEW S, NEW s \in Seq(S), NEW e
  PROVE  ToSet(Append(s, e)) = ToSet(s) \cup {e}
  <1>1. DOMAIN Append(s, e) = 1 .. Len(s) + 1
    OBVIOUS
  <1>2. \A i \in 1 .. Len(s) : Append(s, e)[i] = s[i]
    OBVIOUS
  <1>3. Append(s, e)[Len(s) + 1] = e
    OBVIOUS
  <1>4. QED
    BY <1>1, <1>2, <1>3 DEF ToSet

LEMMA ToSetTail ==
  ASSUME NEW S, NEW s \in Seq(S), s # <<>>
  PROVE  /\ ToSet(Tail(s)) \subseteq ToSet(s)
         /\ Head(s) \in ToSet(s)
  BY DEF ToSet

LEMMA ToSetCons ==
  ASSUME NEW S, NEW s \in Seq(S), NEW x \in S
  PROVE  ToSet(<<x>> \o s) = {x} \cup ToSet(s)
  <1>1. DOMAIN (<<x>> \o s) = 1 .. Len(s) + 1
    OBVIOUS
  <1>2. (<<x>> \o s)[1] = x
    OBVIOUS
  <1>3. \A i \in 2 .. Len(s) + 1 : (<<x>> \o s)[i] = s[i - 1]
    OBVIOUS
  <1>4. ToSet(<<x>> \o s) \subseteq {x} \cup ToSet(s)
    <2> SUFFICES ASSUME NEW i \in 1 .. Len(s) + 1
                 PROVE  (<<x>> \o s)[i] \in {x} \cup ToSet(s)
      BY <1>1 DEF ToSet
    <2>1. CASE i = 1
      BY <2>1, <1>2
    <2>2. CASE i # 1
      <3>1. i - 1 \in DOMAIN s /\ (<<x>> \o s)[i] = s[i - 1]
        BY <2>2, <1>3
      <3>2. QED
        BY <3>1 DEF ToSet
    <2>3. QED
      BY <2>1, <2>2
  <1>5. {x} \cup ToSet(s) \subseteq ToSet(<<x>> \o s)
    <2>1. x \in ToSet(<<x>> \o s)
      BY <1>1, <1>2 DEF ToSet
    <2>2. ASSUME NEW j \in DOMAIN s
          PROVE  s[j] \in ToSet(<<x>> \o s)
      <3>1. j + 1 \in 2 .. Len(s) + 1
        OBVIOUS
      <3>2. QED
        BY <3>1, <1>1, <1>3 DEF ToSet
    <2>3. QED
      BY <2>1, <2>2 DEF ToSet
  <1>6. QED
    BY <1>4, <1>5

LEMMA ToSetSingleton ==
  ASSUME NEW x
  PROVE  ToSet(<<x>>) = {x}
  BY DEF ToSet

(***************************************************************************)
(* IInv holds initially and is preserved by every step.                    *)
(***************************************************************************)

LEMMA InitIInv == Init => IInv
  <1> SUFFICES ASSUME Init PROVE IInv
    OBVIOUS
  <1> USE NAssumption, MaxReloadsAssumption
  <1>1. TypeOK
    BY DEF Init, TypeOK, Ids, Calls
  <1>2. HandshakeInv
    BY ToSetEmpty DEF Init, HandshakeInv, Handshake
  <1>3. PhaseInv
    BY ToSetEmpty DEF Init, PhaseInv, Ids, DeletePcs
  <1>4. QED
    BY <1>1, <1>2, <1>3 DEF IInv

\* the facts every step case starts from
LEMMA QueueFacts ==
  ASSUME TypeOK, HandshakeInv, NEW t \in Ids, queue[t] # <<>>,
         Head(queue[t]) # "start", threadPc[t] = "exec"
  PROVE  woken[t]
  BY DEF TypeOK, HandshakeInv, Handshake

LEMMA ThreadStartIInv == IInv /\ ThreadStart => IInv'
  <1> SUFFICES ASSUME IInv, ThreadStart PROVE IInv'
    OBVIOUS
  <1> USE NAssumption DEF IInv
  <1>1. cur \in Ids /\ threadPc[cur] = "idle" /\ mainPc = "spawn"
    BY DEF PhaseInv, ThreadStart
  <1>2. /\ mainPc' = "wait"
        /\ threadPc' = [threadPc EXCEPT ![cur] = "lock"]
        /\ UNCHANGED <<cur, threads, deleting, seen, quitReason, version,
                       mutex, woken, worker, engine, queue, applied, dangling>>
    BY DEF ThreadStart
  <1>3. TypeOK'
    BY <1>1, <1>2 DEF TypeOK, MainPcs
  <1>4. HandshakeInv'
    BY <1>1, <1>2 DEF HandshakeInv, Handshake, TypeOK
  <1>5. PhaseInv'
    <2>1. mainPc' \notin DeletePcs /\ mainPc' \in {"spawn", "wait", "running"}
      BY <1>2 DEF DeletePcs
    <2>2. \A t \in Ids : t > cur' => threadPc'[t] = "idle"
      BY <1>1, <1>2 DEF PhaseInv, TypeOK
    <2>3. quitReason' = "none"
      BY <1>1, <1>2 DEF PhaseInv
    <2>4. QED
      BY <1>1, <1>2, <2>1, <2>2, <2>3 DEF PhaseInv
  <1>6. QED
    BY <1>3, <1>4, <1>5

LEMMA ThreadStartedIInv == IInv /\ ThreadStarted => IInv'
  <1> SUFFICES ASSUME IInv, ThreadStarted PROVE IInv'
    OBVIOUS
  <1> USE NAssumption DEF IInv
  <1>1. /\ cur \in Ids /\ quitReason = "none" /\ Len(threads) = cur
        /\ mainPc = "wait" /\ woken[cur]
        /\ UNCHANGED <<seen, version, threadPc, mutex, woken, worker, engine,
                       queue, applied, dangling>>
    BY DEF PhaseInv, ThreadStarted
  <1>2. CASE worker[cur] = "live"
    <2>1. /\ threads' = Append(threads, cur)
          /\ cur' = cur + 1
          /\ mainPc' = IF cur + 1 = N THEN "running" ELSE "spawn"
          /\ UNCHANGED <<deleting, quitReason>>
      BY <1>2 DEF ThreadStarted
    <2>2. ToSet(threads') = ToSet(threads) \cup {cur}
      BY <2>1, ToSetAppend DEF TypeOK
    <2>3. TypeOK'
      BY <1>1, <2>1 DEF TypeOK, MainPcs, Ids
    <2>4. HandshakeInv'
      BY <1>1, <1>2, <2>1, <2>2 DEF HandshakeInv, Handshake
    <2>5. PhaseInv'
      <3>1. Len(threads') = cur'
        BY <1>1, <2>1 DEF TypeOK
      <3>2. mainPc' \notin DeletePcs /\ mainPc' \in {"spawn", "running"}
        BY <2>1 DEF DeletePcs
      <3>3. mainPc' = "spawn" => cur' \in Ids
        BY <1>1, <2>1 DEF Ids
      <3>4. mainPc' = "running" => cur' = N
        BY <2>1
      \* the workers after cur were idle, and cur + 1 is one of them
      <3>5. \A t \in Ids : t > cur' => threadPc'[t] = "idle"
        BY <1>1, <2>1 DEF PhaseInv, TypeOK, Ids
      <3>6. mainPc' = "spawn" => threadPc'[cur'] = "idle"
        BY <1>1, <2>1, <3>3 DEF PhaseInv, TypeOK, Ids
      <3>7. \A t \in ToSet(threads') : worker'[t] = "live" /\ woken'[t]
        BY <1>1, <1>2, <2>2 DEF PhaseInv
      <3>8. QED
        BY <1>1, <2>1, <3>1, <3>2, <3>3, <3>4, <3>5, <3>6, <3>7 DEF PhaseInv
    <2>6. QED
      BY <2>3, <2>4, <2>5
  <1>3. CASE worker[cur] # "live"
    <2>1. /\ deleting' = <<cur>> \o threads
          /\ threads' = <<>>
          /\ quitReason' = "startFail"
          /\ mainPc' = "delStop"
          /\ UNCHANGED cur
      BY <1>3 DEF ThreadStarted
    <2>2. ToSet(deleting') = {cur} \cup ToSet(threads)
      BY <1>1, <2>1, ToSetCons DEF TypeOK
    <2>3. TypeOK'
      BY <1>1, <2>1 DEF TypeOK, MainPcs
    <2>4. HandshakeInv'
      BY <1>1, <2>1, ToSetEmpty DEF HandshakeInv, Handshake
    <2>5. PhaseInv'
      BY <1>1, <2>1, <2>2, ToSetEmpty DEF PhaseInv, DeletePcs
    <2>6. QED
      BY <2>3, <2>4, <2>5
  <1>4. QED
    BY <1>2, <1>3

\* RoutesChanged and Quit append one closure to the queue of every thread
\* of `threads`, which have all woken the main thread.
LEMMA BroadcastIInv ==
  ASSUME IInv, NEW c \in {"routes", "stop"},
         mainPc = "running",
         queue' = [t \in Ids |-> IF t \in ToSet(threads) /\ worker[t] = "live"
                                 THEN Append(queue[t], c) ELSE queue[t]],
         UNCHANGED <<threadPc, woken, worker, engine>>,
         ToSet(threads') \subseteq ToSet(threads)
  PROVE  /\ queue' \in [Ids -> Seq(Calls)]
         /\ \A t \in Ids : ToSet(queue'[t]) \subseteq ToSet(queue[t]) \cup {c}
         /\ \A t \in Ids : t \notin ToSet(threads) => queue'[t] = queue[t]
         /\ HandshakeInv'
  <1> USE DEF IInv
  <1>0. ToSet(threads) \subseteq Ids
    BY ToSetType DEF TypeOK
  <1>1. \A t \in ToSet(threads) : woken[t] /\ threadPc[t] \notin {"idle", "lock"}
    BY <1>0 DEF PhaseInv, HandshakeInv, Handshake, TypeOK
  <1>2. \A t \in Ids : ToSet(queue'[t]) \subseteq ToSet(queue[t]) \cup {c}
    BY ToSetAppend DEF TypeOK
  <1>3. queue' \in [Ids -> Seq(Calls)]
    BY DEF TypeOK, Calls
  <1>4. HandshakeInv'
    <2> SUFFICES ASSUME NEW t \in Ids PROVE Handshake(t)'
      BY DEF HandshakeInv
    <2>1. Handshake(t)
      BY DEF HandshakeInv
    <2>2. CASE t \in ToSet(threads)
      BY <1>1, <1>2, <2>1, <2>2 DEF Handshake
    <2>3. CASE t \notin ToSet(threads)
      BY <2>1, <2>3 DEF Handshake, TypeOK
    <2>4. QED
      BY <2>2, <2>3
  <1>5. \A t \in Ids : t \notin ToSet(threads) => queue'[t] = queue[t]
    OBVIOUS
  <1>6. QED
    BY <1>2, <1>3, <1>4, <1>5

LEMMA RoutesChangedIInv == IInv /\ RoutesChanged => IInv'
  <1> SUFFICES ASSUME IInv, RoutesChanged PROVE IInv'
    OBVIOUS
  <1> USE NAssumption, MaxReloadsAssumption DEF IInv
  <1>1. /\ mainPc = "running" /\ version < MaxReloads
        /\ version' = version + 1
        /\ queue' = [t \in Ids |-> IF t \in ToSet(threads) /\ worker[t] = "live"
                                   THEN Append(queue[t], "routes") ELSE queue[t]]
        /\ UNCHANGED <<mainPc, cur, threads, deleting, seen, quitReason,
                       threadPc, mutex, woken, worker, engine, applied, dangling>>
    BY DEF RoutesChanged
  <1>2. /\ queue' \in [Ids -> Seq(Calls)]
        /\ \A t \in Ids : ToSet(queue'[t]) \subseteq ToSet(queue[t]) \cup {"routes"}
        /\ HandshakeInv'
    BY <1>1, BroadcastIInv
  <1>3. TypeOK'
    BY <1>1, <1>2 DEF TypeOK, MainPcs
  <1>4. PhaseInv'
    BY <1>1, <1>2 DEF PhaseInv, TypeOK
  <1>5. QED
    BY <1>2, <1>3, <1>4

LEMMA QuitIInv == IInv /\ Quit => IInv'
  <1> SUFFICES ASSUME IInv, Quit PROVE IInv'
    OBVIOUS
  <1> USE NAssumption DEF IInv
  <1>1. /\ mainPc = "running"
        /\ queue' = [t \in Ids |-> IF t \in ToSet(threads) /\ worker[t] = "live"
                                   THEN Append(queue[t], "stop") ELSE queue[t]]
        /\ deleting' = threads
        /\ threads' = <<>>
        /\ quitReason' = "quit"
        /\ mainPc' = "delStop"
        /\ UNCHANGED <<cur, seen, version, threadPc, mutex, woken, worker,
                       engine, applied, dangling>>
    BY DEF Quit
  <1>2. /\ queue' \in [Ids -> Seq(Calls)]
        /\ \A t \in Ids : ToSet(queue'[t]) \subseteq ToSet(queue[t]) \cup {"stop"}
        /\ HandshakeInv'
    BY <1>1, BroadcastIInv, ToSetEmpty
  <1>3. threads # <<>>
    <2>1. Len(threads) = N
      BY <1>1 DEF PhaseInv
    <2>2. QED
      BY <2>1 DEF TypeOK
  <1>4. \A t \in ToSet(threads) : woken[t]
    BY DEF PhaseInv
  <1>5. TypeOK'
    BY <1>1, <1>2 DEF TypeOK, MainPcs
  <1>6. PhaseInv'
    BY <1>1, <1>2, <1>3, <1>4, ToSetEmpty DEF PhaseInv, TypeOK, DeletePcs
  <1>7. QED
    BY <1>2, <1>5, <1>6

LEMMA DeleteStopReadIInv == IInv /\ DeleteStopRead => IInv'
  <1> SUFFICES ASSUME IInv, DeleteStopRead PROVE IInv'
    OBVIOUS
  <1> USE DEF IInv
  <1>1. Head(deleting) \in Ids /\ mainPc = "delStop"
    BY DEF PhaseInv, TypeOK, DeletePcs, DeleteStopRead
  <1>2. /\ mutex' = [mutex EXCEPT ![Head(deleting)] = "main"]
        /\ seen' = (worker[Head(deleting)] = "live")
        /\ mainPc' = "delDefer"
        /\ UNCHANGED <<cur, threads, deleting, quitReason, version, threadPc,
                       woken, worker, engine, queue, applied, dangling>>
    BY DEF DeleteStopRead
  <1>3. TypeOK'
    BY <1>1, <1>2 DEF TypeOK, MainPcs
  <1>4. HandshakeInv'
    BY <1>2 DEF HandshakeInv, Handshake
  <1>5. PhaseInv'
    BY <1>1, <1>2 DEF PhaseInv, DeletePcs
  <1>6. QED
    BY <1>3, <1>4, <1>5

LEMMA DeleteStopDeferIInv == IInv /\ DeleteStopDefer => IInv'
  <1> SUFFICES ASSUME IInv, DeleteStopDefer PROVE IInv'
    OBVIOUS
  <1> USE DEF IInv
  <1> DEFINE d == Head(deleting)
  <1>1. /\ mainPc = "delDefer"
        /\ dangling' = (dangling \/ (seen /\ worker[d] = "null"))
        /\ mutex' = [mutex EXCEPT ![d] = "none"]
        /\ seen' = FALSE
        /\ mainPc' = "delJoin"
        /\ UNCHANGED <<cur, threads, deleting, quitReason, version, threadPc,
                       woken, worker, engine, applied>>
    BY DEF DeleteStopDefer
  <1>2. d \in Ids /\ woken[d] /\ quitReason # "none"
    BY <1>1, ToSetTail DEF PhaseInv, TypeOK, DeletePcs
  <1>3. CASE seen /\ worker[d] = "live"
    <2>1. queue' = [queue EXCEPT ![d] = Append(queue[d], "stop")]
      BY <1>3 DEF DeleteStopDefer, Defer
    <2>2. ToSet(queue'[d]) = ToSet(queue[d]) \cup {"stop"}
      BY <1>2, <2>1, ToSetAppend DEF TypeOK
    <2>3. threadPc[d] \notin {"idle", "lock"}
      BY <1>2, <1>3 DEF HandshakeInv, Handshake
    <2>4. TypeOK'
      <3>1. queue'[d] \in Seq(Calls)
        BY <1>2, <2>1 DEF TypeOK, Calls
      <3>2. queue' \in [Ids -> Seq(Calls)]
        BY <1>2, <2>1, <3>1 DEF TypeOK, Calls
      <3>3. dangling' \in BOOLEAN /\ mutex' \in [Ids -> {"none", "main", "worker"}]
        BY <1>1, <1>2 DEF TypeOK
      <3>4. QED
        BY <1>1, <3>2, <3>3, Zenon DEF TypeOK, MainPcs, Calls
    <2>5. HandshakeInv'
      BY <1>1, <1>2, <2>1, <2>2, <2>3 DEF HandshakeInv, Handshake, TypeOK
    <2>6. PhaseInv'
      BY <1>1, <1>2, <2>1, <2>2 DEF PhaseInv, TypeOK, DeletePcs
    <2>7. QED
      BY <2>4, <2>5, <2>6
  <1>4. CASE ~(seen /\ worker[d] = "live")
    <2>1. UNCHANGED queue
      BY <1>4 DEF DeleteStopDefer
    <2>2. TypeOK'
      BY <1>1, <1>2, <2>1 DEF TypeOK, MainPcs
    <2>3. HandshakeInv'
      BY <1>1, <2>1 DEF HandshakeInv, Handshake
    <2>4. PhaseInv'
      BY <1>1, <2>1 DEF PhaseInv, DeletePcs
    <2>5. QED
      BY <2>2, <2>3, <2>4
  <1>5. QED
    BY <1>3, <1>4

LEMMA DeleteJoinIInv == IInv /\ DeleteJoin => IInv'
  <1> SUFFICES ASSUME IInv, DeleteJoin PROVE IInv'
    OBVIOUS
  <1> USE DEF IInv
  <1>1. /\ mainPc = "delJoin"
        /\ deleting' = Tail(deleting)
        /\ mainPc' = IF Tail(deleting) = <<>> THEN "exited" ELSE "delStop"
        /\ UNCHANGED <<cur, threads, seen, quitReason, version, threadPc,
                       mutex, woken, worker, engine, queue, applied, dangling>>
    BY DEF DeleteJoin
  <1>2. deleting \in Seq(Ids) /\ deleting # <<>> /\ quitReason # "none"
    BY <1>1 DEF PhaseInv, TypeOK, DeletePcs
  <1>3. ToSet(Tail(deleting)) \subseteq ToSet(deleting)
    BY <1>2, ToSetTail
  <1>4. TypeOK'
    <2>1. Tail(deleting) \in Seq(Ids)
      BY <1>2
    <2>2. QED
      BY <1>1, <2>1, Zenon DEF TypeOK, MainPcs
  <1>5. HandshakeInv'
    BY <1>1 DEF HandshakeInv, Handshake
  <1>6. PhaseInv'
    BY <1>1, <1>2, <1>3 DEF PhaseInv, DeletePcs
  <1>7. QED
    BY <1>4, <1>5, <1>6

LEMMA WorkerRunIInv ==
  ASSUME NEW w \in Ids, IInv, WorkerRun(w)
  PROVE  IInv'
  <1> USE DEF IInv
  <1>1. /\ threadPc[w] = "lock"
        /\ mutex' = [mutex EXCEPT ![w] = "worker"]
        /\ worker' = [worker EXCEPT ![w] = "live"]
        /\ queue' = [queue EXCEPT ![w] = Append(queue[w], "start")]
        /\ threadPc' = [threadPc EXCEPT ![w] = "exec"]
        /\ UNCHANGED <<mainPc, cur, threads, deleting, seen, quitReason,
                       version, woken, engine, applied, dangling>>
    BY DEF WorkerRun, Defer
  <1>2. queue[w] = <<>> /\ ~woken[w] /\ engine[w] = "none"
        /\ w \notin ToSet(threads)
    BY <1>1 DEF HandshakeInv, Handshake
  <1>3. queue'[w] = <<"start">>
    BY <1>1, <1>2 DEF TypeOK
  <1>4. w \notin ToSet(deleting)
    BY <1>2 DEF PhaseInv
  <1>5. "stop" \notin ToSet(<<"start">>) /\ "start" \in ToSet(<<"start">>)
    BY ToSetSingleton
  <1>6. TypeOK'
    BY <1>1, <1>3 DEF TypeOK, Calls
  <1>7. HandshakeInv'
    BY <1>1, <1>2, <1>3 DEF HandshakeInv, Handshake, TypeOK
  <1>8. PhaseInv'
    <2>1. \A t \in Ids : "stop" \in ToSet(queue'[t]) => quitReason # "none"
      <3> SUFFICES ASSUME NEW t \in Ids, "stop" \in ToSet(queue'[t])
                   PROVE  quitReason # "none"
        OBVIOUS
      <3>1. CASE t = w
        BY <1>3, <1>5, <3>1
      <3>2. CASE t # w
        BY <1>1, <3>2 DEF PhaseInv, TypeOK
      <3>3. QED
        BY <3>1, <3>2
    <2>2. mainPc \in {"spawn", "wait"} =>
            /\ (mainPc = "spawn" => threadPc'[cur] = "idle")
            /\ \A t \in Ids : t > cur => threadPc'[t] = "idle"
      BY <1>1 DEF PhaseInv, TypeOK
    <2>3. QED
      BY <1>1, <2>1, <2>2 DEF PhaseInv
  <1>9. QED
    BY <1>6, <1>7, <1>8

LEMMA WorkerStartIInv ==
  ASSUME NEW w \in Ids, IInv, WorkerStart(w)
  PROVE  IInv'
  <1> USE DEF IInv
  <1>1. /\ threadPc[w] = "exec" /\ queue[w] # <<>>
        /\ Head(queue[w]) = "start"
        /\ woken' = [woken EXCEPT ![w] = TRUE]
        /\ mutex' = [mutex EXCEPT ![w] = "none"]
        /\ UNCHANGED <<mainPc, cur, threads, deleting, seen, quitReason,
                       version, applied, dangling>>
    BY DEF WorkerStart
  <1>2. ~woken[w]
    BY <1>1, ToSetTail DEF HandshakeInv, Handshake, TypeOK
  <1>3. queue[w] = <<"start">> /\ w \notin ToSet(threads)
        /\ w \notin ToSet(deleting) /\ engine[w] = "none"
    BY <1>1, <1>2 DEF HandshakeInv, Handshake, PhaseInv
  <1>4. CASE /\ engine' = [engine EXCEPT ![w] = "running"]
             /\ queue' = [queue EXCEPT ![w] = Tail(queue[w])]
             /\ UNCHANGED <<worker, threadPc>>
    <2>1. queue'[w] = <<>>
      BY <1>3, <1>4 DEF TypeOK
    <2>2. TypeOK'
      BY <1>1, <1>4, <2>1 DEF TypeOK
    <2>3. HandshakeInv'
      BY <1>1, <1>3, <1>4, <2>1, ToSetEmpty DEF HandshakeInv, Handshake, TypeOK
    <2>4. PhaseInv'
      <3>1. \A t \in Ids : "stop" \in ToSet(queue'[t]) => quitReason # "none"
        <4> SUFFICES ASSUME NEW t \in Ids, "stop" \in ToSet(queue'[t])
                     PROVE  quitReason # "none"
          OBVIOUS
        <4>1. CASE t = w
          BY <2>1, <4>1, ToSetEmpty
        <4>2. CASE t # w
          BY <1>4, <4>2 DEF PhaseInv, TypeOK
        <4>3. QED
          BY <4>1, <4>2
      <3>2. \A t \in ToSet(threads) : worker'[t] = "live" /\ woken'[t]
        BY <1>1, <1>3, <1>4, ToSetType DEF PhaseInv, TypeOK
      <3>3. \A t \in ToSet(deleting) : woken'[t]
        BY <1>1, <1>3, ToSetType DEF PhaseInv, TypeOK
      <3>4. QED
        BY <1>1, <1>4, <3>1, <3>2, <3>3 DEF PhaseInv
    <2>5. QED
      BY <2>2, <2>3, <2>4
  <1>5. CASE /\ engine' = [engine EXCEPT ![w] = "failed"]
             /\ worker' = [worker EXCEPT ![w] = "null"]
             /\ queue' = [queue EXCEPT ![w] = <<>>]
             /\ threadPc' = [threadPc EXCEPT ![w] = "done"]
    <2>1. TypeOK'
      BY <1>1, <1>5 DEF TypeOK
    <2>2. HandshakeInv'
      BY <1>1, <1>3, <1>5, ToSetEmpty DEF HandshakeInv, Handshake, TypeOK
    <2>3. PhaseInv'
      <3>1. \A t \in Ids : "stop" \in ToSet(queue'[t]) => quitReason # "none"
        <4> SUFFICES ASSUME NEW t \in Ids, "stop" \in ToSet(queue'[t])
                     PROVE  quitReason # "none"
          OBVIOUS
        <4>1. CASE t = w
          BY <1>5, <4>1, ToSetEmpty DEF TypeOK
        <4>2. CASE t # w
          BY <1>5, <4>2 DEF PhaseInv, TypeOK
        <4>3. QED
          BY <4>1, <4>2
      <3>2. \A t \in ToSet(threads) : worker'[t] = "live" /\ woken'[t]
        BY <1>1, <1>3, <1>5, ToSetType DEF PhaseInv, TypeOK
      <3>3. mainPc \in {"spawn", "wait"} =>
              /\ (mainPc = "spawn" => threadPc'[cur] = "idle")
              /\ \A t \in Ids : t > cur => threadPc'[t] = "idle"
        BY <1>1, <1>5 DEF PhaseInv, TypeOK
      <3>4. \A t \in ToSet(deleting) : woken'[t]
        BY <1>1, <1>3, ToSetType DEF PhaseInv, TypeOK
      <3>5. QED
        BY <1>1, <1>5, <3>1, <3>2, <3>3, <3>4 DEF PhaseInv
    <2>4. QED
      BY <2>1, <2>2, <2>3
  <1>6. QED
    BY <1>4, <1>5 DEF WorkerStart

LEMMA WorkerStopIInv ==
  ASSUME NEW w \in Ids, IInv, WorkerStop(w)
  PROVE  IInv'
  <1> USE DEF IInv
  <1>1. /\ threadPc[w] = "exec" /\ queue[w] # <<>>
        /\ Head(queue[w]) = "stop"
        /\ engine' = [engine EXCEPT ![w] = "stopped"]
        /\ worker' = [worker EXCEPT ![w] = "null"]
        /\ queue' = [queue EXCEPT ![w] = <<>>]
        /\ threadPc' = [threadPc EXCEPT ![w] = "done"]
        /\ UNCHANGED <<mainPc, cur, threads, deleting, seen, quitReason,
                       version, mutex, woken, applied, dangling>>
    BY DEF WorkerStop
  <1>2. woken[w]
    BY <1>1, QueueFacts
  <1>3. quitReason # "none" /\ threads = <<>>
    BY <1>1, ToSetTail DEF PhaseInv, TypeOK
  <1>4. TypeOK'
    BY <1>1 DEF TypeOK
  <1>5. HandshakeInv'
    BY <1>1, <1>2, <1>3, ToSetEmpty DEF HandshakeInv, Handshake, TypeOK
  <1>6. PhaseInv'
    BY <1>1, <1>3, ToSetEmpty DEF PhaseInv, TypeOK
  <1>7. QED
    BY <1>4, <1>5, <1>6

LEMMA WorkerRoutesChangedIInv ==
  ASSUME NEW w \in Ids, IInv, WorkerRoutesChanged(w)
  PROVE  IInv'
  <1> USE DEF IInv
  <1>1. /\ threadPc[w] = "exec" /\ queue[w] # <<>>
        /\ Head(queue[w]) = "routes"
        /\ applied' = IF engine[w] = "running"
                      THEN [applied EXCEPT ![w] = version] ELSE applied
        /\ queue' = [queue EXCEPT ![w] = Tail(queue[w])]
        /\ UNCHANGED <<mainPc, cur, threads, deleting, seen, quitReason,
                       version, threadPc, mutex, woken, worker, engine, dangling>>
    BY DEF WorkerRoutesChanged
  <1>2. woken[w]
    BY <1>1, QueueFacts
  <1>3. ToSet(queue'[w]) \subseteq ToSet(queue[w]) /\ queue'[w] \in Seq(Calls)
    BY <1>1, ToSetTail DEF TypeOK
  <1>4. TypeOK'
    BY <1>1, <1>3 DEF TypeOK
  <1>5. HandshakeInv'
    BY <1>1, <1>2, <1>3 DEF HandshakeInv, Handshake, TypeOK
  <1>6. PhaseInv'
    BY <1>1, <1>3 DEF PhaseInv, TypeOK
  <1>7. QED
    BY <1>4, <1>5, <1>6

LEMMA NextIInv == IInv /\ [Next]_vars => IInv'
  <1> SUFFICES ASSUME IInv, [Next]_vars PROVE IInv'
    OBVIOUS
  <1>1. CASE ThreadStart
    BY <1>1, ThreadStartIInv
  <1>2. CASE ThreadStarted
    BY <1>2, ThreadStartedIInv
  <1>3. CASE RoutesChanged
    BY <1>3, RoutesChangedIInv
  <1>4. CASE Quit
    BY <1>4, QuitIInv
  <1>5. CASE DeleteStopRead
    BY <1>5, DeleteStopReadIInv
  <1>6. CASE DeleteStopDefer
    BY <1>6, DeleteStopDeferIInv
  <1>7. CASE DeleteJoin
    BY <1>7, DeleteJoinIInv
  <1>8. ASSUME NEW w \in Ids, WorkerStep(w)
        PROVE  IInv'
    BY <1>8, WorkerRunIInv, WorkerStartIInv, WorkerStopIInv,
       WorkerRoutesChangedIInv DEF WorkerStep
  <1>9. CASE Terminated \/ UNCHANGED vars
    <2>1. UNCHANGED vars
      BY <1>9 DEF Terminated
    <2>2. QED
      BY <2>1 DEF vars, IInv, TypeOK, Handshake, HandshakeInv, PhaseInv
  <1>10. QED
    BY <1>1, <1>2, <1>3, <1>4, <1>5, <1>6, <1>7, <1>8, <1>9
       DEF Next, MainStep, Signal

(***************************************************************************)
(* The theorems.                                                           *)
(***************************************************************************)

\* The startup handshake and the main thread's phases (IInv) hold in every
\* reachable state: start() is deferred once, first, and has run before
\* the main thread wakes; a stop() is deferred only after `threads` was
\* cleared; every thread start() accepted and every thread being deleted
\* has woken the main thread.
THEOREM IInvHolds == Spec => []IInv
  BY InitIInv, NextIInv, PTL DEF Spec

\* The supervisor's variables always have their types.
THEOREM TypeCorrect == Spec => []TypeOK
  <1>1. IInv => TypeOK
    BY DEF IInv
  <1>2. QED
    BY InitIInv, NextIInv, <1>1, PTL DEF Spec

\* For every number of workers: every EngineThread that runLoop keeps in
\* `threads` has a running engine, i.e. EngineThread::start() returns true
\* only for a worker whose Engine::start() succeeded.
THEOREM AcceptedRunning == Spec => []AcceptedWorkersRunning
  <1>1. IInv => AcceptedWorkersRunning
    <2> SUFFICES ASSUME IInv, NEW t \in ToSet(threads) PROVE engine[t] = "running"
      BY DEF AcceptedWorkersRunning
    <2>1. t \in Ids
      BY ToSetType DEF IInv, TypeOK
    <2>2. worker[t] = "live" /\ woken[t]
      BY DEF IInv, PhaseInv
    <2>3. QED
      BY <2>1, <2>2 DEF IInv, HandshakeInv, Handshake
  <1>2. QED
    BY InitIInv, NextIInv, <1>1, PTL DEF Spec

=============================================================================
