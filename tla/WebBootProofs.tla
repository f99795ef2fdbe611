---------------------------- MODULE WebBootProofs ----------------------------
(***************************************************************************)
(* The browser boot: whatever the workers answer and in whatever order     *)
(* answers, failures, timeout and reloads come, the shell shows nothing    *)
(* that is not so, and the page reloads itself at most once in a session.  *)
(***************************************************************************)
EXTENDS WebBoot, TLAPS

\* Before the workers are started nothing is on the board or in a queue.
Untouched ==
  main \in {"start", "registered", "waiting"} =>
    /\ \A w \in Workers :
         worker[w] = "none" /\ inbox[w] = <<>> /\ outbox[w] = <<>> /\ slot[w] = "pending"
    /\ facts = {} /\ timer = "off" /\ resolved = {} /\ result = NoResult

\* What the CPU worker has posted and what of it has arrived.  All of it is
\* posted at once, when the worker comes up or stops.
CpuStory ==
  /\ worker["cpu"] \notin {"ready", "stopped"} =>
       outbox["cpu"] = <<>> /\ "layout" \notin facts /\ "cpuBackend" \notin facts /\ "cpu" \notin resolved
  /\ worker["cpu"] = "ready" =>
       \/ outbox["cpu"] = <<"layout", "ready">> /\ "layout" \notin facts
       \/ outbox["cpu"] \in {<<"ready">>, <<>>} /\ "layout" \in facts
  /\ worker["cpu"] = "stopped" =>
       /\ "cpuBackend" \notin facts
       /\ \/ outbox["cpu"] = <<"layout", "error">> /\ "layout" \notin facts
          \/ outbox["cpu"] \in {<<"error">>, <<"uncaught">>, <<>>}
  /\ "cpuBackend" \in facts => slot["cpu"] = "ready" /\ outbox["cpu"] = <<>>
  /\ "cpu" \in resolved => outbox["cpu"] = <<>>

\* The GPU worker is told to start by the layout, once.
GpuStory ==
  /\ worker["gpu"] \notin {"ready", "stopped"} =>
       outbox["gpu"] = <<>> /\ "adapterLabel" \notin facts /\ "gpu" \notin resolved
  /\ worker["gpu"] = "ready" => outbox["gpu"] \in {<<"ready">>, <<>>}
  /\ worker["gpu"] = "stopped" =>
       outbox["gpu"] \in {<<"error">>, <<"uncaught">>, <<>>} /\ "adapterLabel" \notin facts
  /\ worker["gpu"] \in {"loading", "ready"} \/ inbox["gpu"] # <<>> => "layout" \in facts
  /\ "adapterLabel" \in facts => slot["gpu"] = "ready" /\ outbox["gpu"] = <<>>
  /\ "gpu" \in resolved => outbox["gpu"] = <<>>

\* A resolved promise has left its mark on the board.
Marked ==
  /\ \A w \in Workers : w \in resolved => slot[w] # "pending"
  /\ "timeout" \in resolved => timer = "fired" /\ \A w \in Workers : slot[w] # "pending"
  /\ main \in {"mounting", "shell"} => RaceSettled
  /\ result # NoResult =>
       /\ result \subseteq facts
       /\ "cpuBackend" \in result \/ "adapterLabel" \in result => "layout" \in result

\* TypeOK without the queues, which Queues bounds better.
Typed ==
  /\ host \in [headers : BOOLEAN, api : BOOLEAN]
  /\ sw \in {"none", "installing", "active"}
  /\ attempted \in BOOLEAN
  /\ reloads \in 0 .. MaxReloads
  /\ main \in {"start", "registered", "waiting", "racing", "mounting", "shell", "fatal"}
  /\ isolated \in BOOLEAN
  /\ worker \in [Workers -> {"none", "starting", "idle", "loading", "ready", "stopped"}]
  /\ slot \in [Workers -> {"pending", "ready", "failed"}]
  /\ facts \subseteq Facts
  /\ timer \in {"off", "armed", "fired"}
  /\ resolved \subseteq Workers \cup {"timeout"}
  /\ result = NoResult \/ result \subseteq Facts

\* What a queue can hold.
Boxes == {<<>>, <<"layout", "ready">>, <<"ready">>, <<"layout", "error">>, <<"error">>,
          <<"uncaught">>}
Queues == inbox \in [Workers -> {<<>>, <<"init">>}] /\ outbox \in [Workers -> Boxes]

IInv == Typed /\ Queues /\ Untouched /\ CpuStory /\ GpuStory /\ Marked

\* The page asks for the reload at most once, and only then makes it.
OneReload ==
  /\ reloads \in {0, 1} /\ attempted \in BOOLEAN
  /\ ~attempted => reloads = 0
  /\ main = "waiting" => attempted /\ reloads = 0

-----------------------------------------------------------------------------
(* Queues.                                                                 *)

LEMMA Received ==
  /\ Head(<<"layout", "ready">>) = "layout" /\ Tail(<<"layout", "ready">>) = <<"ready">>
  /\ Head(<<"layout", "error">>) = "layout" /\ Tail(<<"layout", "error">>) = <<"error">>
  /\ Head(<<"ready">>) = "ready" /\ Tail(<<"ready">>) = <<>>
  /\ Head(<<"error">>) = "error" /\ Tail(<<"error">>) = <<>>
  /\ Head(<<"uncaught">>) = "uncaught" /\ Tail(<<"uncaught">>) = <<>>
  /\ Tail(<<"init">>) = <<>>
OBVIOUS

LEMMA Posted ==
  /\ \A box \in Boxes : <<>> \o box = box
  /\ Append(<<>>, "init") = <<"init">>
BY DEF Boxes

LEMMA Distinct ==
  /\ \A box \in Boxes : Len(box) <= 2
        /\ \A i \in DOMAIN box : box[i] \in {"layout", "ready", "error", "uncaught"}
  /\ <<>> # <<"ready">> /\ <<>> # <<"layout", "ready">> /\ <<>> # <<"init">>
  /\ <<"ready">> # <<"layout", "ready">>
BY DEF Boxes

-----------------------------------------------------------------------------
(* The main thread, as long as it leaves workers and board alone.          *)

\* A step of boot() between the reload and the mounted shell.
LEMMA MainMoves ==
  ASSUME IInv, UNCHANGED <<threads, board, host, reloads, isolated>>,
         sw' \in {"none", "installing", "active"}, attempted' \in BOOLEAN,
         main' \in {"start", "registered", "waiting", "racing", "mounting", "shell", "fatal"},
         main' \in {"start", "registered", "waiting"} => main \in {"start", "registered", "waiting"},
         main' \in {"mounting", "shell"} => main \in {"mounting", "shell"}
  PROVE  IInv'
<1>1. Typed'
  BY DEF IInv, Typed, threads, board
<1>2. Queues'
  BY DEF IInv, Queues, Boxes, threads, board
<1>3. Untouched'
  BY DEF IInv, Untouched, threads, board
<1>4. CpuStory'
  BY DEF IInv, CpuStory, threads, board
<1>5. GpuStory'
  BY DEF IInv, GpuStory, threads, board
<1>6. Marked'
  BY DEF IInv, Marked, RaceSettled, threads, board
<1> QED BY <1>1, <1>2, <1>3, <1>4, <1>5, <1>6 DEF IInv

\* A page load, by the user or by the page itself.
LEMMA PageOpens ==
  ASSUME IInv, NEW isolation \in BOOLEAN, OpenPage(isolation),
         UNCHANGED <<host, sw, attempted>>, reloads' \in 0 .. MaxReloads
  PROVE  IInv'
<1>1. Typed'
  BY DEF IInv, Typed, Facts, OpenPage, Workers, NoResult
<1>2. Queues'
  BY DEF IInv, Queues, Boxes, OpenPage, Workers
<1>3. Untouched'
  BY DEF IInv, Untouched, OpenPage, Workers
<1>4. CpuStory'
  BY DEF IInv, CpuStory, OpenPage, Workers
<1>5. GpuStory'
  BY DEF IInv, GpuStory, OpenPage, Workers
<1>6. Marked'
  BY DEF IInv, Marked, RaceSettled, OpenPage, Workers, NoResult
<1> QED BY <1>1, <1>2, <1>3, <1>4, <1>5, <1>6 DEF IInv

-----------------------------------------------------------------------------
(* The workers start, answer and fail.                                     *)

\* The workers are started on an untouched board.
LEMMA StartWorkersKeeps ==
  ASSUME IInv, StartWorkers
  PROVE  IInv'
<1>1. Typed'
  BY DEF IInv, Typed, Facts, Workers, StartWorkers, session, threads, board
<1>2. Queues'
  BY DEF IInv, Queues, Boxes, Workers, CpuStory, GpuStory, Untouched,
         StartWorkers, session, threads, board
<1>3. Untouched'
  BY DEF IInv, Untouched, CpuStory, GpuStory, Workers, StartWorkers, session,
         threads, board
<1>4. CpuStory'
  BY DEF IInv, CpuStory, Typed, Queues, Boxes, Workers, Untouched, GpuStory,
         StartWorkers, session, threads, board
<1>5. GpuStory'
  BY DEF IInv, GpuStory, Typed, Queues, Boxes, Workers, Untouched, CpuStory,
         StartWorkers, session, threads, board
<1>6. Marked'
  BY DEF IInv, Marked, RaceSettled, Typed, CpuStory, GpuStory, Workers, NoResult,
         Facts, Untouched, StartWorkers, session, threads, board
<1> QED BY <1>1, <1>2, <1>3, <1>4, <1>5, <1>6 DEF IInv

\* The layout arrives before anything else of the CPU worker, and once.
LEMMA LayoutArrivesKeeps ==
  ASSUME IInv, LayoutArrives
  PROVE  IInv'
<1>1. Typed'
  BY Received, Posted, Distinct DEF IInv, Typed, Facts, Workers, LayoutArrives,
                                    Receive, session, threads, board
<1>2. Queues'
  BY Received, Posted, Distinct DEF IInv, Queues, Boxes, Workers, CpuStory,
                                    GpuStory, Untouched, LayoutArrives, Receive,
                                    session, threads, board
<1>3. Untouched'
  BY Received, Posted, Distinct DEF IInv, Untouched, CpuStory, GpuStory, Workers,
                                    LayoutArrives, Receive, session, threads,
                                    board
<1>4. CpuStory'
  BY Received, Posted, Distinct DEF IInv, CpuStory, Typed, Queues, Boxes, Workers,
                                    Untouched, GpuStory, LayoutArrives, Receive,
                                    session, threads, board
<1>5. GpuStory'
  BY Received, Posted, Distinct DEF IInv, GpuStory, Typed, Queues, Boxes, Workers,
                                    Untouched, CpuStory, LayoutArrives, Receive,
                                    session, threads, board
<1>6. Marked'
  BY Received, Posted, Distinct DEF IInv, Marked, RaceSettled, Typed, CpuStory,
                                    GpuStory, Workers, NoResult, Facts, Untouched,
                                    LayoutArrives, Receive, session, threads,
                                    board
<1> QED BY <1>1, <1>2, <1>3, <1>4, <1>5, <1>6 DEF IInv

\* The CPU worker's ready is behind its layout.
LEMMA CpuReadyKeeps ==
  ASSUME IInv, CpuReady
  PROVE  IInv'
<1>1. Typed'
  BY Received, Distinct DEF IInv, Typed, Facts, Workers, CpuReady, Receive,
                            Settle, session, threads, board
<1>2. Queues'
  BY Received, Distinct DEF IInv, Queues, Boxes, Workers, CpuStory, GpuStory,
                            Untouched, CpuReady, Receive, Settle, session,
                            threads, board
<1>3. Untouched'
  BY Received, Distinct DEF IInv, Untouched, CpuStory, GpuStory, Workers,
                            CpuReady, Receive, Settle, session, threads, board
<1>4. CpuStory'
  BY Received, Distinct DEF IInv, CpuStory, Typed, Queues, Boxes, Workers,
                            Untouched, GpuStory, CpuReady, Receive, Settle,
                            session, threads, board
<1>5. GpuStory'
  BY Received, Distinct DEF IInv, GpuStory, Typed, Queues, Boxes, Workers,
                            Untouched, CpuStory, CpuReady, Receive, Settle,
                            session, threads, board
<1>6. Marked'
  BY Received, Distinct DEF IInv, Marked, RaceSettled, Typed, CpuStory, GpuStory,
                            Workers, NoResult, Facts, Untouched, CpuReady,
                            Receive, Settle, session, threads, board
<1> QED BY <1>1, <1>2, <1>3, <1>4, <1>5, <1>6 DEF IInv

\* The GPU worker was only started by the layout.
LEMMA GpuReadyKeeps ==
  ASSUME IInv, GpuReady
  PROVE  IInv'
<1>1. Typed'
  BY Received, Distinct DEF IInv, Typed, Facts, Workers, GpuReady, Receive,
                            Settle, session, threads, board
<1>2. Queues'
  BY Received, Distinct DEF IInv, Queues, Boxes, Workers, CpuStory, GpuStory,
                            Untouched, GpuReady, Receive, Settle, session,
                            threads, board
<1>3. Untouched'
  BY Received, Distinct DEF IInv, Untouched, CpuStory, GpuStory, Workers,
                            GpuReady, Receive, Settle, session, threads, board
<1>4. CpuStory'
  BY Received, Distinct DEF IInv, CpuStory, Typed, Queues, Boxes, Workers,
                            Untouched, GpuStory, GpuReady, Receive, Settle,
                            session, threads, board
<1>5. GpuStory'
  BY Received, Distinct DEF IInv, GpuStory, Typed, Queues, Boxes, Workers,
                            Untouched, CpuStory, GpuReady, Receive, Settle,
                            session, threads, board
<1>6. Marked'
  BY Received, Distinct DEF IInv, Marked, RaceSettled, Typed, CpuStory, GpuStory,
                            Workers, NoResult, Facts, Untouched, GpuReady,
                            Receive, Settle, session, threads, board
<1> QED BY <1>1, <1>2, <1>3, <1>4, <1>5, <1>6 DEF IInv

\* The timeout fails only what is pending.
LEMMA TimeoutKeeps ==
  ASSUME IInv, Timeout
  PROVE  IInv'
<1>1. Typed'
  BY DEF IInv, Typed, Facts, Workers, Timeout, session, threads, board
<1>2. Queues'
  BY DEF IInv, Queues, Boxes, Workers, CpuStory, GpuStory, Untouched, Timeout,
         session, threads, board
<1>3. Untouched'
  BY DEF IInv, Untouched, CpuStory, GpuStory, Workers, Timeout, session, threads,
         board
<1>4. CpuStory'
  BY DEF IInv, CpuStory, Typed, Queues, Boxes, Workers, Untouched, GpuStory,
         Timeout, session, threads, board
<1>5. GpuStory'
  BY DEF IInv, GpuStory, Typed, Queues, Boxes, Workers, Untouched, CpuStory,
         Timeout, session, threads, board
<1>6. Marked'
  BY DEF IInv, Marked, RaceSettled, Typed, CpuStory, GpuStory, Workers, NoResult,
         Facts, Untouched, Timeout, session, threads, board
<1> QED BY <1>1, <1>2, <1>3, <1>4, <1>5, <1>6 DEF IInv

\* boot() returns what is known when the race is settled.
LEMMA BootReturnsKeeps ==
  ASSUME IInv, BootReturns
  PROVE  IInv'
<1>1. Typed'
  BY DEF IInv, Typed, Facts, Workers, BootReturns, MicrotaskPending, session,
         threads, board
<1>2. Queues'
  BY DEF IInv, Queues, Boxes, Workers, CpuStory, GpuStory, Untouched, BootReturns,
         MicrotaskPending, session, threads, board
<1>3. Untouched'
  BY DEF IInv, Untouched, CpuStory, GpuStory, Workers, BootReturns,
         MicrotaskPending, session, threads, board
<1>4. CpuStory'
  BY DEF IInv, CpuStory, Typed, Queues, Boxes, Workers, Untouched, GpuStory,
         BootReturns, MicrotaskPending, session, threads, board
<1>5. GpuStory'
  BY DEF IInv, GpuStory, Typed, Queues, Boxes, Workers, Untouched, CpuStory,
         BootReturns, MicrotaskPending, session, threads, board
<1>6. Marked'
  <2>1. "cpuBackend" \in facts \/ "adapterLabel" \in facts => "layout" \in facts
    <3>1. worker \in [Workers -> {"none", "starting", "idle", "loading", "ready", "stopped"}]
      BY DEF IInv, Typed
    <3>2. "cpuBackend" \in facts => worker["cpu"] = "ready"
      BY <3>1 DEF IInv, CpuStory, Workers
    <3>3. "adapterLabel" \in facts => worker["gpu"] = "ready"
      BY <3>1 DEF IInv, GpuStory, Workers
    <3> QED BY <3>2, <3>3 DEF IInv, CpuStory, GpuStory
  <2>2. result' = facts /\ main' = "mounting" /\ RaceSettled
    BY DEF BootReturns, MicrotaskPending
  <2>3. UNCHANGED <<slot, facts, timer, resolved>>
    BY DEF BootReturns
  <2> QED BY <2>1, <2>2, <2>3 DEF IInv, Marked, RaceSettled
<1> QED BY <1>1, <1>2, <1>3, <1>4, <1>5, <1>6 DEF IInv

\* An error of the CPU worker arrives.
LEMMA CpuFailsKeeps ==
  ASSUME IInv, Receive("cpu", {"error", "uncaught"}), Settle("cpu", "failed"),
         UNCHANGED <<session, main, isolated, worker, inbox, facts, timer, result>>
  PROVE  IInv'
<1>1. Typed'
  BY Received, Distinct DEF IInv, Typed, Facts, Workers, Receive, Settle, session,
                            threads, board
<1>2. Queues'
  BY Received, Distinct DEF IInv, Queues, Boxes, Workers, CpuStory, GpuStory,
                            Untouched, Receive, Settle, session, threads, board
<1>3. Untouched'
  BY Received, Distinct DEF IInv, Untouched, CpuStory, GpuStory, Workers, Receive,
                            Settle, session, threads, board
<1>4. CpuStory'
  BY Received, Distinct DEF IInv, CpuStory, Typed, Queues, Boxes, Workers,
                            Untouched, GpuStory, Receive, Settle, session,
                            threads, board
<1>5. GpuStory'
  BY Received, Distinct DEF IInv, GpuStory, Typed, Queues, Boxes, Workers,
                            Untouched, CpuStory, Receive, Settle, session,
                            threads, board
<1>6. Marked'
  BY Received, Distinct DEF IInv, Marked, RaceSettled, Typed, CpuStory, GpuStory,
                            Workers, NoResult, Facts, Untouched, Receive, Settle,
                            session, threads, board
<1> QED BY <1>1, <1>2, <1>3, <1>4, <1>5, <1>6 DEF IInv

\* The CPU worker's script runs.
LEMMA CpuStartsKeeps ==
  ASSUME IInv, worker["cpu"] = "starting", Become("cpu", "idle"),
         UNCHANGED <<session, main, isolated, inbox, outbox, board>>
  PROVE  IInv'
<1>1. Typed'
  BY DEF IInv, Typed, Facts, Workers, Become, session, threads, board
<1>2. Queues'
  BY DEF IInv, Queues, Boxes, Workers, CpuStory, GpuStory, Untouched, Become,
         session, threads, board
<1>3. Untouched'
  BY DEF IInv, Untouched, CpuStory, GpuStory, Workers, Become, session, threads,
         board
<1>4. CpuStory'
  BY DEF IInv, CpuStory, Typed, Queues, Boxes, Workers, Untouched, GpuStory,
         Become, session, threads, board
<1>5. GpuStory'
  BY DEF IInv, GpuStory, Typed, Queues, Boxes, Workers, Untouched, CpuStory,
         Become, session, threads, board
<1>6. Marked'
  BY DEF IInv, Marked, RaceSettled, Typed, CpuStory, GpuStory, Workers, NoResult,
         Facts, Untouched, Become, session, threads, board
<1> QED BY <1>1, <1>2, <1>3, <1>4, <1>5, <1>6 DEF IInv

\* The CPU worker's script cannot be fetched or throws.
LEMMA CpuScriptFailsKeeps ==
  ASSUME IInv, worker["cpu"] = "starting", Become("cpu", "stopped"), Post("cpu", <<"uncaught">>),
         UNCHANGED <<session, main, isolated, inbox, board>>
  PROVE  IInv'
<1>1. Typed'
  BY Posted, Distinct DEF IInv, Typed, Facts, Workers, Become, Post, session,
                          threads, board
<1>2. Queues'
  BY Posted, Distinct DEF IInv, Queues, Boxes, Workers, CpuStory, GpuStory,
                          Untouched, Become, Post, session, threads, board
<1>3. Untouched'
  BY Posted, Distinct DEF IInv, Untouched, CpuStory, GpuStory, Workers, Become,
                          Post, session, threads, board
<1>4. CpuStory'
  BY Posted, Distinct DEF IInv, CpuStory, Typed, Queues, Boxes, Workers,
                          Untouched, GpuStory, Become, Post, session, threads,
                          board
<1>5. GpuStory'
  BY Posted, Distinct DEF IInv, GpuStory, Typed, Queues, Boxes, Workers,
                          Untouched, CpuStory, Become, Post, session, threads,
                          board
<1>6. Marked'
  BY Posted, Distinct DEF IInv, Marked, RaceSettled, Typed, CpuStory, GpuStory,
                          Workers, NoResult, Facts, Untouched, Become, Post,
                          session, threads, board
<1> QED BY <1>1, <1>2, <1>3, <1>4, <1>5, <1>6 DEF IInv

\* The CPU worker takes its init message.
LEMMA CpuInitKeeps ==
  ASSUME IInv, worker["cpu"] = "idle", inbox["cpu"] # <<>>, Become("cpu", "loading"),
         inbox' = [inbox EXCEPT !["cpu"] = Tail(@)],
         UNCHANGED <<session, main, isolated, outbox, board>>
  PROVE  IInv'
<1>1. Typed'
  BY Received, Distinct DEF IInv, Typed, Facts, Workers, Become, session, threads,
                            board
<1>2. Queues'
  BY Received, Distinct DEF IInv, Queues, Boxes, Workers, CpuStory, GpuStory,
                            Untouched, Become, session, threads, board
<1>3. Untouched'
  BY Received, Distinct DEF IInv, Untouched, CpuStory, GpuStory, Workers, Become,
                            session, threads, board
<1>4. CpuStory'
  BY Received, Distinct DEF IInv, CpuStory, Typed, Queues, Boxes, Workers,
                            Untouched, GpuStory, Become, session, threads, board
<1>5. GpuStory'
  BY Received, Distinct DEF IInv, GpuStory, Typed, Queues, Boxes, Workers,
                            Untouched, CpuStory, Become, session, threads, board
<1>6. Marked'
  BY Received, Distinct DEF IInv, Marked, RaceSettled, Typed, CpuStory, GpuStory,
                            Workers, NoResult, Facts, Untouched, Become, session,
                            threads, board
<1> QED BY <1>1, <1>2, <1>3, <1>4, <1>5, <1>6 DEF IInv

\* An error of the GPU worker arrives.
LEMMA GpuFailsKeeps ==
  ASSUME IInv, Receive("gpu", {"error", "uncaught"}), Settle("gpu", "failed"),
         UNCHANGED <<session, main, isolated, worker, inbox, facts, timer, result>>
  PROVE  IInv'
<1>1. Typed'
  BY Received, Distinct DEF IInv, Typed, Facts, Workers, Receive, Settle, session,
                            threads, board
<1>2. Queues'
  BY Received, Distinct DEF IInv, Queues, Boxes, Workers, CpuStory, GpuStory,
                            Untouched, Receive, Settle, session, threads, board
<1>3. Untouched'
  BY Received, Distinct DEF IInv, Untouched, CpuStory, GpuStory, Workers, Receive,
                            Settle, session, threads, board
<1>4. CpuStory'
  BY Received, Distinct DEF IInv, CpuStory, Typed, Queues, Boxes, Workers,
                            Untouched, GpuStory, Receive, Settle, session,
                            threads, board
<1>5. GpuStory'
  BY Received, Distinct DEF IInv, GpuStory, Typed, Queues, Boxes, Workers,
                            Untouched, CpuStory, Receive, Settle, session,
                            threads, board
<1>6. Marked'
  BY Received, Distinct DEF IInv, Marked, RaceSettled, Typed, CpuStory, GpuStory,
                            Workers, NoResult, Facts, Untouched, Receive, Settle,
                            session, threads, board
<1> QED BY <1>1, <1>2, <1>3, <1>4, <1>5, <1>6 DEF IInv

\* The GPU worker's script runs.
LEMMA GpuStartsKeeps ==
  ASSUME IInv, worker["gpu"] = "starting", Become("gpu", "idle"),
         UNCHANGED <<session, main, isolated, inbox, outbox, board>>
  PROVE  IInv'
<1>1. Typed'
  BY DEF IInv, Typed, Facts, Workers, Become, session, threads, board
<1>2. Queues'
  BY DEF IInv, Queues, Boxes, Workers, CpuStory, GpuStory, Untouched, Become,
         session, threads, board
<1>3. Untouched'
  BY DEF IInv, Untouched, CpuStory, GpuStory, Workers, Become, session, threads,
         board
<1>4. CpuStory'
  BY DEF IInv, CpuStory, Typed, Queues, Boxes, Workers, Untouched, GpuStory,
         Become, session, threads, board
<1>5. GpuStory'
  BY DEF IInv, GpuStory, Typed, Queues, Boxes, Workers, Untouched, CpuStory,
         Become, session, threads, board
<1>6. Marked'
  BY DEF IInv, Marked, RaceSettled, Typed, CpuStory, GpuStory, Workers, NoResult,
         Facts, Untouched, Become, session, threads, board
<1> QED BY <1>1, <1>2, <1>3, <1>4, <1>5, <1>6 DEF IInv

\* The GPU worker's script cannot be fetched or throws.
LEMMA GpuScriptFailsKeeps ==
  ASSUME IInv, worker["gpu"] = "starting", Become("gpu", "stopped"), Post("gpu", <<"uncaught">>),
         UNCHANGED <<session, main, isolated, inbox, board>>
  PROVE  IInv'
<1>1. Typed'
  BY Posted, Distinct DEF IInv, Typed, Facts, Workers, Become, Post, session,
                          threads, board
<1>2. Queues'
  BY Posted, Distinct DEF IInv, Queues, Boxes, Workers, CpuStory, GpuStory,
                          Untouched, Become, Post, session, threads, board
<1>3. Untouched'
  BY Posted, Distinct DEF IInv, Untouched, CpuStory, GpuStory, Workers, Become,
                          Post, session, threads, board
<1>4. CpuStory'
  BY Posted, Distinct DEF IInv, CpuStory, Typed, Queues, Boxes, Workers,
                          Untouched, GpuStory, Become, Post, session, threads,
                          board
<1>5. GpuStory'
  BY Posted, Distinct DEF IInv, GpuStory, Typed, Queues, Boxes, Workers,
                          Untouched, CpuStory, Become, Post, session, threads,
                          board
<1>6. Marked'
  BY Posted, Distinct DEF IInv, Marked, RaceSettled, Typed, CpuStory, GpuStory,
                          Workers, NoResult, Facts, Untouched, Become, Post,
                          session, threads, board
<1> QED BY <1>1, <1>2, <1>3, <1>4, <1>5, <1>6 DEF IInv

\* The GPU worker takes its init message.
LEMMA GpuInitKeeps ==
  ASSUME IInv, worker["gpu"] = "idle", inbox["gpu"] # <<>>, Become("gpu", "loading"),
         inbox' = [inbox EXCEPT !["gpu"] = Tail(@)],
         UNCHANGED <<session, main, isolated, outbox, board>>
  PROVE  IInv'
<1>1. Typed'
  BY Received, Distinct DEF IInv, Typed, Facts, Workers, Become, session, threads,
                            board
<1>2. Queues'
  BY Received, Distinct DEF IInv, Queues, Boxes, Workers, CpuStory, GpuStory,
                            Untouched, Become, session, threads, board
<1>3. Untouched'
  BY Received, Distinct DEF IInv, Untouched, CpuStory, GpuStory, Workers, Become,
                            session, threads, board
<1>4. CpuStory'
  BY Received, Distinct DEF IInv, CpuStory, Typed, Queues, Boxes, Workers,
                            Untouched, GpuStory, Become, session, threads, board
<1>5. GpuStory'
  BY Received, Distinct DEF IInv, GpuStory, Typed, Queues, Boxes, Workers,
                            Untouched, CpuStory, Become, session, threads, board
<1>6. Marked'
  BY Received, Distinct DEF IInv, Marked, RaceSettled, Typed, CpuStory, GpuStory,
                            Workers, NoResult, Facts, Untouched, Become, session,
                            threads, board
<1> QED BY <1>1, <1>2, <1>3, <1>4, <1>5, <1>6 DEF IInv

\* The CPU worker comes up.
LEMMA CpuComesUpKeeps ==
  ASSUME IInv, CpuComesUp
  PROVE  IInv'
<1>1. Typed'
  BY Posted, Distinct DEF IInv, Typed, Facts, Workers, CpuComesUp, Become, Post,
                          session, threads, board
<1>2. Queues'
  BY Posted, Distinct DEF IInv, Queues, Boxes, Workers, CpuStory, GpuStory,
                          Untouched, CpuComesUp, Become, Post, session, threads,
                          board
<1>3. Untouched'
  BY Posted, Distinct DEF IInv, Untouched, CpuStory, GpuStory, Workers,
                          CpuComesUp, Become, Post, session, threads, board
<1>4. CpuStory'
  BY Posted, Distinct DEF IInv, CpuStory, Typed, Queues, Boxes, Workers,
                          Untouched, GpuStory, CpuComesUp, Become, Post, session,
                          threads, board
<1>5. GpuStory'
  BY Posted, Distinct DEF IInv, GpuStory, Typed, Queues, Boxes, Workers,
                          Untouched, CpuStory, CpuComesUp, Become, Post, session,
                          threads, board
<1>6. Marked'
  BY Posted, Distinct DEF IInv, Marked, RaceSettled, Typed, CpuStory, GpuStory,
                          Workers, NoResult, Facts, Untouched, CpuComesUp, Become,
                          Post, session, threads, board
<1> QED BY <1>1, <1>2, <1>3, <1>4, <1>5, <1>6 DEF IInv

\* The GPU worker comes up.
LEMMA GpuComesUpKeeps ==
  ASSUME IInv, GpuComesUp
  PROVE  IInv'
<1>1. Typed'
  BY Posted, Distinct DEF IInv, Typed, Facts, Workers, GpuComesUp, Become, Post,
                          session, threads, board
<1>2. Queues'
  BY Posted, Distinct DEF IInv, Queues, Boxes, Workers, CpuStory, GpuStory,
                          Untouched, GpuComesUp, Become, Post, session, threads,
                          board
<1>3. Untouched'
  BY Posted, Distinct DEF IInv, Untouched, CpuStory, GpuStory, Workers,
                          GpuComesUp, Become, Post, session, threads, board
<1>4. CpuStory'
  BY Posted, Distinct DEF IInv, CpuStory, Typed, Queues, Boxes, Workers,
                          Untouched, GpuStory, GpuComesUp, Become, Post, session,
                          threads, board
<1>5. GpuStory'
  BY Posted, Distinct DEF IInv, GpuStory, Typed, Queues, Boxes, Workers,
                          Untouched, CpuStory, GpuComesUp, Become, Post, session,
                          threads, board
<1>6. Marked'
  BY Posted, Distinct DEF IInv, Marked, RaceSettled, Typed, CpuStory, GpuStory,
                          Workers, NoResult, Facts, Untouched, GpuComesUp, Become,
                          Post, session, threads, board
<1> QED BY <1>1, <1>2, <1>3, <1>4, <1>5, <1>6 DEF IInv

\* The GPU worker finds no adapter.
LEMMA GpuInitFailsKeeps ==
  ASSUME IInv, GpuInitFails
  PROVE  IInv'
<1>1. Typed'
  BY Posted, Distinct DEF IInv, Typed, Facts, Workers, GpuInitFails, Become, Post,
                          session, threads, board
<1>2. Queues'
  BY Posted, Distinct DEF IInv, Queues, Boxes, Workers, CpuStory, GpuStory,
                          Untouched, GpuInitFails, Become, Post, session, threads,
                          board
<1>3. Untouched'
  BY Posted, Distinct DEF IInv, Untouched, CpuStory, GpuStory, Workers,
                          GpuInitFails, Become, Post, session, threads, board
<1>4. CpuStory'
  BY Posted, Distinct DEF IInv, CpuStory, Typed, Queues, Boxes, Workers,
                          Untouched, GpuStory, GpuInitFails, Become, Post,
                          session, threads, board
<1>5. GpuStory'
  BY Posted, Distinct DEF IInv, GpuStory, Typed, Queues, Boxes, Workers,
                          Untouched, CpuStory, GpuInitFails, Become, Post,
                          session, threads, board
<1>6. Marked'
  BY Posted, Distinct DEF IInv, Marked, RaceSettled, Typed, CpuStory, GpuStory,
                          Workers, NoResult, Facts, Untouched, GpuInitFails,
                          Become, Post, session, threads, board
<1> QED BY <1>1, <1>2, <1>3, <1>4, <1>5, <1>6 DEF IInv

\* The CPU worker's init fails, before the layout is posted or after it.
LEMMA CpuAnswersKeeps ==
  ASSUME IInv, worker["cpu"] = "loading", Become("cpu", "stopped"),
         NEW answer \in {<<"error">>, <<"layout", "error">>}, Post("cpu", answer),
         UNCHANGED <<session, main, isolated, inbox, board>>
  PROVE  IInv'
<1>1. Typed'
  BY Posted, Distinct DEF IInv, Typed, Facts, Workers, Become, Post, session,
                          threads, board
<1>2. Queues'
  BY Posted, Distinct DEF IInv, Queues, Boxes, Workers, CpuStory, GpuStory,
                          Untouched, Become, Post, session, threads, board
<1>3. Untouched'
  BY Posted, Distinct DEF IInv, Untouched, CpuStory, GpuStory, Workers, Become,
                          Post, session, threads, board
<1>4. CpuStory'
  BY Posted, Distinct DEF IInv, CpuStory, Typed, Queues, Boxes, Workers,
                          Untouched, GpuStory, Become, Post, session, threads,
                          board
<1>5. GpuStory'
  BY Posted, Distinct DEF IInv, GpuStory, Typed, Queues, Boxes, Workers,
                          Untouched, CpuStory, Become, Post, session, threads,
                          board
<1>6. Marked'
  BY Posted, Distinct DEF IInv, Marked, RaceSettled, Typed, CpuStory, GpuStory,
                          Workers, NoResult, Facts, Untouched, Become, Post,
                          session, threads, board
<1> QED BY <1>1, <1>2, <1>3, <1>4, <1>5, <1>6 DEF IInv

-----------------------------------------------------------------------------
(* Every step.                                                             *)

LEMMA InitHolds == ASSUME Init PROVE IInv
<1>1. Typed
  <2>1. host \in [headers : BOOLEAN, api : BOOLEAN] /\ isolated = host.headers
    BY DEF Init
  <2>2. isolated \in BOOLEAN
    BY <2>1
  <2>3. reloads \in 0 .. MaxReloads
    BY MaxReloadsAssumption DEF Init
  <2> QED BY <2>1, <2>2, <2>3 DEF Init, Typed, Workers, Facts
<1>2. Queues /\ Untouched /\ CpuStory /\ GpuStory /\ Marked
  BY DEF Init, Queues, Boxes, Untouched, CpuStory, GpuStory, Marked, Workers, RaceSettled
<1> QED BY <1>1, <1>2 DEF IInv

LEMMA StepHolds ==
  ASSUME IInv, [Next]_vars
  PROVE  IInv'
<1>1. CASE UserReload
  <2>1. PICK forced \in BOOLEAN : OpenPage(IsolatedBy(host.api /\ ~forced))
    BY <1>1 DEF UserReload
  <2>2. IsolatedBy(host.api /\ ~forced) \in BOOLEAN
    BY DEF IsolatedBy, IInv, Typed
  <2>3. UNCHANGED <<host, sw, attempted>> /\ reloads' \in 0 .. MaxReloads
    BY <1>1 DEF UserReload, session, IInv, Typed
  <2> QED BY <2>1, <2>2, <2>3, PageOpens
<1>2. CASE Reload
  <2>1. IsolatedBy(host.api) \in BOOLEAN
    BY DEF IsolatedBy, IInv, Typed
  <2>2. reloads' \in 0 .. MaxReloads
    BY <1>2, MaxReloadsAssumption DEF Reload, IInv, Typed
  <2> QED BY <1>2, <2>1, <2>2, PageOpens DEF Reload
<1>3. CASE \/ RegistrationSucceeds \/ NothingRegistered \/ ServiceWorkerActivates
           \/ PlanReload \/ NotIsolatedAfterReload \/ GateFails \/ ShellMounts \/ ShellFails
  <2>1. sw \in {"none", "installing", "active"} /\ attempted \in BOOLEAN
    BY DEF IInv, Typed
  <2>2. main \in {"start", "registered", "waiting", "racing", "mounting", "shell", "fatal"}
    BY DEF IInv, Typed
  <2> QED BY <1>3, <2>1, <2>2, MainMoves
          DEF RegistrationSucceeds, NothingRegistered, ServiceWorkerActivates, PlanReload,
              NotIsolatedAfterReload, GateFails, ShellMounts, ShellFails, session
<1>4. CASE \/ StartWorkers \/ LayoutArrives \/ CpuReady \/ GpuReady \/ Timeout \/ BootReturns
           \/ CpuComesUp \/ GpuComesUp \/ GpuInitFails
  BY <1>4, StartWorkersKeeps, LayoutArrivesKeeps, CpuReadyKeeps, GpuReadyKeeps, TimeoutKeeps,
     BootReturnsKeeps, CpuComesUpKeeps, GpuComesUpKeeps, GpuInitFailsKeeps
<1>5. CASE WorkerFails
  BY <1>5, CpuFailsKeeps, GpuFailsKeeps DEF WorkerFails, Workers
<1>6. CASE WorkerStarts
  BY <1>6, CpuStartsKeeps, GpuStartsKeeps DEF WorkerStarts, Workers
<1>7. CASE WorkerScriptFails
  BY <1>7, CpuScriptFailsKeeps, GpuScriptFailsKeeps DEF WorkerScriptFails, Workers
<1>8. CASE WorkerInit
  BY <1>8, CpuInitKeeps, GpuInitKeeps DEF WorkerInit, Workers
<1>9. CASE CpuInitFails
  BY <1>9, CpuAnswersKeeps DEF CpuInitFails
<1>10. CASE UNCHANGED vars
  BY <1>10, MainMoves DEF vars, session, IInv, Typed
<1> QED BY <1>1, <1>2, <1>3, <1>4, <1>5, <1>6, <1>7, <1>8, <1>9, <1>10 DEF Next

LEMMA InvariantShows ==
  ASSUME IInv
  PROVE  ShellShowsWhatIsSo
<1>1. TypeOK
  <2>1. \A w \in Workers : inbox[w] \in {<<>>, <<"init">>} /\ outbox[w] \in Boxes
    BY DEF IInv, Queues
  <2> QED BY <2>1, Distinct DEF IInv, Typed, TypeOK
<1>2. FactsAreEarned
  <2>1. result # NoResult => result \subseteq facts
    BY DEF IInv, Marked
  <2>2. worker \in [Workers -> {"none", "starting", "idle", "loading", "ready", "stopped"}]
    BY DEF IInv, Typed
  <2>3. "cpuBackend" \in facts => worker["cpu"] = "ready" /\ slot["cpu"] = "ready"
    BY <2>2 DEF IInv, CpuStory, Workers
  <2>4. "adapterLabel" \in facts => worker["gpu"] = "ready" /\ slot["gpu"] = "ready"
    BY <2>2 DEF IInv, GpuStory, Workers
  <2>5. "cpuBackend" \notin NoResult /\ "adapterLabel" \notin NoResult
    BY DEF NoResult
  <2> QED BY <2>1, <2>3, <2>4, <2>5 DEF FactsAreEarned, IInv, Marked
<1>3. BootWaitsForBoth
  <2> SUFFICES ASSUME main \in {"mounting", "shell"}, NEW w \in Workers
               PROVE  slot[w] # "pending" /\ (timer = "fired" \/ worker[w] \in {"ready", "stopped"})
    BY DEF BootWaitsForBoth
  <2>1. "timeout" \in resolved \/ w \in resolved
    BY DEF IInv, Marked, RaceSettled
  <2>2. w \in resolved => worker[w] \in {"ready", "stopped"}
    BY DEF IInv, CpuStory, GpuStory, Workers
  <2> QED BY <2>1, <2>2 DEF IInv, Marked
<1> QED BY <1>1, <1>2, <1>3 DEF ShellShowsWhatIsSo

-----------------------------------------------------------------------------
(* The theorems.                                                           *)

\* The shell shows a CPU backend, a GPU adapter and a guest RAM size only if the
\* workers said so, and comes only when each worker has answered or the timeout
\* is over (main.ts 199-228), for any number of reloads.
THEOREM ShellIsTrue == Spec => []ShellShowsWhatIsSo
<1>1. Init => IInv
  BY InitHolds
<1>2. IInv /\ [Next]_vars => IInv'
  BY StepHolds
<1>3. IInv => ShellShowsWhatIsSo
  BY InvariantShows
<1> QED BY <1>1, <1>2, <1>3, PTL DEF Spec

\* The page asks for its reload at most once: the mark in sessionStorage is set
\* before it waits for the service worker (main.ts 36-47).
THEOREM OneReloadOnly == Spec => []ReloadsAtMostOnce
<1>1. Init => OneReload
  BY DEF Init, OneReload
<1>2. OneReload /\ [Next]_vars => OneReload'
  <2> SUFFICES ASSUME OneReload, [Next]_vars PROVE OneReload'
    OBVIOUS
  <2>1. CASE Reload
    BY <2>1 DEF Reload, OneReload, OpenPage
  <2>2. CASE PlanReload
    BY <2>2 DEF PlanReload, OneReload
  <2>3. CASE UserReload
    BY <2>3 DEF UserReload, OneReload, OpenPage, session
  <2>4. CASE UNCHANGED <<attempted, reloads>> /\ (main' = "waiting" => main = "waiting")
    BY <2>4 DEF OneReload
  <2>5. ~Reload /\ ~PlanReload /\ ~UserReload =>
          UNCHANGED <<attempted, reloads>> /\ (main' = "waiting" => main = "waiting")
    BY DEF Next, vars, session, RegistrationSucceeds, NothingRegistered,
           ServiceWorkerActivates, NotIsolatedAfterReload, GateFails, StartWorkers,
           LayoutArrives, CpuReady, GpuReady, WorkerFails, Timeout, BootReturns, ShellMounts,
           ShellFails, WorkerStarts, WorkerScriptFails, WorkerInit, CpuComesUp, CpuInitFails,
           GpuComesUp, GpuInitFails
  <2> QED BY <2>1, <2>2, <2>3, <2>4, <2>5
<1>3. OneReload => ReloadsAtMostOnce
  BY DEF OneReload, ReloadsAtMostOnce
<1> QED BY <1>1, <1>2, <1>3, PTL DEF Spec
=============================================================================
