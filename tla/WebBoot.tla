------------------------------- MODULE WebBoot -------------------------------
(***************************************************************************)
(* The browser boot of the emulator: one tab, its main thread              *)
(* (platform/web/src/main.ts), the CPU and the GPU worker                  *)
(* (platform/web/workers) and the service worker whose headers may be the  *)
(* only source of cross-origin isolation (platform/web/sw.ts).             *)
(*                                                                         *)
(* The three threads share no variable here: they exchange postMessage     *)
(* messages, one FIFO queue per worker and direction.  Between two of its  *)
(* own awaits each thread runs without interruption, and what awaits a     *)
(* settled promise on the main thread runs before its next message or      *)
(* timer (MicrotaskPending).                                               *)
(*                                                                         *)
(* Left out: log messages and the pause and resume messages of a hidden    *)
(* tab, which change nothing but the log.                                  *)
(***************************************************************************)
EXTENDS Naturals, Sequences, FiniteSets

CONSTANT MaxReloads   \* bound: reloads the model lets the page make by itself

ASSUME MaxReloadsAssumption == MaxReloads \in Nat \ {0, 1}

VARIABLES
  host,       \* [headers: the server isolates by itself, api: navigator.serviceWorker exists]
  sw,         \* the registration: "none", "installing", "active"
  attempted,  \* sessionStorage "voland-coi-reload-attempted"
  reloads,    \* how often the page reloaded itself in this session
  main,       \* where boot() and its continuation are
  isolated,   \* crossOriginIsolated of the current page
  worker,     \* where each worker is
  inbox,      \* main thread -> worker
  outbox,     \* worker -> main thread, uncaught errors included
  slot,       \* cpuSlot, gpuSlot
  facts,      \* which of layout, cpuBackend, adapterLabel are set
  timer,      \* the ready timeout
  resolved,   \* which of cpuReady, gpuReady, timeout have resolved
  result      \* the BootResult: the facts the shell is mounted with

session == <<host, sw, attempted, reloads>>
threads == <<worker, inbox, outbox>>
board   == <<slot, facts, timer, resolved, result>>
vars    == <<session, main, isolated, threads, board>>

Workers == {"cpu", "gpu"}
Facts   == {"layout", "cpuBackend", "adapterLabel"}
NoResult == {"no result"}

-----------------------------------------------------------------------------
(* A page load: a navigation served by an active service worker carries    *)
(* the isolation headers, any other only if the server sets them.          *)

IsolatedBy(control) == host.headers \/ (control /\ sw = "active")

OpenPage(isolation) ==
  /\ main' = "start"
  /\ isolated' = isolation
  /\ worker' = [w \in Workers |-> "none"]
  /\ inbox' = [w \in Workers |-> <<>>]
  /\ outbox' = [w \in Workers |-> <<>>]
  /\ slot' = [w \in Workers |-> "pending"]
  /\ facts' = {}
  /\ timer' = "off"
  /\ resolved' = {}
  /\ result' = NoResult

Init ==
  /\ host \in [headers : BOOLEAN, api : BOOLEAN]
  /\ sw = "none"
  /\ attempted = FALSE
  /\ reloads = 0
  /\ main = "start"
  /\ isolated = host.headers
  /\ worker = [w \in Workers |-> "none"]
  /\ inbox = [w \in Workers |-> <<>>]
  /\ outbox = [w \in Workers |-> <<>>]
  /\ slot = [w \in Workers |-> "pending"]
  /\ facts = {}
  /\ timer = "off"
  /\ resolved = {}
  /\ result = NoResult

\* The user reloads a page that has settled or hangs; a forced reload
\* bypasses the service worker.
UserReload ==
  /\ main \in {"waiting", "shell", "fatal"}
  /\ \E forced \in BOOLEAN : OpenPage(IsolatedBy(host.api /\ ~forced))
  /\ UNCHANGED session

-----------------------------------------------------------------------------
(* The service worker and cross-origin isolation.                          *)

RegistrationSucceeds ==
  /\ main = "start"
  /\ host.api
  /\ sw' = IF sw = "none" THEN "installing" ELSE sw
  /\ main' = "registered"
  /\ UNCHANGED <<host, attempted, reloads, isolated, threads, board>>

\* No service workers in this browser, or register() rejected: boot goes on.
NothingRegistered ==
  /\ main = "start"
  /\ main' = "registered"
  /\ UNCHANGED <<session, isolated, threads, board>>

\* install calls skipWaiting and activate claims the clients, so activation
\* waits for nothing.
ServiceWorkerActivates ==
  /\ sw = "installing"
  /\ sw' = "active"
  /\ UNCHANGED <<host, attempted, reloads, main, isolated, threads, board>>

\* MUTANT of PlanReload: the flag is tested but never stored.
PlanReloadUnmarked ==
  /\ main = "registered"
  /\ ~isolated
  /\ ~attempted
  /\ main' = "waiting"
  /\ UNCHANGED <<session, isolated, threads, board>>

\* reloadOnceForCrossOriginIsolation up to its await.
PlanReload ==
  /\ main = "registered"
  /\ ~isolated
  /\ ~attempted
  /\ attempted' = TRUE
  /\ main' = "waiting"
  /\ UNCHANGED <<host, sw, reloads, isolated, threads, board>>

\* navigator.serviceWorker.ready resolves only once a worker is active.
Reload ==
  /\ main = "waiting"
  /\ host.api => sw = "active"
  /\ reloads < MaxReloads
  /\ reloads' = reloads + 1
  /\ OpenPage(IsolatedBy(host.api))
  /\ UNCHANGED <<host, sw, attempted>>

NotIsolatedAfterReload ==
  /\ main = "registered"
  /\ ~isolated
  /\ attempted
  /\ main' = "fatal"
  /\ UNCHANGED <<session, isolated, threads, board>>

-----------------------------------------------------------------------------
(* The gates, the workers and the wait for both of them.                   *)

\* No WebGPU, no OPFS, no memory or no canvas.
GateFails ==
  /\ main = "registered"
  /\ isolated
  /\ main' = "fatal"
  /\ UNCHANGED <<session, isolated, threads, board>>

StartWorkers ==
  /\ main = "registered"
  /\ isolated
  /\ main' = "racing"
  /\ worker' = [w \in Workers |-> "starting"]
  /\ inbox' = [inbox EXCEPT !["cpu"] = <<"init">>]
  /\ timer' = "armed"
  /\ UNCHANGED <<session, isolated, outbox, slot, facts, resolved, result>>

\* MUTANT of RaceSettled: Promise.race over all three promises.
FirstOfThree == resolved # {}

RaceSettled == "timeout" \in resolved \/ Workers \subseteq resolved

MicrotaskPending == main = "racing" /\ RaceSettled

Settle(w, verdict) ==
  /\ slot' = [slot EXCEPT ![w] = verdict]
  /\ resolved' = resolved \cup {w}

\* attachWorkerLogRelay: the next message of w reaches the main thread.
Receive(w, messages) ==
  /\ ~MicrotaskPending
  /\ outbox[w] # <<>>
  /\ Head(outbox[w]) \in messages
  /\ outbox' = [outbox EXCEPT ![w] = Tail(@)]

\* The layout goes to the GPU worker together with the canvas.
LayoutArrives ==
  /\ Receive("cpu", {"layout"})
  /\ facts' = facts \cup {"layout"}
  /\ inbox' = [inbox EXCEPT !["gpu"] = Append(@, "init")]
  /\ UNCHANGED <<session, main, isolated, worker, slot, timer, resolved, result>>

CpuReady ==
  /\ Receive("cpu", {"ready"})
  /\ facts' = facts \cup {"cpuBackend"}
  /\ Settle("cpu", "ready")
  /\ UNCHANGED <<session, main, isolated, worker, inbox, timer, result>>

GpuReady ==
  /\ Receive("gpu", {"ready"})
  /\ facts' = facts \cup {"adapterLabel"}
  /\ Settle("gpu", "ready")
  /\ UNCHANGED <<session, main, isolated, worker, inbox, timer, result>>

WorkerFails ==
  /\ \E w \in Workers : Receive(w, {"error", "uncaught"}) /\ Settle(w, "failed")
  /\ UNCHANGED <<session, main, isolated, worker, inbox, facts, timer, result>>

\* MUTANT of Timeout: an interval that marks the slots and never resolves.
TimeoutUnresolved ==
  /\ timer = "armed"
  /\ ~MicrotaskPending
  /\ slot' = [w \in Workers |-> IF slot[w] = "pending" THEN "failed" ELSE slot[w]]
  /\ UNCHANGED <<session, main, isolated, threads, facts, timer, resolved, result>>

Timeout ==
  /\ timer = "armed"
  /\ ~MicrotaskPending
  /\ timer' = "fired"
  /\ slot' = [w \in Workers |-> IF slot[w] = "pending" THEN "failed" ELSE slot[w]]
  /\ resolved' = resolved \cup {"timeout"}
  /\ UNCHANGED <<session, main, isolated, threads, facts, result>>

\* boot() returns what is known at this moment, whatever settled the race.
BootReturns ==
  /\ MicrotaskPending
  /\ result' = facts
  /\ main' = "mounting"
  /\ UNCHANGED <<session, isolated, threads, slot, facts, timer, resolved>>

ShellMounts ==
  /\ main = "mounting"
  /\ main' = "shell"
  /\ UNCHANGED <<session, isolated, threads, board>>

\* import("./ui/mount") or mountShell rejects.
ShellFails ==
  /\ main = "mounting"
  /\ main' = "fatal"
  /\ UNCHANGED <<session, isolated, threads, board>>

-----------------------------------------------------------------------------
(* The workers.                                                            *)

Post(w, messages) == outbox' = [outbox EXCEPT ![w] = @ \o messages]

Become(w, place) == worker' = [worker EXCEPT ![w] = place]

WorkerStarts ==
  /\ \E w \in Workers : worker[w] = "starting" /\ Become(w, "idle")
  /\ UNCHANGED <<session, main, isolated, inbox, outbox, board>>

\* The worker's script cannot be fetched or throws while it is evaluated.
WorkerScriptFails ==
  /\ \E w \in Workers :
        worker[w] = "starting" /\ Become(w, "stopped") /\ Post(w, <<"uncaught">>)
  /\ UNCHANGED <<session, main, isolated, inbox, board>>

\* The init message, up to the first await of init().
WorkerInit ==
  /\ \E w \in Workers :
        /\ worker[w] = "idle"
        /\ inbox[w] # <<>>
        /\ inbox' = [inbox EXCEPT ![w] = Tail(@)]
        /\ Become(w, "loading")
  /\ UNCHANGED <<session, main, isolated, outbox, board>>

\* MUTANT of CpuComesUp: ready is posted ahead of the layout handshake.
ReadyBeforeLayout ==
  /\ worker["cpu"] = "loading"
  /\ Become("cpu", "ready")
  /\ Post("cpu", <<"ready", "layout">>)
  /\ UNCHANGED <<session, main, isolated, inbox, board>>

\* cpu: the core loads, emulator_create_ffi succeeds, the layout reads back.
CpuComesUp ==
  /\ worker["cpu"] = "loading"
  /\ Become("cpu", "ready")
  /\ Post("cpu", <<"layout", "ready">>)
  /\ UNCHANGED <<session, main, isolated, inbox, board>>

\* cpu: the core does not load, emulator_create_ffi fails, or init throws,
\* before the layout is posted or after it.
CpuInitFails ==
  /\ worker["cpu"] = "loading"
  /\ Become("cpu", "stopped")
  /\ \E answer \in {<<"error">>, <<"layout", "error">>} : Post("cpu", answer)
  /\ UNCHANGED <<session, main, isolated, inbox, board>>

GpuComesUp ==
  /\ worker["gpu"] = "loading"
  /\ Become("gpu", "ready")
  /\ Post("gpu", <<"ready">>)
  /\ UNCHANGED <<session, main, isolated, inbox, board>>

\* gpu: no WebGPU in the worker, no adapter, no context, or init throws.
GpuInitFails ==
  /\ worker["gpu"] = "loading"
  /\ Become("gpu", "stopped")
  /\ Post("gpu", <<"error">>)
  /\ UNCHANGED <<session, main, isolated, inbox, board>>

-----------------------------------------------------------------------------
Next ==
  \/ UserReload
  \/ RegistrationSucceeds
  \/ NothingRegistered
  \/ ServiceWorkerActivates
  \/ PlanReload
  \/ Reload
  \/ NotIsolatedAfterReload
  \/ GateFails
  \/ StartWorkers
  \/ LayoutArrives
  \/ CpuReady
  \/ GpuReady
  \/ WorkerFails
  \/ Timeout
  \/ BootReturns
  \/ ShellMounts
  \/ ShellFails
  \/ WorkerStarts
  \/ WorkerScriptFails
  \/ WorkerInit
  \/ CpuComesUp
  \/ CpuInitFails
  \/ GpuComesUp
  \/ GpuInitFails

\* What the main thread does next is decided by its own event loop: an await
\* whose promise settled resumes, a timer that ran out fires, a page that asked
\* for a reload gets it.  Nothing is assumed of the workers, which may hang.
MainProceeds ==
  \/ RegistrationSucceeds \/ NothingRegistered
  \/ PlanReload \/ Reload \/ NotIsolatedAfterReload
  \/ GateFails \/ StartWorkers
  \/ BootReturns \/ ShellMounts \/ ShellFails

Fairness ==
  /\ WF_vars(MainProceeds)
  /\ WF_vars(Timeout)
  /\ WF_vars(ServiceWorkerActivates)

Spec == Init /\ [][Next]_vars /\ Fairness

-----------------------------------------------------------------------------
(* Properties.                                                             *)

\* Every variable ranges over the values of its declaration, and no queue
\* holds more than a worker ever posts or is sent (main.ts, both workers).
TypeOK ==
  /\ host \in [headers : BOOLEAN, api : BOOLEAN]
  /\ sw \in {"none", "installing", "active"}
  /\ attempted \in BOOLEAN
  /\ reloads \in 0 .. MaxReloads
  /\ main \in {"start", "registered", "waiting", "racing", "mounting", "shell", "fatal"}
  /\ isolated \in BOOLEAN
  /\ worker \in [Workers -> {"none", "starting", "idle", "loading", "ready", "stopped"}]
  /\ \A w \in Workers : inbox[w] \in {<<>>, <<"init">>}
  /\ \A w \in Workers :
        /\ Len(outbox[w]) <= 2
        /\ \A i \in DOMAIN outbox[w] : outbox[w][i] \in {"layout", "ready", "error", "uncaught"}
  /\ slot \in [Workers -> {"pending", "ready", "failed"}]
  /\ facts \subseteq Facts
  /\ timer \in {"off", "armed", "fired"}
  /\ resolved \subseteq Workers \cup {"timeout"}
  /\ result = NoResult \/ result \subseteq Facts

\* The shell never shows a fact that is not so: a CPU backend only if the core
\* came up and the status line says so, a GPU adapter only if the GPU worker
\* did, and either one only with the guest RAM size of the layout handshake
\* (main.ts 220-228), in whatever order messages and the timeout arrived.
FactsAreEarned ==
  /\ "cpuBackend" \in result =>
        worker["cpu"] = "ready" /\ slot["cpu"] = "ready" /\ "layout" \in result
  /\ "adapterLabel" \in result =>
        worker["gpu"] = "ready" /\ slot["gpu"] = "ready" /\ "layout" \in result

\* boot() returns only when each worker has answered or the ten seconds are
\* over, and then no slot is left pending (main.ts 199-211): the shell's status
\* line never shows a worker as still coming.
BootWaitsForBoth ==
  main \in {"mounting", "shell"} =>
    /\ \A w \in Workers : slot[w] # "pending"
    /\ \A w \in Workers : timer = "fired" \/ worker[w] \in {"ready", "stopped"}

\* The shell comes when it should and shows nothing but what is so (main.ts
\* 199-228).
ShellShowsWhatIsSo == TypeOK /\ FactsAreEarned /\ BootWaitsForBoth

\* However often the user reloads, the page reloads itself at most once in a
\* session (main.ts 36-47): no reload loop when isolation never comes.
ReloadsAtMostOnce == reloads <= 1

\* An isolated page always ends in the shell or in a fatal message, whatever
\* the workers do or fail to do: that is what the timeout is for (main.ts
\* 199-211).  That register() (main.ts 99) settles, one way or the other, is
\* taken from the browser: the timeout is armed after it.
BootSettles == (main = "start" /\ isolated) ~> main \in {"shell", "fatal"}

\* As capabilities.ts 3-5 puts it, a missing isolation surfaces as an
\* error: a page without it gets isolated by the reload or shows the fatal message.
MissingIsolationSurfaces == (main = "start" /\ ~isolated) ~> (isolated \/ main = "fatal")

=============================================================================
