---------------------------- MODULE ModLifecycle ----------------------------
(***************************************************************************)
(* enable, disable and unload of src/src/android/BedrockAeronauticsMod.cpp *)
(* over the whole module: three hooks (sources of callbacks), two buses,   *)
(* the two listeners behind them, and the threads each of them starts.     *)
(*                                                                         *)
(* A call is a list of tasks, "up" or "down" for one component each, that  *)
(* the loader's thread works off; a component that cannot come up replaces *)
(* what is left of the list, one that cannot go down ends it.  One game    *)
(* thread per source runs through the hook while it is placed.             *)
(*                                                                         *)
(* The heartbeat hook is modelled here in full.  The tick hook and the     *)
(* render hook have modules of their own, and only the steps that meet     *)
(* other components are left of them.  Each bus has its one listener.      *)
(***************************************************************************)
EXTENDS Integers, Sequences

CONSTANTS
  CounterMod,  \* 2^32: the modulus of the counters of callbacks in flight
  MaxBeats,    \* bound: heartbeat callbacks of one session
  MaxCalls     \* bound: calls of enable, disable and unload

ASSUME LifecycleAssumption ==
  CounterMod \in Nat \ {0, 1} /\ MaxBeats \in Nat /\ MaxCalls \in Nat

VARIABLES
  op,          \* the call that runs, or "none"
  todo,        \* its tasks, the running one first
  at,          \* where the running task is
  standing,    \* what the last call said
  lifeCalls,   \* calls so far
  thread,      \* per component: its std::thread
  stop,        \* per component: mStopRequested
  hooked,      \* sources whose hook is in the game
  active,      \* sources whose sActive is set
  original,    \* the heartbeat's mOriginalCallable is set
  inFlight,    \* per source: its counter of callbacks
  mRestoreSucceeded,
  mCallCount,  \* heartbeat callbacks counted
  armed,       \* per source: mCallCount when its worker began to watch it
  subscribed,  \* listeners in their bus
  running,     \* listeners whose mRunning is set
  odd,         \* mRenderSnapshotSequence is odd
  game,        \* per source: where the game's thread is
  stray,       \* history: sources with a callback that outlived its drain, or a
               \*  hook that was taken back without one
  terminated   \* history: a thread was assigned over a joinable one

call    == <<op, todo, at, standing, lifeCalls>>
threads == <<thread, stop, terminated>>
hooks   == <<hooked, active, original, mRestoreSucceeded, armed>>
counts  == <<inFlight, mCallCount>>
buses   == <<subscribed, running, odd>>
vars    == <<call, threads, hooks, counts, buses, game, stray>>

Sources    == {"heartbeat", "tick", "render"}
Listeners  == {"scheduler", "probe"}
Components == Sources \cup Listeners

\* The bus each source publishes to has one listener; the heartbeat has none.
ListenerOf == [tick |-> "scheduler", render |-> "probe"]

ThreadSteps == {"notJoinable", "gate", "running", "ended"}
GameSteps   == {"outside", "entered", "loaded", "counted", "uncounted",
                "delivering", "handling", "leaving"}

Init ==
  /\ op = "none" /\ todo = <<>> /\ at = "begin"
  /\ standing = "disabled"
  /\ lifeCalls = 0
  /\ thread = [c \in Components |-> "notJoinable"]
  /\ stop = [c \in Components |-> FALSE]
  /\ terminated = FALSE
  /\ hooked = {} /\ active = {} /\ original = FALSE
  /\ mRestoreSucceeded = FALSE
  /\ armed = [s \in Sources |-> 0]
  /\ inFlight = [s \in Sources |-> 0]
  /\ mCallCount = 0
  /\ subscribed = {} /\ running = {} /\ odd = FALSE
  /\ game = [s \in Sources |-> "outside"]
  /\ stray = {}
-----------------------------------------------------------------------------
(***************************************************************************)
(* The calls.                                                              *)
(***************************************************************************)
UpTasks ==
  <<<<"up", "scheduler">>, <<"up", "probe">>, <<"up", "heartbeat">>,
    <<"up", "tick">>, <<"up", "render">>>>

\* Mutant: the scheduler is stopped before its source.
DownTasksSchedulerFirst ==
  <<<<"down", "scheduler">>, <<"down", "render">>, <<"down", "probe">>,
    <<"down", "tick">>, <<"down", "heartbeat">>>>

\* Mutant: the heartbeat hook is forgotten.
DownTasksWithoutHeartbeat ==
  <<<<"down", "render">>, <<"down", "probe">>, <<"down", "tick">>,
    <<"down", "scheduler">>>>

\* disable and unload do the same: a source goes before what it calls.
DownTasks ==
  <<<<"down", "render">>, <<"down", "probe">>, <<"down", "tick">>,
    <<"down", "heartbeat">>, <<"down", "scheduler">>>>

\* Mutant: without tick events the probe goes on.
InsteadKeepsProbe(c) ==
  CASE c \in {"heartbeat", "tick"} -> <<<<"down", "scheduler">>>>
    [] c = "render"                -> <<<<"down", "probe">>>>
    [] OTHER                       -> Tail(todo)

\* What enable does instead of the rest when a component does not come up.
Instead(c) ==
  CASE c \in {"heartbeat", "tick"} -> <<<<"down", "probe">>, <<"down", "scheduler">>>>
    [] c = "render"                -> <<<<"down", "probe">>>>
    [] OTHER                       -> Tail(todo)

CallOf(name, tasks) ==
  /\ op = "none"
  /\ lifeCalls < MaxCalls
  /\ lifeCalls' = lifeCalls + 1
  /\ op' = name
  /\ todo' = tasks
  /\ at' = "begin"
  /\ UNCHANGED <<standing, threads, hooks, counts, buses, game, stray>>

\* After a refusal the loader may call any of the three.
Enable  == standing \in {"disabled", "refused"} /\ CallOf("enable", UpTasks)
Disable == standing \in {"enabled", "refused"} /\ CallOf("disable", DownTasks)
Unload  == standing # "unloaded" /\ CallOf("unload", DownTasks)

Result == [enable |-> "enabled", disable |-> "disabled", unload |-> "unloaded"]

Return ==
  /\ op # "none"
  /\ todo = <<>>
  /\ standing' = Result[op]
  /\ op' = "none"
  /\ UNCHANGED <<todo, at, lifeCalls, threads, hooks, counts, buses, game, stray>>

\* The task that runs, and where.
Task(direction, c, step) ==
  todo # <<>> /\ Head(todo) = <<direction, c>> /\ at = step

Goto(step) == at' = step /\ UNCHANGED <<op, todo, standing, lifeCalls>>

Done == todo' = Tail(todo) /\ at' = "begin" /\ UNCHANGED <<op, standing, lifeCalls>>

Fail(c) ==
  todo' = Instead(c) /\ at' = "begin" /\ UNCHANGED <<op, standing, lifeCalls>>

Refuse ==
  /\ op' = "none" /\ todo' = <<>> /\ at' = "begin"
  /\ standing' = "refused"
  /\ UNCHANGED lifeCalls

\* std::thread's assignment terminates the process if the old one is joinable.
StartThread(c, step) ==
  /\ thread' = [thread EXCEPT ![c] = step]
  /\ terminated' = (terminated \/ thread[c] # "notJoinable")
-----------------------------------------------------------------------------
(***************************************************************************)
(* start and stop of the listeners.                                        *)
(***************************************************************************)
\* A scheduler that starts zeroes its sequence counter and publishes.
StartListener(c) ==
  /\ Task("up", c, "begin")
  /\ \/ c \in running /\ Done /\ UNCHANGED <<stop, odd>>
     \/ /\ c \notin running
        /\ stop' = [stop EXCEPT ![c] = FALSE]
        /\ odd' = (odd \/ c = "scheduler")
        /\ Goto(IF c = "scheduler" THEN "publish" ELSE "subscribe")
  /\ UNCHANGED <<thread, terminated, hooks, counts, subscribed, running, game,
                 stray>>

EndFirstPublication ==
  /\ Task("up", "scheduler", "publish")
  /\ odd' = ~odd
  /\ Goto("subscribe")
  /\ UNCHANGED <<threads, hooks, counts, subscribed, running, game, stray>>

Subscribe(c) ==
  /\ Task("up", c, "subscribe")
  /\ subscribed' = subscribed \cup {c}
  /\ Goto("thread")
  /\ UNCHANGED <<threads, hooks, counts, running, odd, game, stray>>

StartWriter(c) ==
  /\ Task("up", c, "thread")
  /\ \/ /\ StartThread(c, "running")
        /\ running' = running \cup {c}
        /\ UNCHANGED subscribed
        /\ Done
     \/ /\ subscribed' = subscribed \ {c}
        /\ UNCHANGED <<thread, terminated, running>>
        /\ Fail(c)
  /\ UNCHANGED <<stop, hooks, counts, odd, game, stray>>

StopListener(c) ==
  /\ Task("down", c, "unhook")
  /\ subscribed' = subscribed \ {c}
  /\ running' = running \ {c}
  /\ Done
  /\ UNCHANGED <<threads, hooks, counts, odd, game, stray>>
-----------------------------------------------------------------------------
(***************************************************************************)
(* install of the sources.                                                 *)
(***************************************************************************)
InstallHeartbeat ==
  /\ Task("up", "heartbeat", "begin")
  /\ \/ "heartbeat" \in hooked /\ Done /\ UNCHANGED <<stop, active, original, counts>>
     \/ /\ "heartbeat" \notin hooked
        /\ Fail("heartbeat")
        /\ UNCHANGED <<stop, active, original, counts>>
     \/ /\ "heartbeat" \notin hooked
        /\ stop' = [stop EXCEPT !["heartbeat"] = FALSE]
        /\ active' = active \cup {"heartbeat"}
        /\ original' = FALSE
        /\ inFlight' = [inFlight EXCEPT !["heartbeat"] = 0]
        /\ mCallCount' = 0
        /\ Goto("hook")
  /\ UNCHANGED <<thread, terminated, hooked, mRestoreSucceeded, armed, buses, game,
                 stray>>

\* The detour is live before it is known whether it came with an original; without
\* one it is taken back, and nobody waits for the callbacks in it.
HookHeartbeat ==
  \/ /\ Task("up", "heartbeat", "hook")
     /\ hooked' = hooked \cup {"heartbeat"}
     /\ Goto("original")
     /\ UNCHANGED <<threads, active, original, mRestoreSucceeded, armed, counts, buses,
                    game, stray>>
  \/ /\ Task("up", "heartbeat", "hook") \/ Task("up", "heartbeat", "original")
     /\ hooked' = hooked \ {"heartbeat"}
     /\ active' = active \ {"heartbeat"}
     /\ stray' = IF game["heartbeat"] = "outside" THEN stray ELSE stray \cup {"heartbeat"}
     /\ Fail("heartbeat")
     /\ UNCHANGED <<threads, original, mRestoreSucceeded, armed, counts, buses, game>>

StoreOriginal ==
  /\ Task("up", "heartbeat", "original")
  /\ original' = TRUE
  /\ Goto("thread")
  /\ UNCHANGED <<threads, hooked, active, mRestoreSucceeded, armed, counts, buses,
                 game, stray>>

\* Without a sampler install takes itself back, then fails.
StartSampler ==
  /\ Task("up", "heartbeat", "thread")
  /\ \/ StartThread("heartbeat", "running") /\ Done
     \/ /\ todo' = <<<<"down", "heartbeat">>>> \o Instead("heartbeat")
        /\ at' = "begin"
        /\ UNCHANGED <<op, standing, lifeCalls, thread, terminated>>
  /\ UNCHANGED <<stop, hooks, counts, buses, game, stray>>

\* The tick hook returns at once while its patch is in place, both return at
\* once while their worker is joinable.
Installed(s) == thread[s] # "notJoinable" \/ (s = "tick" /\ s \in hooked)

InstallSource(s) ==
  /\ Task("up", s, "begin")
  /\ \/ Installed(s) /\ Done /\ UNCHANGED <<stop, inFlight, mRestoreSucceeded, armed>>
     \/ /\ ~Installed(s)
        /\ stop' = [stop EXCEPT ![s] = FALSE]
        /\ inFlight' = [inFlight EXCEPT ![s] = 0]
        /\ mRestoreSucceeded' = (mRestoreSucceeded /\ s # "render")
        /\ armed' = [armed EXCEPT ![s] = mCallCount]
        /\ \/ Goto("register")
           \/ s = "tick" /\ Fail(s)
  /\ UNCHANGED <<thread, terminated, hooked, active, original, mCallCount, buses,
                 game, stray>>

\* Another registration, or no thread for the worker.
Register(s) ==
  /\ Task("up", s, "register")
  /\ \/ /\ s \notin active
        /\ active' = active \cup {s}
        /\ StartThread(s, "gate")
        /\ Done
     \/ Fail(s) /\ UNCHANGED <<active, thread, terminated>>
  /\ UNCHANGED <<stop, hooked, original, mRestoreSucceeded, armed, counts, buses,
                 game, stray>>
-----------------------------------------------------------------------------
(***************************************************************************)
(* The module's threads.                                                   *)
(***************************************************************************)
\* A worker that has seen the heartbeat places its hook, or gives up.
PlaceHook(s) ==
  /\ thread[s] = "gate"
  /\ ~stop[s]
  /\ mCallCount > armed[s]
  /\ \/ thread' = [thread EXCEPT ![s] = "running"] /\ hooked' = hooked \cup {s}
     \/ thread' = [thread EXCEPT ![s] = "ended"] /\ UNCHANGED hooked
  /\ UNCHANGED <<call, stop, terminated, active, original, mRestoreSucceeded, armed,
                 counts, buses, game, stray>>

EndThread(c) ==
  /\ thread[c] \in {"gate", "running"}
  /\ stop[c]
  /\ thread' = [thread EXCEPT ![c] = "ended"]
  /\ UNCHANGED <<call, stop, terminated, hooks, counts, buses, game, stray>>
-----------------------------------------------------------------------------
(***************************************************************************)
(* uninstall of the sources.                                               *)
(***************************************************************************)
RequestStop(c) ==
  /\ Task("down", c, "begin")
  /\ stop' = [stop EXCEPT ![c] = TRUE]
  /\ Goto("join")
  /\ UNCHANGED <<thread, terminated, hooks, counts, buses, game, stray>>

Join(c) ==
  /\ Task("down", c, "join")
  /\ thread[c] \in {"ended", "notJoinable"}
  /\ thread' = [thread EXCEPT ![c] = "notJoinable"]
  /\ Goto("unhook")
  /\ UNCHANGED <<stop, terminated, hooks, counts, buses, game, stray>>

\* The tick hook's restore may fail.
Unhook(s) ==
  /\ Task("down", s, "unhook")
  /\ hooked' \in {hooked \ {s}} \cup (IF s = "tick" THEN {hooked} ELSE {})
  /\ Goto("drain")
  /\ UNCHANGED <<threads, active, original, mRestoreSucceeded, armed, counts, buses,
                 game, stray>>

\* Calls the counter does not show: a drain that sees zero misses them.
Unseen == {"entered", "loaded", "uncounted"}

DrainEnds(s, missed) ==
  /\ mRestoreSucceeded' = IF s = "render" THEN inFlight[s] = 0 ELSE mRestoreSucceeded
  /\ stray' = IF missed THEN stray \cup {s} ELSE stray
  /\ Goto("release")
  /\ UNCHANGED <<threads, hooked, active, original, armed, counts, buses, game>>

\* Mutant: the callbacks in flight are not waited for.
DrainedAtOnce(s) ==
  Task("down", s, "drain") /\ DrainEnds(s, game[s] \in Unseen)

Drained(s) ==
  Task("down", s, "drain") /\ inFlight[s] = 0 /\ DrainEnds(s, game[s] \in Unseen)

DrainTimeout(s) ==
  Task("down", s, "drain") /\ inFlight[s] # 0 /\ DrainEnds(s, TRUE)

\* The registration is cleared, unless the tick hook's patch is still there.
Release(s) ==
  /\ Task("down", s, "release")
  /\ active' = IF s = "tick" /\ s \in hooked THEN active ELSE active \ {s}
  /\ original' = (original /\ s # "heartbeat")
  /\ Goto("judge")
  /\ UNCHANGED <<threads, hooked, mRestoreSucceeded, armed, counts, buses, game,
                 stray>>

\* safeToUnload; the heartbeat hook has none.
SafeToUnload(s) ==
  CASE s = "tick"   -> s \notin hooked
    [] s = "render" -> mRestoreSucceeded /\ s \notin hooked /\ inFlight[s] = 0
    [] OTHER        -> TRUE

Judge(s) ==
  /\ Task("down", s, "judge")
  /\ IF SafeToUnload(s) THEN Done ELSE Refuse
  /\ UNCHANGED <<threads, hooks, counts, buses, game, stray>>

Loader ==
  \/ Return
  \/ \E c \in Listeners :
       StartListener(c) \/ Subscribe(c) \/ StartWriter(c) \/ StopListener(c)
  \/ EndFirstPublication
  \/ InstallHeartbeat \/ HookHeartbeat \/ StoreOriginal \/ StartSampler
  \/ \E s \in {"tick", "render"} : InstallSource(s) \/ Register(s)
  \/ \E c \in Components : RequestStop(c) \/ Join(c)
  \/ \E s \in Sources :
       Unhook(s) \/ Drained(s) \/ DrainTimeout(s) \/ Release(s) \/ Judge(s)
-----------------------------------------------------------------------------
(***************************************************************************)
(* The game's threads in the detours.                                      *)
(***************************************************************************)
GameStep(s, from, to) ==
  /\ game[s] = from
  /\ game' = [game EXCEPT ![s] = to]
  /\ UNCHANGED <<call, threads, hooks, subscribed, running, stray>>

Enter(s) ==
  /\ s \in hooked
  /\ s = "heartbeat" => mCallCount < MaxBeats
  /\ GameStep(s, "outside", "entered")
  /\ UNCHANGED <<counts, odd>>

\* Without a registration the first two leave at once; the render detour looks
\* again after the game's own call.
LoadActive(s) ==
  /\ GameStep(s, "entered",
              IF s \in active THEN "loaded"
              ELSE IF s = "render" THEN "uncounted" ELSE "outside")
  /\ UNCHANGED <<counts, odd>>

Count(s) ==
  /\ GameStep(s, "loaded", "counted")
  /\ inFlight' = [inFlight EXCEPT ![s] = (@ + 1) % CounterMod]
  /\ UNCHANGED <<mCallCount, odd>>

\* The heartbeat's original is called only if it is known.
CallOriginal ==
  /\ GameStep("heartbeat", "counted", IF original THEN "handling" ELSE "leaving")
  /\ UNCHANGED <<counts, odd>>

CountBeat ==
  /\ GameStep("heartbeat", "handling", "leaving")
  /\ mCallCount' = mCallCount + 1
  /\ UNCHANGED <<inFlight, odd>>

\* publish loads the listener.  Before that the render detour looks itself up
\* again, whatever it found the first time.
LoadListener(s, from) ==
  /\ s # "heartbeat"
  /\ GameStep(s, from,
              IF s = "render" /\ s \notin active THEN "outside"
              ELSE IF ListenerOf[s] \in subscribed THEN "delivering" ELSE "leaving")
  /\ UNCHANGED <<counts, odd>>

\* An event without a level is counted by the scheduler and not published.
IgnoreEvent ==
  /\ GameStep("tick", "delivering", "leaving")
  /\ UNCHANGED <<counts, odd>>

\* onClientLevelTick publishes a snapshot, onLevelRender reads one.
BeginHandler(s) ==
  /\ s # "heartbeat"
  /\ GameStep(s, "delivering", "handling")
  /\ odd' = (IF s = "tick" THEN ~odd ELSE odd)
  /\ UNCHANGED counts

EndHandler(s) ==
  /\ s # "heartbeat"
  /\ GameStep(s, "handling", "leaving")
  /\ odd' = (IF s = "tick" THEN ~odd ELSE odd)
  /\ UNCHANGED counts

Uncount(s) ==
  /\ GameStep(s, "leaving", "outside")
  /\ inFlight' = [inFlight EXCEPT ![s] = (@ - 1) % CounterMod]
  /\ UNCHANGED <<mCallCount, odd>>

Game ==
  \/ \E s \in Sources :
       \/ Enter(s) \/ LoadActive(s) \/ Count(s)
       \/ BeginHandler(s) \/ EndHandler(s)
       \/ Uncount(s)
       \/ \E from \in {"counted", "uncounted"} : LoadListener(s, from)
  \/ CallOriginal \/ CountBeat \/ IgnoreEvent

Threads ==
  \/ \E s \in {"tick", "render"} : PlaceHook(s)
  \/ \E c \in Components : EndThread(c)

\* A callback left in an unloaded module would run unmapped code; here it leaves.
Next == Enable \/ Disable \/ Unload \/ Loader \/ Threads \/ Game

Spec == Init /\ [][Next]_vars
-----------------------------------------------------------------------------
(***************************************************************************)
(* Properties.                                                             *)
(***************************************************************************)
TypeOK ==
  /\ op \in {"none"} \cup DOMAIN Result
  /\ todo \in Seq({"up", "down"} \X Components)
  /\ at \in {"begin", "publish", "subscribe", "thread", "hook", "original",
            "register", "join", "unhook", "drain", "release", "judge"}
  /\ standing \in {"enabled", "disabled", "unloaded", "refused"}
  /\ lifeCalls \in 0..MaxCalls
  /\ thread \in [Components -> ThreadSteps]
  /\ stop \in [Components -> BOOLEAN]
  /\ hooked \subseteq Sources /\ active \subseteq Sources /\ stray \subseteq Sources
  /\ original \in BOOLEAN /\ mRestoreSucceeded \in BOOLEAN
  /\ inFlight \in [Sources -> 0..CounterMod - 1]
  /\ mCallCount \in 0..MaxBeats
  /\ armed \in [Sources -> 0..MaxBeats]
  /\ subscribed \subseteq Listeners /\ running \subseteq Listeners
  /\ odd \in BOOLEAN /\ terminated \in BOOLEAN
  /\ game \in [Sources -> GameSteps]

Resting == op = "none"

\* A disable or unload that returns true has taken everything down, whichever
\* starts failed and however often it was refused before: no hook, no
\* registration, no listener in a bus, no thread, and no thread object was ever
\* assigned over a joinable one.
QuietWhenDisabled ==
  /\ TypeOK /\ ~terminated
  /\ Resting /\ standing \in {"disabled", "unloaded"} =>
       /\ hooked = {} /\ active = {} /\ ~original
       /\ subscribed = {} /\ running = {}
       /\ \A c \in Components : thread[c] = "notJoinable"

\* After enable no listener is left waiting for a source that is not there: a
\* running scheduler has the heartbeat and the tick hook, or its worker, and a
\* running probe has the render worker as well.
ListenersHaveSource ==
  Resting /\ standing = "enabled" /\ running # {} =>
    /\ "heartbeat" \in hooked /\ thread["heartbeat"] = "running"
    /\ Installed("tick")
    /\ "probe" \in running => Installed("render")

\* A listener is stopped only when its source's hook is out of the game and no
\* callback is on its way to it, except one that outlived its drain.
StopsAfterSource ==
  [][\A s \in {"tick", "render"} :
       ListenerOf[s] \in running /\ ListenerOf[s] \notin running' =>
         /\ s \notin hooked
         /\ game[s] \in {"delivering", "handling"} => s \in stray]_vars

\* While the module is disabled or unloaded the only callbacks inside it are the
\* ones the drain gave up on or the counter did not show, or that met a heartbeat
\* hook that was taken back at once.
OnlyStraysRemain ==
  Resting /\ standing \in {"disabled", "unloaded"} =>
    \A s \in Sources : game[s] # "outside" => s \in stray

\* The sequence counter is odd exactly while one of its two writers, start on
\* the loader's thread or a tick callback, is inside a publication.
SequenceParity ==
  odd <=> (Task("up", "scheduler", "publish") \/ game["tick"] = "handling")

\* That holds as long as no callback of the game has outlived its drain.  A stray
\* of the render hook is enough to break it: it makes disable refuse before the
\* tick hook is drained, so that a scheduler whose thread could not start may be
\* started again under a tick callback that had found it on the bus.
ParityWithoutStrays == stray \cap {"tick", "render"} = {} => SequenceParity

\* Callbacks that outlive a drain are all that escapes an orderly shutdown.
OnlyStraysEscape == OnlyStraysRemain /\ ParityWithoutStrays

=============================================================================
