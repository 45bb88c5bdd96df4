-------------------------- MODULE LevelRenderHook --------------------------
(***************************************************************************)
(* The life of the three inline hooks of                                   *)
(* src/src/bedrock/LevelRenderHook.cpp: a worker installs them once the    *)
(* game runs steadily, the game's threads pass through the detours, and    *)
(* uninstall removes the hooks, waits for the callbacks it counted, and    *)
(* says whether the module may be unloaded.                                *)
(*                                                                         *)
(* Every detour runs a begin callback, the original function, and an end   *)
(* callback; each callback loads sActive for itself.  The terrain helper   *)
(* is called from inside a terrain task, so that a thread has a stack of   *)
(* detours.  What the callbacks record is left to DescriptorCensus and     *)
(* RenderSnapshot; the heartbeat gate of the worker is a free choice here. *)
(***************************************************************************)
EXTENDS Integers, Sequences, FiniteSets

CONSTANTS
  Threads,       \* game threads
  CounterMod,    \* 2^32: the callback counter is a uint32; a thread counts twice at most
  MaxEntries,    \* bound: detours entered
  MaxInstalls,   \* bound: calls of install()
  MaxUninstalls  \* bound: calls of uninstall()

ASSUME HookAssumption ==
  /\ IsFiniteSet(Threads)
  /\ CounterMod \in Nat /\ CounterMod > 2 * Cardinality(Threads)
  /\ {MaxEntries, MaxInstalls, MaxUninstalls} \subseteq Nat

VARIABLES
  live,                \* hooks in the game's code
  original,            \* hooks whose gOriginal... is set
  sActive,             \* the hook object is registered
  mCallbacksInFlight,
  mStopRequested,
  mRestoreSucceeded,
  worker,              \* where workerLoop is, or "notJoinable"
  control,             \* where the loader's thread is
  removal,             \* where removeHooks is
  stack,               \* per thread: the detours it is in, innermost last
  depth,               \* per thread: gTerrainThreadState.depth
  entries, installs, uninstalls, \* bounds
  forgotten,           \* history: callbacks the last install() zeroed the counter under
  outlived             \* history: a callback outlived its registration

flags  == <<sActive, mStopRequested, mRestoreSucceeded>>
hooks  == <<live, original>>
limits == <<entries, installs, uninstalls>>
history == <<forgotten, outlived>>
vars   == <<hooks, flags, mCallbacksInFlight, worker, control, removal, stack,
            depth, limits, history>>

Hooks == {"helper", "task", "render"}

Phases == {"entered", "loaded", "begun", "calling", "returning", "ending"}

WorkerSteps == {"notJoinable", "gate", "helper", "helperLive", "task", "taskLive",
                "render", "renderLive", "running", "removing", "exited"}

\* The states in which the loader waits for the user's next wish.
Rest == {"disabled", "enabled", "refused", "unloaded"}

Frames(t) == DOMAIN stack[t]

Innermost(t) == stack[t][Len(stack[t])]

\* Callbacks as <<thread, stack position>>: those counted in mCallbacksInFlight,
\* and those that are past their first look at the registration.
CountedFrames ==
  UNION {{<<t, i>> : i \in {j \in Frames(t) : stack[t][j].counted}} : t \in Threads}

BegunFrames ==
  UNION {{<<t, i>> : i \in {j \in Frames(t) : stack[t][j].phase \notin {"entered", "loaded"}}}
           : t \in Threads}

Init ==
  /\ live = {}
  /\ original = {}
  /\ sActive = FALSE
  /\ mCallbacksInFlight = 0
  /\ mStopRequested = FALSE
  /\ mRestoreSucceeded = FALSE
  /\ worker = "notJoinable"
  /\ control = "disabled"
  /\ removal = "none"
  /\ stack = [t \in Threads |-> <<>>]
  /\ depth = [t \in Threads |-> 0]
  /\ entries = 0 /\ installs = 0 /\ uninstalls = 0
  /\ forgotten = 0 /\ outlived = FALSE
-----------------------------------------------------------------------------
(***************************************************************************)
(* removeHooks, run by uninstall, and by the worker when a hook fails.     *)
(***************************************************************************)
Unhook(h) ==
  /\ removal = "unhook"
  /\ h \in live
  /\ h # "render" => "render" \notin live
  /\ h = "helper" => "task" \notin live
  /\ live' = live \ {h}
  /\ UNCHANGED <<original, flags, mCallbacksInFlight, worker, control, removal,
                 stack, depth, limits, history>>

Unhooked ==
  /\ removal = "unhook"
  /\ live = {}
  /\ removal' = "drain"
  /\ UNCHANGED <<hooks, flags, mCallbacksInFlight, worker, control, stack, depth,
                 limits, history>>

Drained ==
  /\ removal = "drain"
  /\ mCallbacksInFlight = 0
  /\ removal' = "forget"
  /\ UNCHANGED <<hooks, flags, mCallbacksInFlight, worker, control, stack, depth,
                 limits, history>>

\* Mutant: the drain has no limit.
DrainForever == FALSE

\* 400 sleeps of 5 ms are over.
DrainTimeout ==
  /\ removal = "drain"
  /\ mCallbacksInFlight # 0
  /\ removal' = "forget"
  /\ UNCHANGED <<hooks, flags, mCallbacksInFlight, worker, control, stack, depth,
                 limits, history>>

ForgetOriginals ==
  /\ removal = "forget"
  /\ original' = {}
  /\ removal' = "judge"
  /\ UNCHANGED <<live, flags, mCallbacksInFlight, worker, control, stack, depth,
                 limits, history>>

JudgeRestore ==
  /\ removal = "judge"
  /\ mRestoreSucceeded' = (live = {} /\ mCallbacksInFlight = 0)
  /\ removal' = "none"
  /\ worker' = IF worker = "removing" THEN "exited" ELSE worker
  /\ control' = IF control = "removing" THEN "release" ELSE control
  /\ UNCHANGED <<hooks, sActive, mStopRequested, mCallbacksInFlight, stack, depth,
                 limits, history>>

RemoveHooks ==
  \/ \E h \in Hooks : Unhook(h)
  \/ Unhooked \/ Drained \/ DrainTimeout \/ ForgetOriginals \/ JudgeRestore
-----------------------------------------------------------------------------
(***************************************************************************)
(* install, workerLoop and installHooks.                                   *)
(***************************************************************************)
\* install() asks for nothing but a worker that is not there, so that it also
\* follows a refusal.  The counter is set to zero and the object registered; the
\* worker starts, or the system has no thread for it.
Install ==
  /\ control \in {"disabled", "refused", "enabled"}
  /\ worker = "notJoinable"
  /\ installs < MaxInstalls
  /\ installs' = installs + 1
  /\ mStopRequested' = FALSE
  /\ mRestoreSucceeded' = FALSE
  /\ mCallbacksInFlight' = 0
  /\ control' = "enabled"
  /\ \/ worker' = "gate" /\ sActive' = TRUE
     \/ worker' = worker /\ sActive' = FALSE
  /\ forgotten' = Cardinality(BegunFrames)
  /\ UNCHANGED <<hooks, removal, stack, depth, entries, uninstalls, outlived>>

WorkerGoto(from, to) ==
  /\ worker = from
  /\ worker' = to
  /\ UNCHANGED <<flags, mCallbacksInFlight, control, stack, depth, limits, history>>

\* The heartbeat was steady for eight seconds and the binary is the known one.
LeaveGate ==
  /\ ~mStopRequested
  /\ WorkerGoto("gate", "helper")
  /\ UNCHANGED <<hooks, removal>>

\* uninstall was asked for, or the binary is not the known one.
LeaveGateIdle == WorkerGoto("gate", "exited") /\ UNCHANGED <<hooks, removal>>

\* The first hook cannot be placed, or comes without an original and is taken out
\* again.  Nothing else is to be removed, and nobody is waited for.
HelperHookFails ==
  /\ worker \in {"helper", "helperLive"}
  /\ WorkerGoto(worker, "exited")
  /\ live' = live \ {"helper"}
  /\ UNCHANGED <<original, removal>>

\* A later hook cannot be placed, or comes without an original: those placed are
\* removed.
HookFails ==
  /\ worker \in {"task", "taskLive", "render", "renderLive"}
  /\ WorkerGoto(worker, "removing")
  /\ removal' = "unhook"
  /\ UNCHANGED hooks

Placed == [helper |-> "helperLive", task |-> "taskLive", render |-> "renderLive"]

\* The hook is live before gOriginal... is assigned.
PlaceHook(h) ==
  /\ live' = live \cup {h}
  /\ WorkerGoto(h, Placed[h])
  /\ UNCHANGED <<original, removal>>

AssignOriginal(h, next) ==
  /\ original' = original \cup {h}
  /\ WorkerGoto(Placed[h], next)
  /\ UNCHANGED <<live, removal>>

WorkerStops ==
  /\ mStopRequested
  /\ WorkerGoto("running", "exited")
  /\ UNCHANGED <<hooks, removal>>

Worker ==
  \/ LeaveGate \/ LeaveGateIdle
  \/ HelperHookFails \/ HookFails
  \/ \E h \in Hooks : PlaceHook(h)
  \/ AssignOriginal("helper", "task")
  \/ AssignOriginal("task", "render")
  \/ AssignOriginal("render", "running")
  \/ WorkerStops
  \/ worker = "removing" /\ RemoveHooks
-----------------------------------------------------------------------------
(***************************************************************************)
(* uninstall and the caller's safeToUnload, from disable() and unload().   *)
(***************************************************************************)
Uninstall ==
  /\ control \in {"enabled", "refused", "disabled"}
  /\ uninstalls < MaxUninstalls
  /\ uninstalls' = uninstalls + 1
  /\ control' = "join"
  /\ mStopRequested' = TRUE
  /\ UNCHANGED <<hooks, sActive, mRestoreSucceeded, mCallbacksInFlight, worker,
                 removal, stack, depth, entries, installs, history>>

\* Mutant: the worker is not waited for.
JoinSkipped ==
  /\ control = "join"
  /\ worker' = worker
  /\ control' = "removing"
  /\ removal' = "unhook"
  /\ UNCHANGED <<hooks, flags, mCallbacksInFlight, stack, depth, limits, history>>

Join ==
  /\ control = "join"
  /\ worker \in {"exited", "notJoinable"}
  /\ worker' = "notJoinable"
  /\ control' = "removing"
  /\ removal' = "unhook"
  /\ UNCHANGED <<hooks, flags, mCallbacksInFlight, stack, depth, limits, history>>

\* A callback that has seen the object registered, or is counted, and ends after
\* it is released.
Straddling ==
  \E t \in Threads : \E i \in Frames(t) :
    stack[t][i].counted \/ stack[t][i].phase \in {"loaded", "ending"}

Release ==
  /\ control = "release"
  /\ sActive' = FALSE
  /\ control' = "judge"
  /\ outlived' = (outlived \/ Straddling)
  /\ UNCHANGED <<hooks, mStopRequested, mRestoreSucceeded, mCallbacksInFlight,
                 worker, removal, stack, depth, limits, forgotten>>

safeToUnload == mRestoreSucceeded /\ live = {} /\ mCallbacksInFlight = 0

Refuse ==
  /\ control = "judge"
  /\ ~safeToUnload
  /\ control' = "refused"
  /\ UNCHANGED <<hooks, flags, mCallbacksInFlight, worker, removal, stack, depth,
                 limits, history>>

\* Mutant: safeToUnload looks at the hooks only.
AcceptBusy ==
  /\ control = "judge"
  /\ control' \in {"disabled", "unloaded"}
  /\ UNCHANGED <<hooks, flags, mCallbacksInFlight, worker, removal, stack, depth,
                 limits, history>>

Accept ==
  /\ control = "judge"
  /\ safeToUnload
  /\ control' \in {"disabled", "unloaded"}
  /\ UNCHANGED <<hooks, flags, mCallbacksInFlight, worker, removal, stack, depth,
                 limits, history>>

UninstallSteps ==
  \/ Join
  \/ control = "removing" /\ RemoveHooks
  \/ Release \/ Refuse \/ Accept

Control == Install \/ Uninstall \/ UninstallSteps
-----------------------------------------------------------------------------
(***************************************************************************)
(* The detours.                                                            *)
(***************************************************************************)
\* The game's code may call a hooked function: a task or a frame on its own, the
\* helper on its own or from a task.
MayEnter(t, h) ==
  \/ stack[t] = <<>>
  \/ h = "helper" /\ Len(stack[t]) = 1 /\ stack[t][1].hook = "task"
                  /\ stack[t][1].phase = "calling"

Enter(t, h) ==
  /\ h \in live
  /\ MayEnter(t, h)
  /\ entries < MaxEntries
  /\ entries' = entries + 1
  /\ stack' = [stack EXCEPT ![t] =
                 Append(@, [hook |-> h, phase |-> "entered", counted |-> FALSE])]
  /\ UNCHANGED <<hooks, flags, mCallbacksInFlight, worker, control, removal, depth,
                 installs, uninstalls, history>>

\* The innermost detour of t moves on.
FrameStep(t, from, to, counted) ==
  /\ stack[t] # <<>>
  /\ Innermost(t).phase = from
  /\ stack' = [stack EXCEPT ![t] = [@ EXCEPT ![Len(@)] =
                 [hook |-> Innermost(t).hook, phase |-> to, counted |-> counted]]]
  /\ UNCHANGED <<hooks, flags, worker, control, removal, limits, history>>

LoadActive(t) ==
  /\ FrameStep(t, "entered", IF sActive THEN "loaded" ELSE "begun", FALSE)
  /\ UNCHANGED <<mCallbacksInFlight, depth>>

\* Mutant: a helper outside a task is not counted on its way in.
BeginOnlyInTask(t) ==
  /\ FrameStep(t, "loaded", "begun", TRUE)
  /\ mCallbacksInFlight' =
       IF Innermost(t).hook = "helper" /\ depth[t] = 0 THEN mCallbacksInFlight
       ELSE (mCallbacksInFlight + 1) % CounterMod
  /\ depth' = IF Innermost(t).hook = "task"
              THEN [depth EXCEPT ![t] = @ + 1] ELSE depth

\* record...Pre, Begin: the callback is counted, a task opens its scope.
Begin(t) ==
  /\ FrameStep(t, "loaded", "begun", TRUE)
  /\ mCallbacksInFlight' = (mCallbacksInFlight + 1) % CounterMod
  /\ depth' = IF Innermost(t).hook = "task"
              THEN [depth EXCEPT ![t] = @ + 1] ELSE depth

\* The original function is called if its address is known, and skipped if not.
CallOriginal(t) ==
  /\ stack[t] # <<>>
  /\ FrameStep(t, "begun",
               IF Innermost(t).hook \in original THEN "calling" ELSE "returning",
               Innermost(t).counted)
  /\ UNCHANGED <<mCallbacksInFlight, depth>>

OriginalReturns(t) ==
  /\ stack[t] # <<>>
  /\ FrameStep(t, "calling", "returning", Innermost(t).counted)
  /\ UNCHANGED <<mCallbacksInFlight, depth>>

\* record...Post, End: nothing at all if no object is registered now.
EndUnregistered(t) ==
  /\ stack[t] # <<>>
  /\ Innermost(t).phase = "returning"
  /\ ~sActive
  /\ stack' = [stack EXCEPT ![t] = SubSeq(@, 1, Len(@) - 1)]
  /\ UNCHANGED <<hooks, flags, mCallbacksInFlight, worker, control, removal, depth,
                 limits, history>>

LoadActiveAgain(t) ==
  /\ sActive
  /\ stack[t] # <<>>
  /\ FrameStep(t, "returning", "ending", Innermost(t).counted)
  /\ UNCHANGED <<mCallbacksInFlight, depth>>

\* The scope of a task is left before the callback is uncounted.
ScopeAfter(t) ==
  IF Innermost(t).hook = "task" /\ depth[t] > 0
  THEN [depth EXCEPT ![t] = @ - 1] ELSE depth

End(t) ==
  /\ stack[t] # <<>>
  /\ Innermost(t).phase = "ending"
  /\ depth' = ScopeAfter(t)
  /\ mCallbacksInFlight' = (mCallbacksInFlight - 1) % CounterMod
  /\ stack' = [stack EXCEPT ![t] = SubSeq(@, 1, Len(@) - 1)]
  /\ UNCHANGED <<hooks, flags, worker, control, removal, limits, history>>

Game(t) ==
  \/ \E h \in Hooks : Enter(t, h)
  \/ LoadActive(t) \/ Begin(t) \/ CallOriginal(t) \/ OriginalReturns(t)
  \/ EndUnregistered(t) \/ LoadActiveAgain(t) \/ End(t)

\* Nothing runs in a module that was unloaded.
Next ==
  /\ control # "unloaded"
  /\ Worker \/ Control \/ \E t \in Threads : Game(t)

Spec == Init /\ [][Next]_vars

\* The worker's steps other than leaving the gate with the game running, and
\* those of an uninstall begun, are taken: its sleeps and its 400 attempts end.
\* Game threads promise nothing.
WorkerScheduled == Worker /\ (worker = "gate" => mStopRequested)
FairSpec == Spec /\ WF_vars(WorkerScheduled) /\ WF_vars(UninstallSteps)
-----------------------------------------------------------------------------
FrameType == [hook : Hooks, phase : Phases, counted : BOOLEAN]

TypeOK ==
  /\ live \subseteq Hooks /\ original \subseteq Hooks
  /\ {sActive, mStopRequested, mRestoreSucceeded, outlived} \subseteq BOOLEAN
  /\ mCallbacksInFlight \in 0 .. CounterMod - 1
  /\ worker \in WorkerSteps
  /\ control \in Rest \cup {"join", "removing", "release", "judge"}
  /\ removal \in {"none", "unhook", "drain", "forget", "judge"}
  /\ \A t \in Threads : \A i \in Frames(t) : stack[t][i] \in FrameType
  /\ \A t \in Threads : Len(stack[t]) <= 2
  /\ depth \in [Threads -> Nat]
  /\ forgotten \in 0 .. 2 * Cardinality(Threads)
  /\ entries \in 0 .. MaxEntries
  /\ installs \in 0 .. MaxInstalls
  /\ uninstalls \in 0 .. MaxUninstalls

\* Once uninstall is past the removal, whatever the worker was doing when it
\* was called, no hook is in the game's code and no original is remembered.
NothingLiveAtRest ==
  control \in {"release", "judge", "disabled", "refused", "unloaded"} =>
    live = {} /\ original = {} /\ worker = "notJoinable"

\* A hook that is live was placed by a worker that is still there to stop, and
\* its original is known from the moment after, or it came without one and the
\* worker is removing it.
HooksOwned ==
  \A h \in live :
    /\ \/ worker \notin {"notJoinable", "exited"}
       \/ worker = "exited" /\ control = "join"
       \/ control = "removing" /\ removal = "unhook"
    /\ h \in original \/ worker \in {Placed[h], "removing"}

\* Every hook, and every thread object, has somebody to take it down.
HooksAccounted == TypeOK /\ NothingLiveAtRest /\ HooksOwned

\* The counter is the number of callbacks counted and not ended, if the last
\* install() met none: always while the object is registered, and afterwards as
\* long as no callback has outlived a registration.
CounterTracksCallbacks ==
  forgotten = 0 /\ (sActive \/ ~outlived) =>
    mCallbacksInFlight = Cardinality(CountedFrames) % CounterMod

Tasks(t) == {i \in Frames(t) : stack[t][i].hook = "task" /\ stack[t][i].counted}

\* A thread's scope depth is the number of counted tasks it is in, so that a
\* helper is attributed to the task it runs in and to no task that is over; also
\* for tasks that an install() met.
ScopeTracksTasks ==
  ~outlived => \A t \in Threads : depth[t] = Cardinality(Tasks(t))

\* What telemetry says of callbacks and tasks is true of the threads.
CountersTrackCallbacks == CounterTracksCallbacks /\ ScopeTracksTasks

\* A callback that outlives the drain makes uninstall refuse, and every retry of
\* it; but install() may follow the refusal, and zeroes the counter under the
\* callback, which takes off one too many when it ends.  A module that is unloaded
\* has no more counted callbacks in its code than the last install() met in it, and
\* none if it met none.
UnloadLeavesOnlyForgotten ==
  control = "unloaded" => Cardinality(CountedFrames) <= forgotten

\* An uninstall always returns: the worker can be joined and the drain gives up.
UninstallReturns == control = "join" ~> control \in Rest
=============================================================================
