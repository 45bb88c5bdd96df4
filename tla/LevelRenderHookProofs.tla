----------------------- MODULE LevelRenderHookProofs -----------------------
(***************************************************************************)
(* Proofs about LevelRenderHook for every number of game threads and every *)
(* bound: who answers for a hook that is live, what the callback counter   *)
(* counts, and that of the counted callbacks in an unloaded module there   *)
(* are no more than an install() met.                                      *)
(***************************************************************************)
EXTENDS LevelRenderHook, FiniteSetTheorems, SequenceTheorems, TLAPS

\* The types that the steps of the loader and of the worker change.
LifeType ==
  /\ live \subseteq Hooks /\ original \subseteq Hooks
  /\ sActive \in BOOLEAN /\ mStopRequested \in BOOLEAN /\ mRestoreSucceeded \in BOOLEAN
  /\ worker \in WorkerSteps
  /\ control \in Rest \cup {"join", "removing", "release", "judge"}
  /\ removal \in {"none", "unhook", "drain", "forget", "judge"}
  /\ installs \in 0 .. MaxInstalls /\ uninstalls \in 0 .. MaxUninstalls

\* The worker is gone before the loader removes the hooks, so that removeHooks
\* runs once at a time, and without a worker nothing is registered at rest.
Alternation ==
  /\ control \in {"removing", "release", "judge", "disabled", "refused", "unloaded"} =>
       worker = "notJoinable"
  /\ removal # "none" <=> worker = "removing" \/ control = "removing"
  /\ mStopRequested => worker = "notJoinable" \/ control = "join"
  /\ control \in {"judge", "disabled", "refused", "unloaded"} => ~sActive
  /\ control = "enabled" /\ worker = "notJoinable" => ~sActive

\* What is live and what is remembered, by the place of the worker and of
\* removeHooks.
HooksByStep ==
  /\ worker \in {"gate", "helper"} => live = {} /\ original = {}
  /\ worker = "helperLive" => live = {"helper"} /\ original = {}
  /\ worker = "task" => live = {"helper"} /\ original = {"helper"}
  /\ worker = "taskLive" => live = {"helper", "task"} /\ original = {"helper"}
  /\ worker = "render" => live = {"helper", "task"} /\ original = {"helper", "task"}
  /\ worker = "renderLive" => live = Hooks /\ original = {"helper", "task"}
  /\ worker = "running" => live = Hooks /\ original = Hooks
  /\ worker = "notJoinable" /\ control # "removing" => live = {} /\ original = {}
  /\ worker = "exited" => live = original /\ (live # {} => control = "join")
  /\ removal = "unhook" /\ worker # "removing" => live \subseteq original
  /\ removal \in {"drain", "forget"} => live = {}
  /\ removal = "judge" => live = {} /\ original = {}

LifeInv == LifeType /\ Alternation /\ HooksByStep

life == <<hooks, flags, worker, control, removal, installs, uninstalls>>

LEMMA RemovalKeepsLife ==
  ASSUME LifeInv, RemoveHooks, worker = "removing" \/ control = "removing"
  PROVE  LifeInv'
<1> USE DEF LifeInv, LifeType, Alternation, HooksByStep, Hooks, flags, hooks, limits,
            WorkerSteps, Rest
<1>1. CASE \E h \in Hooks : Unhook(h)
  BY <1>1 DEF Unhook
<1>2. CASE Unhooked
  BY <1>2 DEF Unhooked
<1>3. CASE Drained
  BY <1>3 DEF Drained
<1>4. CASE DrainTimeout
  BY <1>4 DEF DrainTimeout
<1>5. CASE ForgetOriginals
  BY <1>5 DEF ForgetOriginals
<1>6. CASE JudgeRestore
  <2>1. mRestoreSucceeded' \in BOOLEAN
    BY <1>6, Zenon DEF JudgeRestore
  <2>2. QED
    BY <1>6, <2>1 DEF JudgeRestore
<1>7. QED
  BY <1>1, <1>2, <1>3, <1>4, <1>5, <1>6 DEF RemoveHooks

LEMMA WorkerKeepsLife == LifeInv /\ Worker => LifeInv'
<1> SUFFICES ASSUME LifeInv, Worker PROVE LifeInv'
  OBVIOUS
<1>1. CASE worker = "removing" /\ RemoveHooks
  BY <1>1, RemovalKeepsLife
<1> USE DEF LifeInv, LifeType, Alternation, HooksByStep, Hooks, flags, hooks, limits,
            WorkerSteps, Rest, WorkerGoto
<1>2. CASE LeaveGate
  BY <1>2 DEF LeaveGate
<1>3. CASE LeaveGateIdle
  BY <1>3 DEF LeaveGateIdle
<1>4. CASE HelperHookFails
  BY <1>4 DEF HelperHookFails
<1>5. CASE HookFails
  BY <1>5 DEF HookFails
<1>6. CASE \E h \in Hooks : PlaceHook(h)
  <2>1. PICK h \in Hooks : PlaceHook(h)
    BY <1>6
  <2>2. CASE h = "helper"
    BY <2>1, <2>2 DEF PlaceHook, Placed
  <2>3. CASE h = "task"
    BY <2>1, <2>3 DEF PlaceHook, Placed
  <2>4. CASE h = "render"
    BY <2>1, <2>4 DEF PlaceHook, Placed
  <2>5. QED
    BY <2>2, <2>3, <2>4
<1>7. CASE AssignOriginal("helper", "task")
  BY <1>7 DEF AssignOriginal, Placed
<1>8. CASE AssignOriginal("task", "render")
  BY <1>8 DEF AssignOriginal, Placed
<1>9. CASE AssignOriginal("render", "running")
  BY <1>9 DEF AssignOriginal, Placed
<1>10. CASE WorkerStops
  BY <1>10 DEF WorkerStops
<1>11. QED
  BY <1>1, <1>2, <1>3, <1>4, <1>5, <1>6, <1>7, <1>8, <1>9, <1>10 DEF Worker

LEMMA ControlKeepsLife == LifeInv /\ Control => LifeInv'
<1> SUFFICES ASSUME LifeInv, Control PROVE LifeInv'
  OBVIOUS
<1>1. CASE control = "removing" /\ RemoveHooks
  BY <1>1, RemovalKeepsLife
<1> USE HookAssumption
    DEF LifeInv, LifeType, Alternation, HooksByStep, Hooks, flags, hooks, limits,
            WorkerSteps, Rest
<1>2. CASE Install
  <2>1. installs' \in 0 .. MaxInstalls /\ UNCHANGED <<hooks, removal, uninstalls>>
    BY <1>2 DEF Install
  <2>2. /\ worker' \in {"gate", "notJoinable"} /\ control' = "enabled"
        /\ sActive' \in BOOLEAN /\ ~mStopRequested' /\ mStopRequested' \in BOOLEAN
        /\ mRestoreSucceeded' \in BOOLEAN /\ (worker' = "gate" \/ ~sActive')
    BY <1>2, Zenon DEF Install
  <2>3. live = {} /\ original = {} /\ removal = "none"
    BY <1>2 DEF Install
  <2>4. QED
    BY <2>1, <2>2, <2>3
<1>3. CASE Uninstall
  BY <1>3 DEF Uninstall
<1>4. CASE Join
  BY <1>4 DEF Join
<1>5. CASE Release
  BY <1>5 DEF Release
<1>6. CASE Refuse
  BY <1>6 DEF Refuse
<1>7. CASE Accept
  BY <1>7 DEF Accept
<1>8. QED
  BY <1>1, <1>2, <1>3, <1>4, <1>5, <1>6, <1>7 DEF Control, UninstallSteps

LEMMA GameKeepsLife ==
  ASSUME LifeInv, NEW t \in Threads, Game(t)
  PROVE  LifeInv' /\ UNCHANGED life
<1>1. UNCHANGED life
  BY DEF Game, Enter, LoadActive, Begin, CallOriginal, OriginalReturns,
         EndUnregistered, LoadActiveAgain, End, FrameStep, life, limits
<1>2. QED
  BY <1>1 DEF life, flags, hooks, LifeInv, LifeType, Alternation, HooksByStep
-----------------------------------------------------------------------------
(***************************************************************************)
(* The stacks.  A thread is in at most two detours, in two of them only as *)
(* a helper called from a task.                                            *)
(***************************************************************************)
StackInv ==
  /\ stack \in [Threads -> Seq(FrameType)]
  /\ \A t \in Threads : Len(stack[t]) <= 2
  /\ \A t \in Threads : Len(stack[t]) = 2 =>
       /\ stack[t][1].hook = "task" /\ stack[t][1].phase = "calling"
       /\ stack[t][2].hook = "helper"

\* Where a thread can be in a detour, and what the detour there is.
Places == Threads \X (1 .. 2)
Present(p) == p[2] \in 1 .. Len(stack[p[1]])
Detour(p) == stack[p[1]][p[2]]

CountedPlaces == {p \in Places : Present(p) /\ Detour(p).counted}
LoadedPlaces == {p \in Places : Present(p) /\ Detour(p).phase = "loaded"}
BegunPlaces == {p \in Places : Present(p) /\ Detour(p).phase \notin {"entered", "loaded"}}

\* A callback that will take itself off the counter without being on it.
Dooms(f) ==
  /\ ~f.counted
  /\ f.phase = "ending" \/ (sActive /\ f.phase \in {"begun", "calling", "returning"})
DoomedPlaces == {p \in Places : Present(p) /\ Dooms(Detour(p))}

\* A callback is counted from its begin on.  Unless one has outlived a
\* registration, none is counted, or about to be, without one.
DetourOK(f) ==
  /\ f.counted => f.phase \notin {"entered", "loaded"}
  /\ ~outlived /\ ~sActive => ~f.counted /\ f.phase \notin {"loaded", "ending"}

DetoursInv == \A p \in Places : Present(p) => DetourOK(Detour(p))

\* The innermost detour of t changes.
LEMMA TopChanges ==
  ASSUME StackInv, NEW t \in Threads, stack[t] # <<>>,
         NEW to \in Phases, NEW counted \in BOOLEAN,
         stack' = [stack EXCEPT ![t] = [@ EXCEPT ![Len(@)] =
                     [hook |-> Innermost(t).hook, phase |-> to, counted |-> counted]]]
  PROVE  /\ StackInv'
         /\ \A u \in Threads : Len(stack'[u]) = Len(stack[u])
         /\ \A u \in Threads : \A i \in 1 .. Len(stack[u]) :
              u # t \/ i # Len(stack[t]) => stack'[u][i] = stack[u][i]
         /\ Len(stack[t]) \in 1 .. 2
         /\ stack'[t][Len(stack[t])] =
              [hook |-> Innermost(t).hook, phase |-> to, counted |-> counted]
<1> DEFINE n == Len(stack[t])
           new == [hook |-> Innermost(t).hook, phase |-> to, counted |-> counted]
<1>1. stack[t] \in Seq(FrameType) /\ n \in 1 .. 2
  <2>1. stack[t] \in Seq(FrameType) /\ n <= 2
    BY DEF StackInv
  <2>2. n \in Nat \ {0}
    BY <2>1, EmptySeq
  <2> HIDE DEF n
  <2>3. QED
    BY <2>1, <2>2
<1>2. Innermost(t) \in FrameType /\ new \in FrameType
  <2>1. Innermost(t) \in FrameType
    BY <1>1, ElementOfSeq DEF Innermost
  <2>2. QED
    BY <2>1 DEF FrameType
<1>3. stack'[t] = [stack[t] EXCEPT ![n] = new]
  BY DEF StackInv
<1> HIDE DEF new
<1>4. /\ stack'[t] \in Seq(FrameType) /\ Len(stack'[t]) = n /\ stack'[t][n] = new
      /\ \A i \in 1 .. n : i # n => stack'[t][i] = stack[t][i]
  <2>1. n \in 1 .. Len(stack[t]) /\ new \in FrameType
    BY <1>1, <1>2
  <2>2. QED
    BY <1>1, <1>3, <2>1, ExceptSeq
<1>5. \A u \in Threads : u # t => stack'[u] = stack[u]
  BY DEF StackInv
<1>6. stack' \in [Threads -> Seq(FrameType)]
  BY <1>2, <1>3, <1>4 DEF StackInv
<1>7. new.hook = Innermost(t).hook
  BY DEF new
<1>8. StackInv'
  <2>1. \A u \in Threads : Len(stack'[u]) = Len(stack[u])
    BY <1>4, <1>5
  <2>2. ASSUME NEW u \in Threads, Len(stack'[u]) = 2
        PROVE  /\ stack'[u][1].hook = "task" /\ stack'[u][1].phase = "calling"
               /\ stack'[u][2].hook = "helper"
    <3>1. CASE u # t
      BY <1>5, <2>2, <3>1 DEF StackInv
    <3>2. CASE u = t
      <4>1. /\ n = 2 /\ stack[t][1].hook = "task" /\ stack[t][1].phase = "calling"
            /\ Innermost(t).hook = "helper"
        BY <1>4, <2>2, <3>2 DEF StackInv, Innermost
      <4>2. stack'[t][1] = stack[t][1] /\ stack'[t][2] = new
        BY <1>4, <4>1
      <4>3. QED
        BY <1>7, <3>2, <4>1, <4>2
    <3>3. QED
      BY <3>1, <3>2
  <2>3. QED
    BY <1>6, <2>1, <2>2 DEF StackInv
<1>9. QED
  BY <1>1, <1>4, <1>5, <1>8 DEF new

\* The innermost detour of t is over.
LEMMA TopLeaves ==
  ASSUME StackInv, NEW t \in Threads, stack[t] # <<>>,
         stack' = [stack EXCEPT ![t] = SubSeq(@, 1, Len(@) - 1)]
  PROVE  /\ StackInv'
         /\ \A u \in Threads : u # t => stack'[u] = stack[u]
         /\ Len(stack[t]) \in 1 .. 2
         /\ Len(stack'[t]) = Len(stack[t]) - 1
         /\ \A i \in 1 .. Len(stack'[t]) : stack'[t][i] = stack[t][i]
<1> DEFINE n == Len(stack[t])
<1>1. stack[t] \in Seq(FrameType) /\ n \in 1 .. 2
  <2>1. stack[t] \in Seq(FrameType) /\ n <= 2
    BY DEF StackInv
  <2>2. n \in Nat \ {0}
    BY <2>1, EmptySeq
  <2> HIDE DEF n
  <2>3. QED
    BY <2>1, <2>2
<1>2. stack'[t] = SubSeq(stack[t], 1, n - 1)
  BY DEF StackInv
<1>3. /\ stack'[t] \in Seq(FrameType) /\ Len(stack'[t]) = n - 1
      /\ \A i \in 1 .. n - 1 : stack'[t][i] = stack[t][i]
  <2>1. \A i \in 1 .. n - 1 : stack[t][i] \in FrameType
    BY <1>1, ElementOfSeq
  <2>2. QED
    BY <1>1, <1>2, <2>1, SubSeqProperties
<1>4. \A u \in Threads : u # t => stack'[u] = stack[u]
  BY DEF StackInv
<1>5. stack' \in [Threads -> Seq(FrameType)]
  BY <1>2, <1>3 DEF StackInv
<1>6. StackInv'
  <2>1. \A u \in Threads : Len(stack'[u]) <= 2
    BY <1>1, <1>3, <1>4 DEF StackInv
  <2>2. Len(stack'[t]) # 2
    <3> HIDE DEF n
    <3>1. n - 1 # 2
      BY <1>1
    <3>2. QED
      BY <1>3, <3>1, Zenon
  <2>3. QED
    BY <1>4, <1>5, <2>1, <2>2 DEF StackInv
<1>7. QED
  BY <1>1, <1>3, <1>4, <1>6

\* t enters a detour.
LEMMA TopEnters ==
  ASSUME StackInv, NEW t \in Threads, NEW h \in Hooks, MayEnter(t, h),
         stack' = [stack EXCEPT ![t] =
                     Append(@, [hook |-> h, phase |-> "entered", counted |-> FALSE])]
  PROVE  /\ StackInv'
         /\ \A u \in Threads : u # t => stack'[u] = stack[u]
         /\ Len(stack[t]) \in 0 .. 1
         /\ Len(stack'[t]) = Len(stack[t]) + 1
         /\ \A i \in 1 .. Len(stack[t]) : stack'[t][i] = stack[t][i]
         /\ stack'[t][Len(stack'[t])] =
              [hook |-> h, phase |-> "entered", counted |-> FALSE]
<1> DEFINE n == Len(stack[t])
           new == [hook |-> h, phase |-> "entered", counted |-> FALSE]
<1>1. stack[t] \in Seq(FrameType) /\ n \in 0 .. 1
  <2>1. stack[t] \in Seq(FrameType)
    BY DEF StackInv
  <2>2. n = 0 \/ n = 1
    BY EmptySeq DEF MayEnter
  <2>3. QED
    BY <2>1, <2>2
<1>2. new \in FrameType /\ new.hook = h
  BY DEF FrameType, Phases
<1>3. stack'[t] = Append(stack[t], new)
  BY DEF StackInv
<1>4. n = 1 => h = "helper" /\ stack[t][1].hook = "task" /\ stack[t][1].phase = "calling"
  BY <1>1 DEF MayEnter
<1> HIDE DEF new
<1>5. /\ stack'[t] \in Seq(FrameType) /\ Len(stack'[t]) = n + 1
      /\ stack'[t][n + 1] = new /\ \A i \in 1 .. n : stack'[t][i] = stack[t][i]
  <2>1. Append(stack[t], new) \in Seq(FrameType)
    BY <1>1, <1>2, AppendProperties
  <2>2. Len(Append(stack[t], new)) = n + 1 /\ Append(stack[t], new)[n + 1] = new
    BY <1>1, <1>2, AppendProperties
  <2>3. \A i \in 1 .. n : Append(stack[t], new)[i] = stack[t][i]
    BY <1>1, <1>2, AppendProperties
  <2>4. QED
    BY <1>3, <2>1, <2>2, <2>3
<1>6. \A u \in Threads : u # t => stack'[u] = stack[u]
  BY DEF StackInv
<1>7. stack' \in [Threads -> Seq(FrameType)]
  BY <1>3, <1>5 DEF StackInv
<1>8. StackInv'
  <2>1. \A u \in Threads : Len(stack'[u]) <= 2
    BY <1>1, <1>5, <1>6 DEF StackInv
  <2>2. ASSUME Len(stack'[t]) = 2
        PROVE  /\ stack'[t][1].hook = "task" /\ stack'[t][1].phase = "calling"
               /\ stack'[t][2].hook = "helper"
    <3>1. n = 1
      BY <1>1, <1>5, <2>2
    <3>2. stack'[t][1] = stack[t][1] /\ stack'[t][2] = new
      BY <1>5, <3>1
    <3>3. QED
      BY <1>2, <1>4, <3>1, <3>2
  <2>3. QED
    BY <1>6, <1>7, <2>1, <2>2 DEF StackInv
<1>9. QED
  BY <1>1, <1>5, <1>6, <1>8 DEF new
-----------------------------------------------------------------------------
(***************************************************************************)
(* The counted callbacks, as a set of places.                              *)
(***************************************************************************)
Finite ==
  /\ IsFiniteSet(Places) /\ Cardinality(Places) = 2 * Cardinality(Threads)
  /\ Cardinality(Threads) \in Nat
  /\ IsFiniteSet(CountedPlaces) /\ Cardinality(CountedPlaces) \in Nat
  /\ IsFiniteSet(LoadedPlaces) /\ Cardinality(LoadedPlaces) \in Nat
  /\ IsFiniteSet(BegunPlaces) /\ Cardinality(BegunPlaces) \in 0 .. 2 * Cardinality(Threads)
  /\ IsFiniteSet(DoomedPlaces) /\ Cardinality(DoomedPlaces) \in Nat

LEMMA PlacesFinite == Finite
<1>1. IsFiniteSet(Threads)
  BY HookAssumption
<1>2. IsFiniteSet(1 .. 2) /\ Cardinality(1 .. 2) = 2
  <2>1. 1 \in Int /\ 2 \in Int /\ ~(1 > 2) /\ 2 - 1 + 1 = 2
    OBVIOUS
  <2>2. IsFiniteSet(1 .. 2) /\ Cardinality(1 .. 2) = IF 1 > 2 THEN 0 ELSE 2 - 1 + 1
    BY <2>1, FS_Interval, Zenon
  <2>3. QED
    BY <2>1, <2>2, Zenon
<1>3. IsFiniteSet(Places) /\ Cardinality(Places) = Cardinality(Threads) * 2
  <2>1. /\ IsFiniteSet(Threads \X (1 .. 2))
        /\ Cardinality(Threads \X (1 .. 2)) = Cardinality(Threads) * Cardinality(1 .. 2)
    BY <1>1, <1>2, FS_Product, Zenon
  <2>2. QED
    BY <1>2, <2>1, Zenon DEF Places
<1>4. \A places \in {CountedPlaces, LoadedPlaces, BegunPlaces, DoomedPlaces} :
        places \subseteq Places
  BY DEF CountedPlaces, LoadedPlaces, BegunPlaces, DoomedPlaces
<1>5. \A places \in {CountedPlaces, LoadedPlaces, BegunPlaces, DoomedPlaces} :
        /\ IsFiniteSet(places) /\ Cardinality(places) \in Nat
        /\ Cardinality(places) <= Cardinality(Places)
  BY <1>3, <1>4, FS_Subset, FS_CardinalityType
<1>6. Cardinality(Threads) \in Nat
  BY <1>1, FS_CardinalityType
<1>7. QED
  BY <1>3, <1>5, <1>6 DEF Finite

\* No callback is counted and about to be, so that both fit in the counter.
Fit == Cardinality(CountedPlaces) + Cardinality(LoadedPlaces) <= 2 * Cardinality(Threads)

LEMMA CountedAndLoadedFit == DetoursInv => Fit
<1> SUFFICES ASSUME DetoursInv PROVE Fit
  OBVIOUS
<1> USE PlacesFinite DEF Finite
<1>1. CountedPlaces \cap LoadedPlaces = {}
  BY DEF CountedPlaces, LoadedPlaces, DetoursInv, DetourOK
<1>2. CountedPlaces \cup LoadedPlaces \in SUBSET Places
  BY DEF CountedPlaces, LoadedPlaces
<1>3. Cardinality(CountedPlaces \cup LoadedPlaces) <= Cardinality(Places)
  BY <1>2, FS_Subset
<1>4. Cardinality(CountedPlaces \cup LoadedPlaces) =
        Cardinality(CountedPlaces) + Cardinality(LoadedPlaces) - Cardinality({})
  <2>1. IsFiniteSet(CountedPlaces) /\ IsFiniteSet(LoadedPlaces)
    OBVIOUS
  <2>2. Cardinality(CountedPlaces \cup LoadedPlaces) =
          Cardinality(CountedPlaces) + Cardinality(LoadedPlaces)
            - Cardinality(CountedPlaces \cap LoadedPlaces)
    BY <2>1, FS_Union, Zenon
  <2>3. QED
    BY <1>1, <2>2, Zenon
<1>5. QED
  BY <1>3, <1>4, FS_EmptySet DEF Fit

LEMMA FramesArePlaces ==
  StackInv => CountedFrames = CountedPlaces /\ BegunFrames = BegunPlaces
<1> SUFFICES ASSUME StackInv PROVE CountedFrames = CountedPlaces /\ BegunFrames = BegunPlaces
  OBVIOUS
<1>1. \A t \in Threads : Frames(t) = 1 .. Len(stack[t]) /\ Frames(t) \subseteq 1 .. 2
  <2>1. TAKE t \in Threads
  <2>2. stack[t] \in Seq(FrameType) /\ Len(stack[t]) <= 2
    BY DEF StackInv
  <2>3. Frames(t) = 1 .. Len(stack[t]) /\ Len(stack[t]) \in Nat
    BY <2>2, LenProperties DEF Frames
  <2>4. 1 .. Len(stack[t]) \subseteq 1 .. 2
    BY <2>2, <2>3
  <2>5. QED
    BY <2>3, <2>4
<1>2. CountedFrames \subseteq CountedPlaces
  BY <1>1 DEF CountedFrames, CountedPlaces, Places, Present, Detour
<1>3. CountedPlaces \subseteq CountedFrames
  BY <1>1 DEF CountedFrames, CountedPlaces, Places, Present, Detour
<1>4. BegunFrames \subseteq BegunPlaces
  BY <1>1 DEF BegunFrames, BegunPlaces, Places, Present, Detour
<1>5. BegunPlaces \subseteq BegunFrames
  BY <1>1 DEF BegunFrames, BegunPlaces, Places, Present, Detour
<1>6. QED
  BY <1>2, <1>3, <1>4, <1>5

\* A step that touches one place leaves the rest of both sets alone.
Kept(place) ==
  \A p \in Places : p # place =>
    /\ p[2] \in 1 .. Len(stack'[p[1]]) <=> p[2] \in 1 .. Len(stack[p[1]])
    /\ p[2] \in 1 .. Len(stack[p[1]]) => stack'[p[1]][p[2]] = stack[p[1]][p[2]]

LEMMA SetsKept ==
  ASSUME NEW place \in Places, Kept(place)
  PROVE  /\ CountedPlaces' \ {place} = CountedPlaces \ {place}
         /\ LoadedPlaces' \ {place} = LoadedPlaces \ {place}
         /\ sActive' = sActive => DoomedPlaces' \ {place} = DoomedPlaces \ {place}
BY SMTT(30) DEF Kept, CountedPlaces, LoadedPlaces, DoomedPlaces, Dooms, Present, Detour

LEMMA DetoursKept ==
  ASSUME NEW place \in Places, Kept(place), DetoursInv,
         UNCHANGED <<forgotten, outlived, sActive>>,
         DetourOK(stack'[place[1]][place[2]])
  PROVE  DetoursInv'
BY DEF Kept, DetoursInv, DetourOK, Present, Detour
-----------------------------------------------------------------------------
(***************************************************************************)
(* The steps of the game's threads.                                        *)
(***************************************************************************)
\* The counter differs from the number of callbacks on it by those that an
\* install() zeroed it under, or that left it without being on it, and by those
\* that outlived their registration; it may have wrapped below zero.
CountsWith(cancelled, lost) ==
  /\ mCallbacksInFlight =
       LET value == Cardinality(CountedPlaces) - cancelled + lost
       IN  IF value >= 0 THEN value ELSE value + CounterMod
  /\ cancelled + Cardinality(DoomedPlaces) <= forgotten
  /\ lost + Cardinality(CountedPlaces) + Cardinality(LoadedPlaces)
       <= 2 * Cardinality(Threads)
  /\ sActive \/ ~outlived => lost = 0

CountInv ==
  /\ mCallbacksInFlight \in 0 .. CounterMod - 1
  /\ forgotten \in 0 .. 2 * Cardinality(Threads)
  /\ \E cancelled \in Nat, lost \in Nat : CountsWith(cancelled, lost)

\* A task is the outermost detour of its thread.
InTask(t) == <<t, 1>> \in CountedPlaces /\ Detour(<<t, 1>>).hook = "task"

DepthInv ==
  /\ depth \in [Threads -> Nat]
  /\ ~outlived => \A t \in Threads : depth[t] = IF InTask(t) THEN 1 ELSE 0

DetourInv == StackInv /\ DetoursInv /\ CountInv /\ DepthInv

Top(t) == <<t, Len(stack[t])>>

LEMMA FrameStepPlaces ==
  ASSUME StackInv, NEW t \in Threads, NEW from, NEW to \in Phases,
         NEW counted \in BOOLEAN, FrameStep(t, from, to, counted)
  PROVE  /\ StackInv'
         /\ Top(t) \in Places /\ Kept(Top(t))
         /\ Present(Top(t)) /\ Detour(Top(t)).phase = from
         /\ Top(t)[1] = t /\ Top(t)[2] = Len(stack[t])
         /\ Top(t)[2] \in 1 .. Len(stack'[t])
         /\ stack'[t][Top(t)[2]] =
              [hook |-> Detour(Top(t)).hook, phase |-> to, counted |-> counted]
         /\ UNCHANGED <<sActive, forgotten, outlived>>
<1> DEFINE n == Len(stack[t])
           new == [hook |-> Innermost(t).hook, phase |-> to, counted |-> counted]
<1>1. /\ StackInv'
      /\ \A u \in Threads : Len(stack'[u]) = Len(stack[u])
      /\ \A u \in Threads : \A i \in 1 .. Len(stack[u]) :
           u # t \/ i # n => stack'[u][i] = stack[u][i]
      /\ n \in 1 .. 2
      /\ stack'[t][n] = new
  BY TopChanges DEF FrameStep
<1>2. Top(t) \in Places /\ Top(t)[1] = t /\ Top(t)[2] = n
  BY <1>1 DEF Top, Places
<1>3. n \in 1 .. n
  <2> HIDE DEF n
  <2>1. QED
    BY <1>1
<1>4. Detour(Top(t)) = Innermost(t) /\ Innermost(t).phase = from
  BY <1>2 DEF Detour, Innermost, FrameStep
<1>5. Kept(Top(t))
  <2>1. ASSUME NEW u \in Threads, NEW i \in 1 .. 2, <<u, i>> # Top(t)
        PROVE  /\ i \in 1 .. Len(stack'[u]) <=> i \in 1 .. Len(stack[u])
               /\ i \in 1 .. Len(stack[u]) => stack'[u][i] = stack[u][i]
    <3>1. u # t \/ i # n
      BY <2>1 DEF Top
    <3>2. QED
      BY <1>1, <2>1, <3>1, Zenon
  <2>2. \A p \in Places : p[1] \in Threads /\ p[2] \in 1 .. 2 /\ p = <<p[1], p[2]>>
    BY DEF Places
  <2>3. QED
    BY <2>1, <2>2, Zenon DEF Kept
<1>6. UNCHANGED <<sActive, forgotten, outlived>>
  BY DEF FrameStep, flags, history
<1>7. QED
  BY <1>1, <1>2, <1>3, <1>4, <1>5, <1>6, Zenon DEF Present

\* The sets of places after such a step.
LEMMA FrameStepSets ==
  ASSUME StackInv, NEW t \in Threads, NEW from, NEW to \in Phases,
         NEW counted \in BOOLEAN, FrameStep(t, from, to, counted)
  PROVE  /\ Top(t) \in CountedPlaces <=> Detour(Top(t)).counted
         /\ Top(t) \in LoadedPlaces <=> from = "loaded"
         /\ CountedPlaces' = IF counted THEN CountedPlaces \cup {Top(t)}
                                        ELSE CountedPlaces \ {Top(t)}
         /\ LoadedPlaces' = IF to = "loaded" THEN LoadedPlaces \cup {Top(t)}
                                             ELSE LoadedPlaces \ {Top(t)}
<1> DEFINE place == Top(t)
<1>1. /\ place \in Places /\ Kept(place)
      /\ Present(place) /\ Detour(place).phase = from
      /\ place[1] = t /\ place[2] \in 1 .. Len(stack'[t])
      /\ stack'[t][place[2]] =
           [hook |-> Detour(place).hook, phase |-> to, counted |-> counted]
      /\ UNCHANGED sActive
  BY FrameStepPlaces
<1> HIDE DEF place
<1>2. /\ CountedPlaces' \ {place} = CountedPlaces \ {place}
      /\ LoadedPlaces' \ {place} = LoadedPlaces \ {place}
  BY <1>1, SetsKept
<1>3. /\ place \in CountedPlaces <=> Detour(place).counted
      /\ place \in LoadedPlaces <=> from = "loaded"
  BY <1>1, Zenon DEF CountedPlaces, LoadedPlaces
<1>4. /\ place \in CountedPlaces' <=> counted
      /\ place \in LoadedPlaces' <=> to = "loaded"
  BY <1>1 DEF CountedPlaces, LoadedPlaces, Present, Detour
<1>5. QED
  BY <1>2, <1>3, <1>4 DEF place

\* It dooms no callback, if it does not doom the one that changes.
LEMMA FrameStepDooms ==
  ASSUME StackInv, NEW t \in Threads, NEW from, NEW to \in Phases,
         NEW counted \in BOOLEAN, FrameStep(t, from, to, counted),
         Dooms([hook |-> Detour(Top(t)).hook, phase |-> to, counted |-> counted]) =>
           Dooms(Detour(Top(t)))
  PROVE  DoomedPlaces' \subseteq DoomedPlaces
<1> DEFINE place == Top(t)
<1>1. /\ place \in Places /\ Kept(place)
      /\ Present(place)
      /\ place[1] = t /\ place[2] \in 1 .. Len(stack'[t])
      /\ stack'[t][place[2]] =
           [hook |-> Detour(place).hook, phase |-> to, counted |-> counted]
      /\ UNCHANGED sActive
  BY FrameStepPlaces
<1>2. Dooms([hook |-> Detour(place).hook, phase |-> to, counted |-> counted]) =>
        Dooms(Detour(place))
  OBVIOUS
<1> HIDE DEF place
<1>3. DoomedPlaces' \ {place} = DoomedPlaces \ {place}
  BY <1>1, SetsKept
<1>4. place \in DoomedPlaces <=> Dooms(Detour(place))
  BY <1>1, Zenon DEF DoomedPlaces
<1>5. place \in DoomedPlaces' =>
        Dooms([hook |-> Detour(place).hook, phase |-> to, counted |-> counted])
  BY <1>1 DEF DoomedPlaces, Dooms, Present, Detour
<1>6. QED
  BY <1>2, <1>3, <1>4, <1>5

\* Such a step keeps what is known of each detour and of the task depths, if it
\* keeps it of the one that changes.
LEMMA FrameStepKeeps ==
  ASSUME StackInv, DetoursInv, NEW t \in Threads, NEW from, NEW to \in Phases,
         NEW counted \in BOOLEAN, FrameStep(t, from, to, counted),
         DetourOK([hook |-> Detour(Top(t)).hook, phase |-> to, counted |-> counted])
  PROVE  DetoursInv'
<1> DEFINE place == Top(t)
           new == [hook |-> Detour(place).hook, phase |-> to, counted |-> counted]
<1>1. /\ place \in Places /\ Kept(place)
      /\ place[1] = t
      /\ stack'[t][place[2]] = new
      /\ UNCHANGED <<sActive, forgotten, outlived>>
  BY FrameStepPlaces
<1>2. DetourOK(stack'[place[1]][place[2]])
  BY <1>1
<1> HIDE DEF place, new
<1>3. QED
  BY <1>1, <1>2, DetoursKept

\* The counter does not move and neither does the set it counts.
LEMMA SameCount ==
  ASSUME CountInv, DetoursInv', CountedPlaces' = CountedPlaces,
         LoadedPlaces' \subseteq LoadedPlaces \/ sActive,
         DoomedPlaces' \subseteq DoomedPlaces,
         UNCHANGED <<mCallbacksInFlight, sActive, forgotten, outlived>>
  PROVE  CountInv'
<1>1. Finite /\ Finite' /\ Fit'
  BY PlacesFinite, CountedAndLoadedFit, PTL
<1>2. /\ LoadedPlaces' \subseteq LoadedPlaces =>
           Cardinality(LoadedPlaces') <= Cardinality(LoadedPlaces)
      /\ Cardinality(DoomedPlaces') <= Cardinality(DoomedPlaces)
  BY <1>1, FS_Subset DEF Finite
<1>3. PICK cancelled \in Nat, lost \in Nat : CountsWith(cancelled, lost)
  BY DEF CountInv
<1>4. CountsWith(cancelled, lost)'
  <2>1. mCallbacksInFlight' = LET value == Cardinality(CountedPlaces') - cancelled + lost
       IN  IF value >= 0 THEN value ELSE value + CounterMod
    BY <1>3 DEF CountsWith
  <2>2. cancelled + Cardinality(DoomedPlaces') <= forgotten'
    BY <1>1, <1>2, <1>3 DEF CountsWith, Finite, CountInv
  <2>3. lost + Cardinality(CountedPlaces') + Cardinality(LoadedPlaces')
       <= 2 * Cardinality(Threads)
    <3>1. CASE sActive
      BY <1>1, <1>3, <3>1 DEF CountsWith, Finite, Fit
    <3>2. CASE LoadedPlaces' \subseteq LoadedPlaces
      BY <1>1, <1>2, <1>3, <3>2 DEF CountsWith, Finite
    <3>3. QED
      BY <3>1, <3>2
  <2>4. sActive' \/ ~outlived' => lost = 0
    BY <1>3 DEF CountsWith
  <2>5. QED
    BY <2>1, <2>2, <2>3, <2>4 DEF CountsWith
<1>5. QED
  BY <1>4 DEF CountInv

LEMMA FrameStepTasks ==
  ASSUME StackInv, NEW t \in Threads, NEW from, NEW to \in Phases,
         NEW counted \in BOOLEAN, FrameStep(t, from, to, counted)
  PROVE  \A u \in Threads :
           InTask(u)' <=> IF Top(t) = <<u, 1>>
                          THEN counted /\ Detour(Top(t)).hook = "task" ELSE InTask(u)
<1>1. TAKE u \in Threads
<1>2. <<u, 1>> \in Places /\ <<u, 1>>[1] = u /\ <<u, 1>>[2] = 1
  BY DEF Places
<1>3. /\ Kept(Top(t)) /\ Top(t)[1] = t
      /\ stack'[t][Top(t)[2]] =
           [hook |-> Detour(Top(t)).hook, phase |-> to, counted |-> counted]
  BY FrameStepPlaces
<1>4. CountedPlaces' = IF counted THEN CountedPlaces \cup {Top(t)}
                                  ELSE CountedPlaces \ {Top(t)}
  BY FrameStepSets
<1>5. InTask(u) <=> <<u, 1>> \in CountedPlaces /\ stack[u][1].hook = "task"
  BY <1>2 DEF InTask, Detour
<1>6. InTask(u)' <=> <<u, 1>> \in CountedPlaces' /\ stack'[u][1].hook = "task"
  BY <1>2 DEF InTask, Detour
<1>7. CASE Top(t) = <<u, 1>>
  BY <1>2, <1>3, <1>4, <1>6, <1>7
<1>8. CASE Top(t) # <<u, 1>>
  <2>1. <<u, 1>> \in CountedPlaces' <=> <<u, 1>> \in CountedPlaces
    BY <1>4, <1>8
  <2>2. <<u, 1>> \in CountedPlaces => 1 \in 1 .. Len(stack[u])
    BY <1>2 DEF CountedPlaces, Present
  <2>3. <<u, 1>> \in CountedPlaces => stack'[u][1] = stack[u][1]
    BY <1>2, <1>3, <1>8, <2>2 DEF Kept
  <2>4. QED
    BY <1>5, <1>6, <1>8, <2>1, <2>3
<1>9. QED
  BY <1>7, <1>8

\* The innermost detour of t is over, and all others stay.
LEMMA LeavePlaces ==
  ASSUME StackInv, DetoursInv, NEW t \in Threads, stack[t] # <<>>,
         stack' = [stack EXCEPT ![t] = SubSeq(@, 1, Len(@) - 1)],
         UNCHANGED <<sActive, forgotten, outlived>>
  PROVE  /\ StackInv' /\ DetoursInv'
         /\ Top(t) \in Places /\ Present(Top(t)) /\ Detour(Top(t)) = Innermost(t)
         /\ CountedPlaces' = CountedPlaces \ {Top(t)}
         /\ LoadedPlaces' = LoadedPlaces \ {Top(t)}
         /\ DoomedPlaces' = DoomedPlaces \ {Top(t)}
         /\ \A u \in Threads : InTask(u)' <=> InTask(u) /\ Top(t) # <<u, 1>>
<1> DEFINE n == Len(stack[t])
<1>1. /\ StackInv'
      /\ \A u \in Threads : u # t => stack'[u] = stack[u]
      /\ n \in 1 .. 2
      /\ Len(stack'[t]) = n - 1
      /\ \A i \in 1 .. Len(stack'[t]) : stack'[t][i] = stack[t][i]
  BY TopLeaves
<1>2. Top(t) \in Places /\ Top(t)[1] = t /\ Top(t)[2] = n /\ Top(t) = <<t, n>>
  BY <1>1 DEF Top, Places
<1>3. /\ n \in 1 .. n /\ n \notin 1 .. n - 1
      /\ \A i \in 1 .. 2 : i # n => (i \in 1 .. n - 1 <=> i \in 1 .. n)
  <2> HIDE DEF n
  <2>1. QED
    BY <1>1
<1>4. Present(Top(t)) /\ Detour(Top(t)) = Innermost(t)
  BY <1>2, <1>3, Zenon DEF Present, Detour, Innermost
<1>5. /\ \A u \in Threads : \A i \in 1 .. 2 :
           i \in 1 .. Len(stack'[u]) <=> i \in 1 .. Len(stack[u]) /\ ~(u = t /\ i = n)
      /\ \A u \in Threads : \A i \in 1 .. Len(stack'[u]) : stack'[u][i] = stack[u][i]
  BY <1>1, <1>3, Zenon
<1>6. \A p \in Places : p[1] \in Threads /\ p[2] \in 1 .. 2 /\ p = <<p[1], p[2]>>
  BY DEF Places
<1>7. \A p \in Places :
        /\ p[2] \in 1 .. Len(stack'[p[1]]) <=> p[2] \in 1 .. Len(stack[p[1]]) /\ p # Top(t)
        /\ p[2] \in 1 .. Len(stack'[p[1]]) => stack'[p[1]][p[2]] = stack[p[1]][p[2]]
  <2>1. TAKE p \in Places
  <2>2. p = Top(t) <=> p[1] = t /\ p[2] = n
    BY <1>2, <1>6
  <2>3. QED
    BY <1>5, <1>6, <2>2, Zenon
<1>8. DetoursInv'
  BY <1>7 DEF DetoursInv, DetourOK, Present, Detour
<1>9. /\ CountedPlaces' = CountedPlaces \ {Top(t)}
      /\ LoadedPlaces' = LoadedPlaces \ {Top(t)}
      /\ DoomedPlaces' = DoomedPlaces \ {Top(t)}
  BY <1>7 DEF CountedPlaces, LoadedPlaces, DoomedPlaces, Dooms, Present, Detour
<1>10. ASSUME NEW u \in Threads PROVE InTask(u)' <=> InTask(u) /\ Top(t) # <<u, 1>>
  <2>1. <<u, 1>> \in Places /\ <<u, 1>>[1] = u /\ <<u, 1>>[2] = 1
    BY DEF Places
  <2>2. InTask(u) <=> <<u, 1>> \in CountedPlaces /\ stack[u][1].hook = "task"
    BY <2>1 DEF InTask, Detour
  <2>3. InTask(u)' <=> <<u, 1>> \in CountedPlaces' /\ stack'[u][1].hook = "task"
    BY <2>1 DEF InTask, Detour
  <2>4. <<u, 1>> \in CountedPlaces' => stack'[u][1] = stack[u][1]
    BY <1>7, <2>1 DEF CountedPlaces, Present
  <2>5. QED
    BY <1>9, <2>2, <2>3, <2>4
<1>11. QED
  BY <1>1, <1>2, <1>4, <1>8, <1>9, <1>10

\* t enters a detour, uncounted, and all others stay.
LEMMA EnterPlaces ==
  ASSUME StackInv, DetoursInv, NEW t \in Threads, NEW h \in Hooks, Enter(t, h)
  PROVE  /\ StackInv' /\ DetoursInv'
         /\ CountedPlaces' = CountedPlaces /\ LoadedPlaces' = LoadedPlaces
         /\ DoomedPlaces' = DoomedPlaces
         /\ \A u \in Threads : InTask(u)' <=> InTask(u)
<1> DEFINE n == Len(stack[t])
           new == [hook |-> h, phase |-> "entered", counted |-> FALSE]
<1>1. /\ StackInv'
      /\ \A u \in Threads : u # t => stack'[u] = stack[u]
      /\ n \in 0 .. 1
      /\ Len(stack'[t]) = n + 1
      /\ \A i \in 1 .. n : stack'[t][i] = stack[t][i]
      /\ stack'[t][n + 1] = new
  BY TopEnters DEF Enter
<1>2. new.counted = FALSE /\ new.phase = "entered"
  OBVIOUS
<1> HIDE DEF new
<1>3. /\ n + 1 \in 1 .. 2 /\ n + 1 \in 1 .. n + 1 /\ n + 1 \notin 1 .. n
      /\ \A i \in 1 .. 2 : i # n + 1 => (i \in 1 .. n + 1 <=> i \in 1 .. n)
  <2> HIDE DEF n
  <2>1. QED
    BY <1>1
<1>4. /\ \A u \in Threads : \A i \in 1 .. 2 :
           i \in 1 .. Len(stack'[u]) <=> i \in 1 .. Len(stack[u]) \/ (u = t /\ i = n + 1)
      /\ \A u \in Threads : \A i \in 1 .. Len(stack[u]) : stack'[u][i] = stack[u][i]
      /\ n + 1 \notin 1 .. Len(stack[t])
  BY <1>1, <1>3, Zenon
<1>5. \A p \in Places : p[1] \in Threads /\ p[2] \in 1 .. 2 /\ p = <<p[1], p[2]>>
  BY DEF Places
<1>6. \A p \in Places :
        /\ p[2] \in 1 .. Len(stack'[p[1]]) <=>
             p[2] \in 1 .. Len(stack[p[1]]) \/ (p[1] = t /\ p[2] = n + 1)
        /\ p[2] \in 1 .. Len(stack[p[1]]) => stack'[p[1]][p[2]] = stack[p[1]][p[2]]
        /\ p[1] = t /\ p[2] = n + 1 => stack'[p[1]][p[2]] = new
  BY <1>1, <1>4, <1>5, Zenon
<1>7. UNCHANGED <<sActive, forgotten, outlived>>
  BY DEF Enter, flags, history
<1>8. DetoursInv'
  BY <1>2, <1>6, <1>7 DEF DetoursInv, DetourOK, Present, Detour
<1>9. /\ CountedPlaces' = CountedPlaces /\ LoadedPlaces' = LoadedPlaces
      /\ DoomedPlaces' = DoomedPlaces
  BY <1>2, <1>4, <1>6, <1>7
     DEF CountedPlaces, LoadedPlaces, DoomedPlaces, Dooms, Present, Detour
<1>10. ASSUME NEW u \in Threads PROVE InTask(u)' <=> InTask(u)
  <2>1. <<u, 1>> \in Places /\ <<u, 1>>[1] = u /\ <<u, 1>>[2] = 1
    BY DEF Places
  <2>2. InTask(u) <=> <<u, 1>> \in CountedPlaces /\ stack[u][1].hook = "task"
    BY <2>1 DEF InTask, Detour
  <2>3. InTask(u)' <=> <<u, 1>> \in CountedPlaces' /\ stack'[u][1].hook = "task"
    BY <2>1 DEF InTask, Detour
  <2>4. <<u, 1>> \in CountedPlaces => stack'[u][1] = stack[u][1]
    BY <1>6, <2>1 DEF CountedPlaces, Present
  <2>5. QED
    BY <1>9, <2>2, <2>3, <2>4
<1>11. QED
  BY <1>1, <1>8, <1>9, <1>10

\* How the counter wraps: at both ends only.
LEMMA CounterWraps ==
  /\ \A n \in 0 .. CounterMod - 1 : n % CounterMod = n
  /\ \A n \in 0 .. CounterMod - 1 :
       (n + 1) % CounterMod = IF n + 1 = CounterMod THEN 0 ELSE n + 1
  /\ \A n \in 0 .. CounterMod - 1 :
       (n - 1) % CounterMod = IF n = 0 THEN CounterMod - 1 ELSE n - 1
<1>1. CounterMod \in Nat /\ CounterMod > 0
  BY HookAssumption, FS_CardinalityType
<1>2. \A n \in 0 .. CounterMod - 1 : n % CounterMod = n
  BY <1>1
<1>3. CounterMod % CounterMod = 0 /\ (0 - 1) % CounterMod = CounterMod - 1
  BY <1>1
<1>4. ASSUME NEW n \in 0 .. CounterMod - 1
      PROVE  /\ n + 1 # CounterMod => n + 1 \in 0 .. CounterMod - 1
             /\ n # 0 => n - 1 \in 0 .. CounterMod - 1
  BY <1>1
<1>5. QED
  BY <1>2, <1>3, <1>4

LEMMA BeginKeepsDetours ==
  ASSUME DetourInv, NEW t \in Threads, Begin(t)
  PROVE  DetourInv'
<1> USE DEF DetourInv
<1> DEFINE top == Detour(Top(t))
<1>1. FrameStep(t, "loaded", "begun", TRUE) /\ "begun" \in Phases /\ TRUE \in BOOLEAN
  BY DEF Begin, Phases
<1>2. /\ StackInv' /\ Top(t) \in Places /\ Present(Top(t)) /\ top.phase = "loaded"
      /\ UNCHANGED <<sActive, forgotten, outlived>>
  BY <1>1, FrameStepPlaces
<1>3. /\ ~top.counted
      /\ ~outlived => sActive
  BY <1>2 DEF DetoursInv, DetourOK
<1>4. DetoursInv'
  BY <1>1, FrameStepKeeps, <1>3 DEF DetourOK
<1>5. /\ Top(t) \notin CountedPlaces /\ Top(t) \in LoadedPlaces
      /\ CountedPlaces' = CountedPlaces \cup {Top(t)}
      /\ LoadedPlaces' = LoadedPlaces \ {Top(t)}
      /\ DoomedPlaces' \subseteq DoomedPlaces
  <2>1. DoomedPlaces' \subseteq DoomedPlaces
    BY <1>1, <1>3, FrameStepDooms DEF Dooms
  <2>2. QED
    BY <1>1, <1>3, <2>1, FrameStepSets
<1>6. Finite
  BY PlacesFinite
<1>7. /\ Cardinality(CountedPlaces') = Cardinality(CountedPlaces) + 1
      /\ Cardinality(LoadedPlaces') = Cardinality(LoadedPlaces) - 1
      /\ Cardinality(LoadedPlaces) >= 1
  <2>1. Cardinality(LoadedPlaces) # 0
    <3>1. LoadedPlaces # {}
      BY <1>5
    <3>2. QED
      <4>1. IsFiniteSet(LoadedPlaces)
        BY <1>6 DEF Finite
      <4>2. Cardinality(LoadedPlaces) = 0 <=> LoadedPlaces = {}
        BY <4>1, FS_EmptySet
      <4>3. QED
        BY <3>1, <4>2
  <2>2. IsFiniteSet(CountedPlaces) /\ IsFiniteSet(LoadedPlaces)
    BY <1>6 DEF Finite
  <2>3. Cardinality(CountedPlaces \cup {Top(t)}) = Cardinality(CountedPlaces) + 1
    BY <1>5, <2>2, FS_AddElement
  <2>4. Cardinality(LoadedPlaces \ {Top(t)}) = Cardinality(LoadedPlaces) - 1
    BY <1>5, <2>2, FS_RemoveElement
  <2>5. QED
    BY <1>5, <1>6, <2>1, <2>3, <2>4 DEF Finite
<1>8. mCallbacksInFlight' = (mCallbacksInFlight + 1) % CounterMod
  BY DEF Begin
<1>9. CountInv'
  <2>1. PICK cancelled \in Nat, lost \in Nat : CountsWith(cancelled, lost)
    BY DEF CountInv
  <2>2. /\ mCallbacksInFlight \in 0 .. CounterMod - 1
        /\ mCallbacksInFlight' = IF mCallbacksInFlight + 1 = CounterMod THEN 0
                                 ELSE mCallbacksInFlight + 1
    BY <1>8, CounterWraps DEF CountInv
  <2>3. Cardinality(DoomedPlaces') <= Cardinality(DoomedPlaces)
    BY <1>5, <1>6, FS_Subset DEF Finite
  <2>4. Finite'
    BY PlacesFinite, PTL
  <2>5. CountsWith(cancelled, lost)' /\ mCallbacksInFlight' \in 0 .. CounterMod - 1
    BY <1>2, <1>6, <1>7, <2>1, <2>2, <2>3, <2>4, HookAssumption
       DEF CountsWith, Finite, CountInv
  <2>6. QED
    BY <1>2, <2>5 DEF CountInv
<1>10. Innermost(t) = top
  <2>1. Top(t)[1] = t /\ Top(t)[2] = Len(stack[t])
    BY <1>1, FrameStepPlaces
  <2>2. QED
    BY <2>1 DEF Detour, Innermost
<1>11. DepthInv'
  <2>1. \A u \in Threads : InTask(u)' <=> IF Top(t) = <<u, 1>> THEN top.hook = "task"
                                                              ELSE InTask(u)
    BY <1>1, FrameStepTasks
  <2>2. depth' = IF top.hook = "task" THEN [depth EXCEPT ![t] = @ + 1] ELSE depth
    BY <1>10 DEF Begin
  <2>3. Top(t) = <<t, Len(stack[t])>> /\ (top.hook = "task" => Top(t) = <<t, 1>>)
    <3>1. Len(stack[t]) = 1 \/ Len(stack[t]) = 2
      <4>1. stack[t] # <<>>
        BY DEF Begin, FrameStep
      <4>2. stack[t] \in Seq(FrameType) /\ Len(stack[t]) <= 2
        BY DEF StackInv
      <4>3. Len(stack[t]) \in Nat \ {0}
        BY <4>1, <4>2, EmptySeq
      <4>4. \A k \in Nat \ {0} : k <= 2 => k = 1 \/ k = 2
        OBVIOUS
      <4>5. QED
        BY <4>2, <4>3, <4>4, Zenon
    <3>2. Len(stack[t]) = 2 => top.hook = "helper"
      BY <1>10 DEF StackInv, Innermost
    <3>3. QED
      BY <3>1, <3>2 DEF Top
  <2>4. InTask(t) => <<t, 1>> \in CountedPlaces
    BY DEF InTask
  <2>5. depth' \in [Threads -> Nat]
    BY <2>2 DEF DepthInv
  <2>6. ASSUME ~outlived, NEW u \in Threads
        PROVE  depth'[u] = IF InTask(u)' THEN 1 ELSE 0
    <3>1. depth[u] = IF InTask(u) THEN 1 ELSE 0
      BY <2>6 DEF DepthInv
    <3>2. CASE u # t
      <4>1. Top(t) # <<u, 1>>
        BY <2>3, <3>2
      <4>2. depth'[u] = depth[u]
        BY <2>2, <3>2 DEF DepthInv
      <4>3. QED
        BY <2>1, <3>1, <4>1, <4>2
    <3>3. CASE u = t /\ top.hook = "task"
      <4>1. ~InTask(t)
        BY <1>5, <2>3, <2>4, <3>3
      <4>2. depth'[t] = depth[t] + 1
        BY <2>2, <3>3 DEF DepthInv
      <4>3. QED
        BY <2>1, <2>3, <3>1, <3>3, <4>1, <4>2
    <3>4. CASE u = t /\ top.hook # "task"
      <4>1. Top(t) = <<t, 1>> => ~InTask(t)
        BY <1>5, <2>4
      <4>2. QED
        BY <2>1, <2>2, <3>1, <3>4, <4>1
    <3>5. QED
      BY <3>2, <3>3, <3>4
  <2>7. QED
    BY <1>2, <2>5, <2>6 DEF DepthInv
<1>12. QED
  BY <1>2, <1>4, <1>9, <1>11

\* The steps of a detour between its callbacks: nothing is counted.
LEMMA QuietStepKeepsDetours ==
  ASSUME DetourInv, NEW t \in Threads, NEW from, NEW to \in Phases,
         FrameStep(t, from, to, Detour(Top(t)).counted), Detour(Top(t)).counted \in BOOLEAN,
         DetourOK([hook |-> Detour(Top(t)).hook, phase |-> to,
                   counted |-> Detour(Top(t)).counted]),
         Dooms([hook |-> Detour(Top(t)).hook, phase |-> to,
                counted |-> Detour(Top(t)).counted]) => Dooms(Detour(Top(t))),
         to = "loaded" => sActive,
         UNCHANGED <<mCallbacksInFlight, depth>>
  PROVE  DetourInv'
<1> USE DEF DetourInv
<1> DEFINE top == Detour(Top(t))
<1>1. StackInv' /\ UNCHANGED <<sActive, forgotten, outlived>>
  BY FrameStepPlaces
<1>2. DetoursInv'
  BY FrameStepKeeps
<1>3. /\ Top(t) \in CountedPlaces <=> top.counted
      /\ CountedPlaces' = IF top.counted THEN CountedPlaces \cup {Top(t)}
                                         ELSE CountedPlaces \ {Top(t)}
      /\ LoadedPlaces' = IF to = "loaded" THEN LoadedPlaces \cup {Top(t)}
                                          ELSE LoadedPlaces \ {Top(t)}
      /\ DoomedPlaces' \subseteq DoomedPlaces
  BY FrameStepSets, FrameStepDooms, SMTT(30)
<1>4. CountedPlaces' = CountedPlaces /\ (LoadedPlaces' \subseteq LoadedPlaces \/ sActive)
  BY <1>3
<1>5. CountInv'
  BY <1>1, <1>2, <1>3, <1>4, SameCount
<1>6. \A u \in Threads : InTask(u)' <=> InTask(u)
  <2>1. \A u \in Threads :
          InTask(u)' <=> IF Top(t) = <<u, 1>> THEN top.counted /\ top.hook = "task"
                                              ELSE InTask(u)
    BY FrameStepTasks
  <2>2. \A u \in Threads : Top(t) = <<u, 1>> => (InTask(u) <=> top.counted /\ top.hook = "task")
    BY <1>3 DEF InTask
  <2>3. QED
    BY <2>1, <2>2
<1>7. DepthInv'
  BY <1>1, <1>6 DEF DepthInv
<1>8. QED
  BY <1>1, <1>2, <1>5, <1>7

\* What a step can rely on about the innermost detour.
LEMMA TopOK ==
  ASSUME DetourInv, NEW t \in Threads, stack[t] # <<>>
  PROVE  /\ Top(t) \in Places /\ Present(Top(t)) /\ Detour(Top(t)) = Innermost(t)
         /\ Innermost(t) \in FrameType /\ DetourOK(Innermost(t))
<1>1. stack[t] \in Seq(FrameType) /\ Len(stack[t]) <= 2
  BY DEF DetourInv, StackInv
<1>2. Len(stack[t]) \in Nat \ {0}
  BY <1>1, EmptySeq
<1>3. \A k \in Nat \ {0} : k <= 2 => k \in 1 .. 2 /\ k \in 1 .. k
  OBVIOUS
<1>4. Len(stack[t]) \in 1 .. 2 /\ Len(stack[t]) \in 1 .. Len(stack[t])
  BY <1>1, <1>2, <1>3, Zenon
<1>5. Top(t) \in Places /\ Top(t)[1] = t /\ Top(t)[2] = Len(stack[t])
  BY <1>4 DEF Top, Places
<1>6. Present(Top(t)) /\ Detour(Top(t)) = Innermost(t)
  BY <1>4, <1>5, Zenon DEF Present, Detour, Innermost
<1>7. Innermost(t) \in FrameType
  BY <1>1, <1>4, ElementOfSeq DEF Innermost
<1>8. QED
  BY <1>5, <1>6, <1>7, Zenon DEF DetourInv, DetoursInv

\* A detour that is over, and was counted or not.
LEMMA LeaveKeepsDetours ==
  ASSUME DetourInv, NEW t \in Threads, End(t) \/ EndUnregistered(t)
  PROVE  DetourInv'
<1> USE DEF DetourInv
<1> DEFINE top == Innermost(t)
<1>1. /\ stack[t] # <<>>
      /\ stack' = [stack EXCEPT ![t] = SubSeq(@, 1, Len(@) - 1)]
      /\ UNCHANGED <<sActive, forgotten, outlived>>
  BY DEF End, EndUnregistered, flags, history
<1>2. /\ StackInv' /\ DetoursInv'
      /\ CountedPlaces' = CountedPlaces \ {Top(t)}
      /\ LoadedPlaces' = LoadedPlaces \ {Top(t)}
      /\ DoomedPlaces' = DoomedPlaces \ {Top(t)}
      /\ \A u \in Threads : InTask(u)' <=> InTask(u) /\ Top(t) # <<u, 1>>
  BY <1>1, LeavePlaces
<1>3. /\ Top(t) \in Places /\ Present(Top(t)) /\ Detour(Top(t)) = top
      /\ top \in FrameType /\ DetourOK(top)
  BY <1>1, TopOK
<1>4. /\ Top(t) \in CountedPlaces <=> top.counted
      /\ Top(t) \in DoomedPlaces <=> Dooms(top)
  BY <1>3, Zenon DEF CountedPlaces, DoomedPlaces
<1>5. Finite /\ Finite'
  BY PlacesFinite, PTL
<1>6. /\ Cardinality(CountedPlaces') =
           IF top.counted THEN Cardinality(CountedPlaces) - 1 ELSE Cardinality(CountedPlaces)
      /\ Cardinality(LoadedPlaces') <= Cardinality(LoadedPlaces)
      /\ Cardinality(DoomedPlaces') =
           IF Dooms(top) THEN Cardinality(DoomedPlaces) - 1 ELSE Cardinality(DoomedPlaces)
  <2>1. /\ IsFiniteSet(CountedPlaces) /\ IsFiniteSet(LoadedPlaces)
        /\ IsFiniteSet(DoomedPlaces)
    BY <1>5 DEF Finite
  <2>2. Cardinality(CountedPlaces \ {Top(t)}) =
          IF Top(t) \in CountedPlaces THEN Cardinality(CountedPlaces) - 1
                                      ELSE Cardinality(CountedPlaces)
    BY <2>1, FS_RemoveElement
  <2>3. Cardinality(LoadedPlaces \ {Top(t)}) <= Cardinality(LoadedPlaces)
    BY <2>1, FS_Subset
  <2>4. Cardinality(DoomedPlaces \ {Top(t)}) =
          IF Top(t) \in DoomedPlaces THEN Cardinality(DoomedPlaces) - 1
                                     ELSE Cardinality(DoomedPlaces)
    BY <2>1, FS_RemoveElement
  <2>5. QED
    BY <1>2, <1>4, <2>2, <2>3, <2>4
<1>7. /\ top.counted /\ ~Dooms(top) =>
           /\ Cardinality(CountedPlaces') = Cardinality(CountedPlaces) - 1
           /\ Cardinality(DoomedPlaces') = Cardinality(DoomedPlaces)
      /\ ~top.counted => Cardinality(CountedPlaces') = Cardinality(CountedPlaces)
      /\ Dooms(top) => Cardinality(DoomedPlaces') = Cardinality(DoomedPlaces) - 1
  BY <1>6, Zenon
<1>8. /\ Cardinality(CountedPlaces) \in Nat /\ Cardinality(CountedPlaces') \in Nat
      /\ Cardinality(DoomedPlaces) \in Nat /\ Cardinality(DoomedPlaces') \in Nat
      /\ Cardinality(LoadedPlaces) \in Nat /\ Cardinality(LoadedPlaces') \in Nat
      /\ Cardinality(Threads) \in Nat
      /\ Cardinality(LoadedPlaces') <= Cardinality(LoadedPlaces)
  BY <1>5, <1>6 DEF Finite
<1> PICK cancelled \in Nat, lost \in Nat : CountsWith(cancelled, lost)
  BY DEF CountInv
<1>9. /\ cancelled + Cardinality(DoomedPlaces) <= forgotten /\ forgotten \in Nat
      /\ lost + Cardinality(CountedPlaces) + Cardinality(LoadedPlaces)
           <= 2 * Cardinality(Threads)
      /\ sActive \/ ~outlived => lost = 0
  BY <1>5 DEF CountsWith, CountInv, Finite
<1>10. CASE End(t)
  <2>1. /\ top.phase = "ending"
        /\ mCallbacksInFlight' = (mCallbacksInFlight - 1) % CounterMod
    BY <1>10 DEF End
  <2>2. /\ mCallbacksInFlight \in 0 .. CounterMod - 1
        /\ mCallbacksInFlight' = IF mCallbacksInFlight = 0 THEN CounterMod - 1
                                 ELSE mCallbacksInFlight - 1
    BY <2>1, CounterWraps DEF CountInv
  <2>3. Dooms(top) <=> ~top.counted
    BY <2>1 DEF Dooms
  <2>4. CountInv'
    <3>1. CASE top.counted
      <4>1. /\ mCallbacksInFlight' =
                 LET value == Cardinality(CountedPlaces') - cancelled + lost
                 IN  IF value >= 0 THEN value ELSE value + CounterMod
            /\ mCallbacksInFlight' \in 0 .. CounterMod - 1
        BY <1>5, <1>6, <2>2, <3>1, HookAssumption DEF CountsWith, Finite, CountInv
      <4>2. CountsWith(cancelled, lost)'
        <5>1. cancelled + Cardinality(DoomedPlaces') <= forgotten
          BY <1>7, <1>8, <1>9, <2>3, <3>1
        <5>2. lost + Cardinality(CountedPlaces') + Cardinality(LoadedPlaces')
                <= 2 * Cardinality(Threads)
          BY <1>7, <1>8, <1>9, <2>3, <3>1
        <5>3. QED
          BY <1>1, <1>9, <5>1, <5>2, <4>1 DEF CountsWith
      <4>3. QED
        BY <1>1, <4>1, <4>2 DEF CountInv
    <3>2. CASE ~top.counted
      <4>1. cancelled + 1 \in Nat
        OBVIOUS
      <4>2. /\ mCallbacksInFlight' =
                 LET value == Cardinality(CountedPlaces') - (cancelled + 1) + lost
                 IN  IF value >= 0 THEN value ELSE value + CounterMod
            /\ mCallbacksInFlight' \in 0 .. CounterMod - 1
        BY <1>5, <1>6, <2>2, <2>3, <3>2, HookAssumption DEF CountsWith, Finite, CountInv
      <4>3. CountsWith(cancelled + 1, lost)'
        <5>1. cancelled + 1 + Cardinality(DoomedPlaces') <= forgotten
          BY <1>7, <1>8, <1>9, <2>3, <3>2
        <5>2. lost + Cardinality(CountedPlaces') + Cardinality(LoadedPlaces')
                <= 2 * Cardinality(Threads)
          BY <1>7, <1>8, <1>9, <2>3, <3>2
        <5>3. QED
          BY <1>1, <1>9, <5>1, <5>2, <4>2 DEF CountsWith
      <4>4. QED
        BY <1>1, <4>1, <4>2, <4>3 DEF CountInv
    <3>3. QED
      BY <3>1, <3>2
  <2>5. depth' = IF top.hook = "task" /\ depth[t] > 0
                 THEN [depth EXCEPT ![t] = @ - 1] ELSE depth
    BY <1>10 DEF End, ScopeAfter
  <2>6. depth' \in [Threads -> Nat]
    BY <2>5 DEF DepthInv
  <2>7. ASSUME ~outlived, NEW u \in Threads
        PROVE  depth'[u] = IF InTask(u)' THEN 1 ELSE 0
    <3>1. depth[u] = IF InTask(u) THEN 1 ELSE 0
      BY <2>7 DEF DepthInv
    <3>2. CASE u # t
      <4>1. Top(t) # <<u, 1>>
        BY <3>2 DEF Top
      <4>2. depth'[u] = depth[u]
        BY <2>5, <3>2 DEF DepthInv
      <4>3. QED
        BY <1>2, <3>1, <4>1, <4>2
    <3>3. CASE u = t /\ Top(t) = <<t, 1>>
      <4>1. InTask(t) <=> top.counted /\ top.hook = "task"
        BY <1>3, <1>4, <3>3 DEF InTask
      <4>2. depth'[t] = 0
        BY <2>5, <3>1, <3>3, <4>1 DEF DepthInv
      <4>3. QED
        BY <1>2, <3>3, <4>2
    <3>4. CASE u = t /\ Top(t) # <<t, 1>>
      <4>1. top.hook # "task"
        <5>1. stack[t] \in Seq(FrameType) /\ Len(stack[t]) <= 2 /\ Len(stack[t]) # 1
          BY <3>4 DEF StackInv, Top
        <5>2. Len(stack[t]) \in Nat \ {0}
          BY <1>1, <5>1, EmptySeq
        <5>3. \A k \in Nat \ {0} : k <= 2 => k = 1 \/ k = 2
          OBVIOUS
        <5>4. Len(stack[t]) = 2
          BY <5>1, <5>2, <5>3, Zenon
        <5>5. QED
          BY <5>4 DEF StackInv, Innermost
      <4>2. QED
        BY <1>2, <2>5, <3>1, <3>4, <4>1
    <3>5. QED
      BY <3>2, <3>3, <3>4
  <2>8. DepthInv'
    BY <1>1, <2>6, <2>7 DEF DepthInv
  <2>9. QED
    BY <1>2, <2>4, <2>8
<1>11. CASE EndUnregistered(t)
  <2>1. /\ ~sActive /\ UNCHANGED <<mCallbacksInFlight, depth>>
        /\ ~outlived => ~top.counted
    BY <1>3, <1>11 DEF EndUnregistered, DetourOK
  <2>2. CountInv'
    <3>1. CASE top.counted
      <4>1. lost + 1 \in Nat
        OBVIOUS
      <4>2. CountsWith(cancelled, lost + 1)'
        <5>1. mCallbacksInFlight' =
                LET value == Cardinality(CountedPlaces') - cancelled + (lost + 1)
                IN  IF value >= 0 THEN value ELSE value + CounterMod
          BY <1>5, <1>6, <2>1, <3>1 DEF CountsWith, Finite
        <5>2. /\ cancelled + Cardinality(DoomedPlaces') <= forgotten'
              /\ lost + 1 + Cardinality(CountedPlaces') + Cardinality(LoadedPlaces')
                   <= 2 * Cardinality(Threads)
          BY <1>1, <1>7, <1>8, <1>9, <3>1, SMTT(30) DEF Dooms
        <5>3. QED
          BY <1>1, <2>1, <3>1, <5>1, <5>2 DEF CountsWith
      <4>3. QED
        BY <1>1, <2>1, <4>1, <4>2 DEF CountInv
    <3>2. CASE ~top.counted
      <4>1. Cardinality(DoomedPlaces') <= Cardinality(DoomedPlaces)
        BY <1>5, <1>6 DEF Finite
      <4>2. CountsWith(cancelled, lost)'
        <5>1. mCallbacksInFlight' =
                LET value == Cardinality(CountedPlaces') - cancelled + lost
                IN  IF value >= 0 THEN value ELSE value + CounterMod
          BY <1>5, <1>6, <2>1, <3>2 DEF CountsWith, Finite
        <5>2. /\ cancelled + Cardinality(DoomedPlaces') <= forgotten'
              /\ lost + Cardinality(CountedPlaces') + Cardinality(LoadedPlaces')
                   <= 2 * Cardinality(Threads)
          BY <1>1, <1>7, <1>8, <1>9, <3>2, <4>1, SMTT(30)
        <5>3. QED
          BY <1>1, <2>1, <5>1, <5>2 DEF CountsWith
      <4>3. QED
        BY <1>1, <2>1, <4>2 DEF CountInv
    <3>3. QED
      BY <3>1, <3>2
  <2>3. ~outlived => \A u \in Threads : InTask(u)' <=> InTask(u)
    BY <1>2, <1>4, <2>1 DEF InTask
  <2>4. DepthInv'
    BY <1>1, <2>1, <2>3 DEF DepthInv
  <2>5. QED
    BY <1>2, <2>2, <2>4
<1>12. QED
  BY <1>10, <1>11

LEMMA GameKeepsDetours ==
  ASSUME DetourInv, NEW t \in Threads, Game(t)
  PROVE  DetourInv'
<1> DEFINE top == Innermost(t)
<1>1. CASE \E h \in Hooks : Enter(t, h)
  <2>1. PICK h \in Hooks : Enter(t, h)
    BY <1>1
  <2>2. /\ StackInv' /\ DetoursInv'
        /\ CountedPlaces' = CountedPlaces /\ LoadedPlaces' = LoadedPlaces
        /\ DoomedPlaces' = DoomedPlaces
        /\ \A u \in Threads : InTask(u)' <=> InTask(u)
    BY <2>1, EnterPlaces DEF DetourInv
  <2>3. UNCHANGED <<mCallbacksInFlight, depth, sActive, forgotten, outlived>>
    BY <2>1 DEF Enter, flags, history
  <2>4. CountInv'
    BY <2>2, <2>3, SameCount DEF DetourInv
  <2>5. DepthInv'
    BY <2>2, <2>3 DEF DetourInv, DepthInv
  <2>6. QED
    BY <2>2, <2>4, <2>5 DEF DetourInv
<1>2. ASSUME stack[t] # <<>>
      PROVE  /\ Detour(Top(t)) = top /\ top.counted \in BOOLEAN /\ DetourOK(top)
             /\ top.counted => top.phase # "entered"
  BY <1>2, TopOK DEF FrameType, DetourOK
<1>3. CASE LoadActive(t)
  <2> DEFINE to == IF sActive THEN "loaded" ELSE "begun"
  <2>1. FrameStep(t, "entered", to, FALSE) /\ stack[t] # <<>> /\ top.phase = "entered"
    BY <1>3 DEF LoadActive, FrameStep
  <2>2. to \in Phases /\ (to = "loaded" => sActive) /\ (to # "loaded" => to = "begun" /\ ~sActive)
    BY DEF Phases
  <2> HIDE DEF to
  <2>3. Detour(Top(t)) = top /\ top.counted = FALSE
    BY <1>2, <2>1
  <2>4. /\ DetourOK([hook |-> top.hook, phase |-> to, counted |-> FALSE])
        /\ Dooms([hook |-> top.hook, phase |-> to, counted |-> FALSE]) => Dooms(top)
    BY <2>2 DEF DetourOK, Dooms
  <2>5. UNCHANGED <<mCallbacksInFlight, depth>>
    BY <1>3 DEF LoadActive
  <2>6. QED
    BY <2>1, <2>2, <2>3, <2>4, <2>5, QuietStepKeepsDetours
<1>4. CASE Begin(t)
  BY <1>4, BeginKeepsDetours
<1>5. CASE CallOriginal(t)
  <2> DEFINE to == IF top.hook \in original THEN "calling" ELSE "returning"
  <2>1. FrameStep(t, "begun", to, top.counted) /\ stack[t] # <<>> /\ top.phase = "begun"
    BY <1>5 DEF CallOriginal, FrameStep
  <2>2. to \in Phases /\ to \in {"calling", "returning"}
    BY DEF Phases
  <2> HIDE DEF to
  <2>3. Detour(Top(t)) = top /\ top.counted \in BOOLEAN /\ DetourOK(top)
    BY <1>2, <2>1
  <2>4. /\ DetourOK([hook |-> top.hook, phase |-> to, counted |-> top.counted])
        /\ Dooms([hook |-> top.hook, phase |-> to, counted |-> top.counted]) => Dooms(top)
    BY <2>1, <2>2, <2>3 DEF DetourOK, Dooms
  <2>5. UNCHANGED <<mCallbacksInFlight, depth>>
    BY <1>5 DEF CallOriginal
  <2>6. QED
    BY <2>1, <2>2, <2>3, <2>4, <2>5, QuietStepKeepsDetours
<1>6. CASE OriginalReturns(t)
  <2>1. FrameStep(t, "calling", "returning", top.counted) /\ stack[t] # <<>> /\ top.phase = "calling"
    BY <1>6 DEF OriginalReturns, FrameStep
  <2>2. "returning" \in Phases
    BY DEF Phases
  <2>3. Detour(Top(t)) = top /\ top.counted \in BOOLEAN /\ DetourOK(top)
    BY <1>2, <2>1
  <2>4. /\ DetourOK([hook |-> top.hook, phase |-> "returning", counted |-> top.counted])
        /\ Dooms([hook |-> top.hook, phase |-> "returning", counted |-> top.counted]) => Dooms(top)
    BY <2>1, <2>3 DEF DetourOK, Dooms
  <2>5. UNCHANGED <<mCallbacksInFlight, depth>>
    BY <1>6 DEF OriginalReturns
  <2>6. QED
    BY <2>1, <2>2, <2>3, <2>4, <2>5, QuietStepKeepsDetours
<1>7. CASE LoadActiveAgain(t)
  <2>1. /\ FrameStep(t, "returning", "ending", top.counted) /\ stack[t] # <<>>
        /\ top.phase = "returning" /\ sActive
    BY <1>7 DEF LoadActiveAgain, FrameStep
  <2>2. "ending" \in Phases
    BY DEF Phases
  <2>3. Detour(Top(t)) = top /\ top.counted \in BOOLEAN /\ DetourOK(top)
    BY <1>2, <2>1
  <2>4. /\ DetourOK([hook |-> top.hook, phase |-> "ending", counted |-> top.counted])
        /\ Dooms([hook |-> top.hook, phase |-> "ending", counted |-> top.counted]) => Dooms(top)
    BY <2>1, <2>3 DEF DetourOK, Dooms
  <2>5. UNCHANGED <<mCallbacksInFlight, depth>>
    BY <1>7 DEF LoadActiveAgain
  <2>6. QED
    BY <2>1, <2>2, <2>3, <2>4, <2>5, QuietStepKeepsDetours
<1>8. CASE EndUnregistered(t) \/ End(t)
  BY <1>8, LeaveKeepsDetours
<1>9. QED
  BY <1>1, <1>3, <1>4, <1>5, <1>6, <1>7, <1>8 DEF Game
-----------------------------------------------------------------------------
(***************************************************************************)
(* The steps of the worker and of the loader, and the invariants of the    *)
(* specification.                                                          *)
(***************************************************************************)
\* The counter, the stacks and the registration are left alone.
QuietForDetours ==
  UNCHANGED <<sActive, mCallbacksInFlight, stack, depth, forgotten, outlived>>

LEMMA QuietKeepsDetours == DetourInv /\ QuietForDetours => DetourInv'
<1> SUFFICES ASSUME DetourInv, QuietForDetours PROVE DetourInv'
  OBVIOUS
<1> USE DEF QuietForDetours
<1>1. StackInv'
  BY DEF DetourInv, StackInv
<1>2. DetoursInv'
  BY DEF DetourInv, DetoursInv, DetourOK, Present, Detour
<1>3. /\ CountedPlaces' = CountedPlaces /\ LoadedPlaces' = LoadedPlaces
      /\ DoomedPlaces' = DoomedPlaces
  BY DEF CountedPlaces, LoadedPlaces, DoomedPlaces, Dooms, Present, Detour
<1>4. CountInv'
  BY <1>2, <1>3, SameCount DEF DetourInv
<1>5. DepthInv'
  BY <1>3 DEF DetourInv, DepthInv, InTask, Detour
<1>6. QED
  BY <1>1, <1>2, <1>4, <1>5 DEF DetourInv

LEMMA QuietSteps ==
  ASSUME Worker \/ Uninstall \/ Join \/ (control = "removing" /\ RemoveHooks)
           \/ Refuse \/ Accept
  PROVE  QuietForDetours
BY DEF Worker, LeaveGate, LeaveGateIdle, HelperHookFails, HookFails, PlaceHook,
       AssignOriginal, WorkerStops, WorkerGoto, Uninstall, Join, Refuse, Accept,
       RemoveHooks, Unhook, Unhooked, Drained, DrainTimeout, ForgetOriginals,
       JudgeRestore, QuietForDetours, flags, history

\* The callbacks that the counter is zeroed under are those that are on it, and
\* some that are not.
LEMMA InstallKeepsDetours ==
  ASSUME DetourInv, LifeInv, Install, outlived \in BOOLEAN
  PROVE  DetourInv'
<1>1. /\ mCallbacksInFlight' = 0 /\ UNCHANGED <<stack, depth, outlived>>
      /\ forgotten' = Cardinality(BegunFrames)
      /\ ~sActive
  BY DEF Install, LifeInv, Alternation
<1>2. StackInv'
  BY <1>1 DEF DetourInv, StackInv
<1>3. DetoursInv'
  BY <1>1 DEF DetourInv, DetoursInv, DetourOK, Present, Detour
<1>4. /\ CountedPlaces' = CountedPlaces /\ LoadedPlaces' = LoadedPlaces
      /\ BegunPlaces' = BegunPlaces
  BY <1>1 DEF CountedPlaces, LoadedPlaces, BegunPlaces, Present, Detour
<1>5. Finite /\ Finite' /\ Fit'
  BY <1>3, PlacesFinite, CountedAndLoadedFit, PTL
<1>6. Cardinality(CountedPlaces) + Cardinality(DoomedPlaces') <= Cardinality(BegunPlaces)
  <2>1. /\ CountedPlaces \cap DoomedPlaces' = {}
        /\ CountedPlaces \cup DoomedPlaces' \subseteq BegunPlaces
    BY <1>1 DEF CountedPlaces, DoomedPlaces, BegunPlaces, Dooms, Present, Detour,
                DetourInv, DetoursInv, DetourOK
  <2>2. IsFiniteSet(CountedPlaces) /\ IsFiniteSet(DoomedPlaces') /\ IsFiniteSet(BegunPlaces)
    BY <1>5 DEF Finite
  <2>3. Cardinality(CountedPlaces \cup DoomedPlaces') <= Cardinality(BegunPlaces)
    BY <2>1, <2>2, FS_Subset
  <2>4. Cardinality(CountedPlaces \cup DoomedPlaces') =
          Cardinality(CountedPlaces) + Cardinality(DoomedPlaces') - Cardinality({})
    <3>1. Cardinality(CountedPlaces \cup DoomedPlaces') =
            Cardinality(CountedPlaces) + Cardinality(DoomedPlaces')
              - Cardinality(CountedPlaces \cap DoomedPlaces')
      BY <2>2, FS_Union, Zenon
    <3>2. QED
      BY <2>1, <3>1, Zenon
  <2>5. QED
    BY <1>5, <2>3, <2>4, FS_EmptySet DEF Finite
<1>7. CountInv'
  <2>1. forgotten' = Cardinality(BegunPlaces)
    BY <1>1, FramesArePlaces DEF DetourInv
  <2>2. Cardinality(CountedPlaces) \in Nat /\ 0 \in Nat
    BY <1>5 DEF Finite
  <2>3. \E cancelled \in Nat, lost \in Nat : CountsWith(cancelled, lost)'
    BY <1>1, <1>4, <1>5, <1>6, <2>1, <2>2 DEF CountsWith, Finite, Fit
  <2>4. 0 \in 0 .. CounterMod - 1
    BY <1>5, HookAssumption DEF Finite
  <2>5. QED
    BY <1>1, <1>4, <1>5, <2>1, <2>2, <2>3, <2>4 DEF CountInv, Finite
<1>8. DepthInv'
  BY <1>1, <1>4 DEF DetourInv, DepthInv, InTask, Detour
<1>9. QED
  BY <1>2, <1>3, <1>7, <1>8 DEF DetourInv

\* A callback that sees the registration end while it is counted, or about to be,
\* is noted: without one the detours know nothing of the session that is over.
LEMMA ReleaseKeepsDetours ==
  ASSUME DetourInv, Release
  PROVE  DetourInv'
<1>1. /\ sActive' = FALSE /\ UNCHANGED <<mCallbacksInFlight, stack, depth, forgotten>>
      /\ ~outlived' => ~outlived /\ ~Straddling
  BY DEF Release
<1>2. StackInv'
  BY <1>1 DEF DetourInv, StackInv
<1>3. ASSUME NEW p \in Places, Present(p)
      PROVE  /\ Detour(p)' = Detour(p)
             /\ ~outlived' => /\ ~Detour(p).counted
                              /\ Detour(p).phase \notin {"loaded", "ending"}
  <2>1. p[1] \in Threads /\ stack[p[1]] \in Seq(FrameType)
    BY DEF Places, DetourInv, StackInv
  <2>2. p[2] \in Frames(p[1])
    BY <1>3, <2>1, LenProperties DEF Present, Frames
  <2>3. QED
    BY <1>1, <2>1, <2>2 DEF Straddling, Detour
<1>4. DetoursInv'
  <2>1. ASSUME NEW p \in Places, Present(p)' PROVE DetourOK(Detour(p))'
    <3>1. Present(p) /\ DetourOK(Detour(p))
      BY <1>1, <2>1 DEF DetourInv, DetoursInv, Present
    <3>2. QED
      BY <1>1, <1>3, <3>1 DEF DetourOK
  <2>2. QED
    BY <2>1 DEF DetoursInv
<1>5. CountedPlaces' = CountedPlaces /\ LoadedPlaces' = LoadedPlaces
  BY <1>1 DEF CountedPlaces, LoadedPlaces, Present, Detour
<1>6. CountInv'
  <2>1. PICK cancelled \in Nat, lost \in Nat : CountsWith(cancelled, lost)
    BY DEF DetourInv, CountInv
  <2>2. Finite /\ Finite'
    BY PlacesFinite, PTL
  <2>3. DoomedPlaces' \subseteq DoomedPlaces
    BY <1>1 DEF DoomedPlaces, Dooms, Present, Detour
  <2>4. Cardinality(DoomedPlaces') <= Cardinality(DoomedPlaces)
    BY <2>2, <2>3, FS_Subset DEF Finite
  <2>5. CountsWith(cancelled, lost)'
    BY <1>1, <1>5, <2>1, <2>2, <2>4 DEF CountsWith, Finite, DetourInv, CountInv
  <2>6. QED
    BY <1>1, <2>5 DEF DetourInv, CountInv
<1>7. DepthInv'
  BY <1>1, <1>5 DEF DetourInv, DepthInv, InTask, Detour
<1>8. QED
  BY <1>2, <1>4, <1>6, <1>7 DEF DetourInv

\* What is left of the types, and what an accepted unload leaves behind.
HistoryType == entries \in 0 .. MaxEntries /\ outlived \in BOOLEAN

UnloadInv == control = "unloaded" => Cardinality(CountedPlaces) <= forgotten

HookInv == LifeInv /\ DetourInv /\ HistoryType /\ UnloadInv

LEMMA InitialHooks == Init => HookInv
<1> SUFFICES ASSUME Init PROVE HookInv
  OBVIOUS
<1> USE DEF Init
<1>1. LifeInv
  <2>1. sActive \in BOOLEAN /\ mStopRequested \in BOOLEAN /\ mRestoreSucceeded \in BOOLEAN
    BY Zenon
  <2>2. installs \in 0 .. MaxInstalls /\ uninstalls \in 0 .. MaxUninstalls
    BY HookAssumption
  <2>3. LifeType
    BY <2>1, <2>2 DEF LifeType, WorkerSteps, Rest
  <2>4. Alternation /\ HooksByStep
    BY DEF Alternation, HooksByStep
  <2>5. QED
    BY <2>3, <2>4 DEF LifeInv
<1>2. StackInv
  <2>1. <<>> \in Seq(FrameType) /\ Len(<<>>) = 0
    OBVIOUS
  <2>2. \A t \in Threads : stack[t] = <<>>
    OBVIOUS
  <2>3. QED
    BY <2>1, <2>2 DEF StackInv
<1>3. \A p \in Places : ~Present(p)
  <2>1. \A p \in Places : p[1] \in Threads
    BY DEF Places
  <2>2. \A p \in Places : Len(stack[p[1]]) = 0
    BY <2>1
  <2>3. \A i : i \notin 1 .. 0
    OBVIOUS
  <2>4. QED
    BY <2>2, <2>3 DEF Present
<1>4. CountedPlaces = {} /\ LoadedPlaces = {} /\ DoomedPlaces = {} /\ DetoursInv
  BY <1>3 DEF CountedPlaces, LoadedPlaces, DoomedPlaces, DetoursInv
<1>5. CountInv
  <2>1. /\ Cardinality(CountedPlaces) = 0 /\ Cardinality(LoadedPlaces) = 0
        /\ Cardinality(DoomedPlaces) = 0
    BY <1>4, FS_EmptySet
  <2>2. 0 \in 0 .. CounterMod - 1 /\ 0 \in 0 .. 2 * Cardinality(Threads)
    BY PlacesFinite, HookAssumption DEF Finite
  <2>3. CountsWith(0, 0)
    BY <2>1, <2>2 DEF CountsWith
  <2>4. QED
    BY <2>2, <2>3 DEF CountInv
<1>6. DepthInv
  BY <1>4 DEF DepthInv, InTask
<1>7. entries \in 0 .. MaxEntries
  BY HookAssumption
<1>8. outlived \in BOOLEAN
  BY Zenon
<1>9. QED
  BY <1>1, <1>2, <1>4, <1>5, <1>6, <1>7, <1>8 DEF HookInv, DetourInv, HistoryType, UnloadInv

LEMMA NextKeepsHistory == HistoryType /\ Next => HistoryType'
<1> SUFFICES ASSUME HistoryType, Next PROVE HistoryType'
  OBVIOUS
<1>1. entries' = entries \/ (entries' = entries + 1 /\ entries < MaxEntries)
  BY DEF Next, Worker, LeaveGate, LeaveGateIdle, HelperHookFails, HookFails, PlaceHook,
         AssignOriginal, WorkerStops, WorkerGoto, Control, UninstallSteps, Install,
         Uninstall, Join, Release, Refuse, Accept, RemoveHooks, Unhook, Unhooked, Drained,
         DrainTimeout, ForgetOriginals, JudgeRestore, Game, Enter, LoadActive, Begin,
         CallOriginal, OriginalReturns, EndUnregistered, LoadActiveAgain, End, FrameStep,
         limits
<1>2. entries' \in 0 .. MaxEntries
  BY <1>1, HookAssumption DEF HistoryType
<1>3. CASE Install
  <2>1. outlived' = outlived
    BY <1>3 DEF Install
  <2>2. QED
    BY <1>2, <2>1, Zenon DEF HistoryType
<1>4. CASE Release
  <2>1. outlived' \in BOOLEAN
    BY <1>4, Zenon DEF Release
  <2>2. QED
    BY <1>2, <2>1, Zenon DEF HistoryType
<1>5. CASE ~Install /\ ~Release
  <2>1. UNCHANGED outlived
    BY <1>5, QuietSteps DEF Next, Control, UninstallSteps, QuietForDetours, Game, Enter,
       LoadActive, Begin, CallOriginal, OriginalReturns, EndUnregistered,
       LoadActiveAgain, End, FrameStep, history
  <2>2. QED
    BY <1>2, <2>1, Zenon DEF HistoryType
<1>6. QED
  BY <1>3, <1>4, <1>5

\* Only an uninstall that found the counter at zero ends in an unload.
LEMMA NextKeepsUnload ==
  ASSUME HookInv, Next, control' = "unloaded"
  PROVE  Cardinality(CountedPlaces') <= forgotten'
<1>1. Accept
  BY DEF Next, Worker, LeaveGate, LeaveGateIdle, HelperHookFails, HookFails, PlaceHook,
         AssignOriginal, WorkerStops, WorkerGoto, Control, UninstallSteps, Install,
         Uninstall, Join, Release, Refuse, Accept, RemoveHooks, Unhook, Unhooked, Drained,
         DrainTimeout, ForgetOriginals, JudgeRestore, Game, Enter, LoadActive, Begin,
         CallOriginal, OriginalReturns, EndUnregistered, LoadActiveAgain, End, FrameStep
<1>2. stack' = stack /\ forgotten' = forgotten /\ mCallbacksInFlight = 0
  BY <1>1 DEF Accept, safeToUnload, history
<1>3. Cardinality(CountedPlaces) <= forgotten
  <2>1. PICK cancelled \in Nat, lost \in Nat : CountsWith(cancelled, lost)
    BY DEF HookInv, DetourInv, CountInv
  <2>2. Finite /\ CounterMod > 2 * Cardinality(Threads) /\ CounterMod \in Nat
    BY PlacesFinite, HookAssumption
  <2>3. forgotten \in 0 .. 2 * Cardinality(Threads)
    BY DEF HookInv, DetourInv, CountInv
  <2>4. QED
    BY <1>2, <2>1, <2>2, <2>3 DEF CountsWith, Finite
<1>4. QED
  BY <1>2, <1>3 DEF CountedPlaces, Present, Detour

LEMMA HooksInductive == HookInv /\ [Next]_vars => HookInv'
<1> SUFFICES ASSUME HookInv, [Next]_vars PROVE HookInv'
  OBVIOUS
<1>1. CASE Next
  <2>1. LifeInv'
    BY <1>1, WorkerKeepsLife, ControlKeepsLife, GameKeepsLife DEF Next, HookInv
  <2>2. DetourInv'
    <3>1. CASE Install
      BY <3>1, InstallKeepsDetours DEF HookInv, HistoryType
    <3>2. CASE Release
      BY <3>2, ReleaseKeepsDetours DEF HookInv
    <3>3. CASE \E t \in Threads : Game(t)
      BY <3>3, GameKeepsDetours DEF HookInv
    <3>4. CASE Worker \/ Uninstall \/ Join \/ (control = "removing" /\ RemoveHooks)
                 \/ Refuse \/ Accept
      BY <3>4, QuietSteps, QuietKeepsDetours DEF HookInv
    <3>5. QED
      BY <1>1, <3>1, <3>2, <3>3, <3>4 DEF Next, Control, UninstallSteps
  <2>3. HistoryType'
    BY <1>1, NextKeepsHistory DEF HookInv
  <2>4. UnloadInv'
    BY <1>1, NextKeepsUnload DEF UnloadInv
  <2>5. QED
    BY <2>1, <2>2, <2>3, <2>4 DEF HookInv
<1>2. CASE UNCHANGED vars
  <2>1. UNCHANGED life /\ QuietForDetours /\ entries' = entries
    BY <1>2 DEF vars, life, QuietForDetours, flags, history, hooks, limits
  <2>2. LifeInv'
    BY <2>1 DEF HookInv, life, flags, hooks, LifeInv, LifeType, Alternation, HooksByStep
  <2>3. DetourInv'
    BY <2>1, QuietKeepsDetours DEF HookInv
  <2>4. HistoryType'
    BY <2>1, Zenon DEF HookInv, HistoryType, QuietForDetours
  <2>5. UnloadInv'
    BY <2>1 DEF HookInv, UnloadInv, life, QuietForDetours, CountedPlaces, Present, Detour
  <2>6. QED
    BY <2>2, <2>3, <2>4, <2>5 DEF HookInv
<1>3. QED
  BY <1>1, <1>2

LEMMA HooksInvariant == Spec => []HookInv
BY InitialHooks, HooksInductive, PTL DEF Spec

LEMMA HooksAreAccounted == HookInv => HooksAccounted
<1> SUFFICES ASSUME HookInv PROVE HooksAccounted
  OBVIOUS
<1>1. TypeOK
  <2>1. {sActive, mStopRequested, mRestoreSucceeded, outlived} \subseteq BOOLEAN
    BY Zenon DEF HookInv, LifeInv, LifeType, HistoryType
  <2>2. \A t \in Threads : \A i \in Frames(t) : stack[t][i] \in FrameType
    <3>1. TAKE t \in Threads
    <3>2. stack[t] \in Seq(FrameType)
      BY DEF HookInv, DetourInv, StackInv
    <3>3. QED
      BY <3>2, LenProperties, ElementOfSeq DEF Frames
  <2>3. /\ mCallbacksInFlight \in 0 .. CounterMod - 1 /\ depth \in [Threads -> Nat]
        /\ forgotten \in 0 .. 2 * Cardinality(Threads)
    BY DEF HookInv, DetourInv, CountInv, DepthInv
  <2>4. QED
    BY <2>1, <2>2, <2>3
       DEF TypeOK, HookInv, LifeInv, LifeType, DetourInv, StackInv, HistoryType
<1> USE DEF HookInv, LifeInv, LifeType, Alternation, HooksByStep, WorkerSteps, Rest, Hooks
<1>2. NothingLiveAtRest
  BY DEF NothingLiveAtRest
<1>3. HooksOwned
  BY DEF HooksOwned, Placed
<1>4. QED
  BY <1>1, <1>2, <1>3 DEF HooksAccounted

LEMMA CountersAreTracked == HookInv => CountersTrackCallbacks
<1> SUFFICES ASSUME HookInv PROVE CountersTrackCallbacks
  OBVIOUS
<1> USE DEF HookInv, DetourInv
<1>1. CounterTracksCallbacks
  <2>1. CountedFrames = CountedPlaces
    BY FramesArePlaces
  <2>2. /\ mCallbacksInFlight \in 0 .. CounterMod - 1
        /\ forgotten = 0 /\ (sActive \/ ~outlived) =>
             mCallbacksInFlight = Cardinality(CountedPlaces)
    <3>1. PICK cancelled \in Nat, lost \in Nat : CountsWith(cancelled, lost)
      BY DEF CountInv
    <3>2. forgotten = 0 /\ (sActive \/ ~outlived) => cancelled = 0 /\ lost = 0
      BY <3>1, PlacesFinite DEF CountsWith, Finite
    <3>3. QED
      BY <3>1, <3>2, PlacesFinite DEF CountInv, CountsWith, Finite
  <2>3. mCallbacksInFlight % CounterMod = mCallbacksInFlight
    BY <2>2, CounterWraps
  <2>4. QED
    BY <2>1, <2>2, <2>3 DEF CounterTracksCallbacks
<1>2. ScopeTracksTasks
  <2>1. ASSUME NEW t \in Threads
        PROVE  Cardinality(Tasks(t)) = IF InTask(t) THEN 1 ELSE 0
    <3>1. /\ stack[t] \in Seq(FrameType) /\ Len(stack[t]) <= 2
          /\ Len(stack[t]) = 2 => stack[t][2].hook = "helper"
      BY DEF StackInv
    <3>2. Frames(t) = 1 .. Len(stack[t]) /\ Len(stack[t]) \in Nat
      BY <3>1, LenProperties DEF Frames
    <3>3. \A i \in Frames(t) : i = 1 \/ (i = 2 /\ Len(stack[t]) = 2)
      <4>1. \A k \in Nat : k <= 2 => \A i \in 1 .. k : i = 1 \/ (i = 2 /\ k = 2)
        OBVIOUS
      <4>2. QED
        BY <3>1, <3>2, <4>1, Zenon
    <3>4. Tasks(t) \subseteq {1}
      BY <3>1, <3>3 DEF Tasks
    <3>5. 1 \in Tasks(t) <=> InTask(t)
      <4>1. <<t, 1>> \in Places /\ <<t, 1>>[1] = t /\ <<t, 1>>[2] = 1
        BY DEF Places
      <4>2. QED
        BY <3>2, <4>1, Zenon DEF Tasks, InTask, CountedPlaces, Present, Detour
    <3>6. Tasks(t) = IF InTask(t) THEN {1} ELSE {}
      BY <3>4, <3>5
    <3>7. Cardinality({1}) = 1 /\ Cardinality({}) = 0
      BY FS_Singleton, FS_EmptySet
    <3>8. QED
      BY <3>6, <3>7
  <2>2. QED
    BY <2>1 DEF ScopeTracksTasks, DepthInv
<1>3. QED
  BY <1>1, <1>2 DEF CountersTrackCallbacks

\* HooksSafety: the types hold, nothing is in the game's code once uninstall is
\* past the removal, and a hook that is live has a worker or an uninstall that
\* will take it down; from installHooks, removeHooks, workerLoop and uninstall.
THEOREM HooksSafety == Spec => []HooksAccounted
BY HooksInvariant, HooksAreAccounted, PTL

\* CounterSafety: mCallbacksInFlight is the number of callbacks that are counted
\* and the scope depth of a thread is the number of tasks it is in, whatever the
\* detours of its neighbours do: the counter while no callback has outlived a
\* registration, or one is registered again whose install() met no callback.
THEOREM CounterSafety == Spec => []CountersTrackCallbacks
BY HooksInvariant, CountersAreTracked, PTL

LEMMA UnloadIsClean == HookInv => UnloadLeavesOnlyForgotten
BY FramesArePlaces DEF HookInv, DetourInv, UnloadInv, UnloadLeavesOnlyForgotten

\* UnloadSafety: of the counted callbacks in the code of a module that unload()
\* let go there are no more than the last install() met; also after a drain
\* that gave up, and after an install() that followed a refusal.
THEOREM UnloadSafety == Spec => []UnloadLeavesOnlyForgotten
BY HooksInvariant, UnloadIsClean, PTL
=============================================================================
