------------------------- MODULE ModLifecycleProofs -------------------------
(***************************************************************************)
(* Proofs about ModLifecycle, for any number of calls and heartbeats: a    *)
(* successful disable leaves nothing behind, no listener waits for a       *)
(* source that is not there or is stopped under a callback, and whatever   *)
(* escapes an orderly shutdown has outlived its drain.                     *)
(***************************************************************************)
EXTENDS ModLifecycle, SequenceTheorems, TLAPS

(***************************************************************************)
(* What may be left of a call's list.                                      *)
(***************************************************************************)
UpFromProbe     == <<<<"up", "probe">>, <<"up", "heartbeat">>, <<"up", "tick">>,
                     <<"up", "render">>>>
UpFromHeartbeat == <<<<"up", "heartbeat">>, <<"up", "tick">>, <<"up", "render">>>>
UpFromTick      == <<<<"up", "tick">>, <<"up", "render">>>>
UpFromRender    == <<<<"up", "render">>>>

UndoHeartbeat == <<<<"down", "heartbeat">>, <<"down", "probe">>, <<"down", "scheduler">>>>
UndoListeners == <<<<"down", "probe">>, <<"down", "scheduler">>>>
UndoProbe     == <<<<"down", "probe">>>>

DownFromProbe     == <<<<"down", "probe">>, <<"down", "tick">>, <<"down", "heartbeat">>,
                       <<"down", "scheduler">>>>
DownFromTick      == <<<<"down", "tick">>, <<"down", "heartbeat">>, <<"down", "scheduler">>>>
DownFromHeartbeat == <<<<"down", "heartbeat">>, <<"down", "scheduler">>>>
DownFromScheduler == <<<<"down", "scheduler">>>>

EnableLists ==
  {UpTasks, UpFromProbe, UpFromHeartbeat, UpFromTick, UpFromRender,
   UndoHeartbeat, UndoListeners, DownFromScheduler, UndoProbe, <<>>}
DisableLists ==
  {DownTasks, DownFromProbe, DownFromTick, DownFromHeartbeat, DownFromScheduler, <<>>}

\* A component that a disable has not come to yet.
Awaits(list, c) ==
  \/ list = DownTasks
  \/ list = DownFromProbe /\ c # "render"
  \/ list = DownFromTick /\ c \in {"tick", "heartbeat", "scheduler"}
  \/ list = DownFromHeartbeat /\ c \in {"heartbeat", "scheduler"}
  \/ list = DownFromScheduler /\ c = "scheduler"

Stopping == op \in {"disable", "unload"}
Turn(direction, c) == todo # <<>> /\ Head(todo) = <<direction, c>>

Planned ==
  /\ op = "none" => todo = <<>>
  /\ op = "enable" => todo \in EnableLists
  /\ Stopping => todo \in DisableLists

Types ==
  /\ op \in {"none", "enable", "disable", "unload"}
  /\ at \in {"begin", "publish", "subscribe", "thread", "hook", "original",
            "register", "join", "unhook", "drain", "release", "judge"}
  /\ standing \in {"enabled", "disabled", "unloaded", "refused"}
  /\ lifeCalls \in 0..MaxCalls
  /\ thread \in [Components -> ThreadSteps]
  /\ stop \in [Components -> BOOLEAN]
  /\ hooked \subseteq Sources /\ active \subseteq Sources /\ stray \subseteq Sources
  /\ original \in BOOLEAN /\ mRestoreSucceeded \in BOOLEAN
  /\ subscribed \subseteq Listeners /\ running \subseteq Listeners
  /\ odd \in BOOLEAN /\ terminated \in BOOLEAN
  /\ game \in [Sources -> GameSteps]

CountTypes ==
  /\ inFlight \in [Sources -> 0..CounterMod - 1]
  /\ mCallCount \in 0..MaxBeats
  /\ armed \in [Sources -> 0..MaxBeats]
  /\ game["heartbeat"] \in {"entered", "loaded", "counted", "handling"} =>
       mCallCount < MaxBeats

(***************************************************************************)
(* A thread object is free where one is assigned.                          *)
(***************************************************************************)
Joined ==
  /\ ~terminated
  /\ \A c \in Listeners : c \notin running => thread[c] = "notJoinable"
  /\ \A c \in Listeners :
       Turn("up", c) /\ at \in {"publish", "subscribe", "thread"} => c \notin running
  /\ \A c \in Components :
       Turn("down", c) /\ at \in {"unhook", "drain", "release", "judge"} =>
         thread[c] = "notJoinable"
  /\ \A s \in {"tick", "render"} :
       Turn("up", s) /\ at = "register" => ~Installed(s)

(***************************************************************************)
(* The heartbeat hook, and what stands on it.                              *)
(***************************************************************************)
Heartbeat ==
  /\ "heartbeat" \notin hooked => thread["heartbeat"] = "notJoinable"
  /\ "heartbeat" \in hooked =>
       \/ thread["heartbeat"] = "running" /\ ~stop["heartbeat"]
       \/ Turn("down", "heartbeat")
       \/ Turn("up", "heartbeat") /\ at \in {"original", "thread"}
  /\ Turn("up", "heartbeat") /\ at \in {"hook", "original", "thread"} =>
       /\ thread["heartbeat"] = "notJoinable" /\ ~stop["heartbeat"]
       /\ "heartbeat" \in active /\ ~Installed("tick")
       /\ "heartbeat" \in hooked <=> at # "hook"

Stacked ==
  /\ Installed("tick") => "heartbeat" \in hooked
  /\ "render" \in hooked \/ Installed("render") => Installed("tick")
  /\ "render" \in hooked => Installed("render") \/ (Turn("down", "render") /\ at = "unhook")
  /\ \A s \in Sources : s \in hooked \/ thread[s] # "notJoinable" => s \in active

(***************************************************************************)
(* What a list says about the components.                                  *)
(***************************************************************************)
Sourced ==
  running # {} =>
    Installed("tick") /\ ("probe" \in running => Installed("render"))

\* What holds when a list is what is left of an enable.
Promise(list) ==
  /\ list \in {UndoHeartbeat, UndoListeners, DownFromScheduler} => ~Installed("tick")
  /\ list = DownFromScheduler => "probe" \notin running
  /\ list = UndoProbe => Installed("tick") /\ ~Installed("render")
  /\ list \in {UpFromTick, UpFromRender} => "heartbeat" \in hooked
  /\ list = UpFromRender => Installed("tick")
  /\ list = <<>> => Sourced

Enabling ==
  /\ op = "enable" => Promise(todo)
  /\ op = "none" /\ standing = "enabled" => Sourced

Down(c) ==
  /\ thread[c] = "notJoinable"
  /\ c \notin hooked /\ c \notin active /\ c \notin subscribed /\ c \notin running
  /\ c = "heartbeat" => ~original

Disabling ==
  /\ \A s \in Sources : Turn("down", s) /\ at \in {"drain", "release", "judge"} =>
       s \notin hooked \/ s = "tick"
  /\ \A s \in Sources : Turn("down", s) /\ at = "judge" =>
       /\ s \notin active \/ (s = "tick" /\ s \in hooked)
       /\ s = "heartbeat" => ~original
  /\ Stopping => \A c \in Components : Awaits(todo, c) \/ Down(c)
  /\ op = "none" /\ standing \in {"disabled", "unloaded"} => \A c \in Components : Down(c)

(***************************************************************************)
(* A callback that has not outlived its drain.                             *)
(***************************************************************************)
Contained ==
  \A s \in Sources : s \notin stray =>
    /\ game[s] # "outside" =>
         /\ s \in hooked \/ (Turn("down", s) /\ at = "drain")
         /\ s \in active
    /\ game[s] # "uncounted"
    /\ inFlight[s] =
         (IF game[s] \in {"counted", "delivering", "handling", "leaving"} THEN 1 ELSE 0)

Calm == "tick" \notin stray /\ "render" \notin stray

\* When a tick callback may be with a scheduler that does not run: never while a
\* scheduler starts.
Window ==
  \/ op = "enable" /\ ~(Turn("up", "scheduler") /\ at \in {"begin", "publish", "subscribe"})
  \/ op = "none" /\ standing = "enabled"
  \/ /\ Stopping /\ Awaits(todo, "tick")
     /\ ~(Turn("down", "tick") /\ at \in {"release", "judge"})

Published ==
  /\ "scheduler" \in subscribed =>
       "scheduler" \in running \/ (Turn("up", "scheduler") /\ at = "thread")
  /\ Turn("down", "render") /\ at \in {"release", "judge"} /\ "render" \notin stray =>
       mRestoreSucceeded
  /\ Calm /\ game["tick"] \in {"delivering", "handling"} /\ "scheduler" \notin running =>
       Window
  /\ Calm =>
       (odd <=> (Turn("up", "scheduler") /\ at = "publish") \/ game["tick"] = "handling")

LifeInv == /\ Planned /\ Types /\ CountTypes /\ Joined /\ Heartbeat /\ Stacked
           /\ Enabling /\ Disabling /\ Contained /\ Published

-----------------------------------------------------------------------------
(* Heads and tails of the lists.                                           *)

\* The head tells the list, up to what the call is and, for the probe, whether
\* the render hook alone has failed.
LEMMA EnableHead ==
  ASSUME todo \in EnableLists, NEW c \in Components
  PROVE  /\ Turn("up", c) =>
              todo = CASE c = "scheduler" -> UpTasks [] c = "probe" -> UpFromProbe
                       [] c = "heartbeat" -> UpFromHeartbeat [] c = "tick" -> UpFromTick
                       [] c = "render" -> UpFromRender
         /\ Turn("down", c) =>
              \/ c = "heartbeat" /\ todo = UndoHeartbeat
              \/ c = "probe" /\ todo \in {UndoListeners, UndoProbe}
              \/ c = "scheduler" /\ todo = DownFromScheduler
  BY DEF EnableLists, Turn, UpTasks, UpFromProbe, UpFromHeartbeat, UpFromTick, UpFromRender,
    UndoHeartbeat, UndoListeners, UndoProbe, DownFromScheduler, Components, Sources, Listeners

LEMMA DisableHead ==
  ASSUME todo \in DisableLists, NEW c \in Components
  PROVE  /\ ~Turn("up", c)
         /\ Turn("down", c) =>
              \/ c = "render" /\ todo = DownTasks
              \/ c = "probe" /\ todo = DownFromProbe
              \/ c = "tick" /\ todo = DownFromTick
              \/ c = "heartbeat" /\ todo = DownFromHeartbeat
              \/ c = "scheduler" /\ todo = DownFromScheduler
  BY DEF DisableLists, Turn, DownTasks, DownFromProbe, DownFromTick, DownFromHeartbeat,
    DownFromScheduler, Components, Sources, Listeners

LEMMA Tails ==
  /\ Tail(UpTasks) = UpFromProbe
  /\ Tail(UpFromProbe) = UpFromHeartbeat
  /\ Tail(UpFromHeartbeat) = UpFromTick
  /\ Tail(UpFromTick) = UpFromRender
  /\ Tail(UpFromRender) = <<>>
  /\ Tail(UndoHeartbeat) = UndoListeners
  /\ Tail(UndoListeners) = DownFromScheduler
  /\ Tail(UndoProbe) = <<>>
  /\ Tail(DownTasks) = DownFromProbe
  /\ Tail(DownFromProbe) = DownFromTick
  /\ Tail(DownFromTick) = DownFromHeartbeat
  /\ Tail(DownFromHeartbeat) = DownFromScheduler
  /\ Tail(DownFromScheduler) = <<>>
  BY DEF UpTasks, UpFromProbe, UpFromHeartbeat, UpFromTick, UpFromRender,
    UndoHeartbeat, UndoListeners, UndoProbe, DownTasks, DownFromProbe, DownFromTick,
    DownFromHeartbeat, DownFromScheduler

\* Sources go before their listeners, the heartbeat after both other sources, and
\* nothing stands on an empty list.
LEMMA Order ==
  ASSUME todo \in DisableLists
  PROVE  /\ Turn("down", "probe") => ~Awaits(todo, "render")
         /\ Turn("down", "tick") =>
              \A c \in {"render", "probe"} : ~Awaits(todo, c)
         /\ Turn("down", "heartbeat") =>
              \A c \in {"render", "probe", "tick"} : ~Awaits(todo, c)
         /\ Turn("down", "scheduler") =>
              \A c \in {"render", "probe", "tick", "heartbeat"} : ~Awaits(todo, c)
         /\ todo = <<>> => \A c \in Components : ~Awaits(todo, c)
  BY DEF DisableLists, Turn, Awaits, DownTasks, DownFromProbe, DownFromTick,
    DownFromHeartbeat, DownFromScheduler, Components, Sources, Listeners

\* The list is shorter by its head, on which every other component keeps its place.
LEMMA DisableTail ==
  ASSUME todo \in DisableLists, NEW c \in Components, Turn("down", c)
  PROVE  /\ Tail(todo) \in DisableLists
         /\ \A d \in Components \ {c} : Awaits(todo, d) => Awaits(Tail(todo), d)
<1>1. Tail(todo) \in DisableLists
  BY DisableHead, Tails DEF DisableLists
<1>2. ASSUME NEW d \in Components \ {c}, Awaits(todo, d) PROVE Awaits(Tail(todo), d)
  BY <1>2, DisableHead, Tails, Order DEF Awaits, Components, Sources, Listeners
<1>3. QED
  BY <1>1, <1>2

LEMMA EnableTail ==
  ASSUME todo \in EnableLists, todo # <<>>
  PROVE  Tail(todo) \in EnableLists
  BY Tails DEF EnableLists

LEMMA Joining ==
  ASSUME NEW S, NEW a \in S, NEW b \in S, NEW c \in S
  PROVE  <<a>> \o <<b, c>> = <<a, b, c>>
<1>1. /\ <<a>> \in Seq(S) /\ <<b, c>> \in Seq(S) /\ <<a, b, c>> \in Seq(S)
      /\ Len(<<a>>) = 1 /\ Len(<<b, c>>) = 2 /\ Len(<<a, b, c>>) = 3
  OBVIOUS
<1>2. ASSUME NEW s \in Seq(S), NEW t \in Seq(S), NEW u \in Seq(S),
             Len(s) = 1, Len(t) = 2, Len(u) = 3,
             s[1] = u[1], t[1] = u[2], t[2] = u[3]
      PROVE  s \o t = u
  <2>0. /\ s \o t \in Seq(S)
        /\ Len(s \o t) = Len(s) + Len(t)
        /\ \A i \in 1 .. Len(s) + Len(t) : (s \o t)[i] =
             IF i <= Len(s) THEN s[i] ELSE t[i - Len(s)]
    BY ConcatProperties, Zenon
  <2>1. s \o t \in Seq(S) /\ Len(s \o t) = 3
    BY <1>2, <2>0
  <2>2. \A i \in 1..3 : (s \o t)[i] = IF i <= 1 THEN s[i] ELSE t[i - 1]
    BY <1>2, <2>0
  <2>3. ASSUME NEW i \in 1..3 PROVE (s \o t)[i] = u[i]
    <3>1. i = 1 \/ i = 2 \/ i = 3
      OBVIOUS
    <3>2. (s \o t)[i] = IF i <= 1 THEN s[i] ELSE t[i - 1]
      BY <2>2
    <3>3. QED
      BY <1>2, <3>1, <3>2
  <2>4. QED
    BY <1>2, <2>1, <2>3, SeqEqual
<1>3. QED
  BY <1>1, <1>2

\* What takes the place of a list.
LEMMA Replacements ==
  /\ Instead("heartbeat") = UndoListeners /\ Instead("tick") = UndoListeners
  /\ Instead("render") = UndoProbe
  /\ Instead("scheduler") = Tail(todo) /\ Instead("probe") = Tail(todo)
  /\ <<<<"down", "heartbeat">>>> \o Instead("heartbeat") = UndoHeartbeat
<1>1. Instead("heartbeat") = UndoListeners /\ Instead("tick") = UndoListeners
      /\ Instead("render") = UndoProbe
  BY DEF Instead, UndoListeners, UndoProbe
<1>2. Instead("scheduler") = Tail(todo) /\ Instead("probe") = Tail(todo)
  BY DEF Instead
<1>3. <<<<"down", "heartbeat">>>> \o <<<<"down", "probe">>, <<"down", "scheduler">>>>
        = UndoHeartbeat
  <2>1. ASSUME NEW a, NEW b, NEW c PROVE <<a>> \o <<b, c>> = <<a, b, c>>
    <3>1. a \in {a, b, c} /\ b \in {a, b, c} /\ c \in {a, b, c}
      OBVIOUS
    <3>2. QED
      BY <3>1, Joining, Zenon
  <2>2. QED
    BY <2>1, Zenon DEF UndoHeartbeat
<1>4. QED
  BY <1>1, <1>2, <1>3 DEF UndoListeners

\* The lists that promise something are different from each other and from the
\* ones that promise nothing.
LEMMA Distinct ==
  /\ UpTasks \notin {UpFromProbe, UpFromHeartbeat, UpFromTick, UpFromRender}
  /\ \A up \in {UpTasks, UpFromProbe, UpFromHeartbeat, UpFromTick, UpFromRender} :
       up \notin {UndoHeartbeat, UndoListeners, DownFromScheduler, UndoProbe, <<>>}
  /\ {UpTasks, UpFromProbe, UpFromHeartbeat} \cap {UpFromTick, UpFromRender} = {}
  /\ UpFromTick # UpFromRender
  /\ UndoHeartbeat \notin {UndoListeners, DownFromScheduler, UndoProbe, <<>>}
  /\ UndoListeners \notin {DownFromScheduler, UndoProbe, <<>>}
  /\ DownFromScheduler \notin {UndoProbe, <<>>}
  /\ UndoProbe # <<>>
<1>1. UndoListeners # UndoProbe
  <2>1. Len(UndoListeners) = 2 /\ Len(UndoProbe) = 1
    BY DEF UndoListeners, UndoProbe
  <2>2. QED
    BY <2>1
<1>2. QED
  BY <1>1 DEF UpTasks, UpFromProbe, UpFromHeartbeat, UpFromTick,
    UpFromRender, UndoHeartbeat, UndoListeners, UndoProbe, DownFromScheduler

\* What a list that has just become the rest of a call promises.
LEMMA Promises ==
  /\ Promise(UpTasks)' /\ Promise(UpFromProbe)' /\ Promise(UpFromHeartbeat)'
  /\ ("heartbeat" \in hooked)' => Promise(UpFromTick)'
  /\ ("heartbeat" \in hooked /\ Installed("tick"))' => Promise(UpFromRender)'
  /\ Sourced' => Promise(<<>>)'
  /\ (~Installed("tick"))' => Promise(UndoHeartbeat)' /\ Promise(UndoListeners)'
  /\ (~Installed("tick") /\ "probe" \notin running)' => Promise(DownFromScheduler)'
  /\ (Installed("tick") /\ ~Installed("render"))' => Promise(UndoProbe)'
  BY Distinct DEF Promise

LEMMA Promised ==
  /\ Promise(UpFromTick) => "heartbeat" \in hooked
  /\ Promise(UpFromRender) => "heartbeat" \in hooked /\ Installed("tick")
  /\ Promise(<<>>) => Sourced
  /\ Promise(UndoHeartbeat) \/ Promise(UndoListeners) => ~Installed("tick")
  /\ Promise(DownFromScheduler) => ~Installed("tick") /\ "probe" \notin running
  /\ Promise(UndoProbe) => Installed("tick") /\ ~Installed("render")
  BY DEF Promise
-----------------------------------------------------------------------------
(* The task that runs.                                                     *)

\* What has come up before a component that comes up.
LEMMA UpTurn ==
  ASSUME LifeInv, NEW c \in Components, Turn("up", c)
  PROVE  /\ op = "enable" /\ todo \in EnableLists /\ ~Stopping
         /\ \A d : (Turn("up", d) => d = c) /\ ~Turn("down", d)
         /\ c = "scheduler" => todo = UpTasks /\ Tail(todo) = UpFromProbe
         /\ c = "probe" => todo = UpFromProbe /\ Tail(todo) = UpFromHeartbeat
         /\ c = "heartbeat" => todo = UpFromHeartbeat /\ Tail(todo) = UpFromTick
         /\ c = "tick" => todo = UpFromTick /\ Tail(todo) = UpFromRender
                          /\ "heartbeat" \in hooked
         /\ c = "render" => todo = UpFromRender /\ Tail(todo) = <<>>
                            /\ "heartbeat" \in hooked /\ Installed("tick")
<1>1. op = "enable" /\ todo \in EnableLists /\ ~Stopping
  BY DisableHead DEF LifeInv, Planned, Types, Stopping, Turn
<1>2. \A d : (Turn("up", d) => d = c) /\ ~Turn("down", d)
  BY DEF Turn
<1>3. QED
  BY <1>1, <1>2, EnableHead, Tails, Promised DEF LifeInv, Enabling, Components, Sources,
    Listeners

\* What is gone before a component goes down.
LEMMA DownTurn ==
  ASSUME LifeInv, NEW c \in Components, Turn("down", c)
  PROVE  /\ \A d : (Turn("down", d) => d = c) /\ ~Turn("up", d)
         /\ \/ op = "enable" /\ todo \in EnableLists /\ ~Stopping
            \/ Stopping /\ todo \in DisableLists
         /\ Tail(todo) # UpTasks
         /\ c = "heartbeat" => ~Installed("tick")
         /\ c \in {"tick", "probe"} => ~Installed("render") /\ "render" \notin hooked
         /\ c = "scheduler" => ~Installed("tick") /\ "probe" \notin running
         /\ c \in {"tick", "render"} => Stopping
<1>1. \A d : (Turn("down", d) => d = c) /\ ~Turn("up", d)
  BY DEF Turn
<1>2. \/ op = "enable" /\ todo \in EnableLists /\ ~Stopping
      \/ Stopping /\ todo \in DisableLists
  BY DEF LifeInv, Planned, Types, Stopping, Turn
<1>3. CASE op = "enable"
  <2>1. /\ todo \in EnableLists /\ ~Stopping
        /\ \/ c = "heartbeat" /\ todo = UndoHeartbeat
           \/ c = "probe" /\ todo \in {UndoListeners, UndoProbe}
           \/ c = "scheduler" /\ todo = DownFromScheduler
    BY <1>2, <1>3, EnableHead DEF Stopping
  <2>2. Tail(todo) \in {UndoListeners, DownFromScheduler, <<>>}
    BY <2>1, Tails
  <2>3. Promise(todo)
    BY <1>3 DEF LifeInv, Enabling
  <2>4. Tail(todo) # UpTasks
    BY <2>2, Distinct
  <2>5. ~Installed("tick") \/ (c = "probe" /\ ~Installed("render"))
    <3>1. CASE todo \in {UndoHeartbeat, UndoListeners, DownFromScheduler}
      BY <3>1, <2>3 DEF Promise
    <3>2. CASE c = "probe" /\ todo = UndoProbe
      BY <3>2, <2>3 DEF Promise
    <3>3. QED
      BY <2>1, <3>1, <3>2
  <2>6. c = "scheduler" => "probe" \notin running
    BY <2>1, <2>3, Promised
  <2>7. c \in {"tick", "probe"} => ~Installed("render") /\ "render" \notin hooked
    BY <1>1, <2>1, <2>5 DEF LifeInv, Stacked
  <2>8. QED
    BY <1>1, <1>2, <2>1, <2>4, <2>5, <2>6, <2>7
<1>4. CASE Stopping
  <2>1. todo \in DisableLists /\ op # "enable"
    BY <1>2, <1>4 DEF Stopping
  <2>2. \A d \in Components : Awaits(todo, d) \/ Down(d)
    BY <1>4 DEF LifeInv, Disabling
  <2>3. Tail(todo) # UpTasks
    <3>1. UpTasks \notin DisableLists
      BY DEF DisableLists, UpTasks, DownTasks, DownFromProbe, DownFromTick,
        DownFromHeartbeat, DownFromScheduler
    <3>2. QED
      BY <2>1, <3>1, DisableTail
  <2>4. c = "heartbeat" => Down("tick")
    BY <2>1, <2>2, Order DEF Components, Sources
  <2>5. c \in {"tick", "probe"} => Down("render")
    BY <2>1, <2>2, Order DEF Components, Sources
  <2>6. c = "scheduler" => Down("tick") /\ Down("probe")
    BY <2>1, <2>2, Order DEF Components, Sources, Listeners
  <2>7. QED
    BY <1>1, <1>2, <1>4, <2>3, <2>4, <2>5, <2>6 DEF Down, Installed
<1>5. QED
  BY <1>2, <1>3, <1>4

\* Only a call that has just begun has the scheduler to start.
LEMMA NotFirst ==
  ASSUME todo' \in EnableLists \cup DisableLists, todo' # UpTasks
  PROVE  ~Turn("up", "scheduler")'
  BY DEF EnableLists, DisableLists, Turn, UpTasks, UpFromProbe, UpFromHeartbeat, UpFromTick,
    UpFromRender, UndoHeartbeat, UndoListeners, UndoProbe, DownFromScheduler, DownTasks,
    DownFromProbe, DownFromTick, DownFromHeartbeat

\* Whatever the list becomes, its head is not the scheduler's start again.
LEMMA NotAgain ==
  ASSUME LifeInv, NEW c \in Components, Turn("up", c) \/ Turn("down", c),
         todo' \in {Tail(todo), UndoHeartbeat, UndoListeners, UndoProbe}
  PROVE  ~Turn("up", "scheduler")'
<1>1. todo \in EnableLists \cup DisableLists /\ todo # <<>>
  BY UpTurn, DownTurn DEF Turn
<1>2. todo' \in EnableLists \cup DisableLists
  BY <1>1, EnableTail, DisableTail, DownTurn, UpTurn DEF EnableLists
<1>3. todo' # UpTasks
  <2>1. Tail(todo) # UpTasks
    <3>1. CASE Turn("up", c)
      <4>1. Tail(todo) \in {UpFromProbe, UpFromHeartbeat, UpFromTick, UpFromRender, <<>>}
        BY <3>1, UpTurn DEF Components, Sources, Listeners
      <4>2. QED
        BY <4>1, Distinct
    <3>2. CASE Turn("down", c)
      BY <3>2, DownTurn
    <3>3. QED
      BY <3>1, <3>2
  <2>2. QED
    BY <2>1, Distinct
<1>4. QED
  BY <1>2, <1>3, NotFirst

\* A step that leaves the list and the hooks alone keeps what they promise.
LEMMA SamePromises ==
  ASSUME LifeInv, UNCHANGED <<op, todo, standing, hooked, running>>,
         Installed("tick")' <=> Installed("tick"), Installed("render")' <=> Installed("render")
  PROVE  Enabling'
  BY DEF LifeInv, Enabling, Promise, Sourced

\* What a task leaves of its list, or puts in its place, is planned.
LEMMA ListsKept ==
  ASSUME LifeInv, NEW c \in Components,
         \/ /\ Turn("up", c)
            /\ todo' \in {todo, Tail(todo), UndoHeartbeat, UndoListeners, UndoProbe}
            /\ UNCHANGED op
         \/ Turn("down", c) /\ todo' \in {todo, Tail(todo)} /\ UNCHANGED op
         \/ op' = "none" /\ todo' = <<>>
  PROVE  Planned'
<1>1. CASE Turn("up", c) /\ UNCHANGED op
           /\ todo' \in {todo, Tail(todo), UndoHeartbeat, UndoListeners, UndoProbe}
  <2>1. op = "enable" /\ todo \in EnableLists /\ todo # <<>>
    BY <1>1, UpTurn DEF Turn
  <2>2. todo' \in EnableLists
    BY <1>1, <2>1, EnableTail DEF EnableLists
  <2>3. QED
    BY <1>1, <2>1, <2>2 DEF Planned, Stopping
<1>2. CASE Turn("down", c) /\ todo' \in {todo, Tail(todo)} /\ UNCHANGED op
  <2>1. todo # <<>>
    BY <1>2 DEF Turn
  <2>2. QED
    BY <1>2, <2>1, DownTurn, EnableTail, DisableTail DEF Planned, Stopping
<1>3. CASE op' = "none" /\ todo' = <<>>
  BY <1>3 DEF Planned, Stopping
<1>4. QED
  BY <1>1, <1>2, <1>3

\* enable begins with every task before it, while nothing else runs.
LEMMA EnableKeeps ==
  ASSUME LifeInv, Enable
  PROVE  LifeInv'
<1>1. Planned' /\ Types' /\ CountTypes'
  BY EnableTail, DisableTail, EnableHead, DisableHead, Replacements, LifecycleAssumption DEF
    Enable, LifeInv, Planned, Types, CountTypes, CallOf, Components, DisableLists,
    EnableLists, GameSteps, Listeners, Sources, Stopping, ThreadSteps, UpTasks, buses,
    counts, hooks, threads
<1>2. Joined' /\ Heartbeat' /\ Stacked'
  BY DEF Enable, LifeInv, Planned, Joined, Heartbeat, Stacked, CallOf, Installed, Turn,
    buses, hooks, threads
<1>3. Enabling'
  BY Promises DEF Enable, LifeInv, Enabling, CallOf
<1>4. Disabling'
  BY DisableTail, DisableHead, Order, EnableHead DEF Enable, LifeInv, Planned, Types,
    Joined, Heartbeat, Disabling, Awaits, CallOf, Components, Down, Installed, Listeners,
    Sources, Stopping, Turn, buses, counts, hooks, threads
<1>5. Contained'
  BY DEF Enable, LifeInv, Planned, Contained, CallOf, Turn, counts, hooks
<1>6. Published'
  BY DisableTail, DisableHead, EnableHead, Order DEF Enable, LifeInv, Planned, Types,
    Joined, Heartbeat, Disabling, Contained, Published, CallOf, Calm, Stopping, Turn,
    Window, buses
<1>7. QED
  BY <1>1, <1>2, <1>3, <1>4, <1>5, <1>6 DEF LifeInv

\* disable begins with every component still to go.
LEMMA DisableKeeps ==
  ASSUME LifeInv, Disable
  PROVE  LifeInv'
<1>1. Planned' /\ Types' /\ CountTypes'
  BY LifecycleAssumption DEF Disable, LifeInv, Planned, Types, CountTypes, CallOf,
    DisableLists, Sources, Stopping, ThreadSteps, UpTasks, buses, counts, hooks, threads
<1>2. Joined' /\ Heartbeat' /\ Stacked'
  BY DEF Disable, LifeInv, Planned, Joined, Heartbeat, Stacked, CallOf, Installed, Turn,
    buses, hooks, threads
<1>3. Enabling'
  BY DEF Disable, LifeInv, Enabling, CallOf
<1>4. Disabling'
  BY DEF Disable, LifeInv, Disabling, Awaits, CallOf
<1>5. Contained'
  BY DEF Disable, LifeInv, Planned, Contained, CallOf, Turn, counts, hooks
<1>6. Published'
  BY DEF Disable, LifeInv, Planned, Published, Awaits, CallOf, Calm, Stopping, Turn, Window,
    buses, counts, hooks
<1>7. QED
  BY <1>1, <1>2, <1>3, <1>4, <1>5, <1>6 DEF LifeInv

\* unload begins as disable does.
LEMMA UnloadKeeps ==
  ASSUME LifeInv, Unload
  PROVE  LifeInv'
<1>1. Planned' /\ Types' /\ CountTypes'
  BY LifecycleAssumption DEF Unload, LifeInv, Planned, Types, CountTypes, CallOf,
    DisableLists, buses, counts, hooks, threads
<1>2. Joined' /\ Heartbeat' /\ Stacked'
  BY DEF Unload, LifeInv, Planned, Joined, Heartbeat, Stacked, CallOf, Installed, Turn,
    buses, hooks, threads
<1>3. Enabling'
  BY DEF Unload, LifeInv, Enabling, CallOf
<1>4. Disabling'
  BY DEF Unload, LifeInv, Disabling, Awaits, CallOf
<1>5. Contained'
  BY DEF Unload, LifeInv, Planned, Contained, CallOf, Turn, counts, hooks
<1>6. Published'
  BY DEF Unload, LifeInv, Planned, Published, Awaits, CallOf, Calm, Stopping, Turn, Window,
    buses
<1>7. QED
  BY <1>1, <1>2, <1>3, <1>4, <1>5, <1>6 DEF LifeInv

\* What a call promises of an empty list is what its answer says.
LEMMA ReturnKeeps ==
  ASSUME LifeInv, Return
  PROVE  LifeInv'
<1>1. Planned' /\ Types' /\ CountTypes'
  BY DEF Return, LifeInv, Planned, Types, CountTypes, Result, Stopping, buses, counts,
    hooks, threads
<1>2. Joined' /\ Heartbeat' /\ Stacked'
  BY DEF Return, LifeInv, Joined, Heartbeat, Stacked, Installed, Turn, buses, hooks, threads
<1>3. Enabling'
  BY DEF Return, LifeInv, Types, Enabling, Installed, Promise, Result, Sourced, buses,
    hooks, threads
<1>4. Disabling'
  BY Order DEF Return, LifeInv, Planned, Types, Disabling, Down, Result, Stopping, Turn,
    buses, hooks, threads
<1>5. Contained'
  BY DEF Return, LifeInv, Contained, Turn, counts, hooks
<1>6. Published'
  BY Order DEF Return, LifeInv, Planned, Published, Calm, Components, Result, Sources, Turn,
    Window, buses
<1>7. QED
  BY <1>1, <1>2, <1>3, <1>4, <1>5, <1>6 DEF LifeInv

\* A listener starts on a free thread object, the scheduler with a publication
\* that no tick callback disturbs.
LEMMA StartListenerKeeps ==
  ASSUME LifeInv, NEW c \in Listeners, StartListener(c)
  PROVE  LifeInv'
<1>1. Planned'
  BY ListsKept DEF StartListener, Task, Turn, Goto, Done, Components
<1>2. Types'
  BY DEF StartListener, LifeInv, Types, Components, Done, GameSteps, Goto, Listeners,
    Sources, Task, ThreadSteps, counts, hooks
<1>3. CountTypes'
  BY LifecycleAssumption DEF StartListener, LifeInv, Types, CountTypes, Components, Done,
    GameSteps, Goto, Listeners, Sources, Task, ThreadSteps, counts, hooks
<1>4. Joined' /\ Heartbeat' /\ Stacked'
  BY DEF StartListener, LifeInv, Types, Joined, Heartbeat, Stacked, Components, Done, Goto,
    Installed, Task, Turn, hooks
<1>5. Enabling'
  <2>1. Turn("up", c) /\ c \in Components
    BY DEF StartListener, Task, Turn, Components
  <2>2. op = "enable" /\ op' = op
    BY <2>1, UpTurn DEF StartListener, Done, Goto
  <2>3. CASE c \in running /\ Done
    BY <2>1, <2>2, <2>3, UpTurn, Promises DEF Done, Enabling, Listeners
  <2>4. CASE UNCHANGED <<op, todo, standing>>
    BY <2>4, SamePromises DEF StartListener, hooks, Installed
  <2>5. QED
    BY <2>3, <2>4 DEF StartListener, Goto
<1>6. Disabling'
  BY DisableHead DEF StartListener, LifeInv, Planned, Disabling, Components, Done, Goto,
    Listeners, Stopping, Task, Turn
<1>7. Contained'
  BY DEF StartListener, LifeInv, Contained, Task, counts, hooks
<1>8. Published'
  <2>1. Turn("up", c) /\ c \in Components /\ at = "begin"
    BY DEF StartListener, Task, Turn, Components, Sources
  <2>2. /\ op = "enable" /\ op' = op /\ ~Turn("down", "render")
        /\ Turn("up", "scheduler") <=> c = "scheduler"
    BY <2>1, UpTurn DEF StartListener, Goto, Done, Fail
  <2>3. CASE c \in running /\ Done /\ UNCHANGED odd
    <3>1. ~Turn("up", "scheduler")'
      BY <2>1, <2>3, NotAgain DEF Done
    <3>2. QED
      BY <2>1, <2>2, <2>3, <3>1 DEF StartListener, Done, LifeInv, Published, Calm, Window
  <2>4. CASE /\ c \notin running /\ odd' = (odd \/ c = "scheduler")
             /\ Goto(IF c = "scheduler" THEN "publish" ELSE "subscribe")
    <3>1. Turn("up", "scheduler")' <=> c = "scheduler"
      BY <2>2, <2>4 DEF Goto, Turn
    <3>2. CASE c = "scheduler"
       BY <2>1, <2>2, <2>4, <3>1, <3>2 DEF StartListener, Goto, LifeInv, Published, Calm,
         Window, Types, Stopping
    <3>3. CASE c # "scheduler"
       BY <2>1, <2>2, <2>4, <3>1, <3>3 DEF StartListener, Goto, LifeInv, Published, Calm,
         Window, Types, Stopping
    <3>4. QED
      BY <3>2, <3>3
  <2>5. QED
    BY <2>3, <2>4 DEF StartListener
<1>9. QED
  BY <1>1, <1>2, <1>3, <1>4, <1>5, <1>6, <1>7, <1>8 DEF LifeInv

\* The first publication ends on the thread that began it.
LEMMA EndFirstPublicationKeeps ==
  ASSUME LifeInv, EndFirstPublication
  PROVE  LifeInv'
<1>1. Planned' /\ Types' /\ CountTypes'
  BY DEF EndFirstPublication, LifeInv, Planned, Types, CountTypes, Goto, Stopping, counts,
    hooks, threads
<1>2. Joined' /\ Heartbeat' /\ Stacked'
  BY DEF EndFirstPublication, LifeInv, Joined, Heartbeat, Stacked, Goto, Installed, Task,
    Turn, hooks, threads
<1>3. Enabling'
  BY DEF EndFirstPublication, LifeInv, Enabling, Goto, Installed, Promise, Sourced, hooks,
    threads
<1>4. Disabling'
  BY DEF EndFirstPublication, LifeInv, Disabling, Down, Goto, Stopping, hooks, threads
<1>5. Contained'
  BY DEF EndFirstPublication, LifeInv, Contained, Task, counts, hooks
<1>6. Published'
  BY DisableHead DEF EndFirstPublication, LifeInv, Planned, Types, Joined, Published, Calm,
    Components, Goto, Listeners, Task, Turn, Window
<1>7. QED
  BY <1>1, <1>2, <1>3, <1>4, <1>5, <1>6 DEF LifeInv

\* A listener is in its bus before it runs, from here to the next step.
LEMMA SubscribeKeeps ==
  ASSUME LifeInv, NEW c \in Listeners, Subscribe(c)
  PROVE  LifeInv'
<1>1. Planned' /\ Types' /\ CountTypes'
  BY DEF Subscribe, LifeInv, Planned, Types, CountTypes, Goto, Stopping, counts, hooks,
    threads
<1>2. Joined' /\ Heartbeat' /\ Stacked'
  BY DEF Subscribe, LifeInv, Joined, Heartbeat, Stacked, Goto, Installed, Listeners, Task,
    Turn, hooks, threads
<1>3. Enabling'
  BY DEF Subscribe, LifeInv, Enabling, Goto, Installed, Promise, Sourced, hooks, threads
<1>4. Disabling'
  BY DisableHead DEF Subscribe, LifeInv, Planned, Disabling, Components, Goto, Listeners,
    Stopping, Task, Turn
<1>5. Contained'
  BY DEF Subscribe, LifeInv, Contained, Task, counts, hooks
<1>6. Published'
  BY DEF Subscribe, LifeInv, Published, Calm, Goto, Stopping, Task, Turn, Window
<1>7. QED
  BY <1>1, <1>2, <1>3, <1>4, <1>5, <1>6 DEF LifeInv

\* A listener that cannot have its thread leaves its bus again.
LEMMA StartWriterKeeps ==
  ASSUME LifeInv, NEW c \in Listeners, StartWriter(c)
  PROVE  LifeInv'
<1>1. Planned'
  BY ListsKept, Replacements DEF StartWriter, Task, Turn, Done, Fail, Components, Listeners
<1>2. Types'
  BY DEF StartWriter, LifeInv, Types, Components, Done, Fail, GameSteps, Listeners, Sources,
    StartThread, Task, ThreadSteps, counts, hooks
<1>3. CountTypes'
  BY LifecycleAssumption DEF StartWriter, LifeInv, Types, CountTypes, Components, Done,
    Fail, GameSteps, Listeners, Sources, StartThread, Task, ThreadSteps, counts, hooks
<1>4. Joined' /\ Heartbeat' /\ Stacked'
  BY DEF StartWriter, LifeInv, Types, Joined, Heartbeat, Stacked, Components, Done, Fail,
    Installed, Listeners, Sources, StartThread, Task, Turn, hooks
<1>5. Enabling'
  <2>1. Turn("up", c) /\ c \in Components
    BY DEF StartWriter, Task, Turn, Components
  <2>2. op = "enable" /\ op' = op
    BY <2>1, UpTurn DEF StartWriter, Done, Fail
  <2>3. todo' = Tail(todo)
    BY Replacements DEF StartWriter, Done, Fail, Listeners
  <2>4. QED
    BY <2>1, <2>2, <2>3, UpTurn, Promises DEF Enabling, Listeners
<1>6. Disabling'
  BY DisableHead DEF StartWriter, LifeInv, Planned, Disabling, Components, Done, Fail,
    Listeners, Sources, Stopping, Task, Turn
<1>7. Contained'
  BY DEF StartWriter, LifeInv, Contained, Task, counts, hooks
<1>8. Published'
  <2>1. Turn("up", c) /\ c \in Components
    BY DEF StartWriter, Task, Turn, Components, Sources
  <2>2. /\ op = "enable" /\ op' = op /\ ~Turn("down", "render")
        /\ Turn("up", "scheduler") <=> c = "scheduler"
    BY <2>1, UpTurn DEF StartWriter, Goto, Done, Fail
  <2>3. ~Turn("up", "scheduler")'
    <3>1. todo' \in {Tail(todo), UndoListeners, UndoProbe}
      BY Replacements DEF StartWriter, Goto, Done, Fail, Listeners
    <3>2. QED
      BY <2>1, <2>2, <3>1, NotAgain DEF Turn
  <2>4. at' = "begin" /\ at = "thread"
    BY DEF StartWriter, Goto, Done, Fail, Task
  <2>5. QED
    BY <2>2, <2>3, <2>4 DEF StartWriter, LifeInv, Published, Calm, Window, Listeners
<1>9. QED
  BY <1>1, <1>2, <1>3, <1>4, <1>5, <1>6, <1>7, <1>8 DEF LifeInv

\* A listener goes after its source.
LEMMA StopListenerKeeps ==
  ASSUME LifeInv, NEW c \in Listeners, StopListener(c)
  PROVE  LifeInv'
<1>1. Planned'
  BY ListsKept DEF StopListener, Task, Turn, Done, Components
<1>2. Types' /\ CountTypes'
  BY DEF StopListener, LifeInv, Types, CountTypes, Done, counts, hooks, threads
<1>3. Joined' /\ Heartbeat' /\ Stacked'
  BY DEF StopListener, LifeInv, Joined, Heartbeat, Stacked, Components, Done, Installed,
    Listeners, Task, Turn, hooks, threads
<1>4. Enabling'
  BY EnableHead, DisableHead, Tails, Promises, Promised, Replacements DEF StopListener,
    LifeInv, Planned, Types, Joined, Heartbeat, Stacked, Enabling, Components, Done,
    Installed, Listeners, Sourced, Sources, Stopping, Task, Turn, counts, hooks, threads
<1>5. Disabling'
  BY DisableTail DEF StopListener, LifeInv, Planned, Types, Joined, Disabling, Components,
    Done, Down, Listeners, Sources, Stopping, Task, Turn, hooks, threads
<1>6. Contained'
  BY DEF StopListener, LifeInv, Contained, Task, counts, hooks
<1>7. Published'
  <2>1. Turn("down", c) /\ at = "unhook" /\ c \in Components
    BY DEF StopListener, Task, Turn, Components
  <2>2. ~Turn("up", "scheduler") /\ ~Turn("up", "scheduler")'
    BY <2>1, DownTurn, NotAgain DEF StopListener, Done
  <2>3. op' = op /\ at' = "begin" /\ todo' = Tail(todo)
    BY DEF StopListener, Done
  <2>4. Stopping /\ Awaits(todo, "tick") => Awaits(todo', "tick")
    BY <2>1, <2>3, DownTurn, DisableTail DEF Components, Sources, Listeners
  <2>5. c = "scheduler" /\ "tick" \notin stray => game["tick"] = "outside"
    <3>1. c = "scheduler" => "tick" \notin hooked
      BY <2>1, DownTurn DEF Installed
    <3>2. c = "scheduler" => ~Turn("down", "tick")
      BY <2>1, DownTurn
    <3>3. QED
      BY <3>1, <3>2 DEF LifeInv, Contained, Sources
  <2>6. UNCHANGED <<odd, game, stray>>
    BY DEF StopListener
  <2>7. ("scheduler" \in subscribed =>
         "scheduler" \in running \/ (Turn("up", "scheduler") /\ at = "thread"))'
    BY <2>2 DEF LifeInv, Published, StopListener
  <2>8. (Calm => (odd <=> \/ Turn("up", "scheduler") /\ at = "publish"
                      \/ game["tick"] = "handling"))'
    BY <2>2, <2>6 DEF LifeInv, Published, Calm
  <2>9. op # "none"
    BY <2>1, DownTurn DEF Stopping
  <2>10. (Calm /\ game["tick"] \in {"delivering", "handling"} /\ "scheduler" \notin running
           => Window)'
    BY <2>1, <2>2, <2>3, <2>4, <2>5, <2>6, <2>9 DEF LifeInv, Published, Window, Stopping,
      Calm, StopListener
  <2>11. QED
    BY <2>3, <2>7, <2>8, <2>10 DEF Published
<1>8. QED
  BY <1>1, <1>2, <1>3, <1>4, <1>5, <1>6, <1>7 DEF LifeInv

\* The heartbeat hook is found in place, cannot come up, or starts afresh.
LEMMA InstallHeartbeatKeeps ==
  ASSUME LifeInv, InstallHeartbeat
  PROVE  LifeInv'
<1>1. Planned'
  BY ListsKept, Replacements DEF InstallHeartbeat, Task, Turn, Goto, Done, Fail, Components,
    Sources
<1>2. Types'
  BY DEF InstallHeartbeat, LifeInv, Types, Components, Done, Fail, GameSteps, Goto,
    Listeners, Sources, Task, ThreadSteps, buses, counts
<1>3. CountTypes'
  BY LifecycleAssumption DEF InstallHeartbeat, LifeInv, Types, CountTypes, Components, Done,
    Fail, GameSteps, Goto, Listeners, Sources, Task, ThreadSteps, buses, counts
<1>4. Joined' /\ Heartbeat' /\ Stacked'
  BY DEF InstallHeartbeat, LifeInv, Types, Joined, Heartbeat, Stacked, Components, Done,
    Fail, Goto, Installed, Sources, Task, Turn, buses
<1>5. Enabling'
  <2>1. Turn("up", "heartbeat")
    BY DEF InstallHeartbeat, Task, Turn
  <2>2. op = "enable" /\ Tail(todo) = UpFromTick /\ op' = op
    BY <2>1, UpTurn DEF InstallHeartbeat, Components, Sources, Goto, Done, Fail
  <2>3. CASE "heartbeat" \in hooked /\ Done
    BY <2>2, <2>3, Promises DEF InstallHeartbeat, Done, Enabling
  <2>4. CASE "heartbeat" \notin hooked /\ Fail("heartbeat")
    BY <2>2, <2>4, Promises, Replacements DEF InstallHeartbeat, Fail, Enabling, Installed,
      LifeInv, Stacked
  <2>5. CASE Goto("hook")
    BY <2>5, SamePromises DEF InstallHeartbeat, Goto, Installed, buses
  <2>6. QED
    BY <2>3, <2>4, <2>5 DEF InstallHeartbeat
<1>6. Disabling'
  BY DisableHead DEF InstallHeartbeat, LifeInv, Planned, Disabling, Components, Done, Fail,
    Goto, Sources, Stopping, Task, Turn, counts
<1>7. Contained'
  BY DEF InstallHeartbeat, LifeInv, CountTypes, Contained, Task, counts
<1>8. Published'
  <2>1. Turn("up", "heartbeat") /\ "heartbeat" \in Components
    BY DEF InstallHeartbeat, Task, Turn, Components, Sources
  <2>2. op = "enable" /\ op' = op  /\ ~Turn("up","scheduler") /\ ~Turn("down", "render")
    BY <2>1, UpTurn DEF InstallHeartbeat, Goto, Done, Fail
  <2>3. ~Turn("up", "scheduler")'
    <3>1. todo' \in {Tail(todo), UndoListeners, todo}
      BY Replacements DEF InstallHeartbeat, Goto, Done, Fail
    <3>2. QED
      BY <2>1, <2>2, <3>1, NotAgain DEF Turn
  <2>4. at' \in {"begin", "hook"}
    BY DEF InstallHeartbeat, Goto, Done, Fail
  <2>5. QED
    BY <2>2, <2>3, <2>4 DEF InstallHeartbeat, LifeInv, Published, Calm, Window, buses
<1>9. QED
  BY <1>1, <1>2, <1>3, <1>4, <1>5, <1>6, <1>7, <1>8 DEF LifeInv

\* Placing the heartbeat's hook.
LEMMA HookHeartbeatKeeps ==
  ASSUME LifeInv, HookHeartbeat
  PROVE  LifeInv'
<1>1. Planned'
  BY ListsKept, Replacements DEF HookHeartbeat, Task, Turn, Goto, Fail, Components, Sources
<1>2. Types'
  BY DEF HookHeartbeat, LifeInv, Types, Components, Fail, GameSteps, Goto, Listeners,
    Sources, Task, ThreadSteps, buses, counts, threads
<1>3. CountTypes'
  BY LifecycleAssumption DEF HookHeartbeat, LifeInv, Types, CountTypes, Components, Fail,
    GameSteps, Goto, Listeners, Sources, Task, ThreadSteps, buses, counts, threads
<1>4. Joined' /\ Heartbeat' /\ Stacked'
  BY DEF HookHeartbeat, LifeInv, Joined, Heartbeat, Stacked, Fail, Goto, Installed, Task,
    Turn, buses, threads
<1>5. Enabling'
  <2>1. Turn("up", "heartbeat") /\ at \in {"hook", "original"}
    BY DEF HookHeartbeat, Task, Turn
  <2>2. op = "enable" /\ op' = op /\ todo = UpFromHeartbeat
    BY <2>1, UpTurn DEF HookHeartbeat, Components, Sources, Goto, Fail
  <2>3. ~Installed("tick") /\ ~Installed("tick")'
    BY <2>1 DEF LifeInv, Heartbeat, HookHeartbeat, Installed, threads
  <2>4. CASE hooked' = hooked \cup {"heartbeat"} /\ Goto("original")
    BY <2>2, <2>4, Promises DEF Enabling, Goto
  <2>5. CASE Fail("heartbeat") /\ hooked' = hooked \ {"heartbeat"}
    BY <2>2, <2>3, <2>5, Promises, Replacements DEF HookHeartbeat, Enabling, Fail
  <2>6. QED
    BY <2>4, <2>5 DEF HookHeartbeat
<1>6. Disabling'
  BY DisableHead DEF HookHeartbeat, LifeInv, Planned, Disabling, Components, Fail, Goto,
    Sources, Stopping, Task, Turn
<1>7. Contained'
  BY DEF HookHeartbeat, LifeInv, Heartbeat, Contained, Task, Turn, counts
<1>8. Published'
  BY DEF HookHeartbeat, LifeInv, Heartbeat, Contained, Published, Calm, Fail, Goto,
    Installed, Sources, Task, Turn, buses
<1>9. QED
  BY <1>1, <1>2, <1>3, <1>4, <1>5, <1>6, <1>7, <1>8 DEF LifeInv

\* Storing what the heartbeat's hook replaced.
LEMMA StoreOriginalKeeps ==
  ASSUME LifeInv, StoreOriginal
  PROVE  LifeInv'
<1>1. Planned' /\ Types' /\ CountTypes'
  BY DEF StoreOriginal, LifeInv, Planned, Types, CountTypes, Goto, Stopping, buses, counts,
    threads
<1>2. Joined' /\ Heartbeat' /\ Stacked'
  BY DEF StoreOriginal, LifeInv, Joined, Heartbeat, Stacked, Goto, Installed, Listeners,
    Task, Turn, buses, threads
<1>3. Enabling'
  BY DEF StoreOriginal, LifeInv, Enabling, Goto, Installed, Promise, Sourced, buses, threads
<1>4. Disabling'
  BY DEF StoreOriginal, LifeInv, Heartbeat, Disabling, Down, Goto, Stopping, Task, Turn,
    buses, threads
<1>5. Contained'
  BY DEF StoreOriginal, LifeInv, Contained, Task, counts
<1>6. Published'
  BY DEF StoreOriginal, LifeInv, Published, Calm, Goto, Stopping, Task, Window, buses
<1>7. QED
  BY <1>1, <1>2, <1>3, <1>4, <1>5, <1>6 DEF LifeInv

\* Without a sampler the heartbeat hook is the first of what is undone.
LEMMA StartSamplerKeeps ==
  ASSUME LifeInv, StartSampler
  PROVE  LifeInv'
<1>1. Planned'
  BY ListsKept, Replacements DEF StartSampler, Task, Turn, Done, Components, Sources
<1>2. Types'
  BY DEF StartSampler, LifeInv, Types, Components, Done, GameSteps, Listeners, Sources,
    StartThread, Task, ThreadSteps, buses, counts, hooks
<1>3. CountTypes'
  BY LifecycleAssumption DEF StartSampler, LifeInv, Types, CountTypes, Components, Done,
    GameSteps, Listeners, Sources, StartThread, Task, ThreadSteps, buses, counts, hooks
<1>4. Joined' /\ Heartbeat' /\ Stacked'
  BY DEF StartSampler, LifeInv, Types, Joined, Heartbeat, Stacked, Components, Done,
    Installed, Listeners, Sources, StartThread, Task, Turn, buses, hooks
<1>5. Enabling'
  <2>1. Turn("up", "heartbeat") /\ at = "thread"
    BY DEF StartSampler, Task, Turn
  <2>2. op = "enable" /\ op' = op /\ Tail(todo) = UpFromTick
    BY <2>1, UpTurn DEF StartSampler, Components, Sources, Done
  <2>3. "heartbeat" \in hooked /\ ~Installed("tick")
    BY <2>1 DEF LifeInv, Heartbeat
  <2>4. CASE Done
    BY <2>2, <2>3, <2>4, Promises DEF StartSampler, Done, Enabling, hooks
  <2>5. CASE todo' = <<<<"down", "heartbeat">>>> \o Instead("heartbeat") /\ UNCHANGED thread
    BY <2>2, <2>3, <2>5, Promises, Replacements DEF StartSampler, Enabling, hooks, Installed
  <2>6. QED
    BY <2>4, <2>5 DEF StartSampler
<1>6. Disabling'
  BY DisableHead DEF StartSampler, LifeInv, Planned, Disabling, Components, Done, Sources,
    Stopping, Task, Turn
<1>7. Contained'
  BY DEF StartSampler, LifeInv, Contained, Task, counts, hooks
<1>8. Published'
  BY DEF StartSampler, LifeInv, Heartbeat, Contained, Published, Calm, Done, Installed,
    Sources, Task, Turn, buses
<1>9. QED
  BY <1>1, <1>2, <1>3, <1>4, <1>5, <1>6, <1>7, <1>8 DEF LifeInv

\* A hook with a worker is found in place, cannot come up, or starts afresh.
LEMMA InstallSourceKeeps ==
  ASSUME LifeInv, NEW s \in {"tick", "render"}, InstallSource(s)
  PROVE  LifeInv'
<1>1. Planned'
  BY ListsKept, Replacements DEF InstallSource, Task, Turn, Goto, Done, Fail, Components,
    Sources
<1>2. Types'
  BY DEF InstallSource, LifeInv, Types, Components, Done, Fail, GameSteps, Goto, Installed,
    Listeners, Sources, Task, ThreadSteps, buses
<1>3. CountTypes'
  BY LifecycleAssumption DEF InstallSource, LifeInv, Types, CountTypes, Components, Done,
    Fail, GameSteps, Goto, Installed, Listeners, Sources, Task, ThreadSteps, buses
<1>4. Joined' /\ Heartbeat' /\ Stacked'
  BY DEF InstallSource, LifeInv, Types, Joined, Heartbeat, Stacked, Components, Done, Fail,
    Goto, Installed, Task, Turn, buses
<1>5. Enabling'
  <2>1. Turn("up", s)
    BY DEF InstallSource, Task, Turn
  <2>2. op = "enable" /\ op' = op
    BY <2>1, UpTurn DEF InstallSource, Components, Sources, Goto, Done, Fail
  <2>3. CASE Installed(s) /\ Done
    BY <2>1, <2>2, <2>3, Promises, UpTurn DEF InstallSource, Done, Enabling, Installed,
      Sourced, Components, Sources
  <2>4. CASE s = "tick" /\ ~Installed(s) /\ Fail(s)
    BY <2>2, <2>4, Promises, Replacements DEF InstallSource, Fail, Enabling, Installed
  <2>5. CASE Goto("register")
    BY <2>5, SamePromises DEF InstallSource, Goto, Installed, buses
  <2>6. QED
    BY <2>3, <2>4, <2>5 DEF InstallSource
<1>6. Disabling'
  BY DisableHead DEF InstallSource, LifeInv, Planned, Disabling, Components, Done, Fail,
    Goto, Sources, Stopping, Task, Turn
<1>7. Contained'
  BY DEF InstallSource, LifeInv, CountTypes, Stacked, Contained, Installed, Task
<1>8. Published'
  <2>1. Turn("up", s) /\ s \in Components
    BY DEF InstallSource, Task, Turn, Components, Sources
  <2>2. op = "enable" /\ op' = op  /\ ~Turn("up","scheduler") /\ ~Turn("down", "render")
    BY <2>1, UpTurn DEF InstallSource, Goto, Done, Fail
  <2>3. ~Turn("up", "scheduler")'
    <3>1. todo' \in {Tail(todo), UndoListeners, todo}
      BY Replacements DEF InstallSource, Goto, Done, Fail
    <3>2. QED
      BY <2>1, <2>2, <3>1, NotAgain DEF Turn
  <2>4. at' \in {"begin", "register"}
    BY DEF InstallSource, Goto, Done, Fail
  <2>5. QED
    BY <2>2, <2>3, <2>4 DEF InstallSource, LifeInv, Published, Calm, Window, buses
<1>9. QED
  BY <1>1, <1>2, <1>3, <1>4, <1>5, <1>6, <1>7, <1>8 DEF LifeInv

\* The worker starts on a free thread object, above the sources it needs.
LEMMA RegisterKeeps ==
  ASSUME LifeInv, NEW s \in {"tick", "render"}, Register(s)
  PROVE  LifeInv'
<1>1. Planned'
  BY ListsKept, Replacements DEF Register, Task, Turn, Done, Fail, Components, Sources
<1>2. Types'
  BY DEF Register, LifeInv, Types, Components, Done, Fail, GameSteps, Listeners, Sources,
    StartThread, Task, ThreadSteps, buses, counts
<1>3. CountTypes'
  BY LifecycleAssumption DEF Register, LifeInv, Types, CountTypes, Components, Done, Fail,
    GameSteps, Listeners, Sources, StartThread, Task, ThreadSteps, buses, counts
<1>4. Joined' /\ Heartbeat'
  BY DEF Register, LifeInv, Types, Joined, Heartbeat, Components, Done, Fail, Installed,
    Listeners, Sources, StartThread, Task, Turn, buses
<1>5. Stacked'
  BY UpTurn DEF LifeInv, Register, Task, Turn, StartThread, Installed, Stacked, Types,
    Components, Sources
<1>6. Enabling'
  <2>1. Turn("up", s) /\ ~Installed(s)
    BY DEF Register, Task, Turn, LifeInv, Joined
  <2>2. op = "enable" /\ op' = op
    BY <2>1, UpTurn DEF Register, Components, Sources, Goto, Done, Fail
  <2>3. CASE StartThread(s, "gate") /\ Done
    <3>1. Installed(s)'
      BY <2>3 DEF StartThread, Installed, LifeInv, Types, Components, Sources
    <3>2. s = "render" => Installed("tick")'
      BY <2>1, <2>3, UpTurn DEF StartThread, Installed, LifeInv, Types, Components, Sources,
        Register
    <3>3. hooked' = hooked
      BY DEF Register
    <3>4. QED
      BY <2>1, <2>2, <2>3, <3>1, <3>2, <3>3, Promises, UpTurn DEF Done, Enabling, Sourced,
        Components, Sources
  <2>4. CASE Fail(s) /\ UNCHANGED thread
    BY <2>1, <2>2, <2>4, Promises, Replacements, UpTurn DEF Register, Fail, Enabling,
      Installed, Components, Sources
  <2>5. QED
    BY <2>3, <2>4 DEF Register
<1>7. Disabling'
  BY DisableHead DEF Register, LifeInv, Planned, Disabling, Components, Done, Fail, Sources,
    Stopping, Task, Turn
<1>8. Contained'
  BY DEF Register, LifeInv, Contained, Task, counts
<1>9. Published'
  <2>1. Turn("up", s) /\ s \in Components
    BY DEF Register, Task, Turn, Components, Sources
  <2>2. op = "enable" /\ op' = op  /\ ~Turn("up","scheduler") /\ ~Turn("down", "render")
    BY <2>1, UpTurn DEF Register, Goto, Done, Fail
  <2>3. ~Turn("up", "scheduler")'
    <3>1. todo' \in {Tail(todo), UndoListeners, UndoProbe}
      BY Replacements DEF Register, Goto, Done, Fail
    <3>2. QED
      BY <2>1, <2>2, <3>1, NotAgain DEF Turn
  <2>4. at' \in {"begin", "hook"}
    BY DEF Register, Goto, Done, Fail
  <2>5. QED
    BY <2>2, <2>3, <2>4 DEF Register, LifeInv, Published, Calm, Window, buses
<1>10. QED
  BY <1>1, <1>2, <1>3, <1>4, <1>5, <1>6, <1>7, <1>8, <1>9 DEF LifeInv

\* A worker places its hook or gives up.
LEMMA PlaceHookKeeps ==
  ASSUME LifeInv, NEW s \in {"tick", "render"}, PlaceHook(s)
  PROVE  LifeInv'
<1>1. Planned' /\ Types' /\ CountTypes'
  BY EnableTail, EnableHead DEF PlaceHook, LifeInv, Planned, Types, CountTypes, Sources,
    Stopping, ThreadSteps, buses, call, counts
<1>2. Joined' /\ Heartbeat' /\ Stacked'
  BY DEF PlaceHook, LifeInv, Types, Joined, Heartbeat, Stacked, Components, Installed,
    Listeners, Sources, Turn, buses, call
<1>3. Enabling'
  BY DEF PlaceHook, LifeInv, Types, Enabling, Components, Installed, Promise, Sourced,
    Sources, buses, call
<1>4. Disabling'
  BY DEF PlaceHook, LifeInv, Types, Joined, Disabling, Components, Down, Stopping, Turn,
    buses, call
<1>5. Contained'
  BY DEF PlaceHook, LifeInv, Contained, Turn, call, counts
<1>6. Published'
  BY DEF PlaceHook, LifeInv, Published, Calm, Stopping, Turn, Window, buses, call
<1>7. QED
  BY <1>1, <1>2, <1>3, <1>4, <1>5, <1>6 DEF LifeInv

\* A thread that was asked to stop ends; it stays joinable.
LEMMA EndThreadKeeps ==
  ASSUME LifeInv, NEW c \in Components, EndThread(c)
  PROVE  LifeInv'
<1>1. Planned' /\ Types' /\ CountTypes'
  BY DEF EndThread, LifeInv, Planned, Types, CountTypes, Stopping, ThreadSteps, buses, call,
    counts, hooks
<1>2. Joined' /\ Heartbeat' /\ Stacked'
  BY DEF EndThread, LifeInv, Joined, Heartbeat, Stacked, Installed, Turn, buses, call, hooks
<1>3. Enabling'
  BY DEF EndThread, LifeInv, Enabling, Installed, Promise, Sourced, buses, call, hooks
<1>4. Disabling'
  BY DEF EndThread, LifeInv, Disabling, Down, Stopping, Turn, buses, call, hooks
<1>5. Contained'
  BY DEF EndThread, LifeInv, Contained, Turn, call, counts, hooks
<1>6. Published'
  BY DEF EndThread, LifeInv, Published, Calm, Stopping, Turn, Window, buses, call, hooks
<1>7. QED
  BY <1>1, <1>2, <1>3, <1>4, <1>5, <1>6 DEF LifeInv

\* A thread is asked to stop before it is joined.
LEMMA RequestStopKeeps ==
  ASSUME LifeInv, NEW c \in Components, RequestStop(c)
  PROVE  LifeInv'
<1>1. Planned' /\ Types' /\ CountTypes'
  BY DEF RequestStop, LifeInv, Planned, Types, CountTypes, Goto, Stopping, buses, counts,
    hooks
<1>2. Joined' /\ Heartbeat' /\ Stacked'
  BY DEF RequestStop, LifeInv, Joined, Heartbeat, Stacked, Goto, Installed, Task, Turn,
    buses, hooks
<1>3. Enabling'
  BY DEF RequestStop, LifeInv, Enabling, Goto, Installed, Promise, Sourced, buses, hooks
<1>4. Disabling'
  BY DEF RequestStop, LifeInv, Disabling, Down, Goto, Stopping, buses, hooks
<1>5. Contained'
  BY DEF RequestStop, LifeInv, Contained, Task, counts, hooks
<1>6. Published'
  BY DEF RequestStop, LifeInv, Published, Calm, Goto, Stopping, Task, Window, buses
<1>7. QED
  BY <1>1, <1>2, <1>3, <1>4, <1>5, <1>6 DEF LifeInv

\* A thread is gone from here on, with nothing standing on its hook.
LEMMA JoinKeeps ==
  ASSUME LifeInv, NEW c \in Components, Join(c)
  PROVE  LifeInv'
<1>1. Planned' /\ Types' /\ CountTypes'
  BY DEF Join, LifeInv, Planned, Types, CountTypes, Goto, Stopping, ThreadSteps, buses,
    counts, hooks
<1>2. Joined' /\ Heartbeat'
  BY DEF Join, LifeInv, Types, Joined, Heartbeat, Goto, Task, Turn, buses, hooks
<1>3. Stacked'
  BY DownTurn DEF LifeInv, Join, Task, Turn, Goto, hooks, Installed, Stacked, Types,
    Components, Sources
<1>4. Enabling'
  BY EnableHead DEF Join, LifeInv, Planned, Enabling, Goto, Installed, Promise, Task, Turn,
    buses, hooks
<1>5. Disabling'
  BY DEF Join, LifeInv, Disabling, Down, Goto, Stopping, buses, hooks
<1>6. Contained'
  BY DEF Join, LifeInv, Contained, Task, counts, hooks
<1>7. Published'
  BY DEF Join, LifeInv, Published, Calm, Goto, Stopping, Task, Window, buses
<1>8. QED
  BY <1>1, <1>2, <1>3, <1>4, <1>5, <1>6, <1>7 DEF LifeInv

\* A hook is taken out with nothing standing on it.
LEMMA UnhookKeeps ==
  ASSUME LifeInv, NEW s \in Sources, Unhook(s)
  PROVE  LifeInv'
<1>1. Planned' /\ Types' /\ CountTypes'
  BY EnableTail, DisableTail, EnableHead, DisableHead, Replacements, LifecycleAssumption DEF
    Unhook, LifeInv, Planned, Types, CountTypes, Components, DisableLists, EnableLists,
    GameSteps, Goto, Listeners, Sources, Stopping, Task, ThreadSteps, UpTasks, buses,
    counts, threads
<1>2. Joined' /\ Heartbeat'
  BY DEF Unhook, LifeInv, Joined, Heartbeat, Components, Goto, Task, Turn, buses, threads
<1>3. Stacked'
  BY DownTurn DEF LifeInv, Unhook, Task, Turn, Goto, threads, Installed, Stacked, Types,
    Joined, Components, Sources
<1>4. Enabling'
  BY EnableHead, Promises DEF Unhook, LifeInv, Planned, Enabling, Components, Goto,
    Installed, Promise, Task, Turn, buses, counts, threads
<1>5. Disabling'
  BY DEF Unhook, LifeInv, Disabling, Down, Goto, Stopping, Task, Turn, buses, threads
<1>6. Contained'
  BY DEF Unhook, LifeInv, Contained, Goto, Task, Turn, counts
<1>7. Published'
  BY DEF Unhook, LifeInv, Published, Calm, Goto, Stopping, Task, Window, buses
<1>8. QED
  BY <1>1, <1>2, <1>3, <1>4, <1>5, <1>6, <1>7 DEF LifeInv

\* After a drain that saw zero a callback is a stray or is not there.
LEMMA DrainedKeeps ==
  ASSUME LifeInv, NEW s \in Sources, Drained(s)
  PROVE  LifeInv'
<1>1. Planned'
  BY DEF Drained, LifeInv, Planned, DrainEnds, Goto, Stopping
<1>2. Types'
  BY DEF Drained, LifeInv, Types, Components, DrainEnds, GameSteps, Goto, Listeners,
    Sources, Task, ThreadSteps, Unseen, buses, counts, threads
<1>3. CountTypes'
  BY LifecycleAssumption DEF Drained, LifeInv, Types, CountTypes, Components, DrainEnds,
    GameSteps, Goto, Listeners, Sources, Task, ThreadSteps, Unseen, buses, counts, threads
<1>4. Joined' /\ Heartbeat' /\ Stacked'
  BY DEF Drained, LifeInv, Joined, Heartbeat, Stacked, DrainEnds, Goto, Installed, Task,
    Turn, buses, threads
<1>5. Enabling'
  BY DEF Drained, LifeInv, Enabling, DrainEnds, Goto, Installed, Promise, Sourced, buses,
    threads
<1>6. Disabling'
  BY DEF Drained, LifeInv, Disabling, Down, DrainEnds, Goto, Stopping, Task, Turn, buses,
    threads
<1>7. Contained'
  BY DEF Drained, LifeInv, Types, Contained, DrainEnds, GameSteps, Task, Turn, Unseen,
    counts
<1>8. Published'
  <2>1. Turn("down", s) /\ at = "drain" /\ s \in Components
    BY DEF Drained, Task, Turn, Components
  <2>2. UNCHANGED <<op, todo>> /\ at' = "release"
    BY DEF Drained, DrainEnds, Goto
  <2>3. \A d : (Turn("down", d)' <=> d = s) /\ ~Turn("up", d)' /\ ~Turn("up", d)
    BY <2>1, <2>2, DownTurn DEF Turn
  <2>4. s = "tick" /\ "tick" \notin stray' => game["tick"] \notin {"delivering", "handling"}
    BY <2>1 DEF Drained, DrainEnds, LifeInv, Contained, Sources
  <2>5. Turn("down", "render")' => mRestoreSucceeded'
     BY <2>1, <2>2, <2>3 DEF Drained, DrainEnds
  <2>6. Calm' => Calm
    BY DEF Drained, DrainEnds, Calm
  <2>7. UNCHANGED <<subscribed, running, odd, game>>
    BY DEF Drained, DrainEnds, buses
  <2>8. ("scheduler" \in subscribed =>
         "scheduler" \in running \/ (Turn("up", "scheduler") /\ at = "thread"))'
    BY <2>1, <2>3, <2>7 DEF LifeInv, Published
  <2>9. (Calm => (odd <=> \/ Turn("up", "scheduler") /\ at = "publish"
                      \/ game["tick"] = "handling"))'
    BY <2>1, <2>3, <2>6, <2>7 DEF LifeInv, Published
  <2>10. op # "none"
    BY <2>1, DownTurn DEF Stopping
  <2>11. (Calm /\ game["tick"] \in {"delivering", "handling"} /\ "scheduler" \notin running
           => Window)'
    BY <2>10, <2>1, <2>2, <2>3, <2>4, <2>6, <2>7 DEF LifeInv, Published, Window, Stopping, Calm
  <2>12. QED
    BY <2>5, <2>8, <2>9, <2>11 DEF Published
<1>9. QED
  BY <1>1, <1>2, <1>3, <1>4, <1>5, <1>6, <1>7, <1>8 DEF LifeInv

\* A drain that gives up makes its callback a stray.
LEMMA DrainTimeoutKeeps ==
  ASSUME LifeInv, NEW s \in Sources, DrainTimeout(s)
  PROVE  LifeInv'
<1>1. Planned'
  BY DEF DrainTimeout, LifeInv, Planned, DrainEnds, Goto, Stopping
<1>2. Types'
  BY DEF DrainTimeout, LifeInv, Types, Components, DrainEnds, GameSteps, Goto, Listeners,
    Sources, Task, ThreadSteps, buses, counts, threads
<1>3. CountTypes'
  BY LifecycleAssumption DEF DrainTimeout, LifeInv, Types, CountTypes, Components,
    DrainEnds, GameSteps, Goto, Listeners, Sources, Task, ThreadSteps, buses, counts,
    threads
<1>4. Joined' /\ Heartbeat' /\ Stacked'
  BY DEF DrainTimeout, LifeInv, Joined, Heartbeat, Stacked, DrainEnds, Goto, Installed,
    Task, Turn, buses, threads
<1>5. Enabling'
  BY DEF DrainTimeout, LifeInv, Enabling, DrainEnds, Goto, Installed, Promise, Sourced,
    buses, threads
<1>6. Disabling'
  BY DEF DrainTimeout, LifeInv, Disabling, Down, DrainEnds, Goto, Stopping, Task, Turn,
    buses, threads
<1>7. Contained'
  BY DEF DrainTimeout, LifeInv, Contained, DrainEnds, Task, Turn, counts
<1>8. Published'
  BY DEF DrainTimeout, LifeInv, Published, Calm, DrainEnds, Goto, Stopping, Task, Turn,
    Window, buses
<1>9. QED
  BY <1>1, <1>2, <1>3, <1>4, <1>5, <1>6, <1>7, <1>8 DEF LifeInv

\* The registration goes after the hook.
LEMMA ReleaseKeeps ==
  ASSUME LifeInv, NEW s \in Sources, Release(s)
  PROVE  LifeInv'
<1>1. Planned' /\ Types' /\ CountTypes'
  BY DEF Release, LifeInv, Planned, Types, CountTypes, Goto, Stopping, buses, counts,
    threads
<1>2. Joined' /\ Heartbeat' /\ Stacked'
  BY DEF Release, LifeInv, Joined, Heartbeat, Stacked, Disabling, Components, Goto,
    Installed, Task, Turn, buses, threads
<1>3. Enabling'
  BY DEF Release, LifeInv, Enabling, Goto, Installed, Promise, Sourced, buses, threads
<1>4. Disabling'
  BY DEF Release, LifeInv, Types, Joined, Disabling, Down, Goto, Stopping, Task, Turn,
    buses, threads
<1>5. Contained'
  BY DEF Release, LifeInv, Disabling, Contained, Task, Turn, counts
<1>6. Published'
  BY DEF Release, LifeInv, Published, Calm, Goto, Stopping, Task, Turn, Window, buses
<1>7. QED
  BY <1>1, <1>2, <1>3, <1>4, <1>5, <1>6 DEF LifeInv

\* A hook that is not safe to unload ends the call; only the tick hook is ever
\* refused without a stray.
LEMMA JudgeKeeps ==
  ASSUME LifeInv, NEW s \in Sources, Judge(s)
  PROVE  LifeInv'
<1>1. Planned'
  BY ListsKept DEF Judge, Task, Turn, Done, Refuse, Components
<1>2. Types' /\ CountTypes'
  BY DEF Judge, LifeInv, Types, CountTypes, Done, Refuse, buses, counts, hooks, threads
<1>3. Joined' /\ Heartbeat' /\ Stacked'
  BY DEF Judge, LifeInv, Joined, Heartbeat, Stacked, Disabling, Done, Installed, Refuse,
    Task, Turn, buses, hooks, threads
<1>4. Enabling'
  BY EnableHead, DisableHead, Tails, Promises, Promised, Replacements DEF Judge, LifeInv,
    Planned, Types, Joined, Heartbeat, Stacked, Enabling, Components, Done, Installed,
    Listeners, Promise, Refuse, Sourced, Sources, Stopping, Task, Turn, buses, counts,
    hooks, threads
<1>5. Disabling'
  <2>1. Turn("down", s) /\ at = "judge" /\ s \in Components /\ at' = "begin"
    BY DEF Judge, Task, Turn, Components, Done, Refuse
  <2>2. CASE SafeToUnload(s) /\ Done
    <3>1. Down(s)
      BY <2>1, <2>2 DEF LifeInv, Disabling, Joined, Types, Down, SafeToUnload, Sources,
        Listeners
    <3>2. Stopping' => \A d \in Components : Awaits(todo', d) \/ Down(d)
      BY <2>1, <2>2, <3>1, DownTurn, DisableTail DEF Done, LifeInv, Disabling, Stopping
    <3>3. QED
      BY <2>1, <2>2, <3>2, DownTurn DEF Judge, Done, threads, hooks, buses, Disabling, Down,
        Stopping
  <2>3. CASE Refuse
    BY <2>1, <2>3 DEF Refuse, Disabling, Stopping
  <2>4. QED
    BY <2>2, <2>3 DEF Judge
<1>6. Contained'
  BY DEF Judge, LifeInv, Contained, Task, counts, hooks
<1>7. Published'
  <2>1. Turn("down", s) /\ at = "judge" /\ s \in Components
    BY DEF Judge, Task, Turn, Components
  <2>2. ~Turn("up", "scheduler")
    BY <2>1, DownTurn
  <2>3. at' = "begin"
    BY DEF Judge, Done, Refuse
  <2>4. CASE Done
    <3>1. ~Turn("up", "scheduler")'
      BY <2>1, <2>4, NotAgain DEF Done
    <3>2. Stopping /\ Awaits(todo, "tick") /\ s # "tick" => Awaits(todo', "tick")
      BY <2>1, <2>4, DownTurn, DisableTail DEF Components, Sources, Done
    <3>3. QED
      BY <2>1, <2>2, <2>3, <2>4, <3>1, <3>2 DEF Judge, Done, LifeInv, Published, Calm, Window,
        Stopping, buses
  <2>5. CASE Refuse /\ ~SafeToUnload(s)
    <3>1. Calm => s = "tick"
      <4>1. ASSUME Calm, s = "render" PROVE FALSE
        <5>1. mRestoreSucceeded
          BY <2>1, <4>1 DEF LifeInv, Published, Calm
        <5>2. "render" \notin hooked
          BY <2>1, <4>1 DEF LifeInv, Disabling
        <5>3. inFlight["render"] = 0
          BY <2>1, <4>1, <5>2 DEF LifeInv, Contained, Calm, Sources
        <5>4. QED
          BY <2>5, <4>1, <5>1, <5>2, <5>3 DEF SafeToUnload
      <4>2. QED
        BY <2>5, <4>1 DEF SafeToUnload, Sources
    <3>2. ~Turn("up", "scheduler")' /\ ~Turn("down", "render")'
      BY <2>5 DEF Refuse, Turn
    <3>3. QED
      BY <2>1, <2>2, <2>3, <2>5, <3>1, <3>2, DownTurn DEF Judge, Refuse, LifeInv, Published,
        Calm, Window, buses, Stopping
  <2>6. QED
    BY <2>4, <2>5 DEF Judge
<1>8. QED
  BY <1>1, <1>2, <1>3, <1>4, <1>5, <1>6, <1>7 DEF LifeInv

-----------------------------------------------------------------------------
(* The game's steps.                                                       *)

\* A counter of one callback at most does not wrap.
LEMMA SmallCounts ==
  /\ 0 % CounterMod = 0 /\ 1 % CounterMod = 1
  /\ \A n \in Int : n % CounterMod \in 0..CounterMod - 1
  BY LifecycleAssumption

\* What the game does changes nothing the module has planned or stacked.
LEMMA GameFrame ==
  ASSUME LifeInv, NEW s \in Sources, NEW from, NEW to \in GameSteps, GameStep(s, from, to),
         odd' \in BOOLEAN
  PROVE  Planned' /\ Types' /\ Joined' /\ Heartbeat' /\ Stacked' /\ Enabling' /\ Disabling'
<1>1. UNCHANGED <<op, todo, at, standing, lifeCalls, thread, stop, terminated, hooked, active,
                  original, mRestoreSucceeded, subscribed, running, stray>>
  BY DEF GameStep, call, threads, hooks
<1>2. Planned' /\ Joined' /\ Heartbeat' /\ Stacked'
  BY <1>1 DEF LifeInv, Planned, Joined, Heartbeat, Stacked, Turn, Installed, Stopping
<1>3. Enabling' /\ Disabling'
  BY <1>1 DEF LifeInv, Enabling, Disabling, Promise, Sourced, Down, Awaits, Turn,
    Installed, Stopping
<1>4. Types'
  BY <1>1 DEF LifeInv, Types, GameStep
<1>5. QED
  BY <1>2, <1>3, <1>4

\* A step that is not the tick callback's with its listener leaves the sequence
\* counter's writers as they are.
LEMMA Elsewhere ==
  ASSUME LifeInv, NEW s \in Sources, NEW from, NEW to, GameStep(s, from, to), UNCHANGED odd,
         s = "tick" => from # "handling" /\ to \notin {"delivering", "handling"}
  PROVE  Published'
<1>1. UNCHANGED <<op, todo, at, standing, mRestoreSucceeded, subscribed, running, stray>>
  BY DEF GameStep, call, hooks
<1>2. game'["tick"] \in {"delivering", "handling"} => game["tick"] = game'["tick"]
  BY DEF GameStep, LifeInv, Types, Sources
<1>3. game["tick"] = "handling" => game'["tick"] = "handling"
  BY DEF GameStep, LifeInv, Types, Sources
<1>4. QED
  BY <1>1, <1>2, <1>3 DEF LifeInv, Published, Calm, Window, Turn, Awaits, Stopping

\* The scheduler does not start under a tick callback that is with it.
LEMMA StartsAlone ==
  ASSUME LifeInv, Calm, game["tick"] \in {"delivering", "handling"}
  PROVE  ~(Turn("up", "scheduler") /\ at = "publish")
<1>1. SUFFICES ASSUME Turn("up", "scheduler"), at = "publish" PROVE FALSE
  OBVIOUS
<1>2. "scheduler" \in Components /\ "scheduler" \in Listeners BY DEF Components, Listeners
<1>3. op = "enable" /\ ~Stopping BY <1>1, <1>2, UpTurn
<1>4. "scheduler" \notin running BY <1>1, <1>2 DEF LifeInv, Joined
<1>5. QED BY <1>1, <1>3, <1>4 DEF LifeInv, Published, Window

\* A callback enters while its hook is in the game.
LEMMA EnterKeeps ==
  ASSUME LifeInv, NEW s \in Sources, Enter(s)
  PROVE  LifeInv'
<1>1. Planned' /\ Types' /\ Joined' /\ Heartbeat' /\ Stacked' /\ Enabling' /\ Disabling'
  BY GameFrame DEF Enter, GameSteps, Sources, LifeInv, Types
<1>2. CountTypes'
  BY DEF LifeInv, CountTypes, Types, Enter, GameStep, hooks, counts, GameSteps, Sources
<1>3. Contained'
  BY DEF LifeInv, Contained, Stacked, Types, Enter, GameStep, hooks, counts, call, Turn,
    GameSteps, Sources
<1>4. Published'
  BY Elsewhere DEF Enter, GameSteps, Sources
<1>5. QED
  BY <1>1, <1>2, <1>3, <1>4 DEF LifeInv

\* A callback that is no stray finds its registration.
LEMMA LoadActiveKeeps ==
  ASSUME LifeInv, NEW s \in Sources, LoadActive(s)
  PROVE  LifeInv'
<1>1. Planned' /\ Types' /\ Joined' /\ Heartbeat' /\ Stacked' /\ Enabling' /\ Disabling'
  BY GameFrame DEF LoadActive, GameSteps, Sources, LifeInv, Types
<1>2. CountTypes'
  BY DEF LifeInv, CountTypes, Types, LoadActive, GameStep, hooks, counts, GameSteps, Sources
<1>3. Contained'
  <2>1. s \notin stray => s \in active
    BY DEF LifeInv, Contained, LoadActive, GameStep
  <2>2. UNCHANGED <<todo, at, hooked, active, inFlight, stray>> /\ game[s] = "entered"
    BY DEF LoadActive, GameStep, hooks, counts, call
  <2>3. s \in active => game' = [game EXCEPT ![s] = "loaded"]
    BY DEF LoadActive, GameStep
  <2>4. \A d \in Sources \ {s} : game'[d] = game[d]
    BY DEF LoadActive, GameStep, LifeInv, Types
  <2>5. s \in active => game'[s] = "loaded"
    BY <2>3 DEF LifeInv, Types
  <2>6. QED
    BY <2>1, <2>2, <2>4, <2>5 DEF LifeInv, Contained, Turn
<1>4. Published'
  BY Elsewhere DEF LoadActive, GameSteps, Sources
<1>5. QED
  BY <1>1, <1>2, <1>3, <1>4 DEF LifeInv

\* A callback counts itself in.
LEMMA CountKeeps ==
  ASSUME LifeInv, NEW s \in Sources, Count(s)
  PROVE  LifeInv'
<1>1. Planned' /\ Types' /\ Joined' /\ Heartbeat' /\ Stacked' /\ Enabling' /\ Disabling'
  BY GameFrame DEF Count, GameSteps, Sources, LifeInv, Types
<1>2. CountTypes'
  BY SmallCounts DEF LifeInv, CountTypes, Types, Count, GameStep, hooks, counts, GameSteps,
    Sources
<1>3. Contained'
  <2>1. GameStep(s, "loaded", "counted")
    BY DEF Count
  <2>2. \A d \in Sources \ {s} : inFlight'[d] = inFlight[d]
    BY DEF LifeInv, CountTypes, Count
  <2>3. s \notin stray => inFlight'[s] = 1
    BY SmallCounts DEF LifeInv, Contained, CountTypes, Count, GameStep
  <2>4. QED
    BY <2>1, <2>2, <2>3 DEF LifeInv, Contained, Types, GameStep, hooks, call, Turn
<1>4. Published'
  BY Elsewhere DEF Count, GameSteps, Sources
<1>5. QED
  BY <1>1, <1>2, <1>3, <1>4 DEF LifeInv

\* The heartbeat calls what it replaced.
LEMMA CallOriginalKeeps ==
  ASSUME LifeInv, CallOriginal
  PROVE  LifeInv'
<1>1. Planned' /\ Types' /\ Joined' /\ Heartbeat' /\ Stacked' /\ Enabling' /\ Disabling'
  BY GameFrame DEF CallOriginal, GameSteps, Sources, LifeInv, Types
<1>2. CountTypes'
  BY DEF LifeInv, CountTypes, Types, CallOriginal, GameStep, hooks, counts, GameSteps, Sources
<1>3. Contained'
  BY DEF LifeInv, Contained, Stacked, Types, CallOriginal, GameStep, hooks, counts, call,
    Turn, GameSteps, Sources
<1>4. Published'
  BY Elsewhere DEF CallOriginal, GameSteps, Sources
<1>5. QED
  BY <1>1, <1>2, <1>3, <1>4 DEF LifeInv

\* The heartbeat is counted.
LEMMA CountBeatKeeps ==
  ASSUME LifeInv, CountBeat
  PROVE  LifeInv'
<1>1. Planned' /\ Types' /\ Joined' /\ Heartbeat' /\ Stacked' /\ Enabling' /\ Disabling'
  BY GameFrame DEF CountBeat, GameSteps, Sources, LifeInv, Types
<1>2. CountTypes'
  BY LifecycleAssumption DEF LifeInv, CountTypes, Types, CountBeat, GameStep, hooks, counts,
    GameSteps, Sources
<1>3. Contained'
  BY DEF LifeInv, Contained, Stacked, Types, CountBeat, GameStep, hooks, counts, call, Turn,
    GameSteps, Sources
<1>4. Published'
  BY Elsewhere DEF CountBeat, GameSteps, Sources
<1>5. QED
  BY <1>1, <1>2, <1>3, <1>4 DEF LifeInv

\* A callback finds the listener on the bus, or none.
LEMMA LoadListenerKeeps ==
  ASSUME LifeInv, NEW s \in Sources, NEW from \in {"counted", "uncounted"},
         LoadListener(s, from)
  PROVE  LifeInv'
<1>1. Planned' /\ Types' /\ Joined' /\ Heartbeat' /\ Stacked' /\ Enabling' /\ Disabling'
  BY GameFrame DEF LoadListener, GameSteps, Sources, LifeInv, Types
<1>2. CountTypes'
  BY DEF LifeInv, CountTypes, Types, LoadListener, GameStep, hooks, counts, GameSteps, Sources
<1>3. Contained'
  BY DEF LifeInv, Contained, Stacked, Types, LoadListener, GameStep, hooks, counts, call,
    Turn, GameSteps, Sources
<1>4. Published'
  <2>1. PICK to \in {"outside", "delivering", "leaving"} :
          /\ GameStep(s, from, to)
          /\ s = "tick" /\ to = "delivering" => "scheduler" \in subscribed
    BY DEF LoadListener, ListenerOf
  <2>2. CASE ~(s = "tick" /\ to = "delivering")
    BY <2>1, <2>2, Elsewhere DEF LoadListener
  <2>3. CASE s = "tick" /\ to = "delivering"
    <3>1. UNCHANGED <<op, todo, at, standing, mRestoreSucceeded, subscribed, running, stray,
                      odd>>
      BY <2>1 DEF GameStep, call, hooks, LoadListener
    <3>2. "scheduler" \notin running => Turn("up", "scheduler") /\ at = "thread" /\ op = "enable"
      BY <2>1, <2>3, UpTurn DEF LifeInv, Published, Components, Listeners
    <3>3. game'["tick"] = "delivering" /\ game["tick"] \notin {"delivering", "handling"}
      BY <2>1, <2>3 DEF GameStep, LifeInv, Types
    <3>4. QED
      BY <3>1, <3>2, <3>3 DEF LifeInv, Published, Calm, Window, Turn
  <2>4. QED
    BY <2>2, <2>3
<1>5. QED
  BY <1>1, <1>2, <1>3, <1>4 DEF LifeInv

\* An event is not published.
LEMMA IgnoreEventKeeps ==
  ASSUME LifeInv, IgnoreEvent
  PROVE  LifeInv'
<1>1. Planned' /\ Types' /\ Joined' /\ Heartbeat' /\ Stacked' /\ Enabling' /\ Disabling'
  BY GameFrame DEF IgnoreEvent, GameSteps, Sources, LifeInv, Types
<1>2. CountTypes'
  BY DEF LifeInv, CountTypes, Types, IgnoreEvent, GameStep, hooks, counts, GameSteps, Sources
<1>3. Contained'
  BY DEF LifeInv, Contained, Stacked, Types, IgnoreEvent, GameStep, hooks, counts, call, Turn,
    GameSteps, Sources
<1>4. Published'
  BY Elsewhere DEF IgnoreEvent, GameSteps, Sources
<1>5. QED
  BY <1>1, <1>2, <1>3, <1>4 DEF LifeInv

\* A tick callback begins a publication, alone.
LEMMA BeginHandlerKeeps ==
  ASSUME LifeInv, NEW s \in Sources, BeginHandler(s)
  PROVE  LifeInv'
<1>1. Planned' /\ Types' /\ Joined' /\ Heartbeat' /\ Stacked' /\ Enabling' /\ Disabling'
  BY GameFrame DEF BeginHandler, GameSteps, Sources, LifeInv, Types
<1>2. CountTypes'
  BY DEF LifeInv, CountTypes, Types, BeginHandler, GameStep, hooks, counts, GameSteps, Sources
<1>3. Contained'
  BY DEF LifeInv, Contained, Stacked, Types, BeginHandler, GameStep, hooks, counts, call,
    Turn, GameSteps, Sources
<1>4. Published'
  <2>1. CASE s # "tick"
    BY <2>1, Elsewhere DEF BeginHandler
  <2>2. CASE s = "tick"
    <3>1. /\ UNCHANGED <<op, todo, at, standing, mRestoreSucceeded, subscribed, running, stray>>
          /\ odd' = ~odd
      BY <2>2 DEF GameStep, call, hooks, BeginHandler
    <3>2. game'["tick"] = "handling" /\ game["tick"] = "delivering"
      BY <2>2 DEF GameStep, LifeInv, Types, BeginHandler
    <3>3. QED
      BY <3>1, <3>2, StartsAlone DEF LifeInv, Published, Calm, Window, Turn, Awaits, Stopping
  <2>3. QED
    BY <2>1, <2>2
<1>5. QED
  BY <1>1, <1>2, <1>3, <1>4 DEF LifeInv

\* A tick callback ends its publication.
LEMMA EndHandlerKeeps ==
  ASSUME LifeInv, NEW s \in Sources, EndHandler(s)
  PROVE  LifeInv'
<1>1. Planned' /\ Types' /\ Joined' /\ Heartbeat' /\ Stacked' /\ Enabling' /\ Disabling'
  BY GameFrame DEF EndHandler, GameSteps, Sources, LifeInv, Types
<1>2. CountTypes'
  BY DEF LifeInv, CountTypes, Types, EndHandler, GameStep, hooks, counts, GameSteps, Sources
<1>3. Contained'
  BY DEF LifeInv, Contained, Stacked, Types, EndHandler, GameStep, hooks, counts, call, Turn,
    GameSteps, Sources
<1>4. Published'
  <2>1. CASE s # "tick"
    BY <2>1, Elsewhere DEF EndHandler
  <2>2. CASE s = "tick"
    <3>1. /\ UNCHANGED <<op, todo, at, standing, mRestoreSucceeded, subscribed, running, stray>>
          /\ odd' = ~odd
      BY <2>2 DEF GameStep, call, hooks, EndHandler
    <3>2. game'["tick"] = "leaving" /\ game["tick"] = "handling"
      BY <2>2 DEF GameStep, LifeInv, Types, EndHandler
    <3>3. QED
      BY <3>1, <3>2, StartsAlone DEF LifeInv, Published, Calm, Window, Turn, Awaits, Stopping
  <2>3. QED
    BY <2>1, <2>2
<1>5. QED
  BY <1>1, <1>2, <1>3, <1>4 DEF LifeInv

\* A callback counts itself out.
LEMMA UncountKeeps ==
  ASSUME LifeInv, NEW s \in Sources, Uncount(s)
  PROVE  LifeInv'
<1>1. Planned' /\ Types' /\ Joined' /\ Heartbeat' /\ Stacked' /\ Enabling' /\ Disabling'
  BY GameFrame DEF Uncount, GameSteps, Sources, LifeInv, Types
<1>2. CountTypes'
  BY SmallCounts DEF LifeInv, CountTypes, Types, Uncount, GameStep, hooks, counts, GameSteps,
    Sources
<1>3. Contained'
  <2>1. GameStep(s, "leaving", "outside")
    BY DEF Uncount
  <2>2. \A d \in Sources \ {s} : inFlight'[d] = inFlight[d]
    BY DEF LifeInv, CountTypes, Uncount
  <2>3. s \notin stray => inFlight'[s] = 0
    BY SmallCounts DEF LifeInv, Contained, CountTypes, Uncount, GameStep
  <2>4. QED
    BY <2>1, <2>2, <2>3 DEF LifeInv, Contained, Types, GameStep, hooks, call, Turn
<1>4. Published'
  BY Elsewhere DEF Uncount, GameSteps, Sources
<1>5. QED
  BY <1>1, <1>2, <1>3, <1>4 DEF LifeInv

\* Every step of the game's threads.
LEMMA GameKeeps ==
  ASSUME LifeInv, Game
  PROVE  LifeInv'
  BY EnterKeeps, LoadActiveKeeps, CountKeeps, CallOriginalKeeps, CountBeatKeeps,
    LoadListenerKeeps, IgnoreEventKeeps, BeginHandlerKeeps, EndHandlerKeeps, UncountKeeps
    DEF Game

\* Before the first call there is nothing.
LEMMA LifeInvInit ==
  ASSUME Init
  PROVE  LifeInv
<1>1. Planned /\ Types
  <2>1. 0 \in 0 .. MaxCalls
    BY LifecycleAssumption
  <2>2. /\ thread \in [Components -> ThreadSteps] /\ stop \in [Components -> BOOLEAN]
        /\ game \in [Sources -> GameSteps]
    BY DEF Init, ThreadSteps, GameSteps
  <2>3. QED
    BY <2>1, <2>2, Zenon DEF Init, Planned, Stopping, Types
<1>2. CountTypes
  <2>1. 0 \in 0 .. CounterMod - 1 /\ 0 \in 0 .. MaxBeats
    BY LifecycleAssumption
  <2>2. game["heartbeat"] = "outside"
    BY DEF Init, Sources
  <2>3. QED
    BY <2>1, <2>2 DEF Init, CountTypes
<1>3. Joined /\ Heartbeat /\ Stacked
  BY DEF Init, Joined, Heartbeat, Stacked, Turn, Installed, Components, Sources, Listeners
<1>4. Enabling /\ Disabling
  BY DEF Init, Enabling, Disabling, Stopping, Turn, Down, Components, Sources, Listeners
<1>5. Contained /\ Published
  BY DEF Init, Contained, Published, Turn, Components, Sources
<1>6. QED
  BY <1>1, <1>2, <1>3, <1>4, <1>5 DEF LifeInv

\* A call, one of its tasks, or one of the module's threads.
LEMMA ModuleKeeps ==
  ASSUME LifeInv, Enable \/ Disable \/ Unload \/ Loader \/ Threads
  PROVE  LifeInv'
<1>1. CASE Enable \/ Disable \/ Unload
  BY <1>1, EnableKeeps, DisableKeeps, UnloadKeeps
<1>2. CASE Return \/ EndFirstPublication \/ InstallHeartbeat \/ HookHeartbeat
           \/ StoreOriginal \/ StartSampler
  BY <1>2, ReturnKeeps, EndFirstPublicationKeeps, InstallHeartbeatKeeps,
    HookHeartbeatKeeps, StoreOriginalKeeps, StartSamplerKeeps
<1>3. CASE \E c \in Listeners :
             StartListener(c) \/ Subscribe(c) \/ StartWriter(c) \/ StopListener(c)
  BY <1>3, StartListenerKeeps, SubscribeKeeps, StartWriterKeeps, StopListenerKeeps
<1>4. CASE \E s \in {"tick", "render"} : InstallSource(s) \/ Register(s) \/ PlaceHook(s)
  BY <1>4, InstallSourceKeeps, RegisterKeeps, PlaceHookKeeps
<1>5. CASE \E c \in Components : RequestStop(c) \/ Join(c) \/ EndThread(c)
  BY <1>5, RequestStopKeeps, JoinKeeps, EndThreadKeeps
<1>6. CASE \E s \in Sources :
             Unhook(s) \/ Drained(s) \/ DrainTimeout(s) \/ Release(s) \/ Judge(s)
  BY <1>6, UnhookKeeps, DrainedKeeps, DrainTimeoutKeeps, ReleaseKeeps, JudgeKeeps
<1>7. QED
  BY <1>1, <1>2, <1>3, <1>4, <1>5, <1>6 DEF Loader, Threads

\* Whatever happens, the invariant stays.
LEMMA LifeInvNext ==
  ASSUME LifeInv, [Next]_vars
  PROVE  LifeInv'
<1>1. CASE Enable \/ Disable \/ Unload \/ Loader \/ Threads
  BY <1>1, ModuleKeeps
<1>2. CASE Game
  BY <1>2, GameKeeps
<1>3. CASE UNCHANGED vars
  BY <1>3 DEF vars, call, threads, hooks, counts, buses, LifeInv, Planned, Types, CountTypes,
    Joined, Heartbeat, Stacked, Enabling, Disabling, Contained, Published, Stopping, Turn,
    Installed, Promise, Sourced, Awaits, Down, Calm, Window
<1>4. QED
  BY <1>1, <1>2, <1>3 DEF Next

\* The inductive invariant, of every behaviour of the module.
THEOREM LifeInvariant == Spec => []LifeInv
<1>1. QED
  BY LifeInvInit, LifeInvNext, PTL DEF Spec

\* The lists are lists of tasks.
LEMMA ListTypes ==
  ASSUME todo \in EnableLists \cup DisableLists
  PROVE  todo \in Seq({"up", "down"} \X Components)
<1> DEFINE Tasks == {"up", "down"} \X Components
           up(c) == <<"up", c>>
           down(c) == <<"down", c>>
<1>1. \A c \in Components : up(c) \in Tasks /\ down(c) \in Tasks
  OBVIOUS
<1>2. /\ "scheduler" \in Components /\ "probe" \in Components
      /\ "heartbeat" \in Components /\ "tick" \in Components /\ "render" \in Components
  BY DEF Components, Sources, Listeners
<1>3. /\ UpTasks = <<up("scheduler"), up("probe"), up("heartbeat"), up("tick"), up("render")>>
      /\ UpFromProbe = <<up("probe"), up("heartbeat"), up("tick"), up("render")>>
      /\ UpFromHeartbeat = <<up("heartbeat"), up("tick"), up("render")>>
      /\ UpFromTick = <<up("tick"), up("render")>> /\ UpFromRender = <<up("render")>>
  BY DEF UpTasks, UpFromProbe, UpFromHeartbeat, UpFromTick, UpFromRender
<1>4. /\ UndoHeartbeat = <<down("heartbeat"), down("probe"), down("scheduler")>>
      /\ UndoListeners = <<down("probe"), down("scheduler")>>
      /\ UndoProbe = <<down("probe")>>
  BY DEF UndoHeartbeat, UndoListeners, UndoProbe
<1>5. /\ DownTasks = <<down("render"), down("probe"), down("tick"), down("heartbeat"),
                       down("scheduler")>>
      /\ DownFromProbe = <<down("probe"), down("tick"), down("heartbeat"), down("scheduler")>>
      /\ DownFromTick = <<down("tick"), down("heartbeat"), down("scheduler")>>
      /\ DownFromHeartbeat = <<down("heartbeat"), down("scheduler")>>
      /\ DownFromScheduler = <<down("scheduler")>>
  BY DEF DownTasks, DownFromProbe, DownFromTick, DownFromHeartbeat, DownFromScheduler
<1> HIDE DEF Tasks, up, down
<1>6. /\ up("scheduler") \in Tasks /\ up("probe") \in Tasks /\ up("heartbeat") \in Tasks
      /\ up("tick") \in Tasks /\ up("render") \in Tasks
      /\ down("scheduler") \in Tasks /\ down("probe") \in Tasks
      /\ down("heartbeat") \in Tasks /\ down("tick") \in Tasks /\ down("render") \in Tasks
  BY <1>1, <1>2
<1>7. /\ UpTasks \in Seq(Tasks) /\ UpFromProbe \in Seq(Tasks)
      /\ UpFromHeartbeat \in Seq(Tasks) /\ UpFromTick \in Seq(Tasks)
      /\ UpFromRender \in Seq(Tasks) /\ <<>> \in Seq(Tasks)
  BY <1>3, <1>6
<1>8. /\ UndoHeartbeat \in Seq(Tasks) /\ UndoListeners \in Seq(Tasks)
      /\ UndoProbe \in Seq(Tasks)
  BY <1>4, <1>6
<1>9. /\ DownTasks \in Seq(Tasks) /\ DownFromProbe \in Seq(Tasks)
      /\ DownFromTick \in Seq(Tasks) /\ DownFromHeartbeat \in Seq(Tasks)
      /\ DownFromScheduler \in Seq(Tasks)
  BY <1>5, <1>6
<1>10. todo \in Seq(Tasks)
  BY <1>7, <1>8, <1>9 DEF EnableLists, DisableLists
<1>11. QED
  BY <1>10 DEF Tasks

\* QuietDisable: when the module says that it is disabled or unloaded, no hook is in
\* the game, no thread runs, no listener waits and no thread object was assigned
\* over a running one, whatever failed and was refused before; from enable, disable
\* and unload, their orders of starts and stops, and what enable undoes.
THEOREM QuietDisable == Spec => []QuietWhenDisabled
<1>1. ASSUME LifeInv PROVE QuietWhenDisabled
  <2>1. todo \in Seq({"up", "down"} \X Components)
    <3>1. todo \in EnableLists \cup DisableLists
      BY <1>1 DEF LifeInv, Planned, Types, Stopping, DisableLists
    <3>2. QED
      BY <3>1, ListTypes
  <2>2. op \in {"none"} \cup DOMAIN Result
    BY <1>1 DEF LifeInv, Types, Result
  <2>3. TypeOK
    BY <1>1, <2>1, <2>2 DEF LifeInv, Types, CountTypes, TypeOK
  <2>4. ASSUME Resting, standing \in {"disabled", "unloaded"}
        PROVE  /\ hooked = {} /\ active = {} /\ ~original
               /\ subscribed = {} /\ running = {}
               /\ \A c \in Components : thread[c] = "notJoinable"
    <3>1. \A c \in Components : Down(c)
      BY <1>1, <2>4 DEF LifeInv, Disabling, Resting
    <3>2. QED
      BY <1>1, <3>1 DEF Down, LifeInv, Types, Components, Sources, Listeners
  <2>5. QED
    BY <1>1, <2>3, <2>4 DEF QuietWhenDisabled, LifeInv, Joined
<1>2. QED
  BY <1>1, LifeInvariant, PTL

\* SourcedListeners: when the module says that it is enabled and a listener runs, the
\* tick source and the heartbeat under it are installed, and the render source if
\* the probe runs; from the branches of enable that take listeners back.
THEOREM SourcedListeners == Spec => []ListenersHaveSource
<1>1. ASSUME LifeInv PROVE ListenersHaveSource
  <2>1. SUFFICES ASSUME Resting, standing = "enabled", running # {}
        PROVE  /\ "heartbeat" \in hooked /\ thread["heartbeat"] = "running"
               /\ Installed("tick")
               /\ "probe" \in running => Installed("render")
    BY DEF ListenersHaveSource
  <2>2. Installed("tick") /\ ("probe" \in running => Installed("render"))
    BY <1>1, <2>1 DEF LifeInv, Enabling, Sourced, Resting
  <2>3. "heartbeat" \in hooked
    BY <1>1, <2>2 DEF LifeInv, Stacked
  <2>4. todo = <<>>
    BY <1>1, <2>1 DEF LifeInv, Planned, Resting
  <2>5. thread["heartbeat"] = "running"
    BY <1>1, <2>3, <2>4 DEF LifeInv, Heartbeat, Turn
  <2>6. QED
    BY <2>2, <2>3, <2>5
<1>2. QED
  BY <1>1, LifeInvariant, PTL

\* StraysAlone: a thread of the game inside a hook of a disabled module has outlived
\* its drain, and without one of those the sequence counter is odd only while
\* somebody writes; from the drains of uninstall and from the order of disable.
THEOREM StraysAlone == Spec => []OnlyStraysEscape
<1>1. ASSUME LifeInv PROVE OnlyStraysRemain
  <2>1. SUFFICES ASSUME Resting, standing \in {"disabled", "unloaded"},
                        NEW s \in Sources, game[s] # "outside", s \notin stray
                 PROVE  FALSE
    BY DEF OnlyStraysRemain
  <2>2. s \notin hooked
    BY <1>1, <2>1 DEF LifeInv, Disabling, Resting, Down, Components
  <2>3. todo = <<>>
    BY <1>1, <2>1 DEF LifeInv, Planned, Resting
  <2>4. QED
    BY <1>1, <2>1, <2>2, <2>3 DEF LifeInv, Contained, Turn
<1>2. ASSUME LifeInv PROVE ParityWithoutStrays
  BY <1>2 DEF LifeInv, Published, Calm, ParityWithoutStrays, SequenceParity, Turn, Task
<1>3. LifeInv => OnlyStraysEscape
  BY <1>1, <1>2 DEF OnlyStraysEscape
<1>4. QED
  BY <1>3, LifeInvariant, PTL

\* Only its own stop takes a listener out of the set that runs.
LEMMA StopsBySelf ==
  ASSUME [Next]_vars, NEW c \in running, c \notin running'
  PROVE  StopListener(c)
<1>1. \A d \in Listeners : StopListener(d) /\ ~StopListener(c) => FALSE
  BY DEF StopListener
<1>2. \A d \in Listeners : ~(StartListener(d) \/ Subscribe(d) \/ StartWriter(d))
  BY DEF StartListener, Subscribe, StartWriter
<1>3. ~Enable /\ ~Disable /\ ~Unload /\ ~Return /\ ~EndFirstPublication
  BY DEF Enable, Disable, Unload, CallOf, Return, EndFirstPublication, buses
<1>4. ~InstallHeartbeat /\ ~HookHeartbeat /\ ~StoreOriginal /\ ~StartSampler
  BY DEF InstallHeartbeat, HookHeartbeat, StoreOriginal, StartSampler, buses
<1>5. \A s : ~InstallSource(s) /\ ~Register(s) /\ ~PlaceHook(s)
  BY DEF InstallSource, Register, PlaceHook, buses
<1>6. \A d : ~RequestStop(d) /\ ~Join(d) /\ ~EndThread(d)
  BY DEF RequestStop, Join, EndThread, buses
<1>7. \A s : ~Unhook(s) /\ ~Drained(s) /\ ~DrainTimeout(s) /\ ~Release(s) /\ ~Judge(s)
  BY DEF Unhook, Drained, DrainTimeout, DrainEnds, Release, Judge, buses
<1>8. ~Game
  BY DEF Game, GameStep, Enter, LoadActive, Count, CallOriginal, CountBeat, LoadListener,
    IgnoreEvent, BeginHandler, EndHandler, Uncount
<1>9. ~UNCHANGED vars
  BY DEF vars, buses
<1>10. QED
  BY <1>1, <1>2, <1>3, <1>4, <1>5, <1>6, <1>7, <1>8, <1>9 DEF Next, Loader, Threads

\* OrderedStops: no step stops a listener whose source's hook is still in the game,
\* nor under a callback that has not outlived its drain; from the order in which
\* disable, and enable when it fails, take components down.
THEOREM OrderedStops == Spec => StopsAfterSource
<1> DEFINE Late(s) ==
             ListenerOf[s] \in running /\ ListenerOf[s] \notin running' =>
               /\ s \notin hooked
               /\ game[s] \in {"delivering", "handling"} => s \in stray
<1>1. ASSUME LifeInv, [Next]_vars, NEW s \in {"tick", "render"}
      PROVE  Late(s)
  <2>1. SUFFICES ASSUME ListenerOf[s] \in running, ListenerOf[s] \notin running'
                 PROVE  /\ s \notin hooked
                        /\ game[s] \in {"delivering", "handling"} => s \in stray
    OBVIOUS
  <2>2. Turn("down", ListenerOf[s])
    BY <1>1, <2>1, StopsBySelf DEF StopListener, Task, Turn
  <2>3. /\ s = "tick" => Turn("down", "scheduler")
        /\ s = "render" => Turn("down", "probe")
    BY <2>2 DEF ListenerOf
  <2>4. s \notin hooked /\ ~Turn("down", s)
    BY <1>1, <2>3, DownTurn DEF Installed, Components, Listeners
  <2>5. QED
    BY <1>1, <2>4 DEF LifeInv, Contained, Sources
<1>2. LifeInv /\ [Next]_vars => \A s \in {"tick", "render"} : Late(s)
  BY <1>1
<1>3. QED
  BY <1>2, LifeInvariant, PTL DEF Spec, StopsAfterSource
=============================================================================
