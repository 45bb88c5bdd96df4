---------------------------- MODULE FlightProofs ----------------------------
(***************************************************************************)
(* Proofs about the two flights: the script's (FlightSession), for any     *)
(* players, blocks and bounds, that what flies is what was confirmed and   *)
(* no press counts twice; and the native cores (FlightCores): that the     *)
(* proxy flies only with lift and stays in its band, that the autopilot    *)
(* takes over smoothly and corrects, and that the two searches for a ship  *)
(* find the same one.                                                      *)
(***************************************************************************)
EXTENDS FlightSession, FlightCores, SequenceTheorems, FiniteSetTheorems,
        WellFoundedInduction, TLAPS

FlightFields == {"object", "ship", "helm", "phase"}

\* The domains of the script's maps.
Shape ==
  /\ DOMAIN sessions = Players /\ DOMAIN confirmedShips = Players
  /\ DOMAIN activeFlights = Players
  /\ \A p \in Players : activeFlights[p] # None => DOMAIN activeFlights[p] = FlightFields
  /\ taps \in [Players -> Nat] /\ spent \in [Players -> Nat]

Tasks == [player : Players, object : Nat, cell : Cells, kind : Kinds]

\* A player has at most one callback in the queue, and is noted for it.
QueueInv ==
  /\ joins \in [Players -> Nat] /\ block \in [Cells -> Kinds]
  /\ tasks \in Seq(Tasks)
  /\ \A i, j \in 1 .. Len(tasks) : tasks[i].player = tasks[j].player => i = j
  /\ queuedControlInteractions = {tasks[i].player : i \in 1 .. Len(tasks)}

Shown(p) == IF sessions[p] = None THEN 0 ELSE 1
Queued(p) == IF p \in queuedControlInteractions THEN 1 ELSE 0

\* A press is spent, stands as a preview, or waits in the queue.
Budget == \A p \in Players : spent[p] + Shown(p) + Queued(p) <= taps[p]

SessionInv == Shape /\ QueueInv /\ Budget /\ FliesAsConfirmed

LEMMA InitialSession == Init => SessionInv
<1> SUFFICES ASSUME Init PROVE SessionInv
  OBVIOUS
<1> USE DEF Init
<1>1. Shape
  BY DEF Shape
<1>2. QueueInv
  BY WorldAssumption DEF QueueInv
<1>3. Budget
  BY DEF Budget, Shown, Queued
<1>4. FliesAsConfirmed
  BY DEF FliesAsConfirmed
<1>5. QED
  BY <1>1, <1>2, <1>3, <1>4 DEF SessionInv

\* The script and its queue are left alone.
LEMMA PlayersKeepSession ==
  ASSUME SessionInv, UNCHANGED <<queue, script, taps, spent>>,
         joins' \in [Players -> Nat], block' \in [Cells -> Kinds]
  PROVE  SessionInv'
<1> USE DEF queue, script
<1>1. Shape' /\ QueueInv'
  BY DEF SessionInv, Shape, QueueInv
<1>2. Budget'
  BY DEF SessionInv, Budget, Shown, Queued
<1>3. FliesAsConfirmed'
  BY DEF SessionInv, FliesAsConfirmed, OwnsHelm
<1>4. QED
  BY <1>1, <1>2, <1>3 DEF SessionInv

LEMMA BodiesKeepSession ==
  ASSUME SessionInv, NEW p \in Players,
         \/ \E where \in {"near", "far", "elsewhere"} : Move(p, where)
         \/ Sneak(p) \/ Leave(p) \/ Join(p) \/ Release(p)
  PROVE  SessionInv'
<1>1. UNCHANGED <<queue, script, taps, spent>>
  BY DEF Move, Sneak, Leave, Join, Release, history
<1>2. joins' \in [Players -> Nat]
  BY DEF Move, Sneak, Leave, Join, Release, body, SessionInv, QueueInv
<1>3. block' \in [Cells -> Kinds]
  BY DEF Move, Sneak, Leave, Join, Release, SessionInv, QueueInv
<1>4. QED
  BY <1>1, <1>2, <1>3, PlayersKeepSession

\* A queue that grows at its end, by a player who was not in it.
LEMMA QueueGrows ==
  ASSUME QueueInv, NEW p \in Players, NEW c \in Cells, p \notin queuedControlInteractions,
         tasks' = Append(tasks, [player |-> p, object |-> joins[p], cell |-> c,
                                 kind |-> block[c]]),
         queuedControlInteractions' = queuedControlInteractions \cup {p},
         UNCHANGED <<joins, block>>
  PROVE  QueueInv'
<1> DEFINE task == [player |-> p, object |-> joins[p], cell |-> c, kind |-> block[c]]
           n == Len(tasks)
<1>1. task \in Tasks /\ task.player = p /\ tasks \in Seq(Tasks) /\ n \in Nat
  BY DEF QueueInv, Tasks
<1> HIDE DEF task
<1>2. /\ tasks' \in Seq(Tasks) /\ Len(tasks') = n + 1
      /\ tasks'[n + 1] = task /\ \A i \in 1 .. n : tasks'[i] = tasks[i]
  <2>1. tasks' = Append(tasks, task)
    BY DEF task
  <2>2. Append(tasks, task) \in Seq(Tasks) /\ Len(Append(tasks, task)) = n + 1
    BY <1>1, AppendProperties
  <2>3. Append(tasks, task)[n + 1] = task
    BY <1>1, AppendProperties
  <2>4. \A i \in 1 .. n : Append(tasks, task)[i] = tasks[i]
    BY <1>1, AppendProperties
  <2>5. QED
    BY <2>1, <2>2, <2>3, <2>4
<1> HIDE DEF n
<1>3. \A i \in 1 .. n + 1 : i = n + 1 \/ i \in 1 .. n
  BY <1>1
<1>4. \A i \in 1 .. n : tasks[i].player # p
  BY DEF QueueInv, n
<1>5. \A i, j \in 1 .. n : tasks[i].player = tasks[j].player => i = j
  BY DEF QueueInv, n
<1>6. \A i, j \in 1 .. n + 1 : tasks'[i].player = tasks'[j].player => i = j
  BY <1>1, <1>2, <1>3, <1>4, <1>5
<1>7. queuedControlInteractions' = {tasks'[i].player : i \in 1 .. n + 1}
  <2>1. queuedControlInteractions = {tasks[i].player : i \in 1 .. n}
    BY DEF QueueInv, n
  <2>2. n + 1 \in 1 .. n + 1 /\ \A i \in 1 .. n : i \in 1 .. n + 1
    BY <1>1
  <2>3. QED
    BY <1>1, <1>2, <1>3, <2>1, <2>2
<1>8. QED
  BY <1>2, <1>6, <1>7 DEF QueueInv

\* A press is queued once: a repeated event finds its player in the queue.
LEMMA PressesKeepSession ==
  ASSUME SessionInv, NEW p \in Players, NEW c \in Cells,
         Press(p, c) \/ \E first \in BOOLEAN : PressAgain(p, c, first)
  PROVE  SessionInv'
<1>1. UNCHANGED <<script, spent, joins, block>>
  BY DEF Press, PressAgain, body, history
<1>2. \/ UNCHANGED queue
      \/ /\ Press(p, c) /\ p \notin queuedControlInteractions
         /\ tasks' = Append(tasks, [player |-> p, object |-> joins[p], cell |-> c,
                                    kind |-> block[c]])
         /\ queuedControlInteractions' = queuedControlInteractions \cup {p}
  BY DEF Press, PressAgain, QueueInteraction, ShouldQueue
<1>3. /\ taps' \in [Players -> Nat] /\ \A q \in Players : taps[q] <= taps'[q]
      /\ Press(p, c) => taps'[p] = taps[p] + 1
  <2>1. taps \in [Players -> Nat]
    BY DEF SessionInv, Shape
  <2>2. CASE Press(p, c)
    <3>1. taps' = [taps EXCEPT ![p] = @ + 1]
      BY <2>2 DEF Press
    <3>2. QED
      BY <2>1, <3>1
  <2>3. CASE taps' = taps /\ ~Press(p, c)
    BY <2>1, <2>3
  <2>4. QED
    BY <2>2, <2>3 DEF PressAgain, history
<1>4. Shape'
  BY <1>1, <1>3 DEF SessionInv, Shape, script
<1>5. QueueInv'
  BY <1>1, <1>2, QueueGrows DEF SessionInv, QueueInv, queue
<1>6. Budget'
  <2>1. ASSUME NEW q \in Players PROVE (spent[q] + Shown(q) + Queued(q) <= taps[q])'
    <3>1. /\ spent'[q] = spent[q] /\ Shown(q)' = Shown(q) /\ taps[q] <= taps'[q]
          /\ spent[q] + Shown(q) + Queued(q) <= taps[q]
          /\ {spent[q], taps[q], taps'[q]} \subseteq Nat
      BY <1>1, <1>3 DEF SessionInv, Shape, Budget, Shown, script
    <3>2. Queued(q)' = Queued(q) \/ (taps'[q] = taps[q] + 1 /\ Queued(q) = 0 /\ Queued(q)' = 1)
      BY <1>2, <1>3 DEF Queued, queue
    <3>3. Shown(q) \in 0 .. 1 /\ Queued(q) \in 0 .. 1
      BY DEF Shown, Queued
    <3>4. QED
      BY <3>1, <3>2, <3>3
  <2>2. QED
    BY <2>1 DEF Budget
<1>7. FliesAsConfirmed'
  BY <1>1 DEF SessionInv, FliesAsConfirmed, OwnsHelm, script
<1>8. QED
  BY <1>4, <1>5, <1>6, <1>7 DEF SessionInv
-----------------------------------------------------------------------------
(***************************************************************************)
(* The callbacks.                                                          *)
(***************************************************************************)
\* A callback of p costs at most the press it was queued for.
Charges(p) ==
  /\ spent' \in [Players -> Nat]
  /\ \A q \in Players :
       spent'[q] + Shown(q)' <= spent[q] + Shown(q) + IF q = p THEN 1 ELSE 0

\* What the callback of p for a core or a helm does to the script's maps.
Kept(p) == Shape' /\ FliesAsConfirmed' /\ Charges(p)

LEMMA IdleKeepsSession ==
  ASSUME Shape, FliesAsConfirmed, NEW p \in Players, UNCHANGED <<script, spent, taps>>
  PROVE  Kept(p)
<1>1. Shape' /\ FliesAsConfirmed'
  BY DEF Shape, FliesAsConfirmed, OwnsHelm, script
<1>2. \A q \in Players : spent'[q] + Shown(q)' = spent[q] + Shown(q) /\ spent[q] \in Nat
                         /\ Shown(q) \in 0 .. 1
  BY DEF Shape, Shown, script
<1>3. \A q \in Players : spent'[q] + Shown(q)' <= spent[q] + Shown(q) + IF q = p THEN 1 ELSE 0
  BY <1>2
<1>4. QED
  BY <1>1, <1>3 DEF Kept, Charges, Shape

\* Two presses make a confirmation: the one that is shown, and the one that runs.
LEMMA CoreKeepsSession ==
  ASSUME Shape, FliesAsConfirmed, NEW p \in Players, NEW object, NEW c \in Cells,
         ProcessCore(p, object, c), UNCHANGED taps
  PROVE  Kept(p)
<1>1. CASE UNCHANGED <<script, spent>>
  BY <1>1, IdleKeepsSession
<1>2. \/ UNCHANGED <<script, spent>>
      \/ CancelPreview(p)
      \/ activeFlights[p] = None /\ sessions[p] # None /\ ConfirmPreview(p)
      \/ BeginPreview(p, object, c)
  BY DEF ProcessCore, CoreIdle
<1>3. CASE CancelPreview(p) \/ BeginPreview(p, object, c)
  <2>1. /\ UNCHANGED <<confirmedShips, activeFlights, spent>>
        /\ DOMAIN sessions' = Players
        /\ \A q \in Players : q # p => sessions'[q] = sessions[q]
    BY <1>3 DEF CancelPreview, BeginPreview, Shape
  <2>2. Shape' /\ FliesAsConfirmed'
    BY <2>1 DEF Shape, FliesAsConfirmed, OwnsHelm
  <2>3. ASSUME NEW q \in Players
        PROVE  spent'[q] + Shown(q)' <= spent[q] + Shown(q) + IF q = p THEN 1 ELSE 0
    <3>1. /\ spent'[q] = spent[q] /\ spent[q] \in Nat
          /\ Shown(q) \in 0 .. 1 /\ Shown(q)' \in 0 .. 1 /\ (q # p => Shown(q)' = Shown(q))
      BY <2>1 DEF Shape, Shown
    <3>2. QED
      BY <3>1
  <2>4. QED
    BY <2>1, <2>2, <2>3 DEF Kept, Charges, Shape
<1>4. CASE activeFlights[p] = None /\ sessions[p] # None /\ ConfirmPreview(p)
  <2>1. /\ UNCHANGED activeFlights
        /\ sessions' = [sessions EXCEPT ![p] = None]
        /\ spent' = [spent EXCEPT ![p] = @ + 2]
        /\ DOMAIN confirmedShips' = Players
        /\ \A q \in Players : q # p => confirmedShips'[q] = confirmedShips[q]
    BY <1>4 DEF ConfirmPreview, Shape
  <2>2. spent' \in [Players -> Nat]
    BY <2>1 DEF Shape
  <2>3. Shape'
    BY <2>1, <2>2 DEF Shape
  <2>4. FliesAsConfirmed'
    BY <1>4, <2>1 DEF FliesAsConfirmed, OwnsHelm
  <2>5. ASSUME NEW q \in Players
        PROVE  spent'[q] + Shown(q)' <= spent[q] + Shown(q) + IF q = p THEN 1 ELSE 0
    <3>1. CASE q = p
      <4>1. Shown(p) = 1 /\ Shown(p)' = 0 /\ spent'[p] = spent[p] + 2 /\ spent[p] \in Nat
        BY <1>4, <2>1 DEF Shape, Shown
      <4>2. QED
        BY <3>1, <4>1
    <3>2. CASE q # p
      <4>1. Shown(q)' = Shown(q) /\ spent'[q] = spent[q] /\ spent[q] \in Nat
            /\ Shown(q) \in 0 .. 1
        BY <2>1, <3>2 DEF Shape, Shown
      <4>2. QED
        BY <3>2, <4>1
    <3>3. QED
      BY <3>1, <3>2
  <2>6. QED
    BY <2>2, <2>3, <2>4, <2>5 DEF Kept, Charges
<1>5. QED
  BY <1>1, <1>2, <1>3, <1>4

LEMMA HelmKeepsSession ==
  ASSUME Shape, FliesAsConfirmed, NEW p \in Players, NEW object, NEW c \in Cells,
         ProcessHelm(p, object, c), UNCHANGED taps
  PROVE  Kept(p)
<1>1. UNCHANGED <<sessions, confirmedShips>>
  BY DEF ProcessHelm
<1>2. CASE MayEngage(p, c) /\ Engage(p, c)
  <2> DEFINE flight == [object |-> confirmedShips[p].object,
                        ship |-> confirmedShips[p].ship, helm |-> c, phase |-> "ascending"]
  <2>1. /\ activeFlights' = [activeFlights EXCEPT ![p] = flight]
        /\ spent' = [spent EXCEPT ![p] = @ + 1]
    BY <1>2 DEF Engage
  <2>2. /\ flight.object = confirmedShips[p].object /\ flight.ship = confirmedShips[p].ship
        /\ flight.helm = c /\ DOMAIN flight = FlightFields
    BY DEF FlightFields
  <2>3. OwnsHelm(p, c) /\ HasLiftAuthority(confirmedShips[p].ship) /\ confirmedShips[p] # None
    BY <1>2 DEF MayEngage, OwnsHelm
  <2> HIDE DEF flight
  <2>4. spent' \in [Players -> Nat]
    BY <2>1 DEF Shape
  <2>5. Shape'
    BY <1>1, <2>1, <2>2, <2>4 DEF Shape
  <2>6. FliesAsConfirmed'
    BY <1>1, <2>1, <2>2, <2>3 DEF Shape, FliesAsConfirmed, OwnsHelm
  <2>7. ASSUME NEW q \in Players
        PROVE  spent'[q] + Shown(q)' <= spent[q] + Shown(q) + IF q = p THEN 1 ELSE 0
    <3>1. /\ Shown(q)' = Shown(q) /\ Shown(q) \in 0 .. 1 /\ spent[q] \in Nat
          /\ spent'[q] = IF q = p THEN spent[q] + 1 ELSE spent[q]
      BY <1>1, <2>1 DEF Shape, Shown
    <3>2. QED
      BY <3>1
  <2>8. QED
    BY <2>4, <2>5, <2>6, <2>7 DEF Kept, Charges
<1>3. CASE /\ activeFlights[p] # None
           /\ activeFlights' = [activeFlights EXCEPT ![p] = RequestReturn(@)]
           /\ UNCHANGED spent
  <2>1. /\ DOMAIN activeFlights' = Players
        /\ \A q \in Players : q # p => activeFlights'[q] = activeFlights[q]
        /\ activeFlights'[p] = [activeFlights[p] EXCEPT !.phase = "returning"]
    BY <1>3 DEF Shape, RequestReturn
  <2>2. DOMAIN activeFlights[p] = FlightFields
    BY <1>3 DEF Shape
  <2>3. /\ DOMAIN activeFlights'[p] = FlightFields
        /\ activeFlights'[p].object = activeFlights[p].object
        /\ activeFlights'[p].ship = activeFlights[p].ship
        /\ activeFlights'[p].helm = activeFlights[p].helm
    BY <2>1, <2>2 DEF FlightFields
  <2>4. Shape'
    BY <1>1, <1>3, <2>1, <2>3 DEF Shape
  <2>5. FliesAsConfirmed'
    <3>1. \A q \in Players : activeFlights'[q] # None =>
            /\ activeFlights[q] # None
            /\ activeFlights'[q].object = activeFlights[q].object
            /\ activeFlights'[q].ship = activeFlights[q].ship
            /\ activeFlights'[q].helm = activeFlights[q].helm
      BY <1>3, <2>1, <2>3
    <3>2. QED
      BY <1>1, <3>1 DEF FliesAsConfirmed, OwnsHelm
  <2>6. ASSUME NEW q \in Players
        PROVE  spent'[q] + Shown(q)' <= spent[q] + Shown(q) + IF q = p THEN 1 ELSE 0
    <3>1. /\ Shown(q)' = Shown(q) /\ Shown(q) \in 0 .. 1 /\ spent[q] \in Nat
          /\ spent'[q] = spent[q]
      BY <1>1, <1>3 DEF Shape, Shown
    <3>2. QED
      BY <3>1
  <2>7. QED
    BY <1>3, <2>4, <2>5, <2>6 DEF Kept, Charges, Shape
<1>4. CASE UNCHANGED <<activeFlights, spent>>
  BY <1>1, <1>4, IdleKeepsSession DEF script
<1>5. QED
  BY <1>2, <1>3, <1>4 DEF ProcessHelm

LEMMA QueueShrinks ==
  ASSUME QueueInv, tasks # <<>>, tasks' = Tail(tasks),
         queuedControlInteractions' = queuedControlInteractions \ {Head(tasks).player},
         UNCHANGED <<joins, block>>
  PROVE  /\ QueueInv' /\ Head(tasks) \in Tasks
         /\ Head(tasks).player \in queuedControlInteractions
<1> DEFINE n == Len(tasks)
           p == Head(tasks).player
<1>1. tasks \in Seq(Tasks) /\ n \in Nat \ {0} /\ Head(tasks) = tasks[1]
  BY EmptySeq DEF QueueInv
<1>2. /\ Head(tasks) \in Tasks /\ tasks' \in Seq(Tasks) /\ Len(tasks') = n - 1
      /\ \A i \in 1 .. n - 1 : tasks'[i] = tasks[i + 1]
  BY <1>1, HeadTailProperties
<1>3. /\ \A i, j \in 1 .. n : tasks[i].player = tasks[j].player => i = j
      /\ queuedControlInteractions = {tasks[i].player : i \in 1 .. n}
  BY DEF QueueInv
<1> HIDE DEF n
<1>4. /\ 1 \in 1 .. n /\ 1 \notin {i + 1 : i \in 1 .. n - 1}
      /\ \A i \in 1 .. n - 1 : i + 1 \in 1 .. n /\ i + 1 # 1
      /\ \A i \in 1 .. n : i # 1 => i - 1 \in 1 .. n - 1 /\ (i - 1) + 1 = i
      /\ \A i, j \in 1 .. n - 1 : i + 1 = j + 1 => i = j
  BY <1>1
<1>5. \A i, j \in 1 .. n - 1 : tasks'[i].player = tasks'[j].player => i = j
  BY <1>2, <1>3, <1>4
<1>6. queuedControlInteractions' = {tasks'[i].player : i \in 1 .. n - 1}
  <2>1. \A i \in 1 .. n - 1 : tasks'[i].player \in queuedControlInteractions'
    BY <1>1, <1>2, <1>3, <1>4
  <2>2. ASSUME NEW q \in queuedControlInteractions'
        PROVE  \E i \in 1 .. n - 1 : q = tasks'[i].player
    <3>1. PICK i \in 1 .. n : q = tasks[i].player /\ i # 1
      BY <1>1, <1>3, <2>2
    <3>2. i - 1 \in 1 .. n - 1 /\ tasks'[i - 1] = tasks[i]
      BY <1>2, <1>4, <3>1
    <3>3. QED
      BY <3>1, <3>2
  <2>3. QED
    BY <2>1, <2>2
<1>7. p \in queuedControlInteractions
  BY <1>1, <1>3, <1>4
<1>8. QED
  BY <1>2, <1>5, <1>6, <1>7 DEF QueueInv, n

LEMMA TaskKeepsSession ==
  ASSUME SessionInv, RunTask
  PROVE  SessionInv'
<1> DEFINE task == Head(tasks)
           p == Head(tasks).player
<1>1. /\ tasks # <<>> /\ tasks' = Tail(tasks) /\ UNCHANGED <<joins, block, taps>>
      /\ queuedControlInteractions' = queuedControlInteractions \ {p}
      /\ \/ UNCHANGED <<script, spent>>
         \/ ProcessCore(p, task.object, task.cell)
         \/ ProcessHelm(p, task.object, task.cell)
  BY DEF RunTask, body
<1>2. QueueInv' /\ task \in Tasks /\ p \in queuedControlInteractions
  BY <1>1, QueueShrinks DEF SessionInv
<1>3. p \in Players /\ task.cell \in Cells
  BY <1>2 DEF Tasks
<1> HIDE DEF task, p
<1>4. Kept(p)
  BY <1>1, <1>3, IdleKeepsSession, CoreKeepsSession, HelmKeepsSession DEF SessionInv
<1>5. ASSUME NEW q \in Players PROVE (spent[q] + Shown(q) + Queued(q) <= taps[q])'
  <2>1. /\ Queued(q) \in 0 .. 1 /\ Queued(q)' = IF q = p THEN 0 ELSE Queued(q)
        /\ q = p => Queued(q) = 1
    BY <1>1, <1>2 DEF Queued
  <2>2. /\ spent[q] + Shown(q) + Queued(q) <= taps[q]
        /\ spent'[q] + Shown(q)' <= spent[q] + Shown(q) + IF q = p THEN 1 ELSE 0
        /\ {spent[q], spent'[q], taps[q]} \subseteq Nat /\ taps'[q] = taps[q]
    BY <1>1, <1>4 DEF SessionInv, Budget, Shape, Kept, Charges
  <2>3. Shown(q) \in 0 .. 1 /\ Shown(q)' \in 0 .. 1
    BY DEF Shown
  <2>4. QED
    BY <2>1, <2>2, <2>3
<1>6. QED
  BY <1>2, <1>4, <1>5 DEF SessionInv, Kept, Budget

\* A flight that goes on keeps its ship, its helm and its pilot.
LEMMA FlightsKeepSession ==
  ASSUME SessionInv, UpdateFlights
  PROVE  SessionInv'
<1>1. UNCHANGED <<block, joins, queue, sessions, confirmedShips, taps, spent>>
  BY DEF UpdateFlights, history
<1> DEFINE held == {p \in {q \in Players : activeFlights[q] # None} : ~FlightDrops(p)}
<1>2. PICK to : activeFlights' = [p \in Players |->
             IF p \in held /\ to[p] # "idle"
             THEN [activeFlights[p] EXCEPT !.phase = to[p]] ELSE None]
  BY Zenon DEF UpdateFlights
<1>3. ASSUME NEW p \in Players, activeFlights'[p] # None
      PROVE  /\ activeFlights[p] # None /\ DOMAIN activeFlights'[p] = FlightFields
             /\ activeFlights'[p].object = activeFlights[p].object
             /\ activeFlights'[p].ship = activeFlights[p].ship
             /\ activeFlights'[p].helm = activeFlights[p].helm
  <2>1. /\ activeFlights[p] # None
        /\ activeFlights'[p] = [activeFlights[p] EXCEPT !.phase = to[p]]
    BY <1>2, <1>3
  <2>2. DOMAIN activeFlights[p] = FlightFields
    BY <2>1 DEF SessionInv, Shape
  <2>3. QED
    BY <2>1, <2>2 DEF FlightFields
<1>4. DOMAIN activeFlights' = Players
  BY <1>2
<1>5. Shape'
  BY <1>1, <1>3, <1>4 DEF SessionInv, Shape
<1>6. QueueInv'
  BY <1>1 DEF SessionInv, QueueInv, queue
<1>7. Budget'
  BY <1>1 DEF SessionInv, Budget, Shown, Queued, queue
<1>8. FliesAsConfirmed'
  BY <1>1, <1>3 DEF SessionInv, FliesAsConfirmed, OwnsHelm
<1>9. QED
  BY <1>5, <1>6, <1>7, <1>8 DEF SessionInv

LEMMA PreviewsKeepSession ==
  ASSUME SessionInv, UpdatePreviews
  PROVE  SessionInv'
<1>1. UNCHANGED <<block, joins, queue, confirmedShips, activeFlights, taps, spent>>
  BY DEF UpdatePreviews, history, body
<1>2. /\ DOMAIN sessions' = Players
      /\ \A p \in Players : sessions[p] = None => sessions'[p] = None
  BY DEF UpdatePreviews
<1>3. Shape' /\ QueueInv' /\ FliesAsConfirmed'
  BY <1>1, <1>2 DEF SessionInv, Shape, QueueInv, FliesAsConfirmed, OwnsHelm, queue
<1>4. ASSUME NEW p \in Players PROVE (spent[p] + Shown(p) + Queued(p) <= taps[p])'
  <2>1. /\ spent[p] + Shown(p) + Queued(p) <= taps[p] /\ Shown(p)' <= Shown(p)
        /\ {spent[p], taps[p]} \subseteq Nat
    BY <1>2 DEF SessionInv, Budget, Shape, Shown
  <2>2. Queued(p)' = Queued(p) /\ spent'[p] = spent[p] /\ taps'[p] = taps[p]
    BY <1>1 DEF Queued, queue
  <2>3. Queued(p) \in 0 .. 1 /\ Shown(p) \in 0 .. 1 /\ Shown(p)' \in 0 .. 1
    BY DEF Queued, Shown
  <2>4. QED
    BY <2>1, <2>2, <2>3
<1>5. QED
  BY <1>3, <1>4 DEF SessionInv, Budget

LEMMA SessionInductive == SessionInv /\ [Next]_vars => SessionInv'
<1> SUFFICES ASSUME SessionInv, [Next]_vars PROVE SessionInv'
  OBVIOUS
<1>1. ASSUME NEW c \in Cells, NEW kind \in EditKinds, Edit(c, kind) PROVE SessionInv'
  <2>1. UNCHANGED <<queue, script, taps, spent, joins>>
    BY <1>1 DEF Edit, body
  <2>2. block' \in [Cells -> Kinds] /\ joins' \in [Players -> Nat]
    BY <1>1, <2>1, WorldAssumption DEF Edit, SessionInv, QueueInv
  <2>3. QED
    BY <2>1, <2>2, PlayersKeepSession
<1>2. CASE UNCHANGED vars
  BY <1>2, PlayersKeepSession DEF vars, body, history, SessionInv, QueueInv
<1>3. QED
  BY <1>1, <1>2, BodiesKeepSession, PressesKeepSession, TaskKeepsSession,
     FlightsKeepSession, PreviewsKeepSession DEF Next

LEMMA SessionInvariant == Spec => []SessionInv
BY InitialSession, SessionInductive, PTL DEF Spec

LEMMA PressesSuffice == SessionInv => EachTapCountsOnce
<1> SUFFICES ASSUME SessionInv, NEW p \in Players
             PROVE  spent[p] + (IF sessions[p] = None THEN 0 ELSE 1) <= taps[p]
  BY DEF EachTapCountsOnce
<1>1. /\ spent[p] + Shown(p) + Queued(p) <= taps[p] /\ {spent[p], taps[p]} \subseteq Nat
      /\ Queued(p) \in 0 .. 1 /\ Shown(p) \in 0 .. 1
  BY DEF SessionInv, Budget, Shape, Queued, Shown
<1>2. spent[p] + Shown(p) <= taps[p]
  BY <1>1
<1>3. QED
  BY <1>2 DEF Shown

\* TapSafety: confirmations, flights and the preview that is shown are paid for by
\* presses, one each and two for a confirmation, however the events of a press are
\* repeated; from queueAeronauticsInteraction and the callbacks it queues.
THEOREM TapSafety == Spec => []EachTapCountsOnce
BY SessionInvariant, PressesSuffice, PTL

\* FlightSafety: whatever players, blocks and previews do, what flies is the ship
\* its player confirmed last, from one of its helms, and has the thrust.
THEOREM FlightSafety == Spec => []FliesAsConfirmed
<1>1. SessionInv => FliesAsConfirmed
  BY DEF SessionInv
<1>2. QED
  BY <1>1, SessionInvariant, PTL

-----------------------------------------------------------------------------
(***************************************************************************)
(* What the scan finds, and the types.                                     *)
(***************************************************************************)
\* A set of numbers has a least one: what induction is made of here.
LEMMA Least ==
  ASSUME NEW S, S \subseteq Nat, S # {}
  PROVE  \E x \in S : \A y \in S : x <= y
<1> DEFINE R == OpToRel(<, Nat)
<1>1. IsWellFoundedOn(R, Nat)
  BY NatLessThanWellFounded
<1>2. \A x, y \in Nat : <<x, y>> \in R <=> x < y
  BY DEF OpToRel
<1> HIDE DEF R
<1>3. PICK x \in S : \A y \in S : ~(<<y, x>> \in R)
  BY <1>1, WFMin
<1>4. \A y \in S : x \in Nat /\ y \in Nat /\ ~(y < x)
  BY <1>2, <1>3
<1>5. \A y \in S : x <= y
  BY <1>4
<1>6. QED
  BY <1>5

\* One more round of neighbours.
Round(terrain, reached) ==
  reached \cup {d \in UNION {Neighbours(e) : e \in reached} : Solid(terrain, d)}

Rounds(f, terrain, c, n) ==
  f = [m \in 0..n |-> IF m = 0 THEN {c} ELSE Round(terrain, f[m - 1])]

\* A function that computes the rounds exists, by induction over their number.
LEMMA RoundsExist ==
  ASSUME NEW terrain, NEW c, NEW N \in Nat
  PROVE  \E f : Rounds(f, terrain, c, N)
<1> DEFINE Is(f, k) == Rounds(f, terrain, c, k)
           Bad == {k \in 0..N : ~ \E f : Is(f, k)}
<1>1. N \in 0..N
  OBVIOUS
<1>2. SUFFICES ASSUME Bad # {} PROVE FALSE
  BY <1>1
<1>3. PICK k \in Bad : \A j \in Bad : k <= j
  <2>1. Bad \subseteq Nat
    OBVIOUS
  <2> HIDE DEF Bad
  <2>2. QED
    BY <2>1, <1>2, Least
<1>4. CASE k = 0
  <2> DEFINE f == [n \in 0..0 |-> {c}]
  <2>1. Is(f, 0)
    BY DEF Rounds
  <2> HIDE DEF f, Is
  <2>2. QED
    BY <2>1, <1>3, <1>4
<1>5. CASE k # 0
  <2>1. k - 1 \in 0..N /\ k - 1 \notin Bad
    <3>1. k \in 0..N /\ k - 1 \in 0..N /\ ~(k <= k - 1)
      BY <1>3, <1>5
    <3> HIDE DEF Bad
    <3>2. QED
      BY <3>1, <1>3
  <2>2. PICK f : Is(f, k - 1)
    BY <2>1
  <2> DEFINE g == [n \in 0..k |-> IF n = k THEN Round(terrain, f[k - 1]) ELSE f[n]]
  <2>3. \A n \in 0..k : g[n] = IF n = 0 THEN {c} ELSE Round(terrain, g[n - 1])
    <3>1. SUFFICES ASSUME NEW n \in 0..k
                   PROVE  g[n] = IF n = 0 THEN {c} ELSE Round(terrain, g[n - 1])
      OBVIOUS
    <3>2. CASE n = k
      BY <1>5, <3>2
    <3>3. CASE n # k
      <4>1. n \in 0..k-1 /\ (n # 0 => n - 1 \in 0..k-1 /\ n - 1 # k)
        BY <1>3, <3>3
      <4>2. f[n] = IF n = 0 THEN {c} ELSE Round(terrain, f[n - 1])
        BY <2>2, <4>1 DEF Rounds
      <4>3. QED
        BY <4>1, <4>2, <3>3, <1>3
    <3>4. QED BY <3>2, <3>3
  <2>4. Is(g, k)
    BY <2>3 DEF Rounds
  <2> HIDE DEF g, Is
  <2>5. QED
    BY <2>4, <1>3
<1>6. QED
  BY <1>4, <1>5

\* R holds the rounds that Connected is computed from.
Reaches(R, terrain, c) ==
  /\ Connected(terrain, c) = R[Cardinality(Cells)]
  /\ R[0] = {c}
  /\ \A n \in 1..Cardinality(Cells) : R[n] = Round(terrain, R[n - 1])

LEMMA ConnectedRounds ==
  ASSUME NEW terrain, NEW c
  PROVE  Cardinality(Cells) \in Nat /\ \E R : Reaches(R, terrain, c)
<1> DEFINE N == Cardinality(Cells)
           R == CHOOSE f : Rounds(f, terrain, c, N)
<1>1. N \in Nat
  BY FS_CardinalityType, GridAssumption
<1>2. Rounds(R, terrain, c, N)
  BY <1>1, RoundsExist
<1>3. Connected(terrain, c) = R[N]
  BY DEF Connected, Round, Rounds
<1> HIDE DEF R, N
<1>4. ASSUME NEW n \in 0..N
      PROVE  R[n] = IF n = 0 THEN {c} ELSE Round(terrain, R[n - 1])
  BY <1>2 DEF Rounds
<1>5. 0 \in 0..N /\ \A n \in 1..N : n \in 0..N /\ n # 0
  BY <1>1
<1>6. R[0] = {c} /\ \A n \in 1..N : R[n] = Round(terrain, R[n - 1])
  BY <1>4, <1>5
<1>7. QED
  BY <1>1, <1>3, <1>6 DEF N, Reaches

\* A set that has the cell and, with each of its cells, the solid neighbours of that
\* cell has all that is connected.
LEMMA ConnectedLeast ==
  ASSUME NEW terrain, NEW c, NEW S, c \in S,
         \A e \in S : \A d \in Neighbours(e) : Solid(terrain, d) => d \in S
  PROVE  Connected(terrain, c) \subseteq S
<1> DEFINE N == Cardinality(Cells)
<1>0. PICK R : Reaches(R, terrain, c)
  BY ConnectedRounds
<1>1. /\ Connected(terrain, c) = R[N] /\ R[0] = {c}
      /\ \A n \in 1..N : R[n] = Round(terrain, R[n - 1])
  BY <1>0 DEF Reaches
<1>2. N \in Nat
  BY ConnectedRounds
<1> HIDE DEF N
<1> DEFINE Bad == {n \in 0..N : ~(R[n] \subseteq S)}
<1>3. Bad = {}
  <2>1. SUFFICES ASSUME Bad # {} PROVE FALSE
    OBVIOUS
  <2>2. PICK n \in Bad : \A m \in Bad : n <= m
    <3>1. Bad \subseteq Nat
      BY <1>2
    <3> HIDE DEF Bad
    <3>2. QED
      BY <2>1, <3>1, Least
  <2>3. n # 0
    BY <1>1, <2>2
  <2>4. n \in 1..N /\ n - 1 \in 0..N /\ ~(n <= n - 1)
    BY <1>2, <2>2, <2>3
  <2>5. R[n - 1] \subseteq S
    BY <2>2, <2>4
  <2>6. R[n] = Round(terrain, R[n - 1])
    BY <1>1, <2>4
  <2>7. R[n] \subseteq S
    BY <2>5, <2>6 DEF Round
  <2>8. QED
    BY <2>2, <2>7
<1>4. N \in 0..N
  BY <1>2
<1>5. QED
  BY <1>1, <1>3, <1>4

\* What is connected is solid.
LEMMA ConnectedCells ==
  ASSUME NEW terrain, NEW c \in Cells
  PROVE  \A d \in Connected(terrain, c) : d \in Cells /\ (d = c \/ Solid(terrain, d))
<1> DEFINE S == {d \in Cells : d = c \/ Solid(terrain, d)}
<1>1. c \in S /\ \A e \in S : \A d \in Neighbours(e) : Solid(terrain, d) => d \in S
  BY DEF Neighbours
<1>2. Connected(terrain, c) \subseteq S
  <2> HIDE DEF S
  <2> QED
    BY <1>1, ConnectedLeast
<1>3. QED
  BY <1>2

\* As long as a round adds a cell there are more cells than rounds: the last adds none.
LEMMA ConnectedClosed ==
  ASSUME NEW terrain, NEW c \in Cells
  PROVE  /\ c \in Connected(terrain, c)
         /\ IsFiniteSet(Connected(terrain, c))
         /\ \A e \in Connected(terrain, c) : \A d \in Neighbours(e) :
              Solid(terrain, d) => d \in Connected(terrain, c)
<1> DEFINE N == Cardinality(Cells)
<1>0. PICK R : Reaches(R, terrain, c)
  BY ConnectedRounds
<1>1. /\ Connected(terrain, c) = R[N] /\ R[0] = {c}
      /\ \A n \in 1..N : R[n] = Round(terrain, R[n - 1])
  BY <1>0 DEF Reaches
<1>2. N \in Nat /\ IsFiniteSet(Cells)
  BY ConnectedRounds, GridAssumption
<1> DEFINE Good(n) == /\ c \in R[n] /\ R[n] \subseteq Cells
                      /\ Round(terrain, R[n]) = R[n] \/ Cardinality(R[n]) >= n + 1
           Bad == {n \in 0..N : ~Good(n)}
<1>3. \A S : S \subseteq Cells =>
        IsFiniteSet(S) /\ Cardinality(S) \in Nat /\ Cardinality(S) <= N
  BY <1>2, FS_Subset, FS_CardinalityType
<1>4. Bad = {}
  <2> HIDE DEF N
  <2>1. SUFFICES ASSUME Bad # {} PROVE FALSE
    OBVIOUS
  <2>2. PICK n \in Bad : \A m \in Bad : n <= m
    <3>1. Bad \subseteq Nat
      BY <1>2
    <3> HIDE DEF Bad
    <3>2. QED
      BY <2>1, <3>1, Least
  <2>3. Good(0)
    <3>1. Cardinality({c}) = 1
      BY FS_Singleton
    <3>2. QED
      BY <1>1, <3>1
  <2>4. n \in 1..N /\ n - 1 \in 0..N /\ ~(n <= n - 1)
    BY <1>2, <2>2, <2>3
  <2>5. Good(n - 1)
    BY <2>2, <2>4
  <2>6. R[n] = Round(terrain, R[n - 1])
    BY <1>1, <2>4
  <2> DEFINE S == R[n - 1]
             T == R[n]
  <2>7. c \in T /\ S \subseteq T /\ T \subseteq Cells
    BY <2>5, <2>6 DEF Round, Neighbours
  <2>8. CASE T = S
    BY <2>2, <2>6, <2>7, <2>8
  <2>9. CASE T # S
    <3>1. Cardinality(S) >= n
      BY <2>4, <2>5, <2>6, <2>9
    <3>2. IsFiniteSet(S) /\ IsFiniteSet(T)
      BY <1>3, <2>7
    <3>3. Cardinality(S) \in Nat /\ Cardinality(T) \in Nat
      BY <1>3, <2>7
    <3>4. Cardinality(S) < Cardinality(T)
      <4> HIDE DEF S, T
      <4>1. /\ Cardinality(S) <= Cardinality(T)
            /\ Cardinality(T) = Cardinality(S) => T = S
        BY <2>7, <3>2, FS_Subset
      <4>2. QED
        BY <3>3, <4>1, <2>9
    <3>5. Cardinality(T) >= n + 1
      <4> HIDE DEF S, T
      <4> QED
        BY <3>1, <3>3, <3>4, <2>4, <1>2
    <3>6. QED
      BY <3>5, <2>2, <2>7
  <2>10. QED
    BY <2>8, <2>9
<1>5. Good(N)
  BY <1>2, <1>4
<1>6. Round(terrain, R[N]) = R[N] /\ R[N] \subseteq Cells /\ c \in R[N]
  <2>1. Cardinality(R[N]) <= N /\ Cardinality(R[N]) \in Nat
    BY <1>3, <1>5
  <2> HIDE DEF N
  <2>2. QED
    BY <2>1, <1>2, <1>5
<1>7. QED
  BY <1>1, <1>3, <1>6 DEF Round

\* A ship that is not None is one of blocks.
LEMMA ScannedShip ==
  ASSUME NEW terrain \in [Cells -> Kinds], NEW c \in Cells, Scan(terrain, c) # None
  PROVE  IsShip(Scan(terrain, c))
<1> DEFINE ship == [d \in Connected(terrain, c) |-> terrain[d]]
<1>1. Scan(terrain, c) = ship /\ terrain[c] = "core"
  BY DEF Scan
<1>2. \A d \in Connected(terrain, c) :
        d \in Cells /\ terrain[d] \in Kinds \ {"air", "unloaded"}
  BY <1>1, ConnectedCells DEF Solid, Kinds
<1>3. DOMAIN ship \subseteq Cells
        /\ \A d \in DOMAIN ship : ship[d] \in Kinds \ {"air", "unloaded"}
  BY <1>2
<1> HIDE DEF ship
<1>4. QED
  BY <1>1, <1>3 DEF IsShip

PreviewFields == {"object", "core", "ship", "left"}

Surroundings ==
  /\ place \in [Players -> {"near", "far", "elsewhere", "gone"}]
  /\ sneaking \subseteq Players /\ holding \subseteq Players
  /\ joins \in [Players -> 0 .. MaxJoins]
  /\ taps \in [Players -> 0 .. MaxTaps] /\ edits \in 0 .. MaxEdits

\* A preview that may be confirmed has a ship, and so has a confirmation.
Ships ==
  /\ \A p \in Players : sessions[p] # None =>
       /\ DOMAIN sessions[p] = PreviewFields
       /\ sessions[p].core \in Cells /\ sessions[p].left \in 0 .. PreviewUpdates
       /\ sessions[p].ship # None => IsShip(sessions[p].ship)
  /\ \A p \in Players : confirmedShips[p] # None => IsShip(confirmedShips[p].ship)

FlightPhases ==
  \A p \in Players : activeFlights[p] # None =>
    activeFlights[p].phase \in {"ascending", "hovering", "returning"}

TypesInv == Surroundings /\ Ships /\ FlightPhases

LEMMA InitialTypes ==
  ASSUME Init
  PROVE  TypesInv
<1>1. 0 \in 0 .. MaxJoins /\ 0 \in 0 .. MaxTaps /\ 0 \in 0 .. MaxEdits
  BY BoundsAssumption
<1>2. Surroundings
  BY <1>1 DEF Init, Surroundings
<1>3. QED
  BY <1>2 DEF Init, TypesInv, Ships, FlightPhases

\* Players and the world leave the script alone.
LEMMA PlayersKeepTypes ==
  ASSUME TypesInv, NEW p \in Players,
         \/ \E where \in {"near", "far", "elsewhere"} : Move(p, where)
         \/ Sneak(p) \/ Leave(p) \/ Join(p) \/ Release(p)
  PROVE  TypesInv'
<1>1. UNCHANGED script
  BY DEF Move, Sneak, Leave, Join, Release
<1>2. Ships' /\ FlightPhases'
  BY <1>1 DEF TypesInv, Ships, FlightPhases, script
<1>3. Surroundings'
  <2>1. CASE \/ \E where \in {"near", "far", "elsewhere"} : Move(p, where)
             \/ Sneak(p) \/ Leave(p) \/ Release(p)
    BY <2>1 DEF TypesInv, Surroundings, Move, Sneak, Leave, Release, history
  <2>2. CASE Join(p)
    <3>1. joins[p] + 1 \in 0 .. MaxJoins
      BY <2>2, BoundsAssumption DEF Join, TypesInv, Surroundings
    <3>2. QED
      BY <2>2, <3>1 DEF TypesInv, Surroundings, Join, history
  <2>3. QED
    BY <2>1, <2>2
<1>4. QED
  BY <1>2, <1>3 DEF TypesInv

LEMMA PressesKeepTypes ==
  ASSUME TypesInv, NEW p \in Players, NEW c \in Cells,
         Press(p, c) \/ \E first \in BOOLEAN : PressAgain(p, c, first)
  PROVE  TypesInv'
<1>1. UNCHANGED script
  BY DEF Press, PressAgain
<1>2. Ships' /\ FlightPhases'
  BY <1>1 DEF TypesInv, Ships, FlightPhases, script
<1>3. Surroundings'
  <2>1. CASE Press(p, c)
    <3>1. taps[p] + 1 \in 0 .. MaxTaps
      BY <2>1, BoundsAssumption DEF Press, TypesInv, Surroundings
    <3>2. QED
      BY <2>1, <3>1 DEF TypesInv, Surroundings, Press
  <2>2. CASE \E first \in BOOLEAN : PressAgain(p, c, first)
    BY <2>2 DEF TypesInv, Surroundings, PressAgain, body, history
  <2>3. QED
    BY <2>1, <2>2
<1>4. QED
  BY <1>2, <1>3 DEF TypesInv

LEMMA EditKeepsTypes ==
  ASSUME TypesInv, NEW c \in Cells, NEW kind \in EditKinds, Edit(c, kind)
  PROVE  TypesInv'
<1>1. edits + 1 \in 0 .. MaxEdits
  BY BoundsAssumption DEF Edit, TypesInv, Surroundings
<1>2. Surroundings'
  BY <1>1 DEF Edit, TypesInv, Surroundings, body
<1>3. QED
  BY <1>2 DEF Edit, TypesInv, Ships, FlightPhases, script

\* The ship of a confirmation is the one that was scanned for the preview.
LEMMA CoreKeepsTypes ==
  ASSUME SessionInv, TypesInv, NEW p \in Players, NEW object, NEW c \in Cells,
         ProcessCore(p, object, c)
  PROVE  Ships' /\ FlightPhases'
<1>1. \/ UNCHANGED script
      \/ CancelPreview(p)
      \/ sessions[p] # None /\ sessions[p].ship # None /\ ConfirmPreview(p)
      \/ BeginPreview(p, object, c)
  BY DEF ProcessCore, script
<1>2. CASE UNCHANGED script
  BY <1>2 DEF TypesInv, Ships, FlightPhases, script
<1>3. CASE CancelPreview(p)
  BY <1>3 DEF CancelPreview, SessionInv, Shape, TypesInv, Ships, FlightPhases
<1>4. CASE BeginPreview(p, object, c)
  <2> DEFINE preview ==
               [object |-> object, core |-> c, ship |-> Scan(block, c),
                left |-> PreviewUpdates]
  <2>1. /\ DOMAIN preview = PreviewFields /\ preview.core = c
        /\ preview.ship = Scan(block, c) /\ preview.left = PreviewUpdates
    BY DEF PreviewFields
  <2>2. /\ sessions' = [sessions EXCEPT ![p] = preview]
        /\ UNCHANGED <<confirmedShips, activeFlights>>
    BY <1>4 DEF BeginPreview
  <2> HIDE DEF preview
  <2>3. PreviewUpdates \in 0 .. PreviewUpdates
    BY BoundsAssumption
  <2>4. preview.ship # None => IsShip(preview.ship)
    BY <2>1, ScannedShip DEF SessionInv, QueueInv
  <2>5. QED
    BY <2>1, <2>2, <2>3, <2>4 DEF SessionInv, Shape, TypesInv, Ships, FlightPhases
<1>5. CASE sessions[p] # None /\ sessions[p].ship # None /\ ConfirmPreview(p)
  <2> DEFINE confirmed == [object |-> sessions[p].object, ship |-> sessions[p].ship]
  <2>1. confirmed.ship = sessions[p].ship /\ IsShip(sessions[p].ship)
    BY <1>5 DEF TypesInv, Ships
  <2>2. /\ sessions' = [sessions EXCEPT ![p] = None]
        /\ confirmedShips' = [confirmedShips EXCEPT ![p] = confirmed]
        /\ UNCHANGED activeFlights
    BY <1>5 DEF ConfirmPreview
  <2> HIDE DEF confirmed
  <2>3. QED
    BY <2>1, <2>2 DEF SessionInv, Shape, TypesInv, Ships, FlightPhases
<1>6. QED
  BY <1>1, <1>2, <1>3, <1>4, <1>5

LEMMA HelmKeepsTypes ==
  ASSUME SessionInv, TypesInv, NEW p \in Players, NEW object, NEW c, ProcessHelm(p, object, c)
  PROVE  Ships' /\ FlightPhases'
<1>1. UNCHANGED <<sessions, confirmedShips>>
  BY DEF ProcessHelm
<1>2. Ships'
  BY <1>1 DEF TypesInv, Ships
<1>3. CASE Engage(p, c)
  <2> DEFINE flight == [object |-> confirmedShips[p].object, ship |-> confirmedShips[p].ship,
                        helm |-> c, phase |-> "ascending"]
  <2>1. flight.phase = "ascending" /\ activeFlights' = [activeFlights EXCEPT ![p] = flight]
    BY <1>3 DEF Engage
  <2> HIDE DEF flight
  <2>2. QED
    BY <1>2, <2>1 DEF SessionInv, Shape, TypesInv, FlightPhases
<1>4. CASE /\ activeFlights[p] # None
           /\ activeFlights' = [activeFlights EXCEPT ![p] = RequestReturn(@)]
  <2>1. /\ \A q \in Players : q # p => activeFlights'[q] = activeFlights[q]
        /\ activeFlights'[p] = [activeFlights[p] EXCEPT !.phase = "returning"]
    BY <1>4 DEF SessionInv, Shape, RequestReturn
  <2>2. DOMAIN activeFlights[p] = FlightFields
    BY <1>4 DEF SessionInv, Shape
  <2>3. activeFlights'[p].phase = "returning"
    BY <2>1, <2>2 DEF FlightFields
  <2>4. QED
    BY <1>2, <2>1, <2>3 DEF TypesInv, FlightPhases
<1>5. CASE UNCHANGED activeFlights
  BY <1>2, <1>5 DEF TypesInv, FlightPhases
<1>6. QED
  BY <1>2, <1>3, <1>4, <1>5 DEF ProcessHelm

LEMMA TaskKeepsTypes ==
  ASSUME SessionInv, TypesInv, RunTask
  PROVE  TypesInv'
<1> DEFINE task == Head(tasks)
<1>1. /\ tasks # <<>> /\ tasks' = Tail(tasks) /\ UNCHANGED <<joins, block>>
      /\ queuedControlInteractions' = queuedControlInteractions \ {task.player}
      /\ UNCHANGED <<body, taps, edits>>
      /\ \/ UNCHANGED script
         \/ ProcessCore(task.player, task.object, task.cell)
         \/ ProcessHelm(task.player, task.object, task.cell)
  BY DEF RunTask, body
<1>2. task \in Tasks
  BY <1>1, QueueShrinks DEF SessionInv
<1>3. task.player \in Players /\ task.cell \in Cells
  BY <1>2 DEF Tasks
<1> HIDE DEF task
<1>4. Surroundings'
  BY <1>1 DEF TypesInv, Surroundings, body
<1>5. CASE UNCHANGED script
  BY <1>4, <1>5 DEF TypesInv, Ships, FlightPhases, script
<1>6. QED
  BY <1>1, <1>3, <1>4, <1>5, CoreKeepsTypes, HelmKeepsTypes DEF TypesInv

\* Every phase has its successors, and idle ends the flight.
LEMMA FlightsKeepTypes ==
  ASSUME SessionInv, TypesInv, UpdateFlights
  PROVE  TypesInv'
<1> DEFINE held == {p \in {q \in Players : activeFlights[q] # None} : ~FlightDrops(p)}
           From(p) == IF p \in sneaking THEN "returning" ELSE activeFlights[p].phase
<1>1. /\ UNCHANGED <<sneaking, holding, joins, sessions, confirmedShips, taps, edits>>
      /\ place' = [p \in Players |-> IF p \in held THEN "near" ELSE place[p]]
  BY DEF UpdateFlights, history
<1>2. PICK to :
        /\ \A p \in held : to[p] \in NextPhases[From(p)]
        /\ activeFlights' = [p \in Players |->
             IF p \in held /\ to[p] # "idle"
             THEN [activeFlights[p] EXCEPT !.phase = to[p]] ELSE None]
  BY Zenon DEF UpdateFlights
<1>3. Surroundings' /\ Ships'
  BY <1>1 DEF TypesInv, Surroundings, Ships
<1>4. ASSUME NEW p \in Players, activeFlights'[p] # None
      PROVE  activeFlights'[p].phase \in {"ascending", "hovering", "returning"}
  <2>1. /\ p \in held /\ to[p] # "idle"
        /\ activeFlights'[p] = [activeFlights[p] EXCEPT !.phase = to[p]]
    BY <1>2, <1>4
  <2>2. activeFlights[p] # None /\ to[p] \in NextPhases[From(p)]
    BY <1>2, <2>1
  <2>3. /\ From(p) \in {"ascending", "hovering", "returning"}
        /\ DOMAIN activeFlights[p] = FlightFields
    BY <2>2 DEF TypesInv, FlightPhases, SessionInv, Shape
  <2>4. to[p] \in {"ascending", "hovering", "returning"}
    BY <2>1, <2>2, <2>3 DEF NextPhases
  <2>5. activeFlights'[p].phase = to[p]
    BY <2>1, <2>3 DEF FlightFields
  <2>6. QED
    BY <2>4, <2>5
<1>5. QED
  BY <1>3, <1>4 DEF TypesInv, FlightPhases

LEMMA PreviewsKeepTypes ==
  ASSUME SessionInv, TypesInv, UpdatePreviews
  PROVE  TypesInv'
<1>1. UNCHANGED <<body, confirmedShips, activeFlights, taps, edits>>
  BY DEF UpdatePreviews, history
<1>2. ASSUME NEW p \in Players, sessions'[p] # None
      PROVE  /\ DOMAIN sessions'[p] = PreviewFields
             /\ sessions'[p].core \in Cells /\ sessions'[p].left \in 0 .. PreviewUpdates
             /\ sessions'[p].ship # None => IsShip(sessions'[p].ship)
  <2>1. /\ sessions[p] # None
        /\ sessions'[p] = [sessions[p] EXCEPT !.left = IF @ = 0 THEN 0 ELSE @ - 1]
    BY <1>2 DEF UpdatePreviews
  <2>2. /\ DOMAIN sessions[p] = PreviewFields /\ sessions[p].core \in Cells
        /\ sessions[p].left \in 0 .. PreviewUpdates
        /\ sessions[p].ship # None => IsShip(sessions[p].ship)
    BY <2>1 DEF TypesInv, Ships
  <2>3. /\ DOMAIN sessions'[p] = PreviewFields /\ sessions'[p].core = sessions[p].core
        /\ sessions'[p].ship = sessions[p].ship
        /\ sessions'[p].left = IF sessions[p].left = 0 THEN 0 ELSE sessions[p].left - 1
    BY <2>1, <2>2 DEF PreviewFields
  <2>4. sessions'[p].left \in 0 .. PreviewUpdates
    BY <2>2, <2>3, BoundsAssumption
  <2>5. QED
    BY <2>2, <2>3, <2>4
<1>3. Ships'
  BY <1>1, <1>2 DEF TypesInv, Ships
<1>4. Surroundings' /\ FlightPhases'
  BY <1>1 DEF TypesInv, Surroundings, FlightPhases, body
<1>5. QED
  BY <1>3, <1>4 DEF TypesInv

LEMMA TypesInductive ==
  ASSUME SessionInv, TypesInv, [Next]_vars
  PROVE  TypesInv'
<1>1. CASE UNCHANGED vars
  BY <1>1 DEF vars, body, script, history, TypesInv, Surroundings, Ships, FlightPhases
<1>2. CASE Next
  BY <1>2, PlayersKeepTypes, PressesKeepTypes, EditKeepsTypes, TaskKeepsTypes,
     FlightsKeepTypes, PreviewsKeepTypes DEF Next
<1>3. QED
  BY <1>1, <1>2

\* The queue is as long as it has players.
LEMMA QueueLength ==
  ASSUME QueueInv
  PROVE  Len(tasks) = Cardinality(queuedControlInteractions)
<1> DEFINE n == Len(tasks)
           player == [i \in 1 .. n |-> tasks[i].player]
<1>1. n \in Nat /\ IsFiniteSet(1 .. n) /\ Cardinality(1 .. n) = n
  <2>1. n \in Nat
    BY DEF QueueInv
  <2>2. QED
    BY <2>1, FS_Interval
<1>2. player \in Bijection(1 .. n, queuedControlInteractions)
  BY DEF QueueInv, Bijection, Injection, Surjection, IsInjective
<1>3. QED
  BY <1>1, <1>2, FS_Bijection DEF ExistsBijection

\* What flies is what its player confirmed last, and every session, confirmation
\* and flight of the script is of its type: the ship of a preview, found by
\* scanAeronauticsShip round by round, is of the world's blocks however large the
\* world, and no callback leaves a session that another cannot use.
THEOREM ConfirmedFlight == Spec => []FlightIsConfirmed
<1>1. ASSUME SessionInv, TypesInv
      PROVE  FlightIsConfirmed
  <2>1. TypeOK
    BY <1>1, QueueLength DEF TypeOK, SessionInv, QueueInv, TypesInv, Surroundings, Ships,
      FlightPhases
  <2>2. QED
    BY <1>1, <2>1 DEF FlightIsConfirmed, SessionInv
<1>2. SessionInv /\ TypesInv /\ [Next]_vars => TypesInv'
  BY TypesInductive
<1>3. Init => TypesInv
  BY InitialTypes
<1>4. QED
  BY <1>1, <1>2, <1>3, SessionInvariant, PTL DEF Spec

-----------------------------------------------------------------------------
(***************************************************************************)
(* The two searches for a ship.                                            *)
(***************************************************************************)

\* A list without a repetition.
Once(s) == \A i, j \in 1..Len(s) : s[i] = s[j] => i = j

\* Functions and SequencesExt agree on what a range is.
LEMMA SameRange == \A s : Assembly!Range(s) = Range(s)
  BY DEF Assembly!Range, Range

\* Two lists of different things, one after the other.
LEMMA ConcatOnce ==
  ASSUME NEW S, NEW s \in Seq(S), NEW t \in Seq(S), Once(s), Once(t),
         Range(s) \cap Range(t) = {}
  PROVE  s \o t \in Seq(S) /\ Once(s \o t) /\ Range(s \o t) = Range(s) \cup Range(t)
<1> DEFINE u == s \o t
<1>1. Len(s) \in Nat /\ Len(t) \in Nat
  BY LenProperties
<1>2. /\ u \in Seq(S) /\ Len(u) = Len(s) + Len(t)
      /\ \A i \in 1 .. Len(s) + Len(t) : u[i] = IF i <= Len(s) THEN s[i] ELSE t[i - Len(s)]
  BY ConcatProperties
<1>3. Range(u) = Range(s) \cup Range(t)
  BY RangeConcatenation
<1>4. /\ Range(s) = {s[i] : i \in 1 .. Len(s)}
      /\ Range(t) = {t[i] : i \in 1 .. Len(t)}
  BY RangeEquality
<1> HIDE DEF u
<1>5. ASSUME NEW i \in 1 .. Len(u), NEW j \in 1 .. Len(u), u[i] = u[j] PROVE i = j
  <2>1. CASE i <= Len(s) /\ j <= Len(s)
    BY <1>1, <1>2, <1>5, <2>1 DEF Once
  <2>2. CASE ~(i <= Len(s)) /\ ~(j <= Len(s))
    <3>1. i - Len(s) \in 1 .. Len(t) /\ j - Len(s) \in 1 .. Len(t)
      BY <1>1, <1>2, <2>2
    <3>2. t[i - Len(s)] = t[j - Len(s)]
      BY <1>2, <1>5, <2>2
    <3>3. i - Len(s) = j - Len(s)
      BY <3>1, <3>2 DEF Once
    <3>4. QED
      BY <1>1, <1>2, <3>3
  <2>3. ASSUME NEW k \in 1 .. Len(u), NEW l \in 1 .. Len(u),
               k <= Len(s), ~(l <= Len(s))
        PROVE  u[k] # u[l]
    <3>1. k \in 1 .. Len(s) /\ l - Len(s) \in 1 .. Len(t)
      BY <1>1, <1>2, <2>3
    <3>2. u[k] \in Range(s) /\ u[l] \in Range(t)
      BY <1>2, <1>4, <2>3, <3>1
    <3>3. QED
      BY <3>2
  <2>4. QED
    BY <1>5, <2>1, <2>2, <2>3
<1>6. QED
  BY <1>2, <1>3, <1>5 DEF Once, u

\* One element at most.
LEMMA ShortSequences ==
  ASSUME NEW S, NEW x
  PROVE  /\ <<>> \in Seq(S) /\ Once(<<>>) /\ Range(<<>>) = {}
         /\ x \in S => <<x>> \in Seq(S) /\ Once(<<x>>) /\ Range(<<x>>) = {x}
<1>1. <<>> \in Seq(S) /\ Len(<<>>) = 0 /\ DOMAIN <<>> = {}
  OBVIOUS
<1>2. Once(<<>>) /\ Range(<<>>) = {}
  BY <1>1 DEF Once, Range
<1>3. DOMAIN <<x>> = {1} /\ Len(<<x>>) = 1 /\ <<x>>[1] = x
  OBVIOUS
<1>4. Once(<<x>>) /\ Range(<<x>>) = {x}
  BY <1>3 DEF Once, Range
<1>5. QED
  BY <1>1, <1>2, <1>4

\* The six cells around one are six, and the neighbours are among them.
LEMMA SixBeside ==
  ASSUME NEW c \in Cells
  PROVE  /\ \A d \in Neighbours(c) : \E i \in 1..6 : d = Assembly!Beside(c, i)
         /\ \A i, j \in 1..6 : Assembly!Beside(c, i) = Assembly!Beside(c, j) => i = j
<1>1. PICK x \in Int, y \in Int, z \in Int : c = <<x, y, z>>
  BY GridAssumption
<1> DEFINE B(i) == Assembly!Beside(c, i)
<1>2. /\ B(1) = [k \in 1..3 |-> <<x + 1, y, z>>[k]]
      /\ B(2) = [k \in 1..3 |-> <<x - 1, y, z>>[k]]
      /\ B(3) = [k \in 1..3 |-> <<x, y + 1, z>>[k]]
      /\ B(4) = [k \in 1..3 |-> <<x, y - 1, z>>[k]]
      /\ B(5) = [k \in 1..3 |-> <<x, y, z + 1>>[k]]
      /\ B(6) = [k \in 1..3 |-> <<x, y, z - 1>>[k]]
  BY <1>1 DEF Assembly!Beside, Assembly!Offsets
<1>3. /\ B(1) = <<x + 1, y, z>> /\ B(2) = <<x - 1, y, z>>
      /\ B(3) = <<x, y + 1, z>> /\ B(4) = <<x, y - 1, z>>
      /\ B(5) = <<x, y, z + 1>> /\ B(6) = <<x, y, z - 1>>
  BY <1>2
<1> HIDE DEF B
<1>4. \A i, j \in 1..6 : B(i) = B(j) => i = j
  BY <1>3
<1>5. ASSUME NEW d \in Neighbours(c)
      PROVE  \E i \in 1..6 : d = B(i)
  <2>1. PICK k \in 1..3, s \in {-1, 1} : d = [c EXCEPT ![k] = @ + s]
    BY DEF Neighbours
  <2>2. CASE k = 1
    BY <1>1, <1>3, <2>1, <2>2
  <2>3. CASE k = 2
    BY <1>1, <1>3, <2>1, <2>3
  <2>4. CASE k = 3
    BY <1>1, <1>3, <2>1, <2>4
  <2>5. QED
    BY <2>2, <2>3, <2>4
<1>6. QED
  BY <1>4, <1>5 DEF B

\* Around lists the cells it is given, each once.
LEMMA AroundLists ==
  ASSUME NEW c \in Cells, NEW F \in SUBSET Neighbours(c)
  PROVE  /\ Assembly!Around(c, F) \in Seq(Cells) /\ Once(Assembly!Around(c, F))
         /\ Range(Assembly!Around(c, F)) = F
<1> DEFINE B(i) == Assembly!Beside(c, i)
           At(i) == IF B(i) \in F THEN <<B(i)>> ELSE <<>>
           In(i) == {B(j) : j \in {k \in 1..i : B(k) \in F}}
           Lists(s, i) == s \in Seq(Cells) /\ Once(s) /\ Range(s) = In(i)
<1>1. F \subseteq Cells /\ In(6) = F
  BY SixBeside DEF Neighbours
<1>2. \A i, j \in 1..6 : B(i) = B(j) => i = j
  BY SixBeside
<1> HIDE DEF B
<1>3. ASSUME NEW i \in 1..6
      PROVE  /\ At(i) \in Seq(Cells) /\ Once(At(i))
             /\ Range(At(i)) = IF B(i) \in F THEN {B(i)} ELSE {}
  <2>1. CASE B(i) \in F
    BY <1>1, <2>1, ShortSequences
  <2>2. CASE B(i) \notin F
    BY <2>2, ShortSequences
  <2>3. QED
    BY <2>1, <2>2
<1>4. Lists(At(1), 1)
  BY <1>3
<1>5. ASSUME NEW s, NEW i \in 1..5, Lists(s, i)
      PROVE  Lists(s \o At(i + 1), i + 1)
  <2>1. i + 1 \in 1..6
    OBVIOUS
  <2> DEFINE t == At(i + 1)
  <2>2. t \in Seq(Cells) /\ Once(t) /\ Range(t) = IF B(i + 1) \in F THEN {B(i + 1)} ELSE {}
    BY <1>3, <2>1
  <2>3. B(i + 1) \notin In(i)
    BY <1>2, <2>1
  <2>4. In(i + 1) = In(i) \cup (IF B(i + 1) \in F THEN {B(i + 1)} ELSE {})
    <3>1. \A k : k \in 1 .. (i + 1) <=> k \in 1..i \/ k = i + 1
      OBVIOUS
    <3>2. QED
      BY <3>1
  <2> HIDE DEF t, In
  <2>5. s \in Seq(Cells) /\ Once(s) /\ Range(s) \cap Range(t) = {}
    BY <1>5, <2>2, <2>3
  <2>6. s \o t \in Seq(Cells) /\ Once(s \o t) /\ Range(s \o t) = Range(s) \cup Range(t)
    BY <2>2, <2>5, ConcatOnce
  <2>7. QED
    BY <1>5, <2>2, <2>4, <2>6 DEF t
<1> HIDE DEF At, Lists
<1>6. Lists(At(1) \o At(2) \o At(3) \o At(4) \o At(5) \o At(6), 6)
  <2>1. Lists(At(1) \o At(2), 2)
    BY <1>4, <1>5
  <2>2. Lists(At(1) \o At(2) \o At(3), 3)
    BY <2>1, <1>5
  <2>3. Lists(At(1) \o At(2) \o At(3) \o At(4), 4)
    BY <2>2, <1>5
  <2>4. Lists(At(1) \o At(2) \o At(3) \o At(4) \o At(5), 5)
    BY <2>3, <1>5
  <2>5. QED
    BY <2>4, <1>5
<1>7. Assembly!Around(c, F) = At(1) \o At(2) \o At(3) \o At(4) \o At(5) \o At(6)
  BY DEF Assembly!Around, At, B
<1>8. QED
  BY <1>1, <1>6, <1>7 DEF Lists

\* A list without a repetition is as long as the set of what it lists has elements.
LEMMA OnceCounts ==
  ASSUME NEW s \in Seq(Cells), Once(s), NEW P
  PROVE  /\ IsFiniteSet(Range(s)) /\ Cardinality(Range(s)) = Len(s)
         /\ LET D == {d \in Range(s) : d \in P}
            IN  IsFiniteSet(D) /\ Cardinality({i \in DOMAIN s : s[i] \in P}) = Cardinality(D)
<1> DEFINE all == 1 .. Len(s)
           some == {i \in all : s[i] \in P}
           listed == [i \in some |-> s[i]]
           D == {d \in Range(s) : d \in P}
<1>1. /\ Len(s) \in Nat /\ DOMAIN s = all /\ s \in [all -> Range(s)]
      /\ Range(s) = {s[i] : i \in all}
  BY LenProperties, RangeEquality DEF Range
<1>2. IsFiniteSet(all) /\ Cardinality(all) = Len(s)
  <2>1. Len(s) \in Nat
    BY LenProperties
  <2>2. QED
    BY <2>1, FS_Interval
<1>3. s \in Bijection(all, Range(s))
  BY <1>1 DEF Once, Bijection, Injection, Surjection, IsInjective
<1>4. IsFiniteSet(Range(s)) /\ Cardinality(Range(s)) = Len(s)
  BY <1>2, <1>3, FS_Bijection DEF ExistsBijection
<1>5. IsFiniteSet(some)
  BY <1>2, FS_Subset
<1>6. listed \in Bijection(some, D)
  <2>1. listed \in [some -> D]
    BY <1>1
  <2>2. \A i, j \in some : listed[i] = listed[j] => i = j
    BY DEF Once
  <2>3. \A d \in D : \E i \in some : listed[i] = d
    BY <1>1
  <2> HIDE DEF listed, some, D
  <2>4. QED
    BY <2>1, <2>2, <2>3 DEF Bijection, Injection, Surjection, IsInjective
<1> HIDE DEF listed, some, D
<1>7. IsFiniteSet(D) /\ Cardinality(some) = Cardinality(D)
  BY <1>5, <1>6, FS_Bijection DEF ExistsBijection
<1>8. QED
  BY <1>1, <1>4, <1>7 DEF some, D

-----------------------------------------------------------------------------
(* What both searches know: blocks b met before the cells q that wait.     *)

Searches(w, s, b, q) ==
  /\ b \in Seq(Cells) /\ q \in Seq(Cells) /\ Once(b \o q)
  /\ s \in Range(b \o q) /\ Range(b \o q) \subseteq Connected(w, s)
  /\ Len(b) <= MaximumBlockCount
  /\ \A e \in Range(b) : \A d \in Neighbours(e) : Solid(w, d) => d \in Range(b \o q)

\* One turn of a search: its first cell is a block, what is new around it waits.
Turns(w, b, q, b2, q2, new) ==
  /\ q # <<>> /\ Len(b) < MaximumBlockCount
  /\ new = {d \in Neighbours(Head(q)) : Solid(w, d) /\ d \notin Range(b \o q)}
  /\ b2 = Append(b, Head(q)) /\ q2 = Tail(q) \o Assembly!Around(Head(q), new)

\* A turn keeps what the searches know, and meets the new cells.
LEMMA SearchStep ==
  ASSUME NEW w, NEW s \in Cells, NEW b, NEW q, NEW b2, NEW q2, NEW F,
         Searches(w, s, b, q), Turns(w, b, q, b2, q2, F)
  PROVE  /\ Searches(w, s, b2, q2)
         /\ Head(q) \in Cells /\ Head(q) \in Range(b \o q)
         /\ Range(b2) = Range(b) \cup {Head(q)}
         /\ Range(b2 \o q2) = Range(b \o q) \cup F
<1> DEFINE c == Head(q)
           r == Tail(q)
           n == Assembly!Around(c, F)
<1>1. /\ b \in Seq(Cells) /\ q \in Seq(Cells) /\ Once(b \o q)
      /\ s \in Range(b \o q) /\ Range(b \o q) \subseteq Connected(w, s)
      /\ \A e \in Range(b) : \A d \in Neighbours(e) : Solid(w, d) => d \in Range(b \o q)
  BY DEF Searches
<1>0. /\ q # <<>> /\ c = Head(q) /\ b2 = Append(b, c) /\ q2 = r \o n
      /\ F = {d \in Neighbours(c) : Solid(w, d) /\ d \notin Range(b \o q)}
  BY DEF Turns
<1> HIDE DEF n, r, c
<1>2. /\ c \in Cells /\ r \in Seq(Cells) /\ <<c>> \in Seq(Cells) /\ Range(<<c>>) = {c}
      /\ q = <<c>> \o r
  <2>1. c \in Cells /\ r \in Seq(Cells)
    BY <1>0, <1>1, HeadTailProperties DEF r, c
  <2>2. <<c>> \in Seq(Cells) /\ Range(<<c>>) = {c}
    BY <2>1, ShortSequences
  <2>3. q = <<c>> \o r
    BY <1>0, <1>1 DEF r, c
  <2>4. QED
    BY <2>1, <2>2, <2>3
<1>3. n \in Seq(Cells) /\ Once(n) /\ Range(n) = F
  BY <1>0, <1>2, AroundLists DEF n
<1>4. b2 = b \o <<c>> /\ b2 \in Seq(Cells) /\ q2 \in Seq(Cells) /\ Len(b2) = Len(b) + 1
  <2>1. b2 = b \o <<c>> /\ b2 \in Seq(Cells) /\ Len(b2) = Len(b) + 1
    BY <1>0, <1>1, <1>2, AppendProperties, AppendIsConcat
  <2>2. q2 \in Seq(Cells)
    BY <1>0, <1>2, <1>3, ConcatProperties
  <2>3. QED
    BY <2>1, <2>2
<1>5. Range(b2) = Range(b) \cup {c}
  <2> DEFINE one == <<c>>
  <2>1. one \in Seq(Cells) /\ Range(one) = {c} /\ b2 = b \o one
    BY <1>2, <1>4
  <2> HIDE DEF one
  <2>2. Range(b \o one) = Range(b) \cup Range(one)
    BY <1>1, <2>1, RangeConcatenation
  <2>3. QED
    BY <2>1, <2>2
<1>6. b2 \o q2 = (b \o q) \o n
  <2>1. (b \o <<c>>) \o (r \o n) = b \o (<<c>> \o (r \o n))
    BY <1>1, <1>2, <1>3, ConcatProperties, ConcatAssociative
  <2>2. <<c>> \o (r \o n) = (<<c>> \o r) \o n
    BY <1>2, <1>3, ConcatAssociative
  <2>3. b \o (q \o n) = (b \o q) \o n
    BY <1>1, <1>3, ConcatAssociative
  <2>4. QED
    BY <1>0, <1>2, <1>4, <2>1, <2>2, <2>3
<1>7. b \o q \in Seq(Cells) /\ Range(b \o q) = Range(b) \cup Range(q)
  BY <1>1, ConcatProperties, RangeConcatenation
<1>8. c \in Range(b \o q)
  <2> DEFINE one == <<c>>
  <2>1. one \in Seq(Cells) /\ Range(one) = {c} /\ q = one \o r
    BY <1>2
  <2> HIDE DEF one
  <2>2. Range(one \o r) = Range(one) \cup Range(r)
    BY <1>2, <2>1, RangeConcatenation
  <2>3. QED
    BY <1>7, <2>1, <2>2
<1>9. Once(b2 \o q2) /\ Range(b2 \o q2) = Range(b \o q) \cup F
  <2> DEFINE met == b \o q
  <2>1. Range(met) \cap Range(n) = {} /\ met \in Seq(Cells) /\ Once(met) /\ b2 \o q2 = met \o n
    BY <1>0, <1>1, <1>3, <1>6, <1>7
  <2> HIDE DEF met
  <2>2. Once(met \o n) /\ Range(met \o n) = Range(met) \cup Range(n)
    BY <1>3, <2>1, ConcatOnce
  <2>3. QED
    BY <1>3, <2>1, <2>2 DEF met
<1>10. F \subseteq Connected(w, s)
  BY <1>0, <1>1, <1>8, ConnectedClosed
<1>11. \A e \in Range(b2) : \A d \in Neighbours(e) : Solid(w, d) => d \in Range(b2 \o q2)
  BY <1>0, <1>1, <1>5, <1>9
<1>12. Len(b2) <= MaximumBlockCount
  BY <1>1, <1>4, LenProperties, LimitsAssumption DEF Turns
<1>13. Searches(w, s, b2, q2)
  BY <1>1, <1>4, <1>9, <1>10, <1>11, <1>12 DEF Searches
<1>14. QED
  BY <1>2, <1>5, <1>8, <1>9, <1>13 DEF c

\* When nothing waits, the blocks are the connected cells, each once.
LEMMA SearchEnds ==
  ASSUME NEW w, NEW s \in Cells, NEW b, NEW q, Searches(w, s, b, q), q = <<>>
  PROVE  /\ b \in Seq(Cells) /\ Once(b) /\ Range(b) = Connected(w, s)
         /\ Len(b) = Cardinality(Connected(w, s)) /\ Len(b) <= MaximumBlockCount
<1>1. b \in Seq(Cells) /\ b \o q = b
  BY ConcatEmptySeq DEF Searches
<1>2. Once(b) /\ s \in Range(b) /\ Range(b) \subseteq Connected(w, s)
  BY <1>1 DEF Searches
<1>3. \A e \in Range(b) : \A d \in Neighbours(e) : Solid(w, d) => d \in Range(b)
  BY <1>1 DEF Searches
<1>4. Connected(w, s) \subseteq Range(b)
  BY <1>2, <1>3, ConnectedLeast
<1>5. Range(b) = Connected(w, s)
  BY <1>2, <1>4
<1>6. QED
  BY <1>1, <1>2, <1>5, OnceCounts DEF Searches

\* At its limit, a search that goes on has met more cells than a ship may have.
LEMMA SearchExceeds ==
  ASSUME NEW w, NEW s \in Cells, NEW b, NEW q, Searches(w, s, b, q), q # <<>>,
         Len(b) >= MaximumBlockCount
  PROVE  Cardinality(Connected(w, s)) > MaximumBlockCount
<1>1. b \in Seq(Cells) /\ q \in Seq(Cells) /\ Once(b \o q)
  BY DEF Searches
<1>2. /\ b \o q \in Seq(Cells) /\ Len(b) \in Nat /\ Len(q) \in Nat /\ Len(q) # 0
      /\ Len(b \o q) = Len(b) + Len(q)
  BY <1>1, LenProperties, EmptySeq, ConcatProperties
<1>3. Cardinality(Range(b \o q)) = Len(b \o q)
  BY <1>1, <1>2, OnceCounts
<1>4. /\ Cardinality(Range(b \o q)) <= Cardinality(Connected(w, s))
      /\ Cardinality(Connected(w, s)) \in Nat
  BY ConnectedClosed, FS_Subset, FS_CardinalityType DEF Searches
<1>5. QED
  BY <1>2, <1>3, <1>4, LimitsAssumption

\* Both modules that use ShipScan have its definitions.
LEMMA SameCardinality == \A S : Assembly!Cardinality(S) = Cardinality(S)
  BY DEF Assembly!Cardinality, Cardinality

LEMMA SameDefinitions ==
  /\ \A c : Assembly!Neighbours(c) = Neighbours(c)
  /\ \A w, c : Assembly!Solid(w, c) = Solid(w, c)
  /\ \A w, c : Assembly!Connected(w, c) = Connected(w, c)
  /\ \A S : Assembly!WithinSpan(S) = WithinSpan(S)
<1>1. \A c : Assembly!Neighbours(c) = Neighbours(c)
  BY DEF Assembly!Neighbours, Neighbours
<1>2. \A w, c : Assembly!Solid(w, c) = Solid(w, c)
  BY DEF Assembly!Solid, Solid
<1>3. \A w, c : Assembly!Connected(w, c) = Connected(w, c)
  <2> SUFFICES ASSUME NEW w, NEW c
               PROVE  Assembly!Connected(w, c) = Connected(w, c)
    OBVIOUS
  <2> DEFINE R(n) == CHOOSE f : Rounds(f, w, c, n)
  <2>1. Assembly!Connected(w, c) = R(Assembly!Cardinality(Cells))[Assembly!Cardinality(Cells)]
    BY DEF Assembly!Connected, Assembly!Neighbours, Neighbours, Assembly!Solid, Solid,
           Round, Rounds
  <2>2. Connected(w, c) = R(Cardinality(Cells))[Cardinality(Cells)]
    BY DEF Connected, Round, Rounds
  <2> HIDE DEF R
  <2>3. QED
    BY <2>1, <2>2, SameCardinality
<1>4. \A S : Assembly!WithinSpan(S) = WithinSpan(S)
  BY DEF Assembly!WithinSpan, WithinSpan
<1>5. QED
  BY <1>1, <1>2, <1>3, <1>4

LEMMA InitialSearch ==
  ASSUME NEW w, NEW s \in Cells
  PROVE  Searches(w, s, <<>>, <<s>>) /\ Range(<<>> \o <<s>>) = {s} /\ Range(<<>>) = {}
<1> DEFINE one == <<s>>
           none == <<>>
<1>1. one \in Seq(Cells) /\ Once(one) /\ Range(one) = {s}
  BY ShortSequences
<1>2. none \in Seq(Cells) /\ Range(none) = {} /\ Len(none) = 0
  BY ShortSequences
<1> HIDE DEF one, none
<1>3. none \o one = one
  BY <1>1, ConcatEmptySeq DEF none
<1>4. 0 <= MaximumBlockCount
  BY LimitsAssumption
<1>5. Searches(w, s, none, one)
  BY <1>1, <1>2, <1>3, <1>4, ConnectedClosed DEF Searches
<1>6. QED
  BY <1>1, <1>2, <1>3, <1>5 DEF one, none

-----------------------------------------------------------------------------
(* scanConnectedBlocks.                                                    *)

Ship == Connected(world, start)
Met == Range(scan.blocks \o scan.queue)

\* A cell is visited when it is the core or beside a block that was met, and a solid
\* one then is met or waits.
ScanVisits ==
  /\ Searches(world, start, scan.blocks, scan.queue)
  /\ WithinSpan(Range(scan.blocks))
  /\ Met \subseteq scan.visited
  /\ \A d \in scan.visited :
       /\ Solid(world, d) => d \in Met
       /\ d = start \/ \E e \in Range(scan.blocks) : d \in Neighbours(e)
  /\ \A e \in Range(scan.blocks) : Neighbours(e) \subseteq scan.visited
  /\ scan.unloadedBoundary <=> \E d \in scan.visited : world[d] = "unloaded"

ScanInv ==
  /\ world \in [Cells -> Kinds] /\ start \in Cells
  /\ DOMAIN scan = {"queue", "visited", "blocks", "unloadedBoundary", "status"}
  /\ scan.status = "selected_block_is_not_core" <=> world[start] # "core"
  /\ scan.status = "running" => ScanVisits
  /\ scan.status = "block_limit_exceeded" => Cardinality(Ship) > MaximumBlockCount
  /\ scan.status = "bounds_limit_exceeded" => ~WithinSpan(Ship)
  /\ scan.status \notin {"selected_block_is_not_core", "running"} \cup Assembly!Limits =>
       ScanVisits /\ scan.queue = <<>> /\ scan.status = Assembly!Finalized

\* The verdicts on a ship within the limits.
Verdicts == {"multiple_connected_cores", "missing_helm", "missing_engine", "ready"}

LEMMA FinalVerdicts == Assembly!Finalized \in Verdicts \cup {"unloaded_boundary"}
  BY DEF Assembly!Finalized, Verdicts

LEMMA InitialScan == Assembly!Init => ScanInv
<1> SUFFICES ASSUME Assembly!Init PROVE ScanInv
  OBVIOUS
<1>1. world \in [Cells -> Kinds] /\ start \in Cells
  BY ShipConstants DEF Assembly!Init
<1>2. /\ DOMAIN scan = {"queue", "visited", "blocks", "unloadedBoundary", "status"}
      /\ scan.blocks = <<>> /\ scan.queue = <<start>> /\ scan.visited = {start}
      /\ scan.unloadedBoundary = FALSE
      /\ scan.status = IF world[start] = "core" THEN "running"
                       ELSE "selected_block_is_not_core"
  BY DEF Assembly!Init
<1>3. /\ Searches(world, start, scan.blocks, scan.queue) /\ Met = {start}
      /\ Range(scan.blocks) = {}
  BY <1>1, <1>2, InitialSearch DEF Met
<1>4. WithinSpan(Range(scan.blocks))
  BY <1>3 DEF WithinSpan
<1>5. world[start] = "core" => ScanVisits
  BY <1>1, <1>2, <1>3, <1>4 DEF ScanVisits
<1>6. QED
  BY <1>1, <1>2, <1>5 DEF ScanInv, Assembly!Limits

LEMMA LookAroundKeepsScan ==
  ASSUME ScanInv, scan.status = "running", scan.queue # <<>>,
         Len(scan.blocks) < MaximumBlockCount, UNCHANGED <<world, start>>,
         WithinSpan(Range(scan.blocks) \cup {Head(scan.queue)}),
         scan' = Assembly!LookAround(Head(scan.queue))
  PROVE  ScanInv'
<1> DEFINE c == Head(scan.queue)
           fresh == Neighbours(c) \ scan.visited
           F == {d \in fresh : Solid(world, d)}
<1>1. ScanVisits
  BY DEF ScanInv
<1>2. F = {d \in Neighbours(c) : Solid(world, d) /\ d \notin Met}
  BY <1>1 DEF ScanVisits
<1>3. /\ scan' = [scan EXCEPT !.queue = Tail(@) \o Assembly!Around(c, F),
                            !.visited = @ \cup fresh,
                            !.blocks = Append(@, c),
                            !.unloadedBoundary = @ \/ \E d \in fresh : world[d] = "unloaded"]
  BY SameDefinitions DEF Assembly!LookAround
<1> HIDE DEF fresh, F, c
<1>4. /\ DOMAIN scan' = DOMAIN scan /\ scan'.status = "running"
      /\ scan'.queue = Tail(scan.queue) \o Assembly!Around(c, F)
      /\ scan'.blocks = Append(scan.blocks, c)
      /\ scan'.visited = scan.visited \cup fresh
      /\ scan'.unloadedBoundary <=>
           scan.unloadedBoundary \/ \E d \in fresh : world[d] = "unloaded"
  BY <1>3 DEF ScanInv
<1>5. /\ Searches(world, start, scan'.blocks, scan'.queue)
      /\ c \in Cells /\ c \in Met
      /\ Range(scan'.blocks) = Range(scan.blocks) \cup {c}
      /\ Range(scan'.blocks \o scan'.queue) = Met \cup F
  <2> DEFINE b == scan.blocks
             q == scan.queue
             b2 == scan'.blocks
             q2 == scan'.queue
  <2>1. /\ start \in Cells /\ Searches(world, start, b, q) /\ Turns(world, b, q, b2, q2, F)
        /\ c = Head(q) /\ Met = Range(b \o q)
    BY <1>1, <1>2, <1>4 DEF ScanVisits, ScanInv, Met, c, Turns
  <2> HIDE DEF b, q, b2, q2
  <2>2. /\ Searches(world, start, b2, q2)
        /\ Head(q) \in Cells /\ Head(q) \in Range(b \o q)
        /\ Range(b2) = Range(b) \cup {Head(q)}
        /\ Range(b2 \o q2) = Range(b \o q) \cup F
    BY ONLY <2>1, SearchStep
  <2>3. QED
    BY <2>1, <2>2 DEF b, b2, q2
<1>6. ScanVisits'
  <2>1. Met' = Met \cup F
    BY <1>5 DEF Met
  <2>2. fresh = Neighbours(c) \ scan.visited /\ F = {d \in fresh : Solid(world, d)}
    BY DEF fresh, F
  <2>3. world' = world /\ start' = start /\ WithinSpan(Range(scan'.blocks))
    BY <1>5 DEF c
  <2>4. Met' \subseteq scan'.visited
    BY <1>1, <1>4, <2>1, <2>2 DEF ScanVisits
  <2>5. \A d \in scan'.visited :
          /\ Solid(world, d) => d \in Met'
          /\ d = start \/ \E e \in Range(scan'.blocks) : d \in Neighbours(e)
    BY <1>1, <1>4, <1>5, <2>1, <2>2 DEF ScanVisits
  <2>6. \A e \in Range(scan'.blocks) : Neighbours(e) \subseteq scan'.visited
    BY <1>1, <1>4, <1>5, <2>2 DEF ScanVisits
  <2>7. scan'.unloadedBoundary <=> \E d \in scan'.visited : world[d] = "unloaded"
    BY <1>1, <1>4 DEF ScanVisits
  <2>8. QED
    BY <1>5, <2>3, <2>4, <2>5, <2>6, <2>7 DEF ScanVisits
<1>7. QED
  BY <1>4, <1>6 DEF ScanInv, Ship, Assembly!Limits

LEMMA TurnsKeepScan ==
  ASSUME ScanInv, Assembly!ScanNext
  PROVE  ScanInv'
<1> DEFINE c == Head(scan.queue)
<1>1. scan.status = "running" /\ ScanVisits /\ UNCHANGED <<world, start>>
  BY DEF Assembly!ScanNext, ScanInv
<1>2. world[start] = "core"
  BY <1>1 DEF ScanInv
<1>3. scan' = IF scan.queue = <<>> THEN [scan EXCEPT !.status = Assembly!Finalized]
              ELSE IF Len(scan.blocks) >= MaximumBlockCount
              THEN [scan EXCEPT !.status = "block_limit_exceeded"]
              ELSE IF ~WithinSpan(Range(scan.blocks) \cup {c})
              THEN [scan EXCEPT !.blocks = Append(@, c),
                                !.status = "bounds_limit_exceeded"]
              ELSE Assembly!LookAround(c)
  BY SameDefinitions, SameRange DEF Assembly!ScanNext
<1>4. CASE scan.queue = <<>>
  <2>1. /\ DOMAIN scan' = DOMAIN scan /\ scan'.status = Assembly!Finalized
        /\ scan'.queue = scan.queue /\ scan'.visited = scan.visited
        /\ scan'.blocks = scan.blocks /\ scan'.unloadedBoundary = scan.unloadedBoundary
    BY <1>3, <1>4 DEF ScanInv
  <2>2. Assembly!Finalized' = Assembly!Finalized
    BY <1>1, <2>1 DEF Assembly!Finalized, Assembly!Count
  <2>3. ScanVisits'
    BY <1>1, <2>1 DEF ScanVisits, Met
  <2>4. scan'.status \notin {"selected_block_is_not_core", "running"} \cup Assembly!Limits
    BY <2>1, FinalVerdicts DEF Verdicts, Assembly!Limits
  <2>5. QED
    BY <1>1, <1>2, <1>4, <2>1, <2>2, <2>3, <2>4 DEF ScanInv, Assembly!Limits
<1>5. CASE scan.queue # <<>> /\ Len(scan.blocks) >= MaximumBlockCount
  <2>1. DOMAIN scan' = DOMAIN scan /\ scan'.status = "block_limit_exceeded"
    BY <1>3, <1>5 DEF ScanInv
  <2>2. Cardinality(Ship) > MaximumBlockCount
    BY <1>1, <1>5, SearchExceeds DEF ScanInv, ScanVisits, Ship
  <2>3. QED
    BY <1>1, <1>2, <2>1, <2>2 DEF ScanInv, Ship, Assembly!Limits
<1>6. CASE /\ scan.queue # <<>> /\ ~(Len(scan.blocks) >= MaximumBlockCount)
           /\ ~WithinSpan(Range(scan.blocks) \cup {c})
  <2>1. DOMAIN scan' = DOMAIN scan /\ scan'.status = "bounds_limit_exceeded"
    BY <1>3, <1>6 DEF ScanInv
  <2>2. Range(scan.blocks) \cup {c} \subseteq Ship
    <3>1. Met = Range(scan.blocks) \cup Range(scan.queue) /\ Met \subseteq Ship
      BY <1>1, RangeConcatenation DEF ScanVisits, Searches, Met, Ship
    <3>2. c \in Range(scan.queue)
      <4>1. scan.queue \in Seq(Cells) /\ 1 \in DOMAIN scan.queue /\ c = scan.queue[1]
        BY <1>1, <1>6 DEF ScanVisits, Searches
      <4>2. QED
        BY <4>1 DEF Range
    <3>3. QED
      BY <3>1, <3>2
  <2>3. ~WithinSpan(Ship)
    BY <1>6, <2>2 DEF WithinSpan
  <2>4. QED
    BY <1>1, <1>2, <2>1, <2>3 DEF ScanInv, Ship, Assembly!Limits
<1>7. CASE /\ scan.queue # <<>> /\ ~(Len(scan.blocks) >= MaximumBlockCount)
           /\ WithinSpan(Range(scan.blocks) \cup {c})
  <2>1. Len(scan.blocks) < MaximumBlockCount
    <3>1. Len(scan.blocks) \in Nat
      BY <1>1, LenProperties DEF ScanVisits, Searches
    <3>2. QED
      BY <1>7, <3>1, LimitsAssumption
  <2>2. QED
    BY <1>1, <1>3, <1>7, <2>1, LookAroundKeepsScan
<1>8. QED
  BY <1>4, <1>5, <1>6, <1>7

-----------------------------------------------------------------------------
(* ShipAssemblyBuilder::build.                                             *)

Builds ==
  /\ Searches(world, start, build.connected, build.pending)
  /\ build.visited = Range(build.connected \o build.pending)

\* How a build without a flaw ends.
Built ==
  \/ ~Solid(world, start) /\ build.status = "core_not_found"
  \/ Solid(world, start) /\ world[start] # "core"
       /\ build.status = "selected_block_is_not_core"
  \/ world[start] = "core" /\ build.status = "block_limit_exceeded"
       /\ Cardinality(Ship) > MaximumBlockCount
  \/ world[start] = "core" /\ Builds /\ build.pending = <<>>
       /\ build.status = Assembly!BuildVerdict

BuildInv ==
  /\ flaw \in {"none", "mass", "duplicate"}
  /\ DOMAIN build = {"pending", "visited", "connected", "status"}
  /\ build.status = "new" =>
       build.pending = <<start>> /\ build.visited = {start} /\ build.connected = <<>>
  /\ build.status # "new" => scan.status # "running"
  /\ build.status = "running" => flaw = "none" /\ world[start] = "core" /\ Builds
  /\ build.status \notin {"new", "running"} /\ flaw = "none" => Built

LEMMA BuildVerdicts == Assembly!BuildVerdict \in Verdicts \cup {"bounds_limit_exceeded"}
  BY DEF Assembly!BuildVerdict, Verdicts

LEMMA InitialBuild == Assembly!Init => BuildInv
  BY DEF Assembly!Init, BuildInv

LEMMA ScanKeepsBuild ==
  ASSUME BuildInv, Assembly!ScanNext
  PROVE  BuildInv'
<1>1. build.status = "new" /\ UNCHANGED <<world, start, flaw, build>>
  BY DEF Assembly!ScanNext, BuildInv
<1>2. QED
  BY <1>1 DEF BuildInv

LEMMA ChecksKeepInv ==
  ASSUME ScanInv, BuildInv, Assembly!BuildChecks
  PROVE  ScanInv' /\ BuildInv'
<1>1. /\ build.status = "new" /\ scan.status # "running"
      /\ UNCHANGED <<world, start, flaw, scan>>
  BY DEF Assembly!BuildChecks
<1>2. ScanInv'
  BY <1>1 DEF ScanInv, ScanVisits, Met, Ship, Assembly!Finalized, Assembly!Count
<1>3. /\ build.pending = <<start>> /\ build.visited = {start} /\ build.connected = <<>>
      /\ start \in Cells
  BY <1>1 DEF BuildInv, ScanInv
<1>4. Builds
  BY <1>3, InitialSearch DEF Builds
<1> DEFINE verdict == CASE flaw = "mass"        -> "invalid_mass"
                        [] flaw = "duplicate"   -> "duplicate_position"
                        [] flaw = "none" /\ ~Solid(world, start) -> "core_not_found"
                        [] flaw = "none" /\ Solid(world, start) ->
                             IF world[start] = "core" THEN "running"
                             ELSE "selected_block_is_not_core"
<1>5. build' = [build EXCEPT !.status = verdict]
  BY SameDefinitions DEF Assembly!BuildChecks
<1> HIDE DEF verdict
<1>6. /\ DOMAIN build' = DOMAIN build /\ build'.status = verdict
      /\ build'.pending = build.pending /\ build'.visited = build.visited
      /\ build'.connected = build.connected
  BY <1>5 DEF BuildInv
<1>7. Builds'
  BY <1>1, <1>4, <1>6 DEF Builds
<1>8. world[start] = "core" => Solid(world, start)
  BY DEF Solid
<1>9. flaw = "none" =>
        verdict = IF ~Solid(world, start) THEN "core_not_found"
                  ELSE IF world[start] = "core" THEN "running"
                  ELSE "selected_block_is_not_core"
  BY DEF verdict
<1>10. flaw # "none" => verdict # "running" /\ verdict # "new"
  <2>1. flaw \in {"mass", "duplicate"} => verdict \in {"invalid_mass", "duplicate_position"}
    BY DEF verdict
  <2>2. QED
    BY <2>1 DEF BuildInv
<1>11. QED
  BY <1>1, <1>2, <1>6, <1>7, <1>8, <1>9, <1>10 DEF BuildInv, Built, Solid

LEMMA TurnsKeepBuild ==
  ASSUME ScanInv, BuildInv, Assembly!BuildNext
  PROVE  ScanInv' /\ BuildInv'
<1> DEFINE c == Head(build.pending)
           connected == Append(build.connected, c)
           fresh == {d \in Neighbours(c) \ build.visited : Solid(world, d)}
<1>1. build.status = "running" /\ UNCHANGED <<world, start, flaw, scan>>
  BY DEF Assembly!BuildNext
<1>2. /\ scan.status # "running" /\ flaw = "none" /\ world[start] = "core" /\ Builds
      /\ start \in Cells
  BY <1>1 DEF BuildInv, ScanInv
<1>3. ScanInv'
  BY <1>1 DEF ScanInv, ScanVisits, Met, Ship, Assembly!Finalized, Assembly!Count
<1>4. build' = IF build.pending = <<>> THEN [build EXCEPT !.status = Assembly!BuildVerdict]
               ELSE IF Assembly!OverLimit(connected)
               THEN [build EXCEPT !.connected = connected,
                                  !.status = "block_limit_exceeded"]
               ELSE [build EXCEPT !.pending = Tail(@) \o Assembly!Around(c, fresh),
                                  !.visited = @ \cup fresh,
                                  !.connected = connected]
  BY SameDefinitions DEF Assembly!BuildNext
<1>5. CASE build.pending = <<>>
  <2>1. /\ DOMAIN build' = DOMAIN build /\ build'.status = Assembly!BuildVerdict
        /\ build'.pending = build.pending /\ build'.visited = build.visited
        /\ build'.connected = build.connected
    BY <1>4, <1>5 DEF BuildInv
  <2>2. Assembly!BuildVerdict' = Assembly!BuildVerdict
    BY <1>1, <2>1 DEF Assembly!BuildVerdict, Assembly!Count
  <2>3. Builds'
    BY <1>1, <1>2, <2>1 DEF Builds
  <2>4. QED
    BY <1>1, <1>2, <1>3, <1>5, <2>1, <2>2, <2>3, BuildVerdicts
    DEF BuildInv, Built, Verdicts
<1>6. CASE build.pending # <<>> /\ Assembly!OverLimit(connected)
  <2>1. DOMAIN build' = DOMAIN build /\ build'.status = "block_limit_exceeded"
    BY <1>4, <1>6 DEF BuildInv
  <2>2. build.connected \in Seq(Cells) /\ c \in Cells /\ Len(build.connected) \in Nat
    BY <1>2, <1>6, HeadTailProperties, LenProperties DEF Builds, Searches
  <2>3. Len(connected) = Len(build.connected) + 1
    BY <2>2, AppendProperties
  <2>4. Len(build.connected) >= MaximumBlockCount
    BY <1>6, <2>2, <2>3, LimitsAssumption DEF Assembly!OverLimit
  <2>5. Cardinality(Ship) > MaximumBlockCount
    BY <1>2, <1>6, <2>4, SearchExceeds DEF Builds, Ship
  <2>6. QED
    BY <1>1, <1>2, <1>3, <2>1, <2>5 DEF BuildInv, Built, Ship
<1>7. CASE build.pending # <<>> /\ ~Assembly!OverLimit(connected)
  <2> DEFINE b == build.connected
             q == build.pending
             b2 == build'.connected
             q2 == build'.pending
             F == fresh
  <2>1. /\ DOMAIN build' = DOMAIN build /\ build'.status = "running"
        /\ q2 = Tail(q) \o Assembly!Around(c, fresh) /\ b2 = connected
        /\ build'.visited = build.visited \cup fresh
    BY <1>1, <1>4, <1>7 DEF BuildInv
  <2>2. Searches(world, start, b, q) /\ build.visited = Range(b \o q) /\ start \in Cells
    BY <1>2 DEF Builds
  <2>3. Len(b) < MaximumBlockCount
    <3>1. b \in Seq(Cells) /\ c \in Cells /\ Len(b) \in Nat
      BY <1>2, <1>7, HeadTailProperties, LenProperties DEF Builds, Searches
    <3>2. Len(connected) = Len(b) + 1
      BY <3>1, AppendProperties
    <3>3. QED
      BY <1>7, <3>1, <3>2, LimitsAssumption DEF Assembly!OverLimit
  <2>4. Turns(world, b, q, b2, q2, F)
    BY <1>7, <2>1, <2>2, <2>3 DEF Turns
  <2> HIDE DEF b, q, b2, q2, F
  <2>5. Searches(world, start, b2, q2) /\ Range(b2 \o q2) = Range(b \o q) \cup F
    BY ONLY <2>2, <2>4, SearchStep
  <2>6. Builds'
    BY <1>1, <2>1, <2>2, <2>5 DEF Builds, b2, q2, F
  <2>7. QED
    BY <1>1, <1>2, <1>3, <2>1, <2>6 DEF BuildInv
<1>8. QED
  BY <1>5, <1>6, <1>7

-----------------------------------------------------------------------------
(* What the searches come to.                                              *)

OfKind(kind) == {d \in Ship : world[d] = kind}

\* The verdict on a ship within the limits and without an unloaded neighbour.
Verdict ==
  IF Cardinality(OfKind("core")) # 1 THEN "multiple_connected_cores"
  ELSE IF Cardinality(OfKind("helm")) = 0 THEN "missing_helm"
  ELSE IF Cardinality(OfKind("engine")) = 0 THEN "missing_engine"
  ELSE "ready"

LEMMA Counted ==
  ASSUME NEW b \in Seq(Cells), Once(b), Range(b) = Ship, NEW kind
  PROVE  IsFiniteSet(OfKind(kind)) /\ Assembly!Count(b, kind) = Cardinality(OfKind(kind))
<1> DEFINE P == {d \in Ship : world[d] = kind}
           D == {d \in Range(b) : d \in P}
<1>1. D = OfKind(kind)
  BY DEF OfKind
<1>2. {i \in DOMAIN b : b[i] \in P} = {i \in DOMAIN b : world[b[i]] = kind}
  BY DEF Range
<1> HIDE DEF P
<1>3. IsFiniteSet(D) /\ Cardinality({i \in DOMAIN b : b[i] \in P}) = Cardinality(D)
  BY OnceCounts
<1>4. Assembly!Count(b, kind) = Cardinality({i \in DOMAIN b : world[b[i]] = kind})
  BY SameCardinality DEF Assembly!Count
<1>5. QED
  BY <1>1, <1>2, <1>3, <1>4

\* A scan that gets to its end has the ship, within the limits.
LEMMA ScanEnds ==
  ASSUME ScanInv,
         scan.status \notin {"selected_block_is_not_core", "running"} \cup Assembly!Limits
  PROVE  /\ Range(scan.blocks) = Ship /\ Len(scan.blocks) = Cardinality(Ship)
         /\ Cardinality(Ship) <= MaximumBlockCount /\ WithinSpan(Ship)
         /\ scan.unloadedBoundary <=>
              \E d \in Ship : \E e \in Neighbours(d) : world[e] = "unloaded"
         /\ scan.status = IF scan.unloadedBoundary THEN "unloaded_boundary" ELSE Verdict
<1>1. /\ ScanVisits /\ scan.queue = <<>> /\ scan.status = Assembly!Finalized
      /\ start \in Cells /\ world[start] = "core"
  BY DEF ScanInv
<1>2. /\ scan.blocks \in Seq(Cells) /\ Once(scan.blocks) /\ Range(scan.blocks) = Ship
      /\ Len(scan.blocks) = Cardinality(Ship) /\ Len(scan.blocks) <= MaximumBlockCount
  BY <1>1, SearchEnds DEF ScanVisits, Ship
<1>3. \A kind : Assembly!Count(scan.blocks, kind) = Cardinality(OfKind(kind))
  BY <1>2, Counted
<1>4. scan.status = IF scan.unloadedBoundary THEN "unloaded_boundary" ELSE Verdict
  BY <1>1, <1>3 DEF Assembly!Finalized, Verdict
<1>5. scan.unloadedBoundary <=>
        \E d \in Ship : \E e \in Neighbours(d) : world[e] = "unloaded"
  BY <1>1, <1>2 DEF ScanVisits
<1>6. QED
  BY <1>1, <1>2, <1>4, <1>5 DEF ScanVisits

\* Scan, of which a ship is the set of cells it is defined on.
LEMMA Scanned ==
  ASSUME ScanInv
  PROVE  Assembly!Scan(world, start) # None <=>
           /\ world[start] = "core" /\ Cardinality(Ship) <= MaximumBlockCount
           /\ WithinSpan(Ship)
           /\ \A d \in Ship : \A e \in Neighbours(d) : world[e] # "unloaded"
           /\ Verdict = "ready"
<1> DEFINE ship == [d \in Ship |-> world[d]]
<1>1. /\ world \in [Cells -> Kinds] /\ start \in Cells
      /\ Ship \subseteq Cells /\ IsFiniteSet(Ship)
  BY ConnectedClosed, ConnectedCells DEF ScanInv, Ship
<1>2. \A kind : Assembly!Has(ship, kind) = OfKind(kind)
  BY DEF Assembly!Has, OfKind
<1>3. ship # None
  BY <1>1, NoneAssumption
<1>4. DOMAIN ship = Ship
  OBVIOUS
<1>5. Assembly!Scan(world, start) =
        IF /\ world[start] = "core"
           /\ Cardinality(DOMAIN ship) <= MaximumBlockCount
           /\ WithinSpan(DOMAIN ship)
           /\ \A d \in DOMAIN ship : \A e \in Neighbours(d) : world[e] # "unloaded"
           /\ Cardinality(Assembly!Has(ship, "core")) = 1
           /\ Assembly!Has(ship, "helm") # {}
           /\ Assembly!Has(ship, "engine") # {}
        THEN ship ELSE None
  BY SameDefinitions, SameCardinality DEF Assembly!Scan, Ship
<1> HIDE DEF ship
<1>6. \A kind : OfKind(kind) = {} <=> Cardinality(OfKind(kind)) = 0
  <2>1. \A kind : IsFiniteSet(OfKind(kind))
    BY <1>1, FS_Subset DEF OfKind
  <2>2. QED
    BY <2>1, FS_EmptySet
<1>7. Verdict = "ready" <=> /\ Cardinality(OfKind("core")) = 1
                            /\ Cardinality(OfKind("helm")) # 0
                            /\ Cardinality(OfKind("engine")) # 0
  BY DEF Verdict
<1>8. QED
  BY <1>2, <1>3, <1>4, <1>5, <1>6, <1>7

LEMMA ScanDefined == ASSUME ScanInv PROVE Assembly!ScanIsItsDefinition
<1>1. SUFFICES ASSUME scan.status # "running"
               PROVE  /\ scan.status = "ready" <=> Assembly!Scan(world, start) # None
                      /\ scan.status = "ready" =>
                           /\ Range(scan.blocks) = Ship
                           /\ Len(scan.blocks) = Cardinality(Ship)
  BY SameDefinitions, SameRange, SameCardinality DEF Assembly!ScanIsItsDefinition, Ship
<1>2. CASE scan.status = "selected_block_is_not_core"
  BY <1>2, Scanned DEF ScanInv
<1>3. CASE scan.status = "block_limit_exceeded"
  <2>1. Cardinality(Ship) > MaximumBlockCount /\ Cardinality(Ship) \in Nat
    BY <1>3, ConnectedClosed, FS_CardinalityType DEF ScanInv, Ship
  <2>2. ~(Cardinality(Ship) <= MaximumBlockCount)
    BY <2>1, LimitsAssumption
  <2>3. QED
    BY <1>3, <2>2, Scanned
<1>4. CASE scan.status = "bounds_limit_exceeded"
  BY <1>4, Scanned DEF ScanInv
<1>5. CASE scan.status \notin {"selected_block_is_not_core", "running"} \cup Assembly!Limits
  BY <1>5, ScanEnds, Scanned DEF ScanInv, Verdict
<1>6. QED
  BY <1>1, <1>2, <1>3, <1>4, <1>5 DEF Assembly!Limits

LEMMA BuilderAgrees == ASSUME ScanInv, BuildInv PROVE Assembly!NativeBuilderAgrees
<1>1. SUFFICES ASSUME build.status \notin {"new", "running"}, flaw = "none",
                      ~scan.unloadedBoundary
               PROVE  /\ build.status \in Assembly!Limits <=> scan.status \in Assembly!Limits
                      /\ build.status \notin Assembly!Limits =>
                           \/ build.status = scan.status
                           \/ /\ build.status = "core_not_found"
                              /\ scan.status = "selected_block_is_not_core"
                      /\ build.status = "ready" => Range(build.connected) = Range(scan.blocks)
  BY SameRange DEF Assembly!NativeBuilderAgrees
<1>2. Built /\ scan.status # "running"
  BY <1>1 DEF BuildInv
<1>3. CASE world[start] # "core"
  <2>1. /\ build.status \in {"core_not_found", "selected_block_is_not_core"}
        /\ scan.status = "selected_block_is_not_core"
    BY <1>2, <1>3 DEF Built, ScanInv
  <2>2. QED
    BY <2>1 DEF Assembly!Limits
<1>4. CASE world[start] = "core"
  <2> DEFINE small == Cardinality(Ship) <= MaximumBlockCount
  <2>1. Cardinality(Ship) > MaximumBlockCount <=> ~small
    BY ConnectedClosed, FS_CardinalityType, LimitsAssumption DEF ScanInv, Ship
  <2>2. \/ scan.status = "block_limit_exceeded" /\ ~small
        \/ scan.status = "bounds_limit_exceeded" /\ ~WithinSpan(Ship)
        \/ scan.status = Verdict /\ small /\ WithinSpan(Ship) /\ Range(scan.blocks) = Ship
    BY <1>1, <1>2, <1>4, <2>1, ScanEnds DEF ScanInv, Assembly!Limits
  <2>3. \/ build.status = "block_limit_exceeded" /\ ~small
        \/ /\ build.status = IF WithinSpan(Ship) THEN Verdict ELSE "bounds_limit_exceeded"
           /\ small /\ Range(build.connected) = Ship
    <3>1. CASE Builds /\ build.pending = <<>> /\ build.status = Assembly!BuildVerdict
      <4>1. /\ build.connected \in Seq(Cells) /\ Once(build.connected)
            /\ Range(build.connected) = Ship /\ small
        BY <3>1, SearchEnds DEF Builds, Ship, ScanInv
      <4>2. \A kind : Assembly!Count(build.connected, kind) = Cardinality(OfKind(kind))
        BY <4>1, Counted
      <4>3. build.status = IF WithinSpan(Ship) THEN Verdict ELSE "bounds_limit_exceeded"
        BY <3>1, <4>1, <4>2, SameDefinitions, SameRange DEF Assembly!BuildVerdict, Verdict
      <4>4. QED
        BY <4>1, <4>3
    <3>2. QED
      BY <1>2, <1>4, <2>1, <3>1 DEF Built, Solid
  <2>4. Verdict \in Verdicts
    BY DEF Verdict, Verdicts
  <2> HIDE DEF small
  <2>5. QED
    BY <2>2, <2>3, <2>4 DEF Verdicts, Assembly!Limits
<1>5. QED
  BY <1>3, <1>4

(***************************************************************************)
(* SearchesAgree, for any grid, worlds and limits: scanConnectedBlocks     *)
(* accepts exactly the ships that Scan defines, with all of their blocks,  *)
(* each once; and ShipAssemblyBuilder::build, which tests its limits at    *)
(* other points of its loop, comes to the same verdict on the same blocks. *)
(***************************************************************************)
THEOREM AgreeingSearches == CoresSpec => []SearchesAgree
<1> DEFINE ShipInv == part = "assembly" => ScanInv /\ BuildInv
<1>1. CoresInit => ShipInv
  BY InitialScan, InitialBuild DEF CoresInit
<1>2. ShipInv /\ [CoresNext]_<<part, proxyVars, pilotVars, shipVars>> => ShipInv'
  <2> SUFFICES ASSUME ShipInv, [CoresNext]_<<part, proxyVars, pilotVars, shipVars>>,
                      part' = "assembly"
               PROVE  ScanInv' /\ BuildInv'
    OBVIOUS
  <2>1. CASE UNCHANGED <<part, shipVars>>
    <3>1. UNCHANGED <<world, start, flaw, scan, build>> /\ ScanInv /\ BuildInv
      BY <2>1 DEF shipVars
    <3>2. QED
      BY <3>1 DEF ScanInv, ScanVisits, Met, Ship, BuildInv, Built, Builds, Assembly!Finalized,
                  Assembly!BuildVerdict, Assembly!Count
  <2>2. CASE part = "assembly" /\ Assembly!Next
    BY <2>2, TurnsKeepScan, ScanKeepsBuild, ChecksKeepInv, TurnsKeepBuild DEF Assembly!Next
  <2>3. QED
    BY <2>1, <2>2 DEF CoresNext
<1>3. ShipInv => SearchesAgree
  BY ScanDefined, BuilderAgrees DEF SearchesAgree
<1>4. QED
  BY <1>1, <1>2, <1>3, PTL DEF CoresSpec

-----------------------------------------------------------------------------
(***************************************************************************)
(* The native flight.                                                      *)
(***************************************************************************)

\* Rounded quotients and limited quantities are integers.
LEMMA TruncatedType ==
  ASSUME NEW a \in Int, NEW b \in Nat, b > 0
  PROVE  Native!Truncated(a, b) \in Int
  BY DEF Native!Truncated

LEMMA ClampType ==
  ASSUME NEW x \in Int, NEW low \in Int, NEW high \in Int
  PROVE  Native!Clamp(x, low, high) \in Int
  BY DEF Native!Clamp

\* A ship in flight has a mass to divide its thrust by.
LEMMA AccelerationType ==
  ASSUME Native!FliesOnlyWithLift, phase # "idle"
  PROVE  Native!acceleration \in Int
<1> DEFINE target == IF phase = "returning" THEN 0 ELSE Native!targetAltitude
           commanded == Native!Truncated(9 * (target - altitude), 2) - 4 * velocity
           thrust == Native!Clamp(Native!gravity + commanded, 0, Native!maximumThrust)
<1>1. /\ massKilograms \in Nat /\ massKilograms > 0 /\ engineCount \in Nat
      /\ altitude \in Int /\ velocity \in Int
  BY DEF Native!FliesOnlyWithLift, Native!TypeOK, Native!hasLiftAuthority
<1>2. Native!maximumThrust \in Int
  BY <1>1 DEF Native!maximumThrust
<1>3. target \in Int
  BY DEF Native!targetAltitude
<1>4. commanded \in Int
  <2>1. 9 * (target - altitude) \in Int
    BY <1>1, <1>3
  <2>2. Native!Truncated(9 * (target - altitude), 2) \in Int
    BY <2>1, TruncatedType
  <2>3. QED
    BY <1>1, <2>2
<1>5. Native!gravity \in Int /\ Native!maximumUpwardAcceleration \in Int
  BY DEF Native!gravity, Native!maximumUpwardAcceleration
<1> HIDE DEF commanded
<1>6. thrust - Native!gravity \in Int
  <2>1. Native!gravity + commanded \in Int
    BY <1>4, <1>5
  <2>2. thrust \in Int
    BY <2>1, <1>2, ClampType
  <2>3. QED
    BY <2>2, <1>5
<1>7. -Native!gravity \in Int
  BY <1>5
<1>8. Native!Clamp(thrust - Native!gravity,
            -Native!gravity, Native!maximumUpwardAcceleration) \in Int
  BY <1>5, <1>6, <1>7, ClampType
<1>9. Native!acceleration = IF near THEN commanded
                     ELSE Native!Clamp(thrust - Native!gravity,
                                -Native!gravity, Native!maximumUpwardAcceleration)
  BY DEF Native!acceleration, commanded, thrust
<1>10. QED
  BY <1>4, <1>8, <1>9

\* A ship that is put at its anchor flies nowhere, whatever it is made of.
LEMMA AnchorKeepsLift ==
  ASSUME Native!AtAnchor, massKilograms' \in Nat, engineCount' \in Nat
  PROVE  Native!FliesOnlyWithLift'
<1>1. phase' = "idle" /\ altitude' = 0 /\ velocity' = 0 /\ underway' = 0
  BY DEF Native!AtAnchor
<1>2. near' \in BOOLEAN
  BY DEF Native!AtAnchor
<1>3. Native!TypeOK'
  BY <1>1, <1>2 DEF Native!TypeOK, Native!Phases
<1>4. QED
  BY <1>1, <1>3, Zenon DEF Native!FliesOnlyWithLift

LEMMA StepKeepsLift ==
  ASSUME Native!FliesOnlyWithLift, Native!step
  PROVE  Native!FliesOnlyWithLift'
<1> DEFINE v == velocity + Native!Truncated(Native!acceleration, 20)
           a == altitude + Native!Truncated(v, 20)
<1>1. phase # "idle" /\ Native!hasLiftAuthority /\ UNCHANGED Native!ship
  BY DEF Native!step, Native!FliesOnlyWithLift
<1>2. v \in Int /\ a \in Int
  <2>1. Native!Truncated(Native!acceleration, 20) \in Int
    BY AccelerationType, <1>1, TruncatedType
  <2>2. v \in Int
    BY <2>1 DEF Native!FliesOnlyWithLift, Native!TypeOK
  <2>3. Native!Truncated(v, 20) \in Int
    BY <2>2, TruncatedType
  <2>4. QED
    BY <2>2, <2>3 DEF Native!FliesOnlyWithLift, Native!TypeOK
<1> HIDE DEF v, a
<1>3. Native!hasLiftAuthority'
  BY <1>1 DEF Native!hasLiftAuthority, Native!ship
<1>4. massKilograms' \in Nat /\ engineCount' \in Nat
  BY <1>1 DEF Native!ship, Native!FliesOnlyWithLift, Native!TypeOK
<1>5. CASE Native!AtAnchor
  BY <1>4, <1>5, AnchorKeepsLift
<1>6. CASE Native!Move(a, v)
  <2>1. altitude' \in Int /\ velocity' \in Int /\ near' \in BOOLEAN
    BY <1>2, <1>6 DEF Native!Move
  <2>2. phase' \in Native!Phases /\ phase' # "idle"
    BY <1>1, <1>6 DEF Native!Move, Native!Phases, Native!FliesOnlyWithLift, Native!TypeOK
  <2>3. underway' \in Nat
    BY <1>6 DEF Native!Move, Native!FliesOnlyWithLift, Native!TypeOK
  <2>4. QED
    BY <1>3, <1>4, <2>1, <2>2, <2>3 DEF Native!FliesOnlyWithLift, Native!TypeOK
<1>7. Native!AtAnchor \/ Native!Move(a, v)
  BY DEF Native!step, a, v
<1>8. QED
  BY <1>5, <1>6, <1>7

LEMMA NextKeepsLift ==
  ASSUME Native!FliesOnlyWithLift, [Native!Next]_(Native!vars)
  PROVE  Native!FliesOnlyWithLift'
<1>1. CASE \E m \in Masses, n \in Engines : Native!confirmAssembly(m, n)
  <2>1. PICK m \in Masses, n \in Engines : Native!confirmAssembly(m, n)
    BY <1>1
  <2>2. massKilograms' \in Nat /\ engineCount' \in Nat
    BY <2>1, ProxyConstants DEF Native!confirmAssembly
  <2>3. QED
    BY <2>1, <2>2, AnchorKeepsLift DEF Native!confirmAssembly
<1>2. CASE Native!engage
  BY <1>2 DEF Native!engage, Native!ship, Native!FliesOnlyWithLift, Native!TypeOK,
    Native!Phases, Native!hasLiftAuthority
<1>3. CASE Native!requestReturn
  BY <1>3 DEF Native!requestReturn, Native!ship, Native!FliesOnlyWithLift, Native!TypeOK,
    Native!Phases, Native!hasLiftAuthority
<1>4. CASE Native!step
  BY <1>4, StepKeepsLift
<1>5. CASE Native!reset
  BY <1>5, AnchorKeepsLift DEF Native!reset, Native!ship, Native!FliesOnlyWithLift,
    Native!TypeOK
<1>6. CASE UNCHANGED Native!vars
  BY <1>6 DEF Native!vars, Native!ship, Native!state, Native!FliesOnlyWithLift, Native!TypeOK,
    Native!hasLiftAuthority
<1>7. QED
  BY <1>1, <1>2, <1>3, <1>4, <1>5, <1>6 DEF Native!Next

LEMMA InitialLift == Native!Init => Native!FliesOnlyWithLift
<1>1. Native!Init => Native!TypeOK
  <2> SUFFICES ASSUME Native!Init PROVE Native!TypeOK
    OBVIOUS
  <2>1. near \in BOOLEAN
    BY Zenon DEF Native!Init
  <2>2. QED
    BY <2>1 DEF Native!Init, Native!TypeOK, Native!Phases
<1>2. Native!Init => phase = "idle" /\ altitude = 0 /\ velocity = 0
  BY DEF Native!Init
<1>3. QED
  BY <1>1, <1>2, Zenon DEF Native!FliesOnlyWithLift

\* engage() checks the lift once; confirmAssembly() and reset() bring the ship
\* back to its anchor, so that no order of calls leaves a ship in the air that
\* its engines cannot carry.
THEOREM LiftSafety == Native!Spec => []FliesOnlyWithLift
<1>1. Native!Init => Native!FliesOnlyWithLift
  BY InitialLift
<1>2. Native!FliesOnlyWithLift /\ [Native!Next]_(Native!vars) => Native!FliesOnlyWithLift'
  BY NextKeepsLift
<1>3. QED
  BY <1>1, <1>2, PTL DEF Native!Spec, FliesOnlyWithLift

(***************************************************************************)
(* The band.  In the plane of height and speed, a ship that is away from   *)
(* its anchor stays under a line that meets the speed zero four            *)
(* centimetres over the target: the controller is all but critically       *)
(* damped, so the line need only lean a little less than its slow          *)
(* direction.  Clamped thrust pushes it further under the line.  On the    *)
(* way up it also stays over a second line, because the spare thrust of    *)
(* hasLiftAuthority() outweighs what the controller takes back.            *)
(***************************************************************************)

\* No ship this far above its anchor goes so fast that it leaves the band.
Under(a, v) ==
  /\ 100 * v <= 236 * (4000000 - a) + 10000000
  /\ v <= 4500100
  /\ a <= 4043000

\* A ship that was engaged sinks slowly and, if it does, near its target.
Rising(a, v) ==
  /\ a >= 0 /\ v >= -60000
  /\ v < 0 => 5 * (4000000 - a) <= 310000 + v

\* What controller, clamps and integration do to height a and speed v.
Controlled(a, v, target, commanded, push, w, b) ==
  /\ {a, v, commanded, push, w, b} \subseteq Int
  /\ 9 * (target - a) - 8 * v - 1 <= 2 * commanded
  /\ 2 * commanded <= 9 * (target - a) - 8 * v + 1
  /\ -9810000 <= push /\ push <= 6000000
  /\ push <= commanded \/ push = -9810000
  /\ push >= commanded \/ push >= 490500
  /\ push - 19 <= 20 * (w - v) /\ 20 * (w - v) <= push + 19
  /\ w - 19 <= 20 * (b - a) /\ 20 * (b - a) <= w + 19

LEMMA UnderStays ==
  ASSUME NEW a, NEW v, NEW target \in {0, 4000000}, NEW commanded, NEW push, NEW w, NEW b,
         Controlled(a, v, target, commanded, push, w, b), Under(a, v), a >= 0
  PROVE  Under(b, w)
<1>1. /\ a \in Int /\ v \in Int /\ commanded \in Int /\ push \in Int
      /\ w \in Int /\ b \in Int /\ target \in Int /\ 0 <= target /\ target <= 4000000
  BY SMT DEF Controlled
<1>2. \/ push <= commanded
      \/ /\ push = -9810000
         /\ 2 * commanded <= 9 * (4000000 - a) - 8 * v + 1
  BY <1>1, SMT DEF Controlled
<1>3. 2 * push <= 9 * (4000000 - a) - 8 * v + 1
  BY <1>1, <1>2, SMTT(30) DEF Controlled, Under
<1>4. w <= 4500100
  BY <1>1, <1>3, SMTT(30) DEF Controlled, Under
<1>5. 100 * w <= 236 * (4000000 - b) + 10000000
  BY <1>1, <1>3, SMTT(30) DEF Controlled, Under
<1>6. b <= 4043000
  BY <1>1, <1>5, SMTT(30) DEF Controlled, Under
<1>7. QED
  BY <1>4, <1>5, <1>6 DEF Under

LEMMA RisingStays ==
  ASSUME NEW a, NEW v, NEW commanded, NEW push, NEW w, NEW b,
         Controlled(a, v, 4000000, commanded, push, w, b), Under(a, v), Rising(a, v)
  PROVE  /\ Rising(b, w)
         /\ a >= 3920000 => b >= 3920000
<1>1. /\ a \in Int /\ v \in Int /\ commanded \in Int /\ push \in Int
      /\ w \in Int /\ b \in Int
  BY SMT DEF Controlled
<1>2. w >= -60000
  BY <1>1, SMTT(30) DEF Controlled, Under, Rising
<1>3. w < 0 => 5 * (4000000 - b) <= 310000 + w
  BY <1>1, <1>2, SMTT(30) DEF Controlled, Under, Rising
<1>4. b >= 0
  BY <1>1, <1>2, <1>3, SMTT(30) DEF Controlled, Rising
<1>5. a >= 3920000 => b >= 3920000
  BY <1>1, <1>2, <1>3, SMTT(30) DEF Controlled, Rising
<1>6. QED
  BY <1>2, <1>3, <1>4, <1>5 DEF Rising

\* The thrust of a ship with lift authority outweighs it by a twentieth.
LEMMA SpareThrust ==
  ASSUME Native!FliesOnlyWithLift, phase # "idle"
  PROVE  Native!maximumThrust \in Int /\ Native!maximumThrust >= 10300500
<1>1. /\ massKilograms \in Nat \ {0} /\ engineCount \in Nat
      /\ engineCount * 250000000 > massKilograms * 103005
  BY SMT DEF Native!FliesOnlyWithLift, Native!TypeOK, Native!hasLiftAuthority
<1>2. ASSUME NEW n \in Nat, NEW m \in Nat \ {0}, n > m * 103005
      PROVE  n \div m \in Int /\ n \div m >= 103005
  <2>1. n \div m \in Int /\ n < m * (n \div m) + m
    BY SMT
  <2> DEFINE q == n \div m
  <2>2. q \in Int /\ n < m * q + m
    BY <2>1
  <2> HIDE DEF q
  <2>3. q >= 103005
    <3>1. SUFFICES ASSUME q + 1 <= 103005 PROVE FALSE
      BY <2>2, SMT
    <3>2. m * (q + 1) <= m * 103005
      BY <2>2, <3>1, SMT
    <3>3. m * (q + 1) = m * q + m
      BY <2>2, SMT
    <3>4. m * q \in Int /\ m * 103005 \in Int
      BY <2>2, SMT
    <3>5. QED
      BY <1>2, <2>2, <3>2, <3>3, <3>4, SMT
  <2>4. QED
    BY <2>2, <2>3 DEF q
<1> DEFINE n == engineCount * 250000000
<1>3. n \in Nat
  BY <1>1, SMT
<1>4. n > massKilograms * 103005
  BY <1>1
<1> HIDE DEF n
<1>5. n \div massKilograms \in Int /\ n \div massKilograms >= 103005
  BY <1>1, <1>2, <1>3, <1>4
<1>6. Native!maximumThrust = (n \div massKilograms) * 100
  BY DEF Native!maximumThrust, n
<1> DEFINE q == n \div massKilograms
<1>7. q \in Int /\ q >= 103005 /\ Native!maximumThrust = q * 100
  BY <1>5, <1>6
<1> HIDE DEF q
<1>8. QED
  BY <1>7, SMT

LEMMA TruncatedNear ==
  /\ \A r \in Int : /\ Native!Truncated(r, 20) \in Int
                    /\ r - 19 <= 20 * Native!Truncated(r, 20)
                    /\ 20 * Native!Truncated(r, 20) <= r + 19
  /\ \A r \in Int : /\ Native!Truncated(r, 2) \in Int
                    /\ r - 1 <= 2 * Native!Truncated(r, 2)
                    /\ 2 * Native!Truncated(r, 2) <= r + 1
BY SMT DEF Native!Truncated

\* Where a step takes a ship that does not land.
LEMMA Moves ==
  ASSUME NEW a \in Int, NEW v \in Int, Native!Move(a, v)
  PROVE  /\ altitude' = a \/ altitude' = 2 * a
         /\ ~near' => altitude' = a /\ velocity' = v
         /\ phase # "returning" => near' = FALSE
         /\ near /\ phase = "returning" => near' = TRUE
         /\ phase' = IF phase # "returning" /\ Native!Hovers(a, v) THEN "hovering"
                     ELSE phase
<1> DEFINE small(r) == Native!Within(a, r) /\ Native!Within(v, r)
           close == phase = "returning" /\ (near \/ small(Native!NearAnchor))
           scale == IF close /\ small(Native!Precision) THEN 2 ELSE 1
<1>1. /\ near' = close /\ altitude' = scale * a /\ velocity' = scale * v
      /\ phase' = IF phase # "returning" /\ Native!Hovers(a, v) THEN "hovering"
                  ELSE phase
  BY Zenon DEF Native!Move
<1>2. (scale = 1 \/ scale = 2) /\ (~close => scale = 1)
  OBVIOUS
<1>3. /\ phase # "returning" => close = FALSE
      /\ near /\ phase = "returning" => close = TRUE
  OBVIOUS
<1> HIDE DEF scale, close
<1>4. /\ altitude' = a \/ altitude' = 2 * a
      /\ scale = 1 => altitude' = a /\ velocity' = v
  BY <1>1, <1>2, SMT
<1>5. ~near' => altitude' = a /\ velocity' = v
  BY <1>1, <1>2, <1>4
<1>6. QED
  BY <1>1, <1>3, <1>4, <1>5

\* step() away from the anchor.
LEMMA StepControls ==
  ASSUME Native!FliesOnlyWithLift, phase # "idle", ~near
  PROVE  LET target == IF phase = "returning" THEN 0 ELSE 4000000
             w == velocity + Native!Truncated(Native!acceleration, 20)
             b == altitude + Native!Truncated(w, 20)
         IN  \E c : Controlled(altitude, velocity, target, c, Native!acceleration, w, b)
<1> DEFINE target == IF phase = "returning" THEN 0 ELSE 4000000
           c == Native!Truncated(9 * (target - altitude), 2) - 4 * velocity
           push == Native!acceleration
           w == velocity + Native!Truncated(push, 20)
           b == altitude + Native!Truncated(w, 20)
<1>1. altitude \in Int /\ velocity \in Int
  BY DEF Native!FliesOnlyWithLift, Native!TypeOK
<1>2. target \in Int /\ 9 * (target - altitude) \in Int
  BY <1>1, SMT
<1>3. push = Native!Clamp(Native!Clamp(9810000 + c, 0, Native!maximumThrust) - 9810000,
                          -9810000, 6000000)
  BY SMT DEF Native!acceleration, Native!gravity, Native!targetAltitude,
             Native!maximumUpwardAcceleration
<1> HIDE DEF target, push
<1>4. /\ c \in Int
      /\ 9 * (target - altitude) - 8 * velocity - 1 <= 2 * c
      /\ 2 * c <= 9 * (target - altitude) - 8 * velocity + 1
  <2> DEFINE r == 9 * (target - altitude)
             h == Native!Truncated(r, 2)
  <2>1. r \in Int /\ h \in Int /\ r - 1 <= 2 * h /\ 2 * h <= r + 1
    BY <1>2, TruncatedNear
  <2>2. c = h - 4 * velocity
    OBVIOUS
  <2> HIDE DEF r, h, c
  <2>3. c \in Int /\ r - 8 * velocity - 1 <= 2 * c /\ 2 * c <= r - 8 * velocity + 1
    BY <1>1, <2>1, <2>2, SMT
  <2>4. QED
    BY <2>3 DEF r
<1> HIDE DEF c
<1>5. /\ push \in Int /\ -9810000 <= push /\ push <= 6000000
      /\ push <= c \/ push = -9810000
      /\ push >= c \/ push >= 490500
  <2> DEFINE most == Native!maximumThrust
  <2>1. most \in Int /\ most >= 10300500
    BY SpareThrust
  <2> HIDE DEF most
  <2>2. push = Native!Clamp(Native!Clamp(9810000 + c, 0, most) - 9810000, -9810000, 6000000)
    BY <1>3 DEF most
  <2>3. QED
    BY <1>4, <2>1, <2>2, SMT DEF Native!Clamp
<1>6. /\ w \in Int /\ push - 19 <= 20 * (w - velocity) /\ 20 * (w - velocity) <= push + 19
  <2> DEFINE h == Native!Truncated(push, 20)
  <2>1. h \in Int /\ push - 19 <= 20 * h /\ 20 * h <= push + 19
    BY <1>5, TruncatedNear
  <2>2. w = velocity + h
    OBVIOUS
  <2> HIDE DEF h, w
  <2>3. QED
    BY <1>1, <2>1, <2>2, SMT
<1> HIDE DEF w
<1>7. /\ b \in Int /\ w - 19 <= 20 * (b - altitude) /\ 20 * (b - altitude) <= w + 19
  <2> DEFINE h == Native!Truncated(w, 20)
  <2>1. h \in Int /\ w - 19 <= 20 * h /\ 20 * h <= w + 19
    BY <1>6, TruncatedNear
  <2>2. b = altitude + h
    OBVIOUS
  <2> HIDE DEF h, b
  <2>3. QED
    BY <1>1, <2>1, <2>2, SMT
<1> HIDE DEF b
<1>8. Controlled(altitude, velocity, target, c, push, w, b)
  BY <1>1, <1>4, <1>5, <1>6, <1>7 DEF Controlled
<1>9. QED
  BY <1>8 DEF target, push, w, b

BandInv ==
  /\ Native!FliesOnlyWithLift /\ Native!StaysInBand
  /\ near => phase = "returning"
  /\ ~near => Under(altitude, velocity)
  /\ phase \in {"ascending", "hovering"} => Rising(altitude, velocity)
  /\ phase = "hovering" => altitude >= 3920000

LEMMA AnchorKeepsBand ==
  ASSUME Native!AtAnchor, Native!FliesOnlyWithLift'
  PROVE  BandInv'
<1>1. phase' = "idle" /\ altitude' = 0 /\ velocity' = 0 /\ near' = FALSE
  BY DEF Native!AtAnchor
<1>2. Under(0, 0)
  BY SMT DEF Under
<1>3. Under(altitude, velocity)'
  BY <1>1, <1>2
<1>4. Native!StaysInBand'
  BY <1>1, SMT DEF Native!StaysInBand, Native!targetAltitude
<1>5. QED
  BY <1>1, <1>3, <1>4 DEF BandInv

LEMMA StepKeepsBand ==
  ASSUME BandInv, Native!step, Native!FliesOnlyWithLift'
  PROVE  BandInv'
<1> DEFINE w == velocity + Native!Truncated(Native!acceleration, 20)
           b == altitude + Native!Truncated(w, 20)
           lands == phase = "returning" /\ b <= 0
<1>1. phase # "idle" /\ IF lands THEN Native!AtAnchor ELSE Native!Move(b, w)
  BY DEF Native!step
<1>2. CASE lands
  BY <1>1, <1>2, AnchorKeepsBand
<1>3. CASE ~lands
  <2>1. phase \in {"ascending", "hovering", "returning"}
    BY <1>1 DEF BandInv, Native!FliesOnlyWithLift, Native!TypeOK, Native!Phases
  <2>2. altitude \in Int /\ velocity \in Int /\ altitude >= 0
    BY DEF BandInv, Native!FliesOnlyWithLift, Native!TypeOK, Native!StaysInBand
  <2>3. w \in Int /\ b \in Int
    <3> DEFINE h == Native!Truncated(Native!acceleration, 20)
               k == Native!Truncated(w, 20)
    <3>1. h \in Int
      BY <1>1, AccelerationType, TruncatedNear DEF BandInv
    <3>2. w \in Int
      BY <2>2, <3>1
    <3>3. k \in Int
      BY <3>2, TruncatedNear
    <3>4. QED
      BY <2>2, <3>2, <3>3
  <2>4. CASE near
    <3>1. phase = "returning" /\ b > 0
      BY <1>3, <2>3, <2>4 DEF BandInv
    <3> HIDE DEF b, w
    <3>2. near' = TRUE /\ phase' = "returning"
      BY <1>1, <1>3, <2>3, <2>4, <3>1, Moves
    <3>3. altitude' = b \/ altitude' = 2 * b
      BY <1>1, <1>3, <2>3, Moves
    <3>4. altitude' >= 0
      BY <2>3, <3>1, <3>3, SMT
    <3>5. QED
      BY <3>2, <3>4 DEF BandInv, Native!StaysInBand
  <2>5. CASE ~near
    <3> DEFINE target == IF phase = "returning" THEN 0 ELSE 4000000
    <3>1. PICK c : Controlled(altitude, velocity, target, c, Native!acceleration, w, b)
      BY <1>1, <2>5, StepControls DEF BandInv
    <3>2. Under(altitude, velocity)
      BY <2>5 DEF BandInv
    <3>3. Under(b, w)
      <4> HIDE DEF b, w
      <4>1. target \in {0, 4000000}
        OBVIOUS
      <4> HIDE DEF target
      <4>2. QED
        BY <2>2, <3>1, <3>2, <4>1, UnderStays
    <3>4. CASE phase = "returning"
      <4>1. b > 0
        BY <1>3, <2>3, <3>4
      <4> HIDE DEF b, w
      <4>2. phase' = "returning"
        BY <1>1, <1>3, <2>3, <3>4, Moves
      <4>3. altitude' = b \/ altitude' = 2 * b
        BY <1>1, <1>3, <2>3, Moves
      <4>4. altitude' >= 0
        BY <2>3, <4>1, <4>3, SMT
      <4>5. ~near' => altitude' = b /\ velocity' = w
        BY <1>1, <1>3, <2>3, Moves
      <4>6. ~near' => Under(altitude', velocity')
        BY <3>3, <4>5
      <4>7. ~near' => altitude' <= 4100000
        BY <2>3, <3>3, <4>5, SMT DEF Under
      <4>8. Native!StaysInBand'
        BY <4>2, <4>4, <4>7, SMT DEF Native!StaysInBand, Native!targetAltitude
      <4>9. QED
        BY <4>2, <4>6, <4>8 DEF BandInv
    <3>5. CASE phase # "returning"
      <4>1. Rising(altitude, velocity)
        BY <2>1, <3>5 DEF BandInv
      <4>2. Controlled(altitude, velocity, 4000000, c, Native!acceleration, w, b)
        BY <3>1, <3>5
      <4> HIDE DEF b, w
      <4>3. Rising(b, w) /\ (altitude >= 3920000 => b >= 3920000)
        BY <3>2, <4>1, <4>2, RisingStays
      <4>4. /\ near' = FALSE /\ altitude' = b /\ velocity' = w
            /\ phase' = IF Native!Hovers(b, w) THEN "hovering" ELSE phase
        BY <1>1, <1>3, <2>3, <3>5, Moves
      <4>5. phase' \in {"ascending", "hovering"}
        BY <2>1, <3>5, <4>4
      <4>6. Native!Hovers(b, w) => b >= 3920000
        BY <2>3, SMT DEF Native!Hovers, Native!Within, Native!targetAltitude,
                         Native!hoverPositionTolerance
      <4>7. phase' = "hovering" => b >= 3920000
        BY <4>3, <4>4, <4>6 DEF BandInv
      <4>8. 0 <= b /\ b <= 4043000
        BY <2>3, <3>3, <4>3, SMT DEF Under, Rising
      <4>9. Native!StaysInBand'
        BY <2>3, <4>4, <4>7, <4>8, SMT DEF Native!StaysInBand, Native!targetAltitude
      <4>10. Under(altitude', velocity') /\ Rising(altitude', velocity')
        BY <3>3, <4>3, <4>4
      <4>11. QED
        BY <4>4, <4>7, <4>9, <4>10 DEF BandInv
    <3>6. QED
      BY <3>4, <3>5
  <2>6. QED
    BY <2>4, <2>5
<1>4. QED
  BY <1>2, <1>3

LEMMA NextKeepsBand ==
  ASSUME BandInv, [Native!Next]_(Native!vars)
  PROVE  BandInv'
<1>1. Native!FliesOnlyWithLift'
  BY NextKeepsLift DEF BandInv
<1>2. CASE \E m \in Masses, n \in Engines : Native!confirmAssembly(m, n)
  BY <1>1, <1>2, AnchorKeepsBand DEF Native!confirmAssembly
<1>3. CASE Native!engage
  <2>1. /\ phase = "idle" /\ phase' = "ascending"
        /\ altitude' = altitude /\ velocity' = velocity /\ near' = near
    BY <1>3 DEF Native!engage
  <2>2. altitude = 0 /\ velocity = 0 /\ ~near
    BY <2>1 DEF BandInv, Native!FliesOnlyWithLift
  <2>3. Rising(0, 0)
    BY SMT DEF Rising
  <2>4. Under(altitude', velocity') /\ Rising(altitude', velocity')
    BY <2>1, <2>2, <2>3 DEF BandInv
  <2>5. Native!StaysInBand'
    BY <2>1 DEF BandInv, Native!StaysInBand
  <2>6. QED
    BY <1>1, <2>1, <2>2, <2>4, <2>5 DEF BandInv
<1>4. CASE Native!requestReturn
  <2>1. /\ phase' = "returning" /\ altitude' = altitude /\ velocity' = velocity
        /\ near' = near
    BY <1>4 DEF Native!requestReturn
  <2>2. Native!StaysInBand'
    BY <2>1 DEF BandInv, Native!StaysInBand
  <2>3. ~near' => Under(altitude', velocity')
    BY <2>1 DEF BandInv
  <2>4. QED
    BY <1>1, <2>1, <2>2, <2>3 DEF BandInv
<1>5. CASE Native!step
  BY <1>1, <1>5, StepKeepsBand
<1>6. CASE Native!reset
  BY <1>1, <1>6, AnchorKeepsBand DEF Native!reset
<1>7. CASE UNCHANGED Native!vars
  <2>1. UNCHANGED <<phase, altitude, velocity, near>>
    BY <1>7 DEF Native!vars, Native!state
  <2>2. Native!StaysInBand'
    BY <2>1 DEF BandInv, Native!StaysInBand
  <2>3. /\ ~near' => Under(altitude', velocity')
        /\ phase' \in {"ascending", "hovering"} => Rising(altitude', velocity')
    BY <2>1 DEF BandInv
  <2>4. QED
    BY <1>1, <2>1, <2>2, <2>3 DEF BandInv
<1>8. QED
  BY <1>2, <1>3, <1>4, <1>5, <1>6, <1>7 DEF Native!Next

\* step() with the gains of the source keeps the ship over its anchor and at
\* most a tenth of a metre over its height, and holds a hover, whatever it
\* weighs, as long as hasLiftAuthority() let it go, and whenever it is called back.
THEOREM BandSafety == Native!Spec => []Native!StaysInBand
<1>1. Native!Init => BandInv
  <2> SUFFICES ASSUME Native!Init PROVE BandInv
    OBVIOUS
  <2>1. phase = "idle" /\ altitude = 0 /\ velocity = 0 /\ near = FALSE
    BY DEF Native!Init
  <2>2. Under(0, 0)
    BY SMT DEF Under
  <2>3. Native!StaysInBand
    BY <2>1, SMT DEF Native!StaysInBand, Native!targetAltitude
  <2>4. Native!FliesOnlyWithLift
    BY InitialLift
  <2>5. QED
    BY <2>1, <2>2, <2>3, <2>4 DEF BandInv
<1>2. BandInv /\ [Native!Next]_(Native!vars) => BandInv'
  BY NextKeepsBand
<1>3. BandInv => Native!StaysInBand
  BY DEF BandInv
<1>4. QED
  BY <1>1, <1>2, <1>3, PTL DEF Native!Spec

-----------------------------------------------------------------------------
(* The autopilot.                                                          *)

Share == {n \in Int : -1000 <= n /\ n <= 1000}
Sums == {n \in Int : -4000000 <= n /\ n <= 4000000}
Turn == 6284
HalfTurn == {n \in Int : -3142 <= n /\ n <= 3142}

PilotTypes ==
  /\ authority \in Pilot!Authorities /\ output \in Pilot!Outputs /\ updates \in Nat
  /\ setpoint \in [altitude : Int, heading : Int, forward : Int]
  /\ measured \in States
  /\ lastManual \in [Axes -> Share] /\ integral \in [Axes -> Sums]
  /\ elapsed \in Int /\ (authority = "handoff" => elapsed >= 0)

\* The autopilot alone steers by what it measures and by its integrals, and brakes
\* down to rest.
Steers ==
  /\ authority \in {"autopilotHold", "emergencyBrake"} /\ updates > 0 =>
       \A axis \in Axes : output.control[axis] = Pilot!Automatic(measured, integral)[axis]
  /\ authority = "emergencyBrake" => setpoint.forward = 0

PilotInv == PilotTypes /\ Pilot!TakeoverIsSmooth /\ Steers

LEMMA ZeroControls == Pilot!zeros = [axis \in Axes |-> 0]
  BY DEF Pilot!zeros, Axes

LEMMA ShareRange == Share = -1000 .. 1000
<1> DEFINE range == -1000 .. 1000
<1>1. \A n : n \in Share => n \in range
  BY DEF Share
<1>2. \A n : n \in range => n \in Share
  BY DEF Share
<1> HIDE DEF range
<1>3. Share = range
  BY <1>1, <1>2
<1>4. QED
  BY <1>3 DEF range

LEMMA Rounded ==
  /\ \A a \in Int : Pilot!Truncated(a, 10) \in Int
  /\ \A a \in Int : Pilot!Truncated(a, 100) \in Int
  /\ \A a \in Int : Pilot!Truncated(a, 1000) \in Int
  BY DEF Pilot!Truncated

\* wrapRadians takes off or adds whole turns.
LEMMA Wrapped ==
  ASSUME NEW x \in Int
  PROVE  /\ Pilot!wrapRadians(x) \in HalfTurn
         /\ \E k \in Int : Pilot!wrapRadians(x) = x + Turn * k
<1> DEFINE a == Pilot!TurnsAbove(x)
           b == Pilot!TurnsAbove(-x)
<1>1. a \in Int /\ b \in Int
  BY DEF Pilot!TurnsAbove, Pilot!pi
<1>2. Pilot!wrapRadians(x) = x - 6284 * a + 6284 * b
  BY <1>1 DEF Pilot!wrapRadians, Pilot!pi
<1>3. x - 6284 * a + 6284 * b \in HalfTurn
  BY DEF Pilot!TurnsAbove, Pilot!pi, HalfTurn
<1>4. b - a \in Int /\ x - 6284 * a + 6284 * b = x + Turn * (b - a)
  BY <1>1 DEF Turn
<1>5. QED
  BY <1>2, <1>3, <1>4

\* The one angle within half a turn.
LEMMA ShortestTurn ==
  ASSUME NEW x \in Int, NEW y \in Int, NEW k \in Int, y = x + Turn * k,
         -Turn < 2 * y, 2 * y < Turn
  PROVE  Pilot!wrapRadians(x) = y
<1> DEFINE w == Pilot!wrapRadians(x)
<1>1. w \in HalfTurn
  BY Wrapped
<1>2. PICK l \in Int : w = x + Turn * l
  BY Wrapped
<1> HIDE DEF w
<1>3. l - k = 0
  <2>1. w - y = 6284 * (l - k)
    BY <1>2 DEF Turn
  <2>2. -6284 < w - y /\ w - y < 6284 /\ w - y \in Int
    BY <1>1 DEF HalfTurn, Turn
  <2>3. QED
    BY <2>1, <2>2
<1>4. QED
  BY <1>2, <1>3 DEF w

LEMMA ErrorTypes ==
  ASSUME PilotTypes, NEW s \in States
  PROVE  /\ DOMAIN Pilot!Errors(s) = Axes
         /\ \A axis \in Axes : Pilot!Errors(s)[axis] \in Int
<1> DEFINE climb == Pilot!Clamp(Pilot!Truncated(45 * (setpoint.altitude - s.altitude), 100),
                     -Pilot!maximumVerticalSpeed, Pilot!maximumVerticalSpeed)
           turn == Pilot!Clamp(
                     Pilot!Truncated(14 * Pilot!wrapRadians(setpoint.heading - s.heading), 10),
                     -Pilot!maximumYawRate, Pilot!maximumYawRate)
<1>1. climb \in Int
  <2>1. 45 * (setpoint.altitude - s.altitude) \in Int
    BY DEF PilotTypes, States
  <2>2. Pilot!Truncated(45 * (setpoint.altitude - s.altitude), 100) \in Int
    BY <2>1, Rounded
  <2>3. QED
    BY <2>2 DEF Pilot!maximumVerticalSpeed, Pilot!Clamp
<1>2. turn \in Int
  <2>1. setpoint.heading - s.heading \in Int
    BY DEF PilotTypes, States
  <2>2. 14 * Pilot!wrapRadians(setpoint.heading - s.heading) \in Int
    BY <2>1, Wrapped DEF HalfTurn
  <2>3. Pilot!Truncated(14 * Pilot!wrapRadians(setpoint.heading - s.heading), 10) \in Int
    BY <2>2, Rounded
  <2>4. QED
    BY <2>3 DEF Pilot!maximumYawRate, Pilot!Clamp
<1> HIDE DEF climb, turn
<1>3. Pilot!Errors(s) = [forward |-> setpoint.forward - s.forward,
                         vertical |-> climb - s.vertical, yaw |-> turn - s.yawRate]
  BY DEF Pilot!Errors, climb, turn
<1>4. QED
  BY <1>1, <1>2, <1>3 DEF PilotTypes, States, Axes

\* What an axis is given, from its gains in thousandths.
Given(p, e, i, n) ==
  Pilot!clampUnit(Pilot!Truncated(p * e + i * Pilot!Truncated(n, 1000), 1000))

LEMMA AxisControls ==
  ASSUME NEW s, NEW sums
  PROVE  /\ Pilot!Automatic(s, sums) = [axis \in Axes |-> Pilot!Automatic(s, sums)[axis]]
         /\ Pilot!Automatic(s, sums)["forward"] =
              Given(220, Pilot!Errors(s)["forward"], 40, sums["forward"])
         /\ Pilot!Automatic(s, sums)["vertical"] =
              Given(300, Pilot!Errors(s)["vertical"], 50, sums["vertical"])
         /\ Pilot!Automatic(s, sums)["yaw"] =
              Given(750, Pilot!Errors(s)["yaw"], 50, sums["yaw"])
<1>1. DOMAIN Pilot!Gains = Axes
  BY DEF Pilot!Gains, Axes
<1>2. /\ Pilot!Gains["forward"] = [proportional |-> 220, integral |-> 40]
      /\ Pilot!Gains["vertical"] = [proportional |-> 300, integral |-> 50]
      /\ Pilot!Gains["yaw"] = [proportional |-> 750, integral |-> 50]
  BY DEF Pilot!Gains
<1>3. QED
  BY <1>1, <1>2 DEF Pilot!Automatic, Axes, Given

LEMMA GivenType ==
  ASSUME NEW p \in Nat, NEW e \in Int, NEW i \in Nat, NEW n \in Int
  PROVE  Given(p, e, i, n) \in Share
<1>1. p * e + i * Pilot!Truncated(n, 1000) \in Int
  BY Rounded
<1>2. Pilot!Truncated(p * e + i * Pilot!Truncated(n, 1000), 1000) \in Int
  BY <1>1, Rounded
<1>3. QED
  BY <1>2 DEF Given, Pilot!Clamp, Pilot!clampUnit, Share

LEMMA AutomaticTypes ==
  ASSUME PilotTypes, NEW s \in States, NEW sums \in [Axes -> Sums]
  PROVE  Pilot!Automatic(s, sums) \in [Axes -> Share]
<1> DEFINE auto == Pilot!Automatic(s, sums)
           error == Pilot!Errors(s)
<1>1. \A axis \in Axes : error[axis] \in Int /\ sums[axis] \in Int
  BY ErrorTypes DEF Sums
<1>2. /\ Given(220, error["forward"], 40, sums["forward"]) \in Share
      /\ Given(300, error["vertical"], 50, sums["vertical"]) \in Share
      /\ Given(750, error["yaw"], 50, sums["yaw"]) \in Share
  BY <1>1, GivenType DEF Axes
<1>3. \A axis \in Axes : auto[axis] \in Share
  BY <1>2, AxisControls DEF Axes
<1>4. QED
  BY <1>3, AxisControls

LEMMA SumsStayLimited ==
  ASSUME PilotTypes, NEW s \in States, NEW delta \in Int
  PROVE  Pilot!Integrals(s, delta) \in [Axes -> Sums]
<1>1. \A axis \in Axes : integral[axis] + Pilot!Errors(s)[axis] * delta \in Int
  BY ErrorTypes DEF PilotTypes, Sums
<1>2. QED
  BY <1>1 DEF Pilot!Clamp, Pilot!Integrals, PilotTypes, Pilot!integralLimit, Sums

LEMMA OutputsAre ==
  Pilot!Outputs =
    [control : [Axes -> Share], progress : 0 .. 1000, authority : Pilot!Authorities]
<1> DEFINE range == -1000 .. 1000
<1>1. DOMAIN Pilot!zeros = Axes /\ Share = range
  BY ZeroControls, ShareRange
<1>2. Pilot!Outputs = [control : [DOMAIN Pilot!zeros -> range], progress : 0 .. 1000,
                       authority : Pilot!Authorities]
  BY DEF Pilot!Outputs
<1> HIDE DEF range
<1>3. QED
  BY <1>1, <1>2

LEMMA SafeDelta ==
  ASSUME NEW delta \in Int
  PROVE  Pilot!safeDelta(delta) \in Int /\ Pilot!safeDelta(delta) > 0
  BY DEF Pilot!safeDelta, Pilot!Clamp

LEMMA Scaled ==
  ASSUME NEW n \in Nat, NEW x \in Share
  PROVE  x * n \in Int /\ -1000 * n <= x * n /\ x * n <= 1000 * n
<1>1. x \in Int /\ x + 1000 \in Nat /\ 1000 - x \in Nat
  BY DEF Share
<1>2. (x + 1000) * n >= 0 /\ (1000 - x) * n >= 0
  BY <1>1
<1>3. QED
  BY <1>1, <1>2

\* The autopilot's part of a control is worth at most twice its share.
LEMMA MixMoves ==
  ASSUME NEW old \in Share, NEW new \in Share, NEW blend \in Nat, blend <= 1000
  PROVE  LET mixed == Pilot!Truncated(old * (1000 - blend) + new * blend, 1000)
         IN  /\ mixed \in Share
             /\ -2 * blend - 1 <= mixed - old /\ mixed - old <= 2 * blend + 1
             /\ blend = 1000 => mixed = new
<1> DEFINE sum == old * (1000 - blend) + new * blend
           d == new * blend - old * blend
<1>1. old \in Int /\ new \in Int /\ 1000 - blend \in Nat
  BY DEF Share
<1>2. /\ old * (1000 - blend) \in Int /\ new * blend \in Int /\ old * blend \in Int
      /\ -1000 * (1000 - blend) <= old * (1000 - blend)
      /\ old * (1000 - blend) <= 1000 * (1000 - blend)
      /\ -1000 * blend <= new * blend /\ new * blend <= 1000 * blend
      /\ -1000 * blend <= old * blend /\ old * blend <= 1000 * blend
  BY <1>1, Scaled
<1>3. sum \in Int /\ -1000000 <= sum /\ sum <= 1000000
  BY <1>2
<1>4. d \in Int /\ -2000 * blend <= d /\ d <= 2000 * blend
  BY <1>2
<1>5. sum = 1000 * old + d
  BY <1>1, <1>2
<1>6. blend = 1000 => sum = 1000 * new
  BY <1>1
<1> HIDE DEF sum, d
<1>7. Pilot!Truncated(sum, 1000) \in Share
  BY <1>3 DEF Pilot!Truncated, Share
<1>8. /\ -2 * blend - 1 <= Pilot!Truncated(sum, 1000) - old
      /\ Pilot!Truncated(sum, 1000) - old <= 2 * blend + 1
  BY <1>1, <1>3, <1>4, <1>5 DEF Pilot!Truncated
<1>9. blend = 1000 => Pilot!Truncated(sum, 1000) = new
  BY <1>1, <1>6 DEF Pilot!Truncated
<1>10. QED
  BY <1>7, <1>8, <1>9 DEF sum

LEMMA BlendRange ==
  ASSUME NEW e \in Int
  PROVE  Pilot!Blend(e) \in Nat /\ Pilot!Blend(e) <= 1000
<1> DEFINE duration == IF handoffMillis > 1 THEN handoffMillis ELSE 1
<1>1. duration \in Nat /\ duration > 0
  BY PilotConstants
<1> HIDE DEF duration
<1>2. (1000 * e) \div duration \in Int
  BY <1>1
<1>3. Pilot!Blend(e) = Pilot!Clamp((1000 * e) \div duration, 0, 1000)
  BY DEF Pilot!Blend, duration
<1>4. QED
  BY <1>2, <1>3 DEF Pilot!Clamp

\* When its time has passed, a handoff is over.
LEMMA WholeBlend ==
  ASSUME NEW e \in Nat, e > handoffMillis, e # 0
  PROVE  Pilot!Blend(e) = 1000
<1> DEFINE d == IF handoffMillis > 1 THEN handoffMillis ELSE 1
           q == (1000 * e) \div d
           r == (1000 * e) % d
<1>1. d \in Nat /\ d # 0 /\ e >= d
  BY PilotConstants
<1>2. Pilot!Blend(e) = Pilot!Clamp(q, 0, 1000)
  BY DEF Pilot!Blend
<1> HIDE DEF d
<1>3. q \in Int /\ r \in Int /\ 0 <= r /\ r < d /\ 1000 * e = d * q + r
  BY <1>1
<1> HIDE DEF q, r
<1>4. ASSUME q <= 999
      PROVE  FALSE
  <2>1. d * (999 - q) >= 0
    BY <1>1, <1>3, <1>4
  <2>2. d * q <= d * 999
    BY <1>1, <1>3, <2>1
  <2>3. QED
    BY <1>1, <1>3, <2>2
<1>5. QED
  BY <1>2, <1>3, <1>4 DEF Pilot!Clamp

LEMMA InitialPilot ==
  ASSUME Pilot!Init
  PROVE  PilotInv
<1>1. Pilot!zeros \in [Axes -> Share] /\ Pilot!zeros \in [Axes -> Sums]
  BY ZeroControls DEF Share, Sums
<1>2. Pilot!noOutput \in Pilot!Outputs
  BY <1>1, OutputsAre DEF Pilot!noOutput, Pilot!Authorities
<1>3. PilotTypes
  BY <1>1, <1>2, PilotConstants DEF PilotTypes, Pilot!Init, Pilot!Authorities
<1>4. QED
  BY <1>3 DEF PilotInv, PilotTypes, Pilot!TakeoverIsSmooth, Steers, Pilot!Init

LEMMA CapturedTypes ==
  ASSUME NEW s \in States, NEW speed \in Int, Pilot!captureHoldSetpoint(s, speed)
  PROVE  setpoint' \in [altitude : Int, heading : Int, forward : Int]
<1>1. Pilot!wrapRadians(s.heading) \in Int
  BY Wrapped DEF States, HalfTurn
<1>2. Pilot!Clamp(speed, 0, Pilot!maximumForwardSpeed) \in Int
  BY DEF Pilot!Clamp, Pilot!maximumForwardSpeed
<1>3. QED
  BY <1>1, <1>2 DEF Pilot!captureHoldSetpoint, States

LEMMA ClampedTypes ==
  ASSUME NEW c \in [Axes -> Int]
  PROVE  Pilot!clampControl(c) \in [Axes -> Share]
  BY DEF Pilot!clampControl, Pilot!clampUnit, Pilot!Clamp, Share

\* Every call but update() starts anew.
LEMMA OrdersKeepPilot ==
  ASSUME PilotInv, NEW s \in States,
         \/ Pilot!reset \/ Pilot!enterManualHelm
         \/ \E c \in Controls : Pilot!leaveHelm(s, c)
         \/ \E speed \in Speeds : Pilot!engageHold(s, speed)
         \/ Pilot!engageEmergencyBrake(s)
  PROVE  PilotInv'
<1>1. /\ Pilot!zeros \in [Axes -> Share] /\ Pilot!zeros \in [Axes -> Sums]
      /\ Pilot!noOutput \in Pilot!Outputs
  BY ZeroControls, OutputsAre DEF Share, Sums, Pilot!noOutput, Pilot!Authorities
<1>2. /\ output' = Pilot!noOutput /\ updates' = 0 /\ measured' = measured
      /\ integral' = Pilot!zeros /\ authority' \in Pilot!Authorities
        /\ elapsed' \in Int /\ (authority' = "handoff" => elapsed' >= 0)
  BY PilotConstants
  DEF Pilot!reset, Pilot!enterManualHelm, Pilot!leaveHelm, Pilot!engageHold,
      Pilot!engageEmergencyBrake, Pilot!Unanswered, Pilot!resetIntegrators,
      Pilot!Authorities
<1>3. setpoint' \in [altitude : Int, heading : Int, forward : Int]
  <2>1. CASE Pilot!reset \/ Pilot!enterManualHelm
    BY <2>1 DEF Pilot!reset, Pilot!enterManualHelm, PilotInv, PilotTypes
  <2>2. CASE \E c \in Controls : Pilot!leaveHelm(s, c)
    BY <2>2, CapturedTypes DEF Pilot!leaveHelm, States
  <2>3. CASE \E speed \in Speeds : Pilot!engageHold(s, speed)
    BY <2>3, CapturedTypes, PilotConstants DEF Pilot!engageHold
  <2>4. CASE Pilot!engageEmergencyBrake(s)
    BY <2>4, CapturedTypes DEF Pilot!engageEmergencyBrake
  <2>5. QED
    BY <2>1, <2>2, <2>3, <2>4
<1>4. lastManual' \in [Axes -> Share]
  <2>1. CASE \E c \in Controls : Pilot!leaveHelm(s, c)
    BY <2>1, ClampedTypes, PilotConstants DEF Pilot!leaveHelm
  <2>2. CASE ~\E c \in Controls : Pilot!leaveHelm(s, c)
    BY <1>1, <2>2 DEF Pilot!reset, Pilot!enterManualHelm, Pilot!engageHold,
                      Pilot!engageEmergencyBrake, PilotInv, PilotTypes
  <2>3. QED
    BY <2>1, <2>2
<1>5. PilotTypes'
  BY <1>1, <1>2, <1>3, <1>4 DEF PilotTypes, PilotInv
<1>6. authority' = "emergencyBrake" => setpoint'.forward = 0
  <2>1. CASE Pilot!engageEmergencyBrake(s)
    BY <2>1 DEF Pilot!engageEmergencyBrake, Pilot!captureHoldSetpoint, Pilot!Clamp,
                Pilot!maximumForwardSpeed
  <2>2. CASE ~Pilot!engageEmergencyBrake(s)
    BY <2>2 DEF Pilot!reset, Pilot!enterManualHelm, Pilot!leaveHelm, Pilot!engageHold
  <2>3. QED
    BY <2>1, <2>2
<1>7. QED
  BY <1>2, <1>5, <1>6 DEF PilotInv, PilotTypes, Pilot!TakeoverIsSmooth, Steers

\* The orders of the controllers read the setpoint and what they are given.
LEMMA SameSetpoint ==
  ASSUME setpoint' = setpoint
  PROVE  (Pilot!Automatic(measured, integral))' = Pilot!Automatic(measured', integral')
  BY DEF Pilot!Automatic, Pilot!Errors, Pilot!wrapRadians, Pilot!TurnsAbove

LEMMA HandoffUpdates ==
  ASSUME PilotInv, authority = "handoff", NEW s \in States,
         NEW delta \in Nat, Pilot!UpdateAutopilot(s, delta), measured' = s
  PROVE  /\ output' \in Pilot!Outputs /\ elapsed' \in Int /\ elapsed' >= 0
         /\ authority' \in {"handoff", "autopilotHold"}
         /\ \A axis \in Axes :
              /\ -2 * output'.progress - 1 <= output'.control[axis] - lastManual[axis]
              /\ output'.control[axis] - lastManual[axis] <= 2 * output'.progress + 1
         /\ authority' = "autopilotHold" =>
              \A axis \in Axes :
                output'.control[axis] = Pilot!Automatic(s, integral')[axis]
<1> DEFINE new == Pilot!Automatic(s, integral')
           blend == Pilot!Blend(elapsed + delta)
           control == Pilot!Mix(new, blend)
<1>1. new \in [Axes -> Share]
  BY SumsStayLimited, AutomaticTypes DEF Pilot!UpdateAutopilot, PilotInv
<1>2. blend \in Nat /\ blend <= 1000 /\ elapsed + delta \in Nat
  BY BlendRange DEF PilotInv, PilotTypes
<1>3. /\ elapsed' = elapsed + delta /\ output'.control = control
      /\ authority' = IF blend = 1000 THEN "autopilotHold" ELSE "handoff"
      /\ output' = [control |-> control, progress |-> blend, authority |-> authority']
  BY DEF Pilot!UpdateAutopilot, Pilot!UpdateHandoff
<1> HIDE DEF new, blend
<1>4. /\ control = [axis \in Axes |-> control[axis]]
      /\ \A axis \in Axes : control[axis] =
           Pilot!Truncated(lastManual[axis] * (1000 - blend) + new[axis] * blend, 1000)
  BY <1>1 DEF Pilot!Mix
<1>5. lastManual \in [Axes -> Share]
  BY DEF PilotInv, PilotTypes
<1> HIDE DEF control
<1>6. \A axis \in Axes :
        /\ control[axis] \in Share
        /\ -2 * blend - 1 <= control[axis] - lastManual[axis]
        /\ control[axis] - lastManual[axis] <= 2 * blend + 1
        /\ blend = 1000 => control[axis] = new[axis]
  BY <1>1, <1>2, <1>4, <1>5, MixMoves
<1>7. control \in [Axes -> Share]
  BY <1>4, <1>6
<1>8. output' \in Pilot!Outputs
  BY <1>2, <1>3, <1>7, OutputsAre DEF Pilot!Authorities
<1>9. QED
  BY <1>2, <1>3, <1>6, <1>8 DEF new

LEMMA UpdatesKeepPilot ==
  ASSUME PilotInv, NEW s \in FlightStates, NEW c \in Controls,
         NEW delta \in Deltas, Pilot!update(s, c, delta)
  PROVE  PilotInv'
<1> DEFINE safe == Pilot!safeDelta(delta)
<1>1. /\ s \in States /\ c \in [Axes -> Int] /\ safe \in Nat
      /\ measured' = s /\ updates' = updates + 1 /\ updates' \in Nat
  BY SafeDelta, PilotConstants DEF Pilot!update, PilotInv, PilotTypes
<1>2. Pilot!zeros \in [Axes -> Share] /\ Pilot!noOutput \in Pilot!Outputs
  BY ZeroControls, OutputsAre DEF Share, Pilot!noOutput, Pilot!Authorities
<1>3. CASE authority = "manualHelm"
  <2>1. Pilot!UpdateManual(c)
    BY <1>3 DEF Pilot!update
  <2>2. lastManual' \in [Axes -> Share]
    BY <1>1, <2>1, ClampedTypes DEF Pilot!UpdateManual
  <2>3. output' \in Pilot!Outputs
    BY <2>1, <2>2, OutputsAre DEF Pilot!UpdateManual, Pilot!Authorities
  <2>4. PilotTypes'
    BY <1>1, <2>1, <2>2, <2>3 DEF Pilot!UpdateManual, PilotInv, PilotTypes
  <2>5. authority' = "manualHelm"
    BY <1>3, <2>1 DEF Pilot!UpdateManual
  <2>6. QED
    BY <2>4, <2>5 DEF PilotInv, PilotTypes, Pilot!TakeoverIsSmooth, Steers
<1>4. CASE authority = "inactive"
  <2>1. Pilot!UpdateInactive
    BY <1>4 DEF Pilot!update
  <2>2. PilotTypes' /\ authority' = "inactive"
    BY <1>1, <1>2, <1>4, <2>1
    DEF Pilot!UpdateInactive, Pilot!settings, PilotInv, PilotTypes
  <2>3. QED
    BY <2>2 DEF PilotInv, PilotTypes, Pilot!TakeoverIsSmooth, Steers
<1>5. CASE authority \notin {"manualHelm", "inactive"}
  <2>1. Pilot!UpdateAutopilot(s, safe)
    BY <1>5 DEF Pilot!update
  <2>2. /\ UNCHANGED <<setpoint, lastManual>> /\ integral' \in [Axes -> Sums]
    BY <1>1, <2>1, SumsStayLimited DEF Pilot!UpdateAutopilot, PilotInv
  <2>3. (Pilot!Automatic(measured, integral))' = Pilot!Automatic(s, integral')
    BY <1>1, <2>2, SameSetpoint
  <2>4. CASE authority = "handoff"
    <3>1. /\ output' \in Pilot!Outputs /\ elapsed' \in Int /\ elapsed' >= 0
          /\ authority' \in {"handoff", "autopilotHold"}
          /\ \A axis \in Axes :
               /\ -2 * output'.progress - 1 <= output'.control[axis] - lastManual[axis]
               /\ output'.control[axis] - lastManual[axis] <= 2 * output'.progress + 1
          /\ authority' = "autopilotHold" =>
               \A axis \in Axes :
                 output'.control[axis] = Pilot!Automatic(s, integral')[axis]
      BY <1>1, <2>1, <2>4, HandoffUpdates
    <3>2. PilotTypes'
      BY <1>1, <2>2, <3>1 DEF PilotInv, PilotTypes, Pilot!Authorities
    <3>3. Pilot!TakeoverIsSmooth'
      BY <2>2, <3>1, <3>2, ZeroControls DEF PilotTypes, Pilot!TakeoverIsSmooth
    <3>4. Steers'
      BY <2>3, <3>1 DEF Steers
    <3>5. QED
      BY <3>2, <3>3, <3>4 DEF PilotInv
  <2>5. CASE authority # "handoff"
    <3>1. /\ output' = [control |-> Pilot!Automatic(s, integral'), progress |-> 1000,
                        authority |-> authority]
          /\ UNCHANGED <<authority, elapsed>>
      BY <2>1, <2>5 DEF Pilot!UpdateAutopilot
    <3>2. Pilot!Automatic(s, integral') \in [Axes -> Share]
      BY <1>1, <2>2, AutomaticTypes DEF PilotInv
    <3>3. output' \in Pilot!Outputs
      BY <3>1, <3>2, OutputsAre DEF PilotInv, PilotTypes
    <3>4. PilotTypes'
      BY <1>1, <2>2, <3>1, <3>3 DEF PilotInv, PilotTypes
    <3>5. Pilot!TakeoverIsSmooth'
      BY <2>5, <3>1, <3>4 DEF PilotTypes, Pilot!TakeoverIsSmooth
    <3>6. Steers'
      BY <2>2, <2>3, <3>1 DEF Steers, PilotInv
    <3>7. QED
      BY <3>4, <3>5, <3>6 DEF PilotInv
  <2>6. QED
    BY <2>4, <2>5
<1>6. QED
  BY <1>3, <1>4, <1>5

LEMMA PilotInductive ==
  PilotInv /\ [Pilot!Next]_(Pilot!vars) => PilotInv'
<1> SUFFICES ASSUME PilotInv, [Pilot!Next]_(Pilot!vars)
             PROVE  PilotInv'
  OBVIOUS
<1>1. CASE UNCHANGED Pilot!vars
  BY <1>1, SameSetpoint
  DEF Pilot!vars, Pilot!settings, PilotInv, PilotTypes, Pilot!TakeoverIsSmooth, Steers
<1>2. CASE \E s \in FlightStates, c \in Controls, delta \in Deltas : Pilot!update(s, c, delta)
  BY <1>2, UpdatesKeepPilot
<1>3. CASE Pilot!Next /\ ~\E s \in FlightStates, c \in Controls, delta \in Deltas :
                             Pilot!update(s, c, delta)
  <2>1. measured \in States
    BY DEF PilotInv, PilotTypes
  <2>2. PICK s \in States :
          \/ Pilot!reset \/ Pilot!enterManualHelm
          \/ \E c \in Controls : Pilot!leaveHelm(s, c)
          \/ \E speed \in Speeds : Pilot!engageHold(s, speed)
          \/ Pilot!engageEmergencyBrake(s)
    BY <1>3, <2>1, Zenon, PilotConstants DEF Pilot!Next
  <2>3. QED
    BY <2>2, OrdersKeepPilot
<1>4. QED
  BY <1>1, <1>2, <1>3

(***************************************************************************)
(* AutopilotController::update, for any measurements, commands, time steps *)
(* and duration of the handoff: no output leaves its range, and while the  *)
(* autopilot takes over, each control is near the pilot's last one.  The   *)
(* inductive invariant says besides that the integrals stay limited.       *)
(***************************************************************************)
THEOREM SmoothTakeover == Pilot!Spec => []TakeoverIsSmooth
<1>1. PilotInv => TakeoverIsSmooth
  BY DEF PilotInv, TakeoverIsSmooth
<1>2. QED
  BY <1>1, InitialPilot, PilotInductive, PTL DEF Pilot!Spec

(***************************************************************************)
(* AutopilotController::update, for the same: every update of a takeover   *)
(* that goes on has brought its end nearer, whatever the caller's clock    *)
(* does, and no takeover outlasts its duration.                            *)
(***************************************************************************)
THEOREM AdvancingHandoff == Pilot!Spec => HandoffAdvances
<1> DEFINE Advances == authority = "handoff" /\ authority' = "handoff" /\ updates' > 0 =>
                         elapsed' > elapsed /\ elapsed' <= handoffMillis
<1>1. ASSUME PilotInv, Pilot!Next, authority = "handoff", authority' = "handoff",
             updates' > 0
      PROVE  elapsed' > elapsed /\ elapsed' <= handoffMillis
  <2>1. PICK s \in FlightStates, c \in Controls, delta \in Deltas : Pilot!update(s, c, delta)
    BY <1>1 DEF Pilot!Next, Pilot!reset, Pilot!enterManualHelm, Pilot!leaveHelm,
                Pilot!engageHold, Pilot!engageEmergencyBrake, Pilot!Unanswered
  <2> DEFINE safe == Pilot!safeDelta(delta)
  <2>2. safe \in Int /\ safe > 0
    BY SafeDelta, PilotConstants
  <2>3. Pilot!UpdateHandoff(s, safe)
    BY <1>1, <2>1 DEF Pilot!update, Pilot!UpdateAutopilot
  <2>4. elapsed' = elapsed + safe /\ Pilot!Blend(elapsed + safe) # 1000
    BY <1>1, <2>3 DEF Pilot!UpdateHandoff
  <2> HIDE DEF safe
  <2>5. elapsed \in Int /\ elapsed' \in Int /\ handoffMillis \in Int
    BY <1>1, <2>2, <2>4, PilotConstants DEF PilotInv, PilotTypes
  <2>6. ASSUME elapsed' > handoffMillis
        PROVE  FALSE
    <3>1. elapsed' \in Nat /\ elapsed' # 0
      BY <1>1, <2>2, <2>4, <2>5 DEF PilotInv, PilotTypes
    <3>2. QED
      BY <2>4, <2>6, <3>1, WholeBlend
  <2>7. QED
    BY <2>2, <2>4, <2>5, <2>6
<1>2. PilotInv /\ [Pilot!Next]_(Pilot!vars) => [Advances]_(Pilot!vars)
  BY <1>1
<1>3. QED
  BY <1>2, InitialPilot, PilotInductive, PTL
  DEF Pilot!Spec, HandoffAdvances, Pilot!HandoffAdvances

\* The integral takes 4000 thousandths of its gain at most.
LEMMA Pushes ==
  ASSUME NEW p \in Nat, NEW i \in Nat, NEW e \in Int, NEW n \in Sums
  PROVE  /\ p * e >= i * 4000 + 1000 => Given(p, e, i, n) > 0
         /\ p * e <= -(i * 4000 + 1000) => Given(p, e, i, n) < 0
<1> DEFINE sum == Pilot!Truncated(n, 1000)
           a == p * e + i * sum
<1>1. sum \in Int /\ -4000 <= sum /\ sum <= 4000
  BY DEF Sums, Pilot!Truncated
<1> HIDE DEF sum
<1>2. i * sum \in Int /\ -(i * 4000) <= i * sum /\ i * sum <= i * 4000
  BY <1>1
<1>3. /\ a \in Int
      /\ p * e >= i * 4000 + 1000 => a >= 1000
      /\ p * e <= -(i * 4000 + 1000) => a <= -1000
  BY <1>2
<1> HIDE DEF a
<1>4. /\ a >= 1000 => Pilot!clampUnit(Pilot!Truncated(a, 1000)) > 0
      /\ a <= -1000 => Pilot!clampUnit(Pilot!Truncated(a, 1000)) < 0
  BY <1>3 DEF Pilot!clampUnit, Pilot!Truncated, Pilot!Clamp
<1>5. Given(p, e, i, n) = Pilot!clampUnit(Pilot!Truncated(a, 1000))
  BY DEF Given, a, sum
<1>6. QED
  BY <1>3, <1>4, <1>5

LEMMA Pushing ==
  ASSUME PilotTypes, Steers, updates > 0,
         authority \in {"autopilotHold", "emergencyBrake"}, NEW axis \in Axes
  PROVE  LET e == Pilot!Errors(measured)[axis]
             least == CASE axis = "forward" -> 1000 [] axis = "vertical" -> 675
                        [] axis = "yaw" -> 280
         IN  /\ e >= least => output.control[axis] > 0
             /\ e <= -least => output.control[axis] < 0
<1>1. /\ output.control[axis] = Pilot!Automatic(measured, integral)[axis]
      /\ Pilot!Errors(measured)[axis] \in Int /\ integral[axis] \in Sums
  BY ErrorTypes DEF Steers, PilotTypes
<1> DEFINE e == Pilot!Errors(measured)[axis]
<1>2. CASE axis = "forward"
  <2>1. output.control[axis] = Given(220, e, 40, integral[axis])
    BY <1>1, <1>2, AxisControls
  <2>2. /\ e >= 1000 => Given(220, e, 40, integral[axis]) > 0
        /\ e <= -1000 => Given(220, e, 40, integral[axis]) < 0
    BY <1>1, Pushes
  <2>3. QED
    BY <1>2, <2>1, <2>2
<1>3. CASE axis = "vertical"
  <2>1. output.control[axis] = Given(300, e, 50, integral[axis])
    BY <1>1, <1>3, AxisControls
  <2>2. /\ e >= 675 => Given(300, e, 50, integral[axis]) > 0
        /\ e <= -675 => Given(300, e, 50, integral[axis]) < 0
    BY <1>1, Pushes
  <2>3. QED
    BY <1>3, <2>1, <2>2
<1>4. CASE axis = "yaw"
  <2>1. output.control[axis] = Given(750, e, 50, integral[axis])
    BY <1>1, <1>4, AxisControls
  <2>2. /\ e >= 280 => Given(750, e, 50, integral[axis]) > 0
        /\ e <= -280 => Given(750, e, 50, integral[axis]) < 0
    BY <1>1, Pushes
  <2>3. QED
    BY <1>4, <2>1, <2>2
<1>5. QED
  BY <1>2, <1>3, <1>4 DEF Axes

LEMMA ShortWay ==
  ASSUME NEW from \in Int, NEW to \in Int, NEW least \in Nat,
         Pilot!ShortWayLeft(from, to, least)
  PROVE  least <= Pilot!wrapRadians(to - from) /\ Pilot!wrapRadians(from - to) <= -least
<1>1. PICK turns \in -2 .. 2 : to - from + 2 * Pilot!pi * turns \in least .. (Pilot!pi - 1)
  BY DEF Pilot!ShortWayLeft
<1> DEFINE a == to - from
           b == from - to
           y == a + Turn * turns
<1>2. turns \in Int /\ y \in Int /\ least <= y /\ y < 3142
  BY <1>1 DEF Pilot!pi, Turn
<1>3. /\ a \in Int /\ b \in Int /\ turns \in Int /\ y \in Int
      /\ -turns \in Int /\ -y \in Int
      /\ -Turn < 2 * y /\ 2 * y < Turn /\ -Turn < 2 * (-y) /\ 2 * (-y) < Turn
  BY <1>2 DEF Turn
<1>4. y = a + Turn * turns /\ -y = b + Turn * (-turns)
  BY <1>2 DEF Turn
<1> HIDE DEF a, b, y
<1>5. Pilot!wrapRadians(a) = y
  BY <1>3, <1>4, ShortestTurn, Zenon
<1>6. Pilot!wrapRadians(b) = -y
  BY <1>3, <1>4, ShortestTurn, Zenon
<1>7. QED
  BY <1>2, <1>5, <1>6 DEF a, b

\* What the controllers ask for, far enough from the setpoint.
LEMMA ErrorSigns ==
  ASSUME PilotTypes
  PROVE  /\ Pilot!Errors(measured)["forward"] = setpoint.forward - measured.forward
         /\ measured.altitude <= setpoint.altitude - 1500 /\ measured.vertical <= 0
              => Pilot!Errors(measured)["vertical"] >= 675
         /\ measured.altitude >= setpoint.altitude + 1500 /\ measured.vertical >= 0
              => Pilot!Errors(measured)["vertical"] <= -675
         /\ Pilot!ShortWayLeft(measured.heading, setpoint.heading, 200)
              /\ measured.yawRate <= 0 => Pilot!Errors(measured)["yaw"] >= 280
         /\ Pilot!ShortWayLeft(setpoint.heading, measured.heading, 200)
              /\ measured.yawRate >= 0 => Pilot!Errors(measured)["yaw"] <= -280
<1> DEFINE up == setpoint.altitude - measured.altitude
           left == setpoint.heading - measured.heading
           turn == Pilot!wrapRadians(left)
<1>1. /\ setpoint.altitude \in Int /\ setpoint.heading \in Int /\ setpoint.forward \in Int
      /\ measured.altitude \in Int /\ measured.heading \in Int /\ measured.forward \in Int
      /\ measured.vertical \in Int /\ measured.yawRate \in Int
  BY DEF PilotTypes, States
<1>2. /\ Pilot!Errors(measured)["forward"] = setpoint.forward - measured.forward
      /\ Pilot!Errors(measured)["vertical"] =
           Pilot!Clamp(Pilot!Truncated(45 * up, 100), -5000, 5000) - measured.vertical
      /\ Pilot!Errors(measured)["yaw"] =
           Pilot!Clamp(Pilot!Truncated(14 * turn, 10), -800, 800) - measured.yawRate
  BY DEF Pilot!Errors, Pilot!maximumVerticalSpeed, Pilot!maximumYawRate
<1>3. up \in Int /\ left \in Int /\ turn \in Int
  BY <1>1, Wrapped DEF HalfTurn
<1>4. /\ up >= 1500 => Pilot!Clamp(Pilot!Truncated(45 * up, 100), -5000, 5000) >= 675
      /\ up <= -1500 => Pilot!Clamp(Pilot!Truncated(45 * up, 100), -5000, 5000) <= -675
      /\ Pilot!Clamp(Pilot!Truncated(45 * up, 100), -5000, 5000) \in Int
  <2> HIDE DEF up
  <2>1. QED
    BY <1>3 DEF Pilot!Clamp, Pilot!Truncated
<1>5. /\ turn >= 200 => Pilot!Clamp(Pilot!Truncated(14 * turn, 10), -800, 800) >= 280
      /\ turn <= -200 => Pilot!Clamp(Pilot!Truncated(14 * turn, 10), -800, 800) <= -280
      /\ Pilot!Clamp(Pilot!Truncated(14 * turn, 10), -800, 800) \in Int
  <2> HIDE DEF turn
  <2>1. QED
    BY <1>3 DEF Pilot!Clamp, Pilot!Truncated
<1>6. Pilot!ShortWayLeft(measured.heading, setpoint.heading, 200) => turn >= 200
  BY <1>1, ShortWay
<1>7. Pilot!ShortWayLeft(setpoint.heading, measured.heading, 200) => turn <= -200
  BY <1>1, ShortWay
<1> HIDE DEF turn
<1>8. QED
  BY <1>1, <1>2, <1>4, <1>5, <1>6, <1>7

(***************************************************************************)
(* AutopilotController::calculateAutopilot, for any flight states and any  *)
(* history of errors, orders and time steps: the autopilot that has the    *)
(* ship alone pushes against every error that is not small.  The limit on  *)
(* the integrals is why: what they can ask for is less than what the       *)
(* proportional gains ask for, by 60 thousandths of full deflection for    *)
(* the speed, 2 for the altitude and 10 for the heading.                   *)
(***************************************************************************)
THEOREM CorrectingPilot == Pilot!Spec => []CorrectsWhateverTheHistory
<1>1. ASSUME PilotInv, authority \in {"autopilotHold", "emergencyBrake"}, updates > 0
      PROVE  LET control == output.control
                 error == Pilot!Errors(measured)
             IN  /\ error["forward"] >= 1000 => control["forward"] > 0
                 /\ error["forward"] <= -1000 => control["forward"] < 0
                 /\ error["vertical"] >= 675 => control["vertical"] > 0
                 /\ error["vertical"] <= -675 => control["vertical"] < 0
                 /\ error["yaw"] >= 280 => control["yaw"] > 0
                 /\ error["yaw"] <= -280 => control["yaw"] < 0
  BY <1>1, Pushing DEF PilotInv, Axes
<1>2. ASSUME PilotInv, authority \in {"autopilotHold", "emergencyBrake"}, updates > 0
      PROVE  Pilot!CorrectsWhateverTheHistory
  <2> DEFINE error == Pilot!Errors(measured)["forward"]
  <2>1. /\ error = setpoint.forward - measured.forward
        /\ setpoint.forward \in Int /\ measured.forward \in Int
    BY <1>2, ErrorSigns DEF PilotInv, PilotTypes, States
  <2>2. /\ measured.forward <= setpoint.forward - 1000 => output.control.forward > 0
        /\ measured.forward >= setpoint.forward + 1000 => output.control.forward < 0
    BY <1>1, <1>2, <2>1
  <2>3. authority = "emergencyBrake" /\ measured.forward >= 1000 =>
          output.control.forward < 0
    BY <1>2, <2>1, <2>2 DEF PilotInv, Steers
  <2>4. QED
    BY <1>1, <1>2, <2>2, <2>3, ErrorSigns DEF PilotInv, Pilot!CorrectsWhateverTheHistory
<1>3. PilotInv => CorrectsWhateverTheHistory
  BY <1>2 DEF CorrectsWhateverTheHistory, Pilot!CorrectsWhateverTheHistory
<1>4. QED
  BY <1>3, InitialPilot, PilotInductive, PTL DEF Pilot!Spec
=============================================================================
