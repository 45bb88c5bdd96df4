---------------------------- MODULE FlightSession ----------------------------
(***************************************************************************)
(* The sessions of the content pack (scripts/main.js with its helpers):    *)
(* a player taps a Ship Core to preview the ship around it, taps again to  *)
(* confirm it, and taps one of its Helms to fly it.                        *)
(*                                                                         *)
(* The script has one thread; each of its callbacks is a step.  Between    *)
(* them players tap, hold, walk, sneak, leave and join, and blocks change. *)
(* An object of a player who has left throws when it is used, also after   *)
(* the player is back: `joins' numbers the objects.                        *)
(*                                                                         *)
(* The altitude of a flight is left out: a step may reach the hover        *)
(* height, or the ground, or not yet (AnchoredFlightProxy has it).         *)
(***************************************************************************)
EXTENDS ShipScan, Sequences

CONSTANTS
  Players,
  InitialBlocks,      \* what the cells hold at first
  LiftPerEngine,      \* kilograms an engine lifts: 25000 / (9.81 * 1.05)
  PreviewUpdates,     \* runs of updatePreviews in PREVIEW_DURATION_TICKS: 60
  MaxTaps,            \* bound: taps of one player
  MaxEdits,           \* bound: blocks that change
  EditKinds,          \* bound: what they change to
  MaxJoins            \* bound: times a player comes back

ASSUME WorldAssumption == InitialBlocks \in [Cells -> Kinds] /\ EditKinds \subseteq Kinds
ASSUME BoundsAssumption ==
  {LiftPerEngine, PreviewUpdates, MaxTaps, MaxEdits, MaxJoins} \subseteq Nat

VARIABLES
  block,           \* the world
  place,           \* per player: near the ship, far from it, in another dimension, or gone
  sneaking,        \* players who sneak
  holding,         \* players whose press is not over
  joins,           \* per player: the number of the current player object
  tasks,           \* callbacks given to system.run, in order
  queuedControlInteractions,
  sessions,        \* per player: the preview
  confirmedShips,  \* per player
  activeFlights,   \* per player
  taps,            \* history, per player: presses of a control block
  spent,           \* history, per player: presses that confirmations and starts took
  edits

body    == <<place, sneaking, holding, joins>>
queue   == <<tasks, queuedControlInteractions>>
script  == <<sessions, confirmedShips, activeFlights>>
history == <<taps, spent, edits>>
vars    == <<block, body, queue, script, history>>

Init ==
  /\ block = InitialBlocks
  /\ place = [p \in Players |-> "near"]
  /\ sneaking = {} /\ holding = {}
  /\ joins = [p \in Players |-> 0]
  /\ tasks = <<>> /\ queuedControlInteractions = {}
  /\ sessions = [p \in Players |-> None]
  /\ confirmedShips = [p \in Players |-> None]
  /\ activeFlights = [p \in Players |-> None]
  /\ taps = [p \in Players |-> 0]
  /\ spent = [p \in Players |-> 0]
  /\ edits = 0
-----------------------------------------------------------------------------
\* blockMass, and hasFlightProxyLiftAuthority.
Mass(ship) ==
  Cardinality(DOMAIN ship) + 7 * Cardinality(Has(ship, "core"))
    + Cardinality(Has(ship, "helm")) + 3 * Cardinality(Has(ship, "engine"))

HasLiftAuthority(ship) == Cardinality(Has(ship, "engine")) * LiftPerEngine > Mass(ship)
-----------------------------------------------------------------------------
(***************************************************************************)
(* The world and its players.                                              *)
(***************************************************************************)
Online(p) == place[p] # "gone"

\* The player object with this number can be used.
Valid(p, number) == Online(p) /\ joins[p] = number

Edit(c, kind) ==
  /\ edits < MaxEdits
  /\ block[c] # kind
  /\ block' = [block EXCEPT ![c] = kind]
  /\ edits' = edits + 1
  /\ UNCHANGED <<body, queue, script, taps, spent>>

Move(p, where) ==
  /\ Online(p) /\ place[p] # where
  /\ place' = [place EXCEPT ![p] = where]
  /\ UNCHANGED <<block, sneaking, holding, joins, queue, script, history>>

Sneak(p) ==
  /\ Online(p)
  /\ sneaking' = IF p \in sneaking THEN sneaking \ {p} ELSE sneaking \cup {p}
  /\ UNCHANGED <<block, place, holding, joins, queue, script, history>>

Leave(p) ==
  /\ Online(p)
  /\ place' = [place EXCEPT ![p] = "gone"]
  /\ sneaking' = sneaking \ {p}
  /\ holding' = holding \ {p}
  /\ UNCHANGED <<block, joins, queue, script, history>>

Join(p) ==
  /\ ~Online(p)
  /\ joins[p] < MaxJoins
  /\ joins' = [joins EXCEPT ![p] = @ + 1]
  /\ place' = [place EXCEPT ![p] = "near"]
  /\ UNCHANGED <<block, sneaking, holding, queue, script, history>>
-----------------------------------------------------------------------------
(***************************************************************************)
(* queueAeronauticsInteraction.                                            *)
(***************************************************************************)
\* Mutant: events of a press that goes on are not told from its first.
ShouldQueueRepeats(p, isFirstEvent) == p \notin queuedControlInteractions

ShouldQueue(p, isFirstEvent) == isFirstEvent /\ p \notin queuedControlInteractions

QueueInteraction(p, c, isFirstEvent) ==
  /\ place[p] = "near"
  /\ block[c] \in {"core", "helm"}
  /\ IF ShouldQueue(p, isFirstEvent)
     THEN /\ tasks' = Append(tasks, [player |-> p, object |-> joins[p], cell |-> c,
                                     kind |-> block[c]])
          /\ queuedControlInteractions' = queuedControlInteractions \cup {p}
     ELSE UNCHANGED queue

Press(p, c) ==
  /\ p \notin holding
  /\ taps[p] < MaxTaps
  /\ QueueInteraction(p, c, TRUE)
  /\ holding' = holding \cup {p}
  /\ taps' = [taps EXCEPT ![p] = @ + 1]
  /\ UNCHANGED <<block, place, sneaking, joins, script, spent, edits>>

\* The game repeats the event while the press goes on; a second first event can
\* only come in the same tick.
PressAgain(p, c, isFirstEvent) ==
  /\ p \in holding
  /\ isFirstEvent => p \in queuedControlInteractions
  /\ QueueInteraction(p, c, isFirstEvent)
  /\ UNCHANGED <<block, body, script, history>>

Release(p) ==
  /\ p \in holding
  /\ holding' = holding \ {p}
  /\ UNCHANGED <<block, place, sneaking, joins, queue, script, history>>
-----------------------------------------------------------------------------
(***************************************************************************)
(* The callbacks.                                                          *)
(***************************************************************************)
CancelPreview(p) ==
  /\ sessions' = [sessions EXCEPT ![p] = None]
  /\ UNCHANGED <<confirmedShips, activeFlights, spent>>

BeginPreview(p, object, c) ==
  /\ sessions' = [sessions EXCEPT ![p] =
       [object |-> object, core |-> c, ship |-> Scan(block, c), left |-> PreviewUpdates]]
  /\ UNCHANGED <<confirmedShips, activeFlights, spent>>

ConfirmPreview(p) ==
  /\ sessions' = [sessions EXCEPT ![p] = None]
  /\ confirmedShips' = [confirmedShips EXCEPT ![p] =
       [object |-> sessions[p].object, ship |-> sessions[p].ship]]
  /\ spent' = [spent EXCEPT ![p] = @ + 2]
  /\ UNCHANGED activeFlights

\* Mutant: the core can be used during a flight.
CoreUsable(p) == TRUE

CoreIdle(p) == activeFlights[p] = None

\* Tapped while flying, it only shows a message.
ProcessCore(p, object, c) ==
  CASE ~CoreIdle(p) \/ ~Valid(p, object) -> UNCHANGED <<script, spent>>
    [] CoreIdle(p) /\ Valid(p, object) /\ p \in sneaking -> CancelPreview(p)
    [] OTHER ->
         IF sessions[p] # None /\ sessions[p].core = c /\ sessions[p].ship # None
         THEN ConfirmPreview(p)
         ELSE BeginPreview(p, object, c)

RequestReturn(flight) == [flight EXCEPT !.phase = "returning"]

OwnsHelm(p, c) == confirmedShips[p] # None /\ c \in Has(confirmedShips[p].ship, "helm")

MayEngage(p, c) ==
  /\ activeFlights[p] = None
  /\ OwnsHelm(p, c)
  /\ p \notin sneaking
  /\ HasLiftAuthority(confirmedShips[p].ship)

\* The flight takes the player object of the confirmation.
Engage(p, c) ==
  /\ activeFlights' = [activeFlights EXCEPT ![p] =
       [object |-> confirmedShips[p].object, ship |-> confirmedShips[p].ship,
        helm |-> c, phase |-> "ascending"]]
  /\ spent' = [spent EXCEPT ![p] = @ + 1]

\* Tapped while flying, it lands if the pilot sneaks.
ProcessHelm(p, object, c) ==
  /\ IF Valid(p, object) /\ MayEngage(p, c) THEN Engage(p, c)
     ELSE /\ activeFlights' =
               IF Valid(p, object) /\ activeFlights[p] # None /\ p \in sneaking
               THEN [activeFlights EXCEPT ![p] = RequestReturn(@)] ELSE activeFlights
          /\ UNCHANGED spent
  /\ UNCHANGED <<sessions, confirmedShips>>

\* The block may have changed since the press.
RunTask ==
  /\ tasks # <<>>
  /\ LET task == Head(tasks)
     IN /\ tasks' = Tail(tasks)
        /\ queuedControlInteractions' = queuedControlInteractions \ {task.player}
        /\ IF block[task.cell] # task.kind THEN UNCHANGED <<script, spent>>
           ELSE IF task.kind = "core"
           THEN ProcessCore(task.player, task.object, task.cell)
           ELSE ProcessHelm(task.player, task.object, task.cell)
  /\ UNCHANGED <<block, body, taps, edits>>

\* stepFlightProxy, without the altitude.
NextPhases == [ascending |-> {"ascending", "hovering"},
               hovering  |-> {"hovering"},
               returning |-> {"returning", "idle"}]

\* Mutant: the pilot is looked up by name.
FlightDropsByName(p) == ~Online(p) \/ place[p] = "elsewhere"

\* A flight without its pilot, or in another dimension than the pilot, is over.
FlightDrops(p) == ~Valid(p, activeFlights[p].object) \/ place[p] = "elsewhere"

UpdateFlights ==
  LET flying  == {p \in Players : activeFlights[p] # None}
      held    == {p \in flying : ~FlightDrops(p)}
      From(p) == IF p \in sneaking THEN "returning" ELSE activeFlights[p].phase
  IN /\ flying # {}
     /\ \E to \in [held -> UNION {NextPhases[f] : f \in DOMAIN NextPhases}] :
          /\ \A p \in held : to[p] \in NextPhases[From(p)]
          /\ activeFlights' = [p \in Players |->
               IF p \in held /\ to[p] # "idle"
               THEN [activeFlights[p] EXCEPT !.phase = to[p]] ELSE None]
     /\ place' = [p \in Players |-> IF p \in held THEN "near" ELSE place[p]]
     /\ UNCHANGED <<block, sneaking, holding, joins, queue, sessions, confirmedShips,
                    history>>

PreviewDrops(p) ==
  sessions[p].left = 0 \/ ~Valid(p, sessions[p].object) \/ place[p] # "near"

UpdatePreviews ==
  /\ \E p \in Players : sessions[p] # None
  /\ sessions' = [p \in Players |->
       IF sessions[p] = None \/ PreviewDrops(p) THEN None
       ELSE [sessions[p] EXCEPT !.left = IF @ = 0 THEN 0 ELSE @ - 1]]
  /\ UNCHANGED <<block, body, queue, confirmedShips, activeFlights, history>>

Next ==
  \/ \E c \in Cells, kind \in EditKinds : Edit(c, kind)
  \/ \E p \in Players :
       \/ \E where \in {"near", "far", "elsewhere"} : Move(p, where)
       \/ Sneak(p) \/ Leave(p) \/ Join(p) \/ Release(p)
       \/ \E c \in Cells : Press(p, c)
       \/ \E c \in Cells, first \in BOOLEAN : PressAgain(p, c, first)
  \/ RunTask \/ UpdateFlights \/ UpdatePreviews

\* The game runs the script's intervals; no property needs the queue to be fair.
Spec ==
  /\ Init /\ [][Next]_vars
  /\ WF_vars(UpdateFlights) /\ WF_vars(UpdatePreviews)
-----------------------------------------------------------------------------
(***************************************************************************)
(* Properties.                                                             *)
(***************************************************************************)
IsShip(ship) ==
  /\ DOMAIN ship \subseteq Cells
  /\ \A c \in DOMAIN ship : ship[c] \in Kinds \ {"air", "unloaded"}

TypeOK ==
  /\ block \in [Cells -> Kinds]
  /\ place \in [Players -> {"near", "far", "elsewhere", "gone"}]
  /\ sneaking \subseteq Players /\ holding \subseteq Players
  /\ joins \in [Players -> 0..MaxJoins]
  /\ Len(tasks) = Cardinality(queuedControlInteractions)
  /\ queuedControlInteractions = {tasks[i].player : i \in DOMAIN tasks}
  /\ \A p \in Players :
       /\ sessions[p] # None =>
            sessions[p].core \in Cells /\ sessions[p].left \in 0..PreviewUpdates
       /\ confirmedShips[p] # None => IsShip(confirmedShips[p].ship)
       /\ activeFlights[p] # None =>
            activeFlights[p].phase \in {"ascending", "hovering", "returning"}
  /\ taps \in [Players -> 0..MaxTaps] /\ edits \in 0..MaxEdits

\* What flies is the ship its player confirmed last, from one of its helms, and
\* it has the thrust: nothing that happens during the flight, to the world or to
\* the previews, replaces the confirmation under it.
FliesAsConfirmed ==
  \A p \in Players : activeFlights[p] # None =>
    /\ confirmedShips[p] # None
    /\ activeFlights[p].ship = confirmedShips[p].ship
    /\ activeFlights[p].object = confirmedShips[p].object
    /\ OwnsHelm(p, activeFlights[p].helm)
    /\ HasLiftAuthority(activeFlights[p].ship)

\* The same, and every session, ship and flight is what its type says.
FlightIsConfirmed == TypeOK /\ FliesAsConfirmed

\* A confirmation takes two presses, the start of a flight one, a preview that is
\* shown one: neither a held press nor a duplicated event counts twice.
EachTapCountsOnce ==
  \A p \in Players : spent[p] + (IF sessions[p] = None THEN 0 ELSE 1) <= taps[p]

\* No preview stays: it is confirmed, cancelled or expires.
PreviewEnds == \A p \in Players : sessions[p] # None ~> sessions[p] = None

\* A flight whose pilot left ends, also when the player is back before the script
\* looks: the object of the old visit never answers again.
FlightNeedsPilot == \A p \in Players :
  activeFlights[p] # None /\ ~Valid(p, activeFlights[p].object) ~> activeFlights[p] = None

\* What a player has begun and left behind comes to an end.
SessionsEnd == PreviewEnds /\ FlightNeedsPilot
=============================================================================
