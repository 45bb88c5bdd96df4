--------------------------- MODULE RenderSnapshot ---------------------------
(***************************************************************************)
(* The sequence-counter snapshot that carries the physics state to the     *)
(* render threads: publishRenderSnapshot and renderSnapshot of             *)
(* src/src/physics/PhysicsScheduler.cpp (LevelRenderHook.cpp publishes its *)
(* camera the same way, with eight attempts).                              *)
(*                                                                         *)
(* The counter is incremented, the fields are stored one by one, and the   *)
(* counter is incremented again; a reader takes the fields between two     *)
(* loads of an even, unchanged counter.  A payload is abstracted to the    *)
(* number of the publication that wrote it: a snapshot is torn when two of *)
(* its fields carry different numbers.                                     *)
(*                                                                         *)
(* The fields are atomics accessed with memory_order_relaxed.  Stores and  *)
(* loads of different fields therefore have no order here, and unless      *)
(* LoadsOrdered a field load may take effect after the second load of the  *)
(* counter, which is only an acquire and holds nothing back that comes     *)
(* before it.                                                              *)
(***************************************************************************)
EXTENDS Integers

CONSTANTS
  Readers,          \* render thread and status writers
  Fields,           \* the mRender... atomics
  MaxAttempts,      \* 4
  LoadsOrdered,     \* the loads take effect in program order
  MaxPublications,  \* bound: publications
  MaxRestarts       \* bound: calls of start() after the first

ASSUME FieldsAssumption == Fields # {}
ASSUME AttemptsAssumption == MaxAttempts \in Nat \ {0}
ASSUME LoadsOrderedAssumption == LoadsOrdered \in BOOLEAN
ASSUME SnapshotBounds == MaxPublications \in Nat /\ MaxRestarts \in Nat

VARIABLES
  sequence,    \* mRenderSnapshotSequence
  field,       \* the number of the publication each field was written by
  pending,     \* fields the running publication has not stored yet
  published,   \* publications begun so far
  restarts,
  step,        \* per reader: where it is in renderSnapshot
  attempt,     \* per reader: the loop counter
  before,      \* per reader: first load of the counter
  after,       \* per reader: second load, or Unread
  got,         \* per reader: the fields loaded in this attempt, or Unread
  current,     \* history: the last complete publication
  candidates,  \* history, per reader: publications complete since its call
  result       \* per reader: the payload of its last snapshot, or Incoherent

memory  == <<sequence, field, pending, published, restarts>>
reading == <<step, attempt, before, after, got>>
vars    == <<memory, reading, current, candidates, result>>

Unread     == -1
Incoherent == -2
Torn       == -3

Nothing == [f \in Fields |-> Unread]

Even(n) == n % 2 = 0
Publishing == ~Even(sequence)
ReaderSteps == {"idle", "begin", "load"}

Init ==
  /\ sequence = 0
  /\ field = [f \in Fields |-> 0]
  /\ pending = {}
  /\ published = 0
  /\ restarts = 0
  /\ step = [r \in Readers |-> "idle"]
  /\ attempt = [r \in Readers |-> 0]
  /\ before = [r \in Readers |-> 0]
  /\ after = [r \in Readers |-> Unread]
  /\ got = [r \in Readers |-> Nothing]
  /\ current = 0
  /\ candidates = [r \in Readers |-> {}]
  /\ result = [r \in Readers |-> Incoherent]
-----------------------------------------------------------------------------
(***************************************************************************)
(* publishRenderSnapshot, called by the one thread that ticks the level.   *)
(***************************************************************************)
BeginPublish ==
  /\ ~Publishing
  /\ published < MaxPublications
  /\ published' = published + 1
  /\ sequence' = sequence + 1
  /\ pending' = Fields
  /\ UNCHANGED <<field, restarts, reading, current, candidates, result>>

StoreField(f) ==
  /\ f \in pending
  /\ field' = [field EXCEPT ![f] = published]
  /\ pending' = pending \ {f}
  /\ UNCHANGED <<sequence, published, restarts, reading, current, candidates,
                 result>>

\* Mutant: the counter says "complete" while a field is still to be stored.
EndPublishEarly ==
  /\ Publishing
  /\ sequence' = sequence + 1
  /\ current' = published
  /\ candidates' = [r \in Readers |-> IF step[r] = "idle" THEN {}
                                      ELSE candidates[r] \cup {published}]
  /\ UNCHANGED <<field, pending, published, restarts, reading, result>>

EndPublish ==
  /\ Publishing
  /\ pending = {}
  /\ sequence' = sequence + 1
  /\ current' = published
  /\ candidates' = [r \in Readers |-> IF step[r] = "idle" THEN {}
                                      ELSE candidates[r] \cup {published}]
  /\ UNCHANGED <<field, pending, published, restarts, reading, result>>

\* start() of a later session stores zero to the counter and publishes.  The
\* render hook has been removed and its callbacks drained by then, so that no
\* reader can take the new counter for the one it loaded before.
Restart ==
  /\ restarts < MaxRestarts
  /\ published < MaxPublications
  /\ ~Publishing
  /\ \A r \in Readers : step[r] = "idle"
  /\ sequence' = 1
  /\ restarts' = restarts + 1
  /\ published' = published + 1
  /\ pending' = Fields
  /\ UNCHANGED <<field, reading, current, candidates, result>>
-----------------------------------------------------------------------------
(***************************************************************************)
(* renderSnapshot.                                                         *)
(***************************************************************************)
Complete(r) == \A f \in Fields : got[r][f] # Unread

\* The payload all fields agree on, or Torn.
Payload(r) ==
  LET ids == {got[r][f] : f \in Fields}
  IN  IF \E id \in ids : ids = {id} THEN CHOOSE id \in ids : TRUE ELSE Torn

Call(r) ==
  /\ step[r] = "idle"
  /\ step' = [step EXCEPT ![r] = "begin"]
  /\ attempt' = [attempt EXCEPT ![r] = 0]
  /\ candidates' = [candidates EXCEPT ![r] = {current}]
  /\ UNCHANGED <<memory, before, after, got, current, result>>

\* The two loads of the counter are locals of one attempt.
Forget(r) ==
  /\ before' = [before EXCEPT ![r] = 0]
  /\ after' = [after EXCEPT ![r] = Unread]
  /\ got' = [got EXCEPT ![r] = Nothing]

Return(r, value) ==
  /\ step' = [step EXCEPT ![r] = "idle"]
  /\ result' = [result EXCEPT ![r] = value]
  /\ candidates' = [candidates EXCEPT ![r] = {}]

\* Mutant: the loop has no limit.
TryAgainForever(r) ==
  /\ attempt' = attempt
  /\ step' = [step EXCEPT ![r] = "begin"]
  /\ UNCHANGED <<candidates, result>>

\* Mutant: one attempt too many.
TryAgainOnceMore(r) ==
  /\ attempt' = [attempt EXCEPT ![r] = @ + 1]
  /\ IF attempt[r] + 1 <= MaxAttempts
     THEN step' = [step EXCEPT ![r] = "begin"] /\ UNCHANGED <<candidates, result>>
     ELSE Return(r, Incoherent)

\* The attempt failed: try again, or give up with coherent = false.
TryAgain(r) ==
  /\ attempt' = [attempt EXCEPT ![r] = @ + 1]
  /\ IF attempt[r] + 1 < MaxAttempts
     THEN step' = [step EXCEPT ![r] = "begin"] /\ UNCHANGED <<candidates, result>>
     ELSE Return(r, Incoherent)

LoadBefore(r) ==
  /\ step[r] = "begin"
  /\ Even(sequence)
  /\ before' = [before EXCEPT ![r] = sequence]
  /\ step' = [step EXCEPT ![r] = "load"]
  /\ UNCHANGED <<memory, attempt, after, got, current, candidates, result>>

WriterBusy(r) ==
  /\ step[r] = "begin"
  /\ ~Even(sequence)
  /\ TryAgain(r)
  /\ UNCHANGED <<memory, before, after, got, current>>

LoadField(r, f) ==
  /\ step[r] = "load"
  /\ got[r][f] = Unread
  /\ got' = [got EXCEPT ![r][f] = field[f]]
  /\ UNCHANGED <<memory, step, attempt, before, after, current, candidates,
                 result>>

\* Mutant: the second load does not wait for the fields.
LoadAfterEarly(r) ==
  /\ step[r] = "load"
  /\ after[r] = Unread
  /\ after' = [after EXCEPT ![r] = sequence]
  /\ UNCHANGED <<memory, step, attempt, before, got, current, candidates,
                 result>>

LoadAfter(r) ==
  /\ step[r] = "load"
  /\ after[r] = Unread
  /\ LoadsOrdered => Complete(r)
  /\ after' = [after EXCEPT ![r] = sequence]
  /\ UNCHANGED <<memory, step, attempt, before, got, current, candidates,
                 result>>

\* Mutant: only the parity of the second load is checked.
AcceptEven(r) ==
  /\ step[r] = "load"
  /\ after[r] # Unread /\ Complete(r)
  /\ Even(after[r])
  /\ Return(r, Payload(r))
  /\ Forget(r)
  /\ UNCHANGED <<memory, attempt, current>>

Accept(r) ==
  /\ step[r] = "load"
  /\ after[r] # Unread /\ Complete(r)
  /\ after[r] = before[r]
  /\ Return(r, Payload(r))
  /\ Forget(r)
  /\ UNCHANGED <<memory, attempt, current>>

Reject(r) ==
  /\ step[r] = "load"
  /\ after[r] # Unread /\ Complete(r)
  /\ after[r] # before[r]
  /\ TryAgain(r)
  /\ Forget(r)
  /\ UNCHANGED <<memory, current>>

ReadStep(r) ==
  \/ LoadBefore(r) \/ WriterBusy(r)
  \/ \E f \in Fields : LoadField(r, f)
  \/ LoadAfter(r) \/ Accept(r) \/ Reject(r)

Writer == BeginPublish \/ (\E f \in Fields : StoreField(f)) \/ EndPublish

Next ==
  \/ Writer
  \/ Restart
  \/ \E r \in Readers : Call(r) \/ ReadStep(r)

Spec == Init /\ [][Next]_vars

\* A render thread in a read keeps running; the game may stop ticking, even in
\* the middle of a publication.
FairSpec == Spec /\ \A r \in Readers : WF_vars(ReadStep(r))
-----------------------------------------------------------------------------
Publications == 0 .. MaxPublications

TypeOK ==
  /\ sequence \in Nat
  /\ field \in [Fields -> Publications]
  /\ pending \subseteq Fields
  /\ published \in Publications
  /\ restarts \in 0 .. MaxRestarts
  /\ step \in [Readers -> ReaderSteps]
  /\ attempt \in [Readers -> 0 .. MaxAttempts]
  /\ before \in [Readers -> Nat]
  /\ after \in [Readers -> Nat \cup {Unread}]
  /\ got \in [Readers -> [Fields -> Publications \cup {Unread}]]
  /\ current \in Publications
  /\ candidates \in [Readers -> SUBSET Publications]
  /\ result \in [Readers -> Publications \cup {Incoherent, Torn}]

\* A snapshot that says it is coherent holds the fields of one publication.
NoTornSnapshot == \A r \in Readers : result[r] # Torn

\* A read always returns, also when the writer stopped half way.
ReadReturns == \A r \in Readers : step[r] # "idle" ~> step[r] = "idle"

\* The protocol implements the abstract register: a coherent read returns a
\* publication that was current at some moment of the call.
Register == INSTANCE SnapshotRegister
              WITH Payloads <- Publications, NoPayload <- Incoherent, Empty <- 0
RegisterSpec == Register!Spec
=============================================================================
