-------------------------- MODULE DescriptorCensus --------------------------
(***************************************************************************)
(* The lock-free census of terrain-helper descriptors in                   *)
(* src/src/bedrock/LevelRenderHook.cpp: a fixed table of slots that the    *)
(* game's threads claim and fill from recordTerrainCommandHelper and       *)
(* recordTerrainCommandHelperEnd, which run before and after every call of *)
(* the helper.                                                             *)
(*                                                                         *)
(* A descriptor stands for its key, the hash of its address and mode.  The *)
(* ranges and masks of a sample are left out: what is modelled is who may  *)
(* write a slot, its destination snapshot and its first payload, and that  *)
(* nothing is lost or counted twice.  One step is one atomic access, and   *)
(* the counter that reports what came of it.                               *)
(***************************************************************************)
EXTENDS Integers, FiniteSets

CONSTANTS
  Threads,       \* game threads that run terrain tasks
  Descriptors,
  Capacity,      \* descriptorSampleCapacity
  MaxNesting,    \* bound: helper calls open on one thread
  MaxCalls       \* bound: helper calls

Free    == "free"       \* 0
Claimed == "claimed"    \* 1

\* descriptorKey never yields 0 or 1.
ASSUME CensusAssumption ==
  /\ Capacity \in Nat \ {0}
  /\ MaxNesting \in Nat \ {0}
  /\ MaxCalls \in Nat
  /\ IsFiniteSet(Threads)
  /\ Descriptors \cap {Free, Claimed} = {}

VARIABLES
  key,             \* per slot: Free, Claimed or a descriptor
  calls,           \* per slot: calls counted
  snapshotState,   \* per slot: destinationSnapshotState
  payloadState,    \* per slot: firstPayloadState
  pc,              \* per thread: where it is in the two callbacks
  slot,            \* per thread: the slot it looks at
  wanted,          \* per thread: the descriptor of the helper call
  pending,         \* per thread: gTerrainHelperPending
  ending,          \* per thread: the copy recordTerrainCommandHelperEnd took
  open,            \* per thread: helper calls begun and not ended
  total            \* the global counters

Slots == 1 .. Capacity

\* destinationSnapshotState and firstPayloadState
Unclaimed == 0
Writing   == 1
Complete  == 2
Failed    == 3

Inactive == [active |-> FALSE, sample |-> 0, claimed |-> FALSE]

Counters == {"mTerrainHelperInsideTaskCalls", "gDescriptorSampleOverflow",
             "gPayloadPendingOverwriteCalls", "gDestinationSnapshotAttempts",
             "gDestinationSnapshotSuccesses", "gDestinationSnapshotFailures",
             "gPayloadCaptureCalls", "gPayloadCaptureFailures"}

table == <<key, calls, snapshotState, payloadState>>
vars  == <<table, pc, slot, wanted, pending, ending, open, total>>

Count(counters) ==
  total' = [c \in Counters |-> IF c \in counters THEN total[c] + 1 ELSE total[c]]

Goto(t, label) == pc' = [pc EXCEPT ![t] = label]

Init ==
  /\ key = [s \in Slots |-> Free]
  /\ calls = [s \in Slots |-> 0]
  /\ snapshotState = [s \in Slots |-> Unclaimed]
  /\ payloadState = [s \in Slots |-> Unclaimed]
  /\ pc = [t \in Threads |-> "game"]
  /\ slot = [t \in Threads |-> 0]
  /\ wanted \in [Threads -> Descriptors]
  /\ pending = [t \in Threads |-> Inactive]
  /\ ending = [t \in Threads |-> Inactive]
  /\ open = [t \in Threads |-> 0]
  /\ total = [c \in Counters |-> 0]
-----------------------------------------------------------------------------
(***************************************************************************)
(* recordTerrainCommandHelper.  The helper may be entered again before it  *)
(* returns: what was pending on the thread is counted and forgotten.       *)
(***************************************************************************)
HelperBegin(t, d) ==
  /\ pc[t] = "game"
  /\ open[t] < MaxNesting
  /\ total["mTerrainHelperInsideTaskCalls"] < MaxCalls
  /\ open' = [open EXCEPT ![t] = @ + 1]
  /\ Count({"mTerrainHelperInsideTaskCalls"}
           \cup (IF pending[t].active THEN {"gPayloadPendingOverwriteCalls"} ELSE {}))
  /\ pending' = [pending EXCEPT ![t] = Inactive]
  /\ wanted' = [wanted EXCEPT ![t] = d]
  /\ slot' = [slot EXCEPT ![t] = 1]
  /\ Goto(t, "scan")
  /\ UNCHANGED <<table, ending>>

\* continue: the next slot, or the table is full.
NextSlot(t) ==
  IF slot[t] < Capacity
  THEN /\ slot' = [slot EXCEPT ![t] = @ + 1]
       /\ Goto(t, "scan")
       /\ UNCHANGED total
  ELSE /\ slot' = [slot EXCEPT ![t] = 0]
       /\ Goto(t, "game")
       /\ Count({"gDescriptorSampleOverflow"})

\* recordDescriptor looks at one slot.
Scan(t) ==
  /\ pc[t] = "scan"
  /\ CASE key[slot[t]] = wanted[t] -> Goto(t, "update") /\ UNCHANGED <<slot, total>>
       [] key[slot[t]] = Free      -> Goto(t, "claim") /\ UNCHANGED <<slot, total>>
       [] OTHER                    -> NextSlot(t)
  /\ UNCHANGED <<table, wanted, pending, ending, open>>

\* Mutant: the claim is a store, not a compare-and-exchange.
ClaimBlindly(t) ==
  /\ pc[t] = "claim"
  /\ key' = [key EXCEPT ![slot[t]] = Claimed]
  /\ Goto(t, "fill")
  /\ UNCHANGED <<calls, snapshotState, payloadState, slot, total, wanted,
                 pending, ending, open>>

\* The compare-and-exchange of 0 for 1; a slot lost to another thread is passed
\* over, whatever descriptor the other thread puts there.
Claim(t) ==
  /\ pc[t] = "claim"
  /\ IF key[slot[t]] = Free
     THEN /\ key' = [key EXCEPT ![slot[t]] = Claimed]
          /\ Goto(t, "fill")
          /\ UNCHANGED <<slot, total>>
     ELSE NextSlot(t) /\ UNCHANGED key
  /\ UNCHANGED <<calls, snapshotState, payloadState, wanted, pending, ending, open>>

\* Mutant: the key is published without the first call being counted.
FillUncounted(t) ==
  /\ pc[t] = "fill"
  /\ calls' = [calls EXCEPT ![slot[t]] = 0]
  /\ Goto(t, "publish")
  /\ UNCHANGED <<key, snapshotState, payloadState, slot, wanted, pending,
                 ending, open, total>>

\* The new slot is cleared, filled and counted once, then its key is published.
Fill(t) ==
  /\ pc[t] = "fill"
  /\ calls' = [calls EXCEPT ![slot[t]] = 1]
  /\ Goto(t, "publish")
  /\ UNCHANGED <<key, snapshotState, payloadState, slot, wanted, pending,
                 ending, open, total>>

Publish(t) ==
  /\ pc[t] = "publish"
  /\ key' = [key EXCEPT ![slot[t]] = wanted[t]]
  /\ Goto(t, "snapshot")
  /\ UNCHANGED <<calls, snapshotState, payloadState, slot, wanted, pending,
                 ending, open, total>>

\* updateDescriptorSample of a slot found.
Update(t) ==
  /\ pc[t] = "update"
  /\ calls' = [calls EXCEPT ![slot[t]] = @ + 1]
  /\ Goto(t, "snapshot")
  /\ UNCHANGED <<key, snapshotState, payloadState, slot, wanted, pending,
                 ending, open, total>>

Pend(t, claimed) ==
  /\ pending' = [pending EXCEPT ![t] =
                   [active |-> TRUE, sample |-> slot[t], claimed |-> claimed]]
  /\ slot' = [slot EXCEPT ![t] = 0]
  /\ Goto(t, "game")

\* The destination is copied at most once per slot: its copy is claimed with a
\* compare-and-exchange.
ClaimSnapshot(t) ==
  /\ pc[t] = "snapshot"
  /\ snapshotState[slot[t]] = Unclaimed
  /\ snapshotState' = [snapshotState EXCEPT ![slot[t]] = Writing]
  /\ Goto(t, "attempt")
  /\ UNCHANGED <<key, calls, payloadState, slot, wanted, pending, ending, open, total>>

\* The destination is read, or found unreadable.
ReadDestination(t) ==
  /\ pc[t] = "attempt"
  /\ Count({"gDestinationSnapshotAttempts"})
  /\ Pend(t, TRUE) \/ (Goto(t, "spoiled") /\ UNCHANGED <<slot, pending>>)
  /\ UNCHANGED <<table, wanted, ending, open>>

SpoilSnapshot(t) ==
  /\ pc[t] = "spoiled"
  /\ snapshotState' = [snapshotState EXCEPT ![slot[t]] = Failed]
  /\ Count({"gDestinationSnapshotFailures"})
  /\ Pend(t, FALSE)
  /\ UNCHANGED <<key, calls, payloadState, wanted, ending, open>>

\* A destination below 0x10000, or a copy that is claimed already.
PassSnapshot(t) ==
  /\ pc[t] = "snapshot"
  /\ Pend(t, FALSE)
  /\ UNCHANGED <<table, wanted, ending, open, total>>
-----------------------------------------------------------------------------
(***************************************************************************)
(* recordTerrainCommandHelperEnd and recordPayload.                        *)
(***************************************************************************)
HelperEnd(t) ==
  /\ pc[t] = "game"
  /\ open[t] > 0
  /\ open' = [open EXCEPT ![t] = @ - 1]
  /\ ending' = [ending EXCEPT ![t] = pending[t]]
  /\ pending' = [pending EXCEPT ![t] = Inactive]
  /\ Goto(t, IF pending[t].active THEN "payload" ELSE "game")
  /\ UNCHANGED <<table, slot, wanted, total>>

\* A payload inside the vector is recorded; the first one of a slot is kept, and
\* its writer claims it.
CapturePayload(t) ==
  /\ pc[t] = "payload"
  /\ Count({"gPayloadCaptureCalls"})
  /\ IF payloadState[ending[t].sample] = Unclaimed
     THEN /\ payloadState' = [payloadState EXCEPT ![ending[t].sample] = Writing]
          /\ Goto(t, "store")
     ELSE UNCHANGED payloadState /\ Goto(t, "resolve")
  /\ UNCHANGED <<key, calls, snapshotState, slot, wanted, pending, ending, open>>

StorePayload(t) ==
  /\ pc[t] = "store"
  /\ payloadState' = [payloadState EXCEPT ![ending[t].sample] = Complete]
  /\ Goto(t, "resolve")
  /\ UNCHANGED <<key, calls, snapshotState, slot, wanted, pending, ending, open,
                 total>>

\* The vector moved, or the destination is not in it.
MissPayload(t) ==
  /\ pc[t] = "payload"
  /\ Count({"gPayloadCaptureFailures"})
  /\ Goto(t, "resolve")
  /\ UNCHANGED <<table, slot, wanted, pending, ending, open>>

\* The destination copy is completed, or found unreadable.
Resolve(t) ==
  /\ pc[t] = "resolve"
  /\ IF ending[t].claimed
     THEN \/ /\ snapshotState' = [snapshotState EXCEPT ![ending[t].sample] = Complete]
             /\ Count({"gDestinationSnapshotSuccesses"})
          \/ /\ snapshotState' = [snapshotState EXCEPT ![ending[t].sample] = Failed]
             /\ Count({"gDestinationSnapshotFailures"})
     ELSE UNCHANGED <<snapshotState, total>>
  /\ ending' = [ending EXCEPT ![t] = Inactive]
  /\ Goto(t, "game")
  /\ UNCHANGED <<key, calls, payloadState, slot, wanted, pending, open>>

RecordDescriptor(t) ==
  Scan(t) \/ Claim(t) \/ Fill(t) \/ Publish(t) \/ Update(t)

CopyDestination(t) ==
  ClaimSnapshot(t) \/ ReadDestination(t) \/ SpoilSnapshot(t) \/ PassSnapshot(t)

RecordEnd(t) ==
  HelperEnd(t) \/ CapturePayload(t) \/ StorePayload(t) \/ MissPayload(t) \/ Resolve(t)

Next ==
  \E t \in Threads :
    \/ \E d \in Descriptors : HelperBegin(t, d)
    \/ RecordDescriptor(t)
    \/ CopyDestination(t)
    \/ RecordEnd(t)

Spec == Init /\ [][Next]_vars
-----------------------------------------------------------------------------
Labels == {"game", "scan", "claim", "fill", "publish", "update", "snapshot",
           "attempt", "spoiled", "payload", "store", "resolve"}

Pendings == [active : BOOLEAN, sample : Slots \cup {0}, claimed : BOOLEAN]

TypeOK ==
  /\ key \in [Slots -> Descriptors \cup {Free, Claimed}]
  /\ calls \in [Slots -> Nat]
  /\ snapshotState \in [Slots -> {Unclaimed, Writing, Complete, Failed}]
  /\ payloadState \in [Slots -> {Unclaimed, Writing, Complete}]
  /\ pc \in [Threads -> Labels]
  /\ slot \in [Threads -> Slots \cup {0}]
  /\ wanted \in [Threads -> Descriptors]
  /\ pending \in [Threads -> Pendings]
  /\ ending \in [Threads -> Pendings]
  /\ open \in [Threads -> 0 .. MaxNesting]
  /\ total \in [Counters -> Nat]

Filling(s) == {t \in Threads : slot[t] = s /\ pc[t] \in {"fill", "publish"}}
Storing(s) == {t \in Threads : ending[t].sample = s /\ pc[t] = "store"}

\* A claimed slot is being filled by exactly one thread, and a first payload
\* being written is written by exactly one: no slot is claimed for good, and no
\* two threads write the same one.
OneWriterPerSlot ==
  TypeOK /\ \A s \in Slots :
    /\ Cardinality(Filling(s)) = (IF key[s] = Claimed THEN 1 ELSE 0)
    /\ Cardinality(Storing(s)) = (IF payloadState[s] = Writing THEN 1 ELSE 0)

\* Threads with a call that no slot has counted yet, and the slots with a count.
Between == {t \in Threads : pc[t] \in {"scan", "claim", "fill", "update"}}
Counted == {s \in Slots : \A t \in Threads : slot[t] = s => pc[t] # "fill"}

\* The calls the slots have counted, each as its slot and its number there.
CountedCalls == UNION {{s} \X (1 .. calls[s]) : s \in Counted}

\* Every helper call is counted in one slot, or as an overflow: together with
\* the calls still on their way to a slot they add up.
CallsAddUp ==
  total["mTerrainHelperInsideTaskCalls"] =
    Cardinality(CountedCalls) + total["gDescriptorSampleOverflow"] + Cardinality(Between)

Attempted == {s \in Slots : snapshotState[s] # Unclaimed}
WritingSlots == {s \in Slots : snapshotState[s] = Writing}

\* Threads whose copy is not counted yet, and those that have one to complete.
Uncounted == {t \in Threads : pc[t] = "attempt"}
Held == {t \in Threads :
           pending[t].claimed \/ ending[t].claimed \/ pc[t] \in {"attempt", "spoiled"}}

\* Every destination copy begun is completed, has failed, is held by a thread
\* in the helper, or was overwritten by a helper call inside that call; and no
\* slot is copied twice.
SnapshotsAddUp ==
  /\ Cardinality(Attempted) =
       total["gDestinationSnapshotAttempts"] + Cardinality(Uncounted)
  /\ Cardinality(Attempted) =
       Cardinality(WritingSlots) + total["gDestinationSnapshotSuccesses"]
         + total["gDestinationSnapshotFailures"]
  /\ Cardinality(Held) <= Cardinality(WritingSlots)
  /\ Cardinality(WritingSlots) <=
       Cardinality(Held) + total["gPayloadPendingOverwriteCalls"]

\* What the census reports adds up.
CountsAddUp == CallsAddUp /\ SnapshotsAddUp
=============================================================================
